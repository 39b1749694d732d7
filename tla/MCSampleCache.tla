---------------------------- MODULE MCSampleCache ----------------------------
(***************************************************************************)
(* What is kept of a video between its reader and its panel, one at a      *)
(* time: the samples, indexes and streams of the main thread and its       *)
(* workers, and the decode worker's measure of how evenly it paints.       *)
(***************************************************************************)
EXTENDS SampleCache

VARIABLES
  part,  \* the one that runs
  now, playing, speed, paints, gaps, idx, count, lastTick, cached, ticked, span, acts

cadenceVars == <<now, playing, speed, paints, gaps, idx, count, lastTick, cached, ticked, span,
                 acts>>

Sizes == <<2, 1, 3>>

Plan(opens, removes, clears, streams, pressures, faults) ==
  [opens |-> opens, removes |-> removes, clears |-> clears, streams |-> streams,
   pressures |-> pressures, faults |-> faults]

\* Two sources read side by side; one source with pressure and a failing
\* read; sources removed and cleared under their streams.
Everyday ==
  {Plan(2, 0, 0, 2, 0, 0), Plan(1, 0, 0, 1, 2, 1), Plan(2, 1, 0, 1, 0, 0),
   Plan(2, 0, 1, 1, 0, 0)}

\* A source is removed and another opened, by one panel.
Replaced == {Plan(2, 1, 0, 2, 0, 0)}

-----------------------------------------------------------------------------
Paints == INSTANCE Cadence WITH
  Window <- 22, Recompute <- 3, Steps <- {-2, 2, 4}, Waits <- {1, 2, 4}, Speeds <- {1, 2},
  Starts <- {0, 20, 22}, Pace <- 2, MaxActs <- 5

ASSUME Paints!CadenceAssumption

(* What does not run rests in an initial state of its own.                 *)
CacheInit ==
  /\ part \in {"samples", "cadence"}
  /\ Init /\ (part # "samples" => left = CHOOSE p \in Plans : TRUE)
  /\ Paints!Init /\ (part # "cadence" => speed = 1 /\ paints = <<>>)

CacheNext ==
  \/ part = "samples" /\ Next /\ UNCHANGED <<part, cadenceVars>>
  \/ part = "cadence" /\ Paints!Next /\ UNCHANGED <<part, vars>>

CacheSpec == CacheInit /\ [][CacheNext]_<<part, vars, cadenceVars>>

(* The verdict is over one span of play (Cadence).                         *)
CadenceExact == part = "cadence" => Paints!CadenceExact
===============================================================================
