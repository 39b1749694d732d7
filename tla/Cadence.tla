-------------------------------- MODULE Cadence --------------------------------
(***************************************************************************)
(* The decode worker's own measure of smooth playback (videoCadence.ts and *)
(* the places of videoDecode.worker.ts that drive it): the frames painted  *)
(* of late, the gaps between ticks of the blit clock in a ring, a verdict  *)
(* over both and its throttled copy for the status messages.               *)
(*                                                                         *)
(* Ratios are compared without division; what only reports a number (the   *)
(* histogram, the player's error, the trace) is left out.                  *)
(***************************************************************************)
EXTENDS Integers, Sequences, FiniteSets, FiniteSetsExt, SequencesExt

CONSTANTS
  Window,     \* CADENCE_WINDOW
  Recompute,  \* CADENCE_RECOMPUTE_MS
  Steps,      \* what a frame's time may be after the one before it, in ms
  Waits,      \* ms that may pass
  Speeds,
  Starts,     \* frames painted evenly before a behaviour begins, a tick with each
  Pace,       \* the step between those, in ms
  MaxActs

CadenceAssumption ==
  /\ Window \in Nat \ {0, 1, 2} /\ Recompute \in Nat \ {0}
  /\ Pace \in Nat \ {0} /\ Starts \subseteq 0..Window /\ \A s \in Speeds : Pace % s = 0
  /\ Steps \subseteq Int /\ Waits \subseteq Nat \ {0}
  /\ Speeds \subseteq Nat \ {0} /\ MaxActs \in Nat

VARIABLES
  now, playing, speed,
  paints,   \* paintSamples: wall, pts and, of the model, the span of play
  gaps,     \* tickGaps
  idx, count, lastTick,
  cached,   \* cachedCadence with cadenceComputedMs
  ticked,   \* all gaps since the last reset
  span,     \* of play without a pause or a flush
  acts

vars == <<now, playing, speed, paints, gaps, idx, count, lastTick, cached, ticked, span, acts>>

NoSummary == [at |-> -1, smooth |-> FALSE, span |-> 0]

(* A stopped clip, or one that has been playing evenly: n frames at times  *)
(* 1, 1 + d, 1 + 2 * d and so on, with the verdict of the last status.     *)
Init ==
  \E n \in Starts, s \in Speeds :
    LET d == Pace \div s
        wall(i) == 1 + (i - 1) * d
        every == (Recompute + d - 1) \div d
        posted == n - ((n - 1) % every)
    IN /\ speed = s /\ playing = (n > 0) /\ span = (IF n > 0 THEN 1 ELSE 0)
       /\ now = Max({1, wall(n)}) /\ lastTick = (IF n > 0 THEN now ELSE 0)
       /\ paints = [i \in 1..n |-> [wall |-> wall(i), pts |-> 100 + i * Pace, span |-> 1]]
       /\ ticked = [i \in 1..(IF n > 0 THEN n - 1 ELSE 0) |-> d]
       /\ count = Len(ticked) /\ idx = count % Window
       /\ gaps = [i \in 0..Window - 1 |-> IF i < count THEN d ELSE 0]
       /\ cached = (IF n = 0 THEN NoSummary
                    ELSE [at |-> wall(posted), smooth |-> posted >= 3, span |-> 1])
       /\ acts = 0

Act == acts < MaxActs /\ acts' = acts + 1

-----------------------------------------------------------------------------
(* computeCadence.                                                         *)

Dwell == [i \in 1..Len(paints) - 1 |-> paints[i + 1].wall - paints[i].wall]
Step  == [i \in 1..Len(paints) - 1 |-> paints[i + 1].pts - paints[i].pts]

Total(s) == FoldSeq(LAMBDA x, y : x + y, 0, s)
Abs(n)   == IF n < 0 THEN -n ELSE n

(* The value at a fraction, in percent, of a sorted sequence.              *)
At(s, percent) ==
  SortSeq(s, LAMBDA x, y : x < y)[Min({Len(s), (Len(s) * percent) \div 100 + 1})]

(* speed times idealDwellMs: the median step.                              *)
Interval == Abs(At(Step, 50))

(* Of dwells: their deviation is at most a quarter of the ideal, none of   *)
(* the shorter 95 percent is over one and a half of it, few are, and their *)
(* mean is within a tenth of it.                                           *)
Smooth ==
  LET dwell == Dwell
      step == Step
      d == [i \in DOMAIN dwell |-> dwell[i] * speed]
      n == Len(d)
      ideal == Interval
      squares == Total([i \in DOMAIN d |-> d[i] * d[i]])
      repeats == Cardinality({i \in DOMAIN d : 2 * d[i] >= 3 * ideal})
  IN /\ Len(paints) >= 3 /\ ideal > 0
     /\ \A i \in DOMAIN step : step[i] >= 0
     /\ 16 * (n * squares - Total(d) * Total(d)) <= n * n * ideal * ideal
     /\ 2 * At(d, 95) <= 3 * ideal
     /\ 20 * repeats <= n
     /\ 10 * ideal * n >= 9 * Total(d) /\ 10 * ideal * n <= 11 * Total(d)

Summary == [at |-> now, smooth |-> Len(paints) >= 3 /\ Smooth, span |-> span]

(* tickGapsArray.                                                          *)
TickGaps == [i \in 1..(IF count < Window THEN count ELSE Window) |-> gaps[i - 1]]

-----------------------------------------------------------------------------
(* What the worker does.                                                   *)

\* Mutant: what has been counted is kept, only the paints are dropped.
ResetPaints ==
  /\ paints' = <<>> /\ cached' = NoSummary /\ lastTick' = 0
  /\ ticked' = <<>>
  /\ UNCHANGED <<gaps, idx, count>>

Reset ==
  /\ paints' = <<>> /\ idx' = 0 /\ count' = 0 /\ lastTick' = 0 /\ cached' = NoSummary
  /\ ticked' = <<>>
  /\ UNCHANGED gaps

(* blitForCursor draws a frame, from the clock or a cursor move, and posts *)
(* a status with a summary that may be the last one.                       *)
RecordPaint(step) ==
  /\ Act
  /\ UNCHANGED <<now, playing, speed, gaps, idx, count, lastTick, ticked, span>>
  /\ LET last == IF paints = <<>> THEN 100 ELSE Last(paints).pts
         more == Append(paints, [wall |-> now, pts |-> last + step, span |-> span])
     IN paints' = IF Len(more) > Window THEN Tail(more) ELSE more
  /\ cached' = IF cached = NoSummary \/ now - cached.at >= Recompute THEN Summary' ELSE cached

(* blitClockTick.                                                          *)
RecordTick ==
  /\ playing /\ now > lastTick
  /\ Act
  /\ IF lastTick > 0
     THEN /\ gaps' = [gaps EXCEPT ![idx] = now - lastTick]
          /\ idx' = (idx + 1) % Window
          /\ count' = IF count < Window THEN count + 1 ELSE count
          /\ ticked' = Append(ticked, now - lastTick)
     ELSE UNCHANGED <<gaps, idx, count, ticked>>
  /\ lastTick' = now
  /\ UNCHANGED <<now, playing, speed, paints, cached, span>>

(* setPlayback: a span of play begins, also at another speed, or ends.     *)
Play(s) ==
  /\ Act /\ Reset
  /\ playing' = TRUE /\ speed' = s /\ span' = span + 1
  /\ UNCHANGED now

Pause ==
  /\ playing /\ playing' = FALSE
  /\ UNCHANGED <<now, speed, paints, gaps, idx, count, lastTick, cached, ticked, span, acts>>

(* flushBlitQueue, on a seek, a close or a black frame.                    *)
Flush ==
  /\ Act /\ Reset /\ span' = span + 1
  /\ UNCHANGED <<now, playing, speed>>

Wait(ms) ==
  /\ Act /\ now' = now + ms
  /\ UNCHANGED <<playing, speed, paints, gaps, idx, count, lastTick, cached, ticked, span>>

Next ==
  \/ \E step \in Steps : RecordPaint(step)
  \/ RecordTick \/ Pause \/ Flush
  \/ \E s \in Speeds : Play(s)
  \/ \E ms \in Waits : Wait(ms)

Spec == Init /\ [][Next]_vars

-----------------------------------------------------------------------------
Recent(s, n) == SubSeq(s, IF Len(s) > n THEN Len(s) - n + 1 ELSE 1, Len(s))
Bag(s) == [x \in ToSet(s) |-> Cardinality({i \in DOMAIN s : s[i] = x})]

(* Frames in equal steps, each of them shown for one interval or for two.  *)
Doubled == {i \in DOMAIN Dwell : Dwell[i] * speed = 2 * Step[i]}
Paced   == \A i \in DOMAIN Step : /\ Step[i] = Step[1] /\ Step[1] > 0
                                  /\ i \in Doubled \/ Dwell[i] * speed = Step[i]

(* While it plays, what is measured is one span of play, "so a pause gap   *)
(* or a scrub can't pollute the dwell distribution" (videoCadence.ts:      *)
(* 174-176); the ring holds the latest gaps whatever their order; a status *)
(* never carries a verdict of an earlier span; and of frames in equal      *)
(* steps at most doubled, the verdict is smooth exactly if fewer than one  *)
(* in twenty is ("< 5 % of frames stuttered", videoCadence.ts:129; the     *)
(* comparison there is not strict, but that of the 95th percentile is).    *)
CadenceExact ==
  /\ playing => \A i, j \in DOMAIN paints : paints[i].span = paints[j].span
  /\ Bag(TickGaps) = Bag(Recent(ticked, Window))
  /\ cached # NoSummary => cached.span = span /\ now >= cached.at
  /\ Len(paints) >= 3 /\ Paced => (Smooth <=> 20 * Cardinality(Doubled) < Len(Dwell))
===============================================================================
