---------------------------- MODULE StreamControl ----------------------------
(***************************************************************************)
(* What a video panel may rely on of its worker (videoDecode.worker.ts):   *)
(* the operations it asks for are carried out one at a time, in the order  *)
(* it asked, and a burst of seeks leaves the stream at the last target.    *)
(* VideoWorker implements this specification; VideoPanel is written        *)
(* against it.  Neither the reader nor the frames are visible here.        *)
(***************************************************************************)
EXTENDS Integers, Sequences

CONSTANTS
  Times,    \* timeline positions
  MaxQueue  \* bound on the operations waiting

ASSUME TimesAssumption == Times \subseteq Nat
ASSUME MaxQueueAssumption == MaxQueue \in Nat

VARIABLES
  queue,   \* the promise chain: the running operation and those behind it
  stage,   \* what the head of the chain is doing
  at,      \* where the open stream starts: lastOpenedFromNs, or NoStream
  broken,  \* decodeError is latched
  wanted,  \* history: the target asked for last, by the panel or a self-heal
  cursor   \* the worker's cursor

streamVars == <<queue, stage, at, broken, wanted, cursor>>

NoStream == -1

Op(op, target, force, auto) == [op |-> op, target |-> target, force |-> force, heal |-> auto]

Operation ==
  [op : {"open", "seek", "close", "capture"}, target : Nat, force : BOOLEAN, heal : BOOLEAN]

(* What the panel asks for: open, seek, retry, close, captureFrameAt.      *)
Requests ==
  [op : {"open"}, target : Times, force : {FALSE}, heal : {FALSE}]
    \cup [op : {"seek"}, target : Times, force : BOOLEAN, heal : {FALSE}]
    \cup [op : {"close", "capture"}, target : {0}, force : {FALSE}, heal : {FALSE}]

TypeOK ==
  /\ queue \in Seq(Operation)
  /\ stage \in {"idle", "closing", "busy"}
  /\ at \in Nat \cup {NoStream}
  /\ broken \in BOOLEAN
  /\ wanted \in Nat \cup {NoStream}
  /\ cursor \in Nat

Init ==
  /\ queue = <<>>
  /\ stage = "idle"
  /\ at = NoStream
  /\ broken = FALSE
  /\ wanted = NoStream
  /\ cursor = 0

First == queue[1]

(* Where the stream is once op has been carried out, if it succeeds.       *)
Result(op) == IF op.op = "close" THEN NoStream ELSE op.target

Request(op) ==
  /\ Len(queue) < MaxQueue
  /\ queue' = Append(queue, op)
  /\ wanted' = IF op.op = "capture" THEN wanted ELSE Result(op)
  /\ UNCHANGED <<stage, at, broken, cursor>>

MoveCursor(ns) ==
  /\ cursor' = ns
  /\ UNCHANGED <<queue, stage, at, broken, wanted>>

\* Mutant: the generation is compared before it is incremented.
SupersededBySelf == \E k \in 1..Len(queue) : queue[k].op = "seek"

(* A newer seek waits behind this one (seekGeneration).                    *)
Superseded == \E k \in 2..Len(queue) : queue[k].op = "seek"

Skipped ==
  /\ First.op = "seek"
  /\ \/ ~First.force /\ Superseded
     \/ at = NoStream
     \/ ~First.force /\ ~broken /\ at = First.target

\* Mutant: a settled operation stays on the chain.
PopStuck == queue' = queue /\ stage' = "idle"

Pop == queue' = Tail(queue) /\ stage' = "idle"

\* Mutant: the cursor is raised to the start of the stream that was dropped.
BeginFromSession ==
  /\ stage' = "busy"
  /\ broken' = FALSE
  /\ cursor' = IF cursor < First.target THEN at ELSE cursor
  /\ UNCHANGED <<queue, at, wanted>>

(* openInternal up to the request that opens the reader; it only ever      *)
(* raises the cursor.                                                      *)
Begin ==
  /\ stage' = "busy"
  /\ broken' = FALSE
  /\ cursor' = IF cursor < First.target THEN First.target ELSE cursor
  /\ UNCHANGED <<queue, at, wanted>>

Skip ==
  /\ stage = "idle" /\ queue # <<>>
  /\ Skipped \/ (First.op = "close" /\ at = NoStream)
  /\ Pop
  /\ UNCHANGED <<at, broken, wanted, cursor>>

(* The stream is dropped before its close is awaited.                      *)
Drop ==
  /\ stage = "idle" /\ queue # <<>>
  /\ First.op # "capture" /\ ~Skipped /\ at # NoStream
  /\ at' = NoStream
  /\ stage' = "closing"
  /\ UNCHANGED <<queue, broken, wanted, cursor>>

StartOpen ==
  /\ stage = "idle" /\ queue # <<>>
  /\ First.op = "open" /\ at = NoStream
  /\ Begin

StartCapture ==
  /\ stage = "idle" /\ queue # <<>>
  /\ First.op = "capture"
  /\ stage' = "busy"
  /\ UNCHANGED <<queue, at, broken, wanted, cursor>>

Closed ==
  /\ stage = "closing"
  /\ IF First.op = "close"
     THEN Pop /\ UNCHANGED <<at, broken, wanted, cursor>>
     ELSE Begin

Opened ==
  /\ stage = "busy"
  /\ First.op # "capture" /\ at = NoStream
  /\ at' = First.target
  /\ UNCHANGED <<queue, stage, broken, wanted, cursor>>

(* The head of the chain resolves or rejects, opened or not.               *)
Settle ==
  /\ stage = "busy"
  /\ Pop
  /\ UNCHANGED <<at, broken, wanted, cursor>>

(* The decoder fails, perhaps inside the operation that then settles, and  *)
(* the worker may ask itself for a forced seek to its own cursor.          *)
DecoderFails(healing, settling) ==
  /\ at # NoStream
  /\ settling => stage = "busy"
  /\ healing => Len(queue) < MaxQueue
  /\ LET healed == IF healing THEN Append(queue, Op("seek", cursor, TRUE, TRUE)) ELSE queue
     IN queue' = IF settling THEN Tail(healed) ELSE healed
  /\ stage' = IF settling THEN "idle" ELSE stage
  /\ broken' = TRUE
  /\ wanted' = IF healing THEN cursor ELSE wanted
  /\ UNCHANGED <<at, cursor>>

ChainStep == Skip \/ Drop \/ StartOpen \/ StartCapture \/ Closed \/ Opened \/ Settle

WorkerStep == ChainStep \/ \E healing, settling \in BOOLEAN : DecoderFails(healing, settling)

Next ==
  \/ WorkerStep
  \/ \E ns \in Times : MoveCursor(ns)
  \/ \E op \in Requests : Request(op)

Spec == Init /\ [][Next]_streamVars

-----------------------------------------------------------------------------
(* A burst of seeks ends at its last target: once the chain is empty a     *)
(* stream that is open starts where it was last asked to (seekGeneration   *)
(* and the duplicate-target guard of seek).                                *)
LastSeekWins == queue = <<>> /\ at # NoStream => at = wanted
=============================================================================
