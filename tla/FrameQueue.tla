------------------------------ MODULE FrameQueue ------------------------------
(***************************************************************************)
(* The frame path of the video worker (videoDecode.worker.ts): the reorder *)
(* buffer, the blit queue and the canvas, as functions on the record of    *)
(* the worker's module-level variables they read and write.                *)
(*                                                                         *)
(* A decoded frame is its presentation timestamp.  The two queues are sets *)
(* of frames: the reorder buffer is kept sorted by PTS and the blit scans  *)
(* the whole queue, so neither depends on an order that a set would lose.  *)
(***************************************************************************)
EXTENDS Integers, FiniteSets, FiniteSetsExt

CONSTANTS
  Pts,                  \* presentation timestamps of the stream's frames
  REORDER_HOLD_FRAMES,  \* newest frames held back while playing
  MAX_QUEUE             \* decoded frames kept before the furthest one is dropped

ASSUME PtsAssumption == IsFiniteSet(Pts) /\ Pts \subseteq Nat
ASSUME HoldAssumption == REORDER_HOLD_FRAMES \in Nat
ASSUME MaxQueueAssumption == MAX_QUEUE \in Nat \ {0}

NoPts == -1  \* `lastBlitPtsNs === null`, `pendingPreTargetFrame === null`

(***************************************************************************)
(* emitted, dropped and ordered are history: the frames handed to          *)
(* emitFrame since the last flush, the ones the safety bound dropped, and  *)
(* whether every one of them was emitted while playing.                    *)
(***************************************************************************)
BlitState ==
  [cursor  : Nat,
   playing : BOOLEAN,
   canvas  : BOOLEAN,
   reorder : SUBSET Pts,
   blit    : SUBSET Pts,
   shown   : Pts \cup {NoPts},
   emitted : SUBSET Pts,
   dropped : SUBSET Pts,
   ordered : BOOLEAN]

InitBlit ==
  [cursor |-> 0, playing |-> FALSE, canvas |-> FALSE, reorder |-> {},
   blit |-> {}, shown |-> NoPts, emitted |-> {}, dropped |-> {},
   ordered |-> FALSE]

Due(b) == {f \in b.blit : f <= b.cursor}

\* Mutant: the newest due frame is drawn even when it is behind the screen.
BlitBackwards(b) ==
  IF ~b.canvas \/ Due(b) = {}
  THEN b
  ELSE [b EXCEPT !.blit = b.blit \ Due(b), !.shown = Max(Due(b))]

(* Draw the newest due frame unless it is a straggler behind the screen;   *)
(* every due frame leaves the queue either way.                            *)
BlitForCursor(b) ==
  IF ~b.canvas \/ Due(b) = {}
  THEN b
  ELSE [b EXCEPT !.blit  = b.blit \ Due(b),
                 !.shown = IF Max(Due(b)) > b.shown THEN Max(Due(b)) ELSE b.shown]

\* Mutant: `length >= keep` in the release loop's condition is off by one.
ReleasableOneLess(b, keep) ==
  {f \in b.reorder : Cardinality({g \in b.reorder : g > f}) > keep}

(* The frames of the reorder buffer that are not among the `keep` newest.  *)
Releasable(b, keep) ==
  {f \in b.reorder : Cardinality({g \in b.reorder : g > f}) >= keep}

Release(b, keep) ==
  [b EXCEPT !.reorder = b.reorder \ Releasable(b, keep),
            !.blit    = b.blit \cup Releasable(b, keep)]

ReleaseReordered(b, flushAll) ==
  BlitForCursor(Release(b, IF flushAll THEN 0 ELSE REORDER_HOLD_FRAMES))

Victim(b) ==
  IF /\ Cardinality(b.reorder) + Cardinality(b.blit) >= MAX_QUEUE
     /\ b.reorder # {}
  THEN {Max(b.reorder)} ELSE {}

Insert(b, f) ==
  [b EXCEPT !.reorder = (b.reorder \ Victim(b)) \cup {f},
            !.emitted = b.emitted \cup {f},
            !.dropped = b.dropped \cup Victim(b),
            !.ordered = b.ordered /\ b.playing]

\* Mutant: the reorder window is held while paused as well.
EmitFrameHeld(b, f) == ReleaseReordered(Insert(b, f), FALSE)

\* Mutant: the reorder window is flushed while playing as well.
EmitFrameUnordered(b, f) == ReleaseReordered(Insert(b, f), TRUE)

EmitFrame(b, f) == ReleaseReordered(Insert(b, f), ~b.playing)

\* Mutant: the held frame is emitted without asking whether there is one.
EmitUnchecked(b, f) == EmitFrame(b, f)

EmitIfAny(b, f) == IF f = NoPts THEN b ELSE EmitFrame(b, f)

FlushBlitQueue(b) ==
  [b EXCEPT !.reorder = {}, !.blit = {}, !.shown = NoPts,
            !.emitted = {}, !.dropped = {}, !.ordered = b.playing]

(* paintBlack: nothing to clear, and nothing flushed, without a canvas.    *)
PaintBlack(b) == IF b.canvas THEN FlushBlitQueue(b) ELSE b

\* Mutant: the cursor moves without a blit.
AtCursorOnly(b, ns) == [b EXCEPT !.cursor = ns]

AtCursor(b, ns) == BlitForCursor([b EXCEPT !.cursor = ns])

StartPlayback(b, ns) == AtCursor([b EXCEPT !.playing = TRUE], ns)

StopPlayback(b, ns) ==
  ReleaseReordered([b EXCEPT !.playing = FALSE, !.cursor = ns,
                             !.ordered = FALSE], TRUE)

AttachCanvas(b) == BlitForCursor([b EXCEPT !.canvas = TRUE])

(* The cursor watermark is raised to the target of an open, never lowered. *)
Reseed(b, target) ==
  [b EXCEPT !.cursor = IF b.cursor < target THEN target ELSE b.cursor]

-----------------------------------------------------------------------------
Released(b) == (b.emitted \ b.dropped) \ b.reorder
===============================================================================
