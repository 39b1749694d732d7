------------------------------ MODULE FrameBlit ------------------------------
(***************************************************************************)
(* What the video worker shows, whatever the decoder and the timeline do:  *)
(* the decoder may output the frames of the open stream in any order that  *)
(* displaces a frame by at most MaxDisplacement places, the session may be *)
(* torn down and reopened at any time, and the cursor may jump.            *)
(*                                                                         *)
(* VideoWorker implements this specification: it decides when a frame is   *)
(* output, this module what becomes of it.                                 *)
(***************************************************************************)
EXTENDS FrameQueue

CONSTANTS
  Cursors,          \* positions the timeline may forward
  MaxDisplacement   \* later frames that may overtake one in the decoder output

ASSUME CursorsAssumption == Cursors \subseteq Nat
ASSUME DisplacementAssumption == MaxDisplacement \in Nat

VARIABLES
  b,        \* cursor, queues and canvas: see FrameQueue
  session   \* NoSession, or the open stream's discard gate, held frame, outputs

vars == <<b, session>>

NoSession == [from |-> NoPts, pre |-> NoPts, out |-> {}, drained |-> FALSE]

IsOpen == session.from # NoPts

SessionState ==
  [from : Nat \cup {NoPts}, pre : Pts \cup {NoPts}, out : SUBSET Pts,
   drained : BOOLEAN]

TypeOK == b \in BlitState /\ session \in SessionState

Init == b = InitBlit /\ session = NoSession

(* openInternal: the watermark first, the session once the stream is open. *)
ReseedCursor(t) ==
  /\ ~IsOpen
  /\ b' = Reseed(b, t)
  /\ UNCHANGED session

OpenSession(t) ==
  /\ ~IsOpen
  /\ session' = [NoSession EXCEPT !.from = t]
  /\ UNCHANGED b

CloseSession ==
  /\ IsOpen
  /\ session' = NoSession
  /\ b' = FlushBlitQueue(b)

Output(f) ==
  /\ IsOpen
  /\ f \notin session.out
  /\ Cardinality({g \in session.out : g > f}) <= MaxDisplacement

(* A frame before the target is held, replacing the one held before.       *)
OnPreTargetFrame(f) ==
  /\ Output(f)
  /\ f < session.from
  /\ session' = [session EXCEPT !.pre = f, !.out = @ \cup {f}]
  /\ UNCHANGED b

(* The first frame at or after the target flushes the held one before it.  *)
OnFrame(f) ==
  /\ Output(f)
  /\ f >= session.from
  /\ session' = [session EXCEPT !.pre = NoPts, !.out = @ \cup {f}]
  /\ b' = IF b.canvas THEN EmitFrame(EmitIfAny(b, session.pre), f) ELSE b

(* Once per stream, when its last chunk has been fed.                      *)
DrainAtEnd ==
  /\ IsOpen
  /\ ~session.drained
  /\ session' = [session EXCEPT !.pre = NoPts, !.drained = TRUE]
  /\ b' = ReleaseReordered(EmitIfAny(b, session.pre), TRUE)

OnDecoderError ==
  /\ IsOpen
  /\ session' = [session EXCEPT !.pre = NoPts]
  /\ UNCHANGED b

(* While playing only a scrub moves the cursor here; the clock does else.  *)
SetCursor(ns) ==
  /\ b' = AtCursor(b, IF b.playing THEN b.cursor ELSE ns)
  /\ UNCHANGED session

BlitClockTick(ns) ==
  /\ b.playing
  /\ b' = AtCursor(b, ns)
  /\ UNCHANGED session

SetPlayback(ns) ==
  /\ \/ b' = StartPlayback(b, ns)
     \/ b' = StopPlayback(b, ns)
  /\ UNCHANGED session

SetRenderCanvas ==
  /\ b' = AttachCanvas(b)
  /\ UNCHANGED session

ClearCanvas ==
  /\ b' = PaintBlack(b)
  /\ UNCHANGED session

Next ==
  \/ \E t \in Cursors :
       ReseedCursor(t) \/ OpenSession(t) \/ SetCursor(t) \/ BlitClockTick(t) \/ SetPlayback(t)
  \/ \E f \in Pts : OnPreTargetFrame(f) \/ OnFrame(f)
  \/ CloseSession
  \/ DrainAtEnd
  \/ OnDecoderError
  \/ SetRenderCanvas
  \/ ClearCanvas

Spec == Init /\ [][Next]_vars

-----------------------------------------------------------------------------
(* No frame whose time has come waits in the blit queue: each handler that *)
(* moves the cursor or fills the queue also blits (blitForCursor).         *)
NoDueFrameWaits == b.canvas => Due(b) = {}

(* A paused canvas shows the newest frame at or before the cursor of all   *)
(* the frames emitted since the last flush, however they were ordered (the *)
(* promise of blitForCursor and of the paused flush in emitFrame).  Frames *)
(* the safety bound dropped are excepted.                                  *)
PausedShowsNewest ==
  b.canvas /\ ~b.playing =>
    \A f \in b.emitted \ b.dropped : f <= b.cursor => f <= b.shown

(* At most REORDER_HOLD_FRAMES decoded frames are held back, and none when *)
(* paused: a frame held then would wait for a frame that may never come.   *)
ReorderBounded ==
  /\ Cardinality(b.reorder) <= REORDER_HOLD_FRAMES
  /\ ~b.playing => b.reorder = {}

(* The picture never goes back between two flushes, and what is drawn is   *)
(* never ahead of the cursor it is drawn for (blitForCursor's guard).      *)
MonotoneDisplay ==
  [][b'.shown # b.shown => b'.shown = NoPts \/ (b'.shown > b.shown /\ b'.shown <= b'.cursor)]_vars

(* While playing, the reorder buffer hands the blit queue the frames in    *)
(* presentation order although the decoder does not output them so, as     *)
(* long as it displaces none by more than the buffer holds and until the   *)
(* drain at the end of the stream has emptied the buffer.                  *)
PresentationOrder ==
  [][b.ordered /\ b'.ordered /\ ~session.drained /\ MaxDisplacement <= REORDER_HOLD_FRAMES =>
       \A f \in Released(b') \ Released(b), g \in Released(b) : g < f]_vars
===============================================================================
