---------------------------- MODULE PlaybackGate ----------------------------
(***************************************************************************)
(* Playback with video: the playback loop holds the cursor while a panel   *)
(* waits for its decoder, and the worker behind the panel feeds its        *)
(* decoder only near the cursor it was last sent.  Each could wait for the *)
(* other.  PlaybackLoop is composed with the panels' ticks (VideoPanel.tsx *)
(* and videoReadiness.ts) and, for each panel, with the clock, the feed    *)
(* gates and the frame path (FrameQueue) of videoDecode.worker.ts.         *)
(*                                                                         *)
(* The stream has a frame every FrameEvery units of time.  In every unit   *)
(* the loop, the panels and the worker clocks tick once, in any order, and *)
(* what they send is received.                                             *)
(***************************************************************************)
EXTENDS PlaybackLoop, FrameQueue, Sequences

CONSTANTS
  N,                    \* frames in the stream
  FrameEvery,           \* time between two of them
  PRIMING_BATCH,        \* chunks fed when the stream is opened
  REFILL_LOW_WATER,     \* decoder backlog at which feeding rests
  DECODED_AHEAD_CAP,    \* decoded frames at which feeding rests
  LOOKAHEAD,            \* distance of the last frame from the cursor, likewise
  AHEAD_MARGIN,         \* how far the worker's clock may lead the cursor sent
  SCRUB_THRESHOLD,      \* jump of the cursor sent that resets that clock
  READY_EPSILON,        \* how far the picture may be behind the cursor
  FRAME_LIVE_WINDOW,    \* how long a frame's arrival counts as a sign of life
  STALLED_TIMEOUT,      \* how long a panel waits before it counts as stalled
  DECODE_TIME,          \* units a decoder takes at most for a frame
  MaxToggles,           \* bound on play and pause
  MayDie                \* decoders may stop for good

ASSUME StreamAssumption ==
  /\ {N, FrameEvery} \subseteq Nat \ {0}
  /\ Pts = {(k - 1) * FrameEvery : k \in 1..N}

VARIABLES
  view,    \* what each panel remembers (ViewState)
  worker,  \* the worker of each panel (WorkerState)
  status,  \* the last status message of each worker until it is received
  calls,   \* calls the panels have sent and the workers not received
  ticked,  \* what has ticked in this unit
  toggles  \* how often the user has played or paused

gateVars == <<loopVars, view, worker, status, calls, ticked, toggles>>

PtsOf(k) == IF k = 0 THEN NoPts ELSE (k - 1) * FrameEvery

CoverageEnd == PtsOf(N)

(* blit, queued, index: lastBlitPts, blitQueueLen > 0 and frameIndex of    *)
(* the last status; quiet: time since a fresh frame; waited: how long the  *)
(* panel has waited, or -1, and indexAtWait the frame index then; painted: *)
(* uncoveredPainted.                                                       *)
ViewState ==
  [blit : Pts \cup {NoPts}, queued : BOOLEAN, index : 0..N,
   quiet : 0..(FRAME_LIVE_WINDOW + 1), waited : -1..STALLED_TIMEOUT,
   indexAtWait : 0..N, painted : BOOLEAN]

(* now: the wall-clock position; fed and out: frames fed to the decoder    *)
(* and output; busy: time spent on the next; dead: it outputs no more.     *)
WorkerState ==
  [b : BlitState, lastSet : 0..EndNs, now : Nat, fed : 0..N, out : 0..N,
   busy : 0..DECODE_TIME, dead : BOOLEAN]

NoStatus == [blit |-> NoPts, queued |-> FALSE, index |-> 0, fresh |-> FALSE]

SmallerOf(x, y) == IF x < y THEN x ELSE y

Distance(x, y) == IF x < y THEN y - x ELSE x - y

-----------------------------------------------------------------------------
(* The worker.                                                             *)

MayFeed(w) ==
  /\ Cardinality(w.b.reorder) + Cardinality(w.b.blit) < DECODED_AHEAD_CAP
  /\ w.out = 0 \/ PtsOf(w.out) - w.b.cursor <= LOOKAHEAD

\* Mutant: the ring is not asked whether it holds another chunk.
FeedPastEnd(w) ==
  IF MayFeed(w) THEN [w EXCEPT !.fed = w.out + REFILL_LOW_WATER] ELSE w

FeedFromRing(w) ==
  LET backlog == w.out + REFILL_LOW_WATER
  IN IF MayFeed(w) /\ w.fed < backlog
     THEN [w EXCEPT !.fed = SmallerOf(N, backlog)]
     ELSE w

(* postBlitStatus: for every frame drawn and for every frame decoded.  The *)
(* panel keeps the newest of the messages it receives.                     *)
PostBlitStatus(p, w, fresh) ==
  IF fresh \/ w.b.shown # worker[p].b.shown
  THEN [status EXCEPT ![p] = [blit |-> w.b.shown, queued |-> w.b.blit # {},
                              index |-> w.out, fresh |-> fresh \/ @.fresh]]
  ELSE status

WorkerBecomes(p, w, fresh) ==
  /\ worker' = [worker EXCEPT ![p] = FeedFromRing(w)]
  /\ status' = PostBlitStatus(p, w, fresh)

(* The decoder outputs its next frame; after the last the reorder buffer   *)
(* is drained.                                                             *)
Emitted(w) ==
  LET b == EmitFrame(w.b, PtsOf(w.out + 1))
  IN [w EXCEPT !.out = @ + 1, !.busy = 0,
               !.b = IF w.out + 1 = N THEN ReleaseReordered(b, TRUE) ELSE b]

DecoderOutput(p) ==
  /\ worker[p].out < worker[p].fed /\ ~worker[p].dead
  /\ WorkerBecomes(p, Emitted(worker[p]), TRUE)
  /\ UNCHANGED <<loopVars, view, calls, ticked, toggles>>

DecoderDies(p) ==
  /\ MayDie /\ ~worker[p].dead
  /\ worker' = [worker EXCEPT ![p].dead = TRUE]
  /\ UNCHANGED <<loopVars, view, status, calls, ticked, toggles>>

\* Mutant: the clock free-runs whatever the cursor sent.
PacedFreely(w) == w.now

\* Mutant: the clock is held at the cursor sent, with no margin ahead of it.
PacedAtCursor(w) == SmallerOf(w.now, w.lastSet)

(* The worker's clock leads the cursor it was last sent by AHEAD_MARGIN at *)
(* most, and is re-anchored where it is held.                              *)
Paced(w) == SmallerOf(w.now, w.lastSet + AHEAD_MARGIN)

BlitClockTick(p) ==
  /\ <<"clock", p>> \notin ticked
  /\ LET w == worker[p]
     IN IF w.b.playing
        THEN WorkerBecomes(p, [w EXCEPT !.b = AtCursor(@, Paced(w)), !.now = Paced(w)], FALSE)
        ELSE UNCHANGED <<worker, status>>
  /\ ticked' = ticked \cup {<<"clock", p>>}
  /\ UNCHANGED <<loopVars, view, calls, toggles>>

MoveCursor(w, ns) ==
  LET jumped == ~w.b.playing \/ Distance(ns, w.lastSet) > SCRUB_THRESHOLD
  IN [w EXCEPT !.lastSet = ns, !.now = IF jumped THEN ns ELSE @,
               !.b = AtCursor(@, IF jumped THEN ns ELSE w.b.cursor)]

SetPlayback(w, playing, ns) ==
  [w EXCEPT !.lastSet = ns, !.now = ns,
            !.b = IF playing THEN StartPlayback(@, ns) ELSE StopPlayback(@, ns)]

(* Neither a pause nor paintBlack feeds the decoder; paintBlack reports    *)
(* nothing.                                                                *)
Receive(p) ==
  /\ calls[p] # <<>>
  /\ LET c == Head(calls[p])
         w == worker[p]
     IN CASE c.call = "setCursor" -> WorkerBecomes(p, MoveCursor(w, c.ns), FALSE)
          [] c.call = "play"      -> WorkerBecomes(p, SetPlayback(w, TRUE, c.ns), FALSE)
          [] c.call = "pause"     -> /\ worker' = [worker EXCEPT ![p] = SetPlayback(w, FALSE, c.ns)]
                                     /\ status' = PostBlitStatus(p, worker'[p], FALSE)
          [] c.call = "paintBlack" -> /\ worker' = [worker EXCEPT ![p].b = PaintBlack(@)]
                                      /\ UNCHANGED status
  /\ calls' = [calls EXCEPT ![p] = Tail(@)]
  /\ UNCHANGED <<loopVars, view, ticked, toggles>>

-----------------------------------------------------------------------------
(* The panels.                                                             *)

Call(name, ns) == [call |-> name, ns |-> ns]

(* The subscription: each panel forwards a cursor that moved and a change  *)
(* of the play state.                                                      *)
Forwarded ==
  calls' = [p \in Panels |->
    calls[p]
      \o (IF store'.cursor # store.cursor
          THEN <<Call("setCursor", store'.cursor)>> ELSE <<>>)
      \o (IF store'.playing # store.playing
          THEN <<Call(IF store'.playing THEN "play" ELSE "pause", store'.cursor)>> ELSE <<>>)]

StatusArrives(p) ==
  /\ status[p] # NoStatus
  /\ view' = [view EXCEPT ![p].blit = status[p].blit, ![p].queued = status[p].queued,
                          ![p].index = status[p].index,
                          ![p].quiet = IF status[p].fresh THEN 0 ELSE @]
  /\ status' = [status EXCEPT ![p] = NoStatus]
  /\ UNCHANGED <<loopVars, worker, calls, ticked, toggles>>

ComputeVideoReady(v) ==
  /\ v.blit # NoPts
  /\ \/ store.cursor - v.blit <= READY_EPSILON
     \/ v.quiet <= FRAME_LIVE_WINDOW
     \/ v.queued

OutOfCoverage == store.cursor > CoverageEnd

\* Mutant: a panel never gives up on its decoder.
WaitingForever(v) ==
  IF v.waited = -1 \/ v.index # v.indexAtWait
  THEN [view |-> [v EXCEPT !.waited = 0, !.indexAtWait = v.index], state |-> "waiting"]
  ELSE [view |-> v, state |-> "waiting"]

(* Not ready: a panel whose decoder goes on counting frames waits anew.    *)
Waiting(v) ==
  IF v.waited = -1 \/ v.index # v.indexAtWait
  THEN [view |-> [v EXCEPT !.waited = 0, !.indexAtWait = v.index], state |-> "waiting"]
  ELSE [view |-> v, state |-> IF v.waited >= STALLED_TIMEOUT THEN "stalled" ELSE "waiting"]

Readiness(v) ==
  IF OutOfCoverage
  THEN [view |-> [v EXCEPT !.waited = -1, !.painted = TRUE,
                           !.blit = IF v.painted THEN @ ELSE NoPts],
        state |-> "uncovered"]
  ELSE LET covered == [v EXCEPT !.painted = FALSE]
       IN IF ComputeVideoReady(covered)
          THEN [view |-> [covered EXCEPT !.waited = -1], state |-> "ready"]
          ELSE Waiting(covered)

(* The panel's animation frame: it has the canvas painted black when the   *)
(* cursor leaves the stream's coverage, and publishes its readiness.       *)
PanelTick(p) ==
  /\ <<"panel", p>> \notin ticked
  /\ LET r == Readiness(view[p])
     IN /\ view' = [view EXCEPT ![p] = r.view]
        /\ Publish(p, r.state)
  /\ calls' = [calls EXCEPT ![p] =
                 IF OutOfCoverage /\ ~view[p].painted
                 THEN Append(@, Call("paintBlack", 0)) ELSE @]
  /\ ticked' = ticked \cup {<<"panel", p>>}
  /\ UNCHANGED <<worker, status, toggles>>

-----------------------------------------------------------------------------
PanelsOnly == UNCHANGED <<view, worker, status>>

LoopTick ==
  /\ <<"loop">> \notin ticked
  /\ Tick
  /\ Forwarded
  /\ ticked' = ticked \cup {<<"loop">>}
  /\ UNCHANGED toggles /\ PanelsOnly

(* Without a rewind, which would need a seek.                              *)
Toggle ==
  /\ toggles < MaxToggles
  /\ Pause \/ (store.cursor < EndNs /\ Play)
  /\ Forwarded
  /\ toggles' = toggles + 1
  /\ UNCHANGED ticked /\ PanelsOnly

(* A unit of time passes once everything due in it has happened.           *)
Due1 ==
  \/ loop.armed /\ <<"loop">> \notin ticked
  \/ \E p \in Panels :
       \/ {<<"panel", p>>, <<"clock", p>>} \ ticked # {}
       \/ calls[p] # <<>> \/ status[p] # NoStatus
       \/ worker[p].out < worker[p].fed /\ ~worker[p].dead /\ worker[p].busy = DECODE_TIME

Aged(v) ==
  [v EXCEPT !.quiet  = SmallerOf(@ + 1, FRAME_LIVE_WINDOW + 1),
            !.waited = IF @ = -1 THEN -1 ELSE SmallerOf(@ + 1, STALLED_TIMEOUT)]

Worked(w) ==
  [w EXCEPT !.now  = IF w.b.playing THEN @ + 1 ELSE @,
            !.busy = IF w.out < w.fed /\ ~w.dead THEN @ + 1 ELSE 0]

Pass ==
  /\ ~Due1
  /\ IF loop.armed THEN Elapse(1) ELSE UNCHANGED loopVars
  /\ view' = [p \in Panels |-> Aged(view[p])]
  /\ worker' = [p \in Panels |-> Worked(worker[p])]
  /\ ticked' = {}
  /\ UNCHANGED <<status, calls, toggles>>

(* The stream is open at the start of the session, primed and paused, and  *)
(* the loop is running.                                                    *)
GateInit ==
  /\ store = [cursor |-> 0, playing |-> FALSE, speed |-> 1]
  /\ loop = [wired |-> TRUE, armed |-> FALSE]
  /\ anchor = NoAnchor
  /\ registry = [p \in Panels |-> "none"]
  /\ since = 0
  /\ view = [p \in Panels |->
       [blit |-> NoPts, queued |-> FALSE, index |-> 0, quiet |-> FRAME_LIVE_WINDOW + 1,
        waited |-> -1, indexAtWait |-> 0, painted |-> FALSE]]
  /\ worker = [p \in Panels |->
       [b |-> AttachCanvas(InitBlit), lastSet |-> 0, now |-> 0,
        fed |-> SmallerOf(N, PRIMING_BATCH), out |-> 0, busy |-> 0, dead |-> FALSE]]
  /\ status = [p \in Panels |-> NoStatus]
  /\ calls = [p \in Panels |-> <<>>]
  /\ ticked = {}
  /\ toggles = 0

GateNext ==
  \/ LoopTick \/ Toggle \/ Pass
  \/ \E p \in Panels :
       \/ PanelTick(p) \/ BlitClockTick(p) \/ DecoderOutput(p) \/ DecoderDies(p)
       \/ Receive(p) \/ StatusArrives(p)

GateSpec == GateInit /\ [][GateNext]_gateVars

(* Time passes for ever: a unit of it holds finitely many steps, and all   *)
(* that are due happen before it passes.  The user, and a decoder's fault, *)
(* are not owed.                                                           *)
FairGateSpec == GateSpec /\ []<><<Pass>>_gateVars

-----------------------------------------------------------------------------
GateTypeOK ==
  /\ TypeOK
  /\ view \in [Panels -> ViewState]
  /\ worker \in [Panels -> WorkerState]
  /\ \A p \in Panels : \A k \in 1..Len(calls[p]) : calls[p][k].ns \in 0..EndNs
  /\ toggles \in 0..MaxToggles

(* A panel whose decoder works is never reported stalled: holding the      *)
(* cursor does not starve the decoder the loop is waiting for.             *)
HealthyNeverStalls ==
  \A p \in Panels : registry[p] = "stalled" => worker[p].dead

(* The picture clock of a worker leads the timeline by AHEAD_MARGIN at     *)
(* most, however long the cursor is held.                                  *)
PictureNotAhead ==
  \A p \in Panels : worker[p].b.cursor <= store.cursor + AHEAD_MARGIN

(* Playback comes to an end, whatever the decoders do: no panel holds the  *)
(* cursor for ever.                                                        *)
PlaybackEnds == store.playing ~> ~store.playing
=============================================================================
