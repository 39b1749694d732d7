------------------------------ MODULE VideoPanel ------------------------------
(***************************************************************************)
(* The main thread's side of a video panel (panels/VideoPanel.tsx): the    *)
(* session store's cursor, the debounced seeks and coalesced cursor it     *)
(* sends, the playback clock it hands over, and the worker that answers    *)
(* them, of which StreamControl is what the panel may rely on.             *)
(*                                                                         *)
(* One Comlink port carries every call, so the worker receives them in the *)
(* order of sending.  A unit of time is a step of the cursor.              *)
(***************************************************************************)
EXTENDS StreamControl, FiniteSetsExt

CONSTANTS
  SETCURSOR_DELTA,  \* distance from the last cursor sent at which it is sent
  AHEAD_MARGIN,     \* how far the worker's clock may lead the cursor sent
  SCRUB_THRESHOLD,  \* jump of the cursor sent that resets the worker's clock
  Acts,             \* what the user does and what fails, of those in AllActs
  MaxActs,          \* bound on them
  MaxInbox          \* bound on the calls under way

\* "early": before open() has answered; "hasty": with an earlier one under way.
AllActs == {"scrub", "play", "retry", "unmount", "fault", "early", "hasty"}

ASSUME PanelAssumption ==
  /\ Cardinality(Times) \in Nat \ {0}
  /\ Times = 0..(Cardinality(Times) - 1)
  /\ SETCURSOR_DELTA \in Nat \ {0}
  /\ {AHEAD_MARGIN, SCRUB_THRESHOLD, MaxActs, MaxInbox} \subseteq Nat
  /\ Acts \subseteq AllActs

VARIABLES
  store,  \* the session store's cursorNs and playing
  panel,  \* what VideoPanel remembers, see PanelState
  inbox,  \* calls sent to the worker and not yet received
  reply,  \* the answer of open() on its way back
  clock,  \* playbackActive, lastSetCursorNs and the pacing clock of the worker
  reach,  \* history: how far the worker's cursor went on the open stream
  acts    \* how often the user or a fault has acted, and whether patiently

panelVars == <<streamVars, store, panel, inbox, reply, clock, reach, acts>>

StartNs == Min(Times)
EndNs == Max(Times)

None == -1

Distance(a, b) == IF a < b THEN b - a ELSE a - b

Call(name, ns, flag) == [call |-> name, ns |-> ns, flag |-> flag]

CallTypes ==
  [call : {"open", "seek", "close", "setCursor", "setPlayback"},
   ns : Times \cup {0}, flag : BOOLEAN]

(* phase: the ports are being handed over, open() is awaited, the panel is *)
(* open, open() has rejected, or the panel is unmounted; mounted:          *)
(* openTargetNs; target: lastSeekTargetRef; sent: lastCursorSentRef;       *)
(* timer: seekTimerRef.                                                    *)
PanelState ==
  [phase : {"ports", "opening", "open", "failed", "gone"}, mounted : Times,
   target : Times \cup {None}, sent : Times \cup {None}, timer : BOOLEAN]

PanelInit ==
  /\ Init
  /\ \E c \in Times, p \in BOOLEAN :
       /\ p => c # EndNs
       /\ store = [cursor |-> c, playing |-> p]
       /\ panel = [phase |-> "ports", mounted |-> c, target |-> None,
                   sent |-> None, timer |-> FALSE]
  /\ inbox = <<>>
  /\ reply = "none"
  /\ clock = [playing |-> FALSE, lastSet |-> 0, now |-> 0]
  /\ reach = 0
  /\ acts = [count |-> 0, patient |-> TRUE]

Mounted == panel.phase # "gone"

Settled ==
  /\ panel.phase = "open" /\ ~panel.timer
  /\ inbox = <<>> /\ queue = <<>> /\ reply = "none"

Act(kind) ==
  /\ kind \in Acts
  /\ acts.count < MaxActs
  /\ acts' = [acts EXCEPT !.count = @ + 1]

(* A jump of the cursor: patient, if it waits for what is under way and    *)
(* goes SETCURSOR_DELTA or further.                                        *)
Jump(kind, c) ==
  /\ kind \in Acts
  /\ acts.count < MaxActs
  /\ panel.phase \in {"ports", "opening"} => "early" \in Acts
  /\ panel.phase = "open" /\ ~Settled => "hasty" \in Acts
  /\ acts' = [count |-> acts.count + 1,
              patient |-> acts.patient /\ Settled
                          /\ Distance(c, store.cursor) >= SETCURSOR_DELTA]

Send(calls) ==
  /\ Len(inbox) + Len(calls) <= MaxInbox
  /\ inbox' = inbox \o calls

MainOnly == UNCHANGED <<streamVars, reply, clock, reach>>

-----------------------------------------------------------------------------
(* The session store and the panel's subscription to it.                   *)

\* Mutant: a change of the play state leaves the coalescer as it was.
ForwardedStale(c, p) ==
  LET moved == c # store.cursor
               /\ (panel.sent = None \/ Distance(c, panel.sent) >= SETCURSOR_DELTA)
      calls == (IF moved THEN <<Call("setCursor", c, FALSE)>> ELSE <<>>)
               \o (IF p # store.playing THEN <<Call("setPlayback", c, p)>> ELSE <<>>)
  IN [calls |-> calls, sent |-> IF moved THEN c ELSE panel.sent]

(* What the subscription sends when the store becomes (c, p): the cursor,  *)
(* once it has moved by SETCURSOR_DELTA, and a change of the play state.   *)
Forwarded(c, p) ==
  LET moved == c # store.cursor
               /\ (panel.sent = None \/ Distance(c, panel.sent) >= SETCURSOR_DELTA)
      calls == (IF moved THEN <<Call("setCursor", c, FALSE)>> ELSE <<>>)
               \o (IF p # store.playing THEN <<Call("setPlayback", c, p)>> ELSE <<>>)
  IN [calls |-> calls, sent |-> IF calls # <<>> THEN c ELSE panel.sent]

(* seeks: the change bumps seekEpoch, which restarts the seek timer.       *)
StoreBecomes(c, p, seeks) ==
  LET f == Forwarded(c, p)
  IN /\ store' = [cursor |-> c, playing |-> p]
     /\ IF Mounted
        THEN /\ Send(f.calls)
             /\ panel' = [panel EXCEPT !.sent = f.sent, !.timer = @ \/ seeks]
        ELSE UNCHANGED <<inbox, panel>>
     /\ MainOnly

(* A drag or click on the scrubber, a key, a bookmark: setCursor.          *)
Scrub(c) ==
  /\ Jump("scrub", c)
  /\ StoreBecomes(c, store.playing /\ c # EndNs, TRUE)

(* The playback loop: advanceCursor.                                       *)
Advance ==
  /\ store.playing
  /\ LET c == Min({store.cursor + 1, EndNs})
     IN StoreBecomes(c, c # EndNs, FALSE)
  /\ UNCHANGED acts

(* play(), which rewinds at the end of the session, and pause().           *)
TogglePlay ==
  IF ~store.playing /\ store.cursor = EndNs
  THEN Jump("play", StartNs) /\ StoreBecomes(StartNs, TRUE, TRUE)
  ELSE Act("play") /\ StoreBecomes(store.cursor, ~store.playing, FALSE)

-----------------------------------------------------------------------------
(* The panel.                                                              *)

\* Mutant: the stream is opened at the last seek's target.
SendOpenTarget ==
  /\ panel.phase = "ports"
  /\ Send(<<Call("open", panel.target, FALSE)>>)
  /\ panel' = [panel EXCEPT !.phase = "opening"]
  /\ UNCHANGED <<store, acts>> /\ MainOnly

(* The ports are in the worker's hands: open at the cursor of the mount.   *)
SendOpen ==
  /\ panel.phase = "ports"
  /\ Send(<<Call("open", panel.mounted, FALSE)>>)
  /\ panel' = [panel EXCEPT !.phase = "opening"]
  /\ UNCHANGED <<store, acts>> /\ MainOnly

Handoff == <<Call("setPlayback", store.cursor, TRUE)>>

\* Mutant: the panel does not tell the worker that the session is playing.
OpenReturnsSilent ==
  /\ reply # "none"
  /\ reply' = "none"
  /\ panel' = [panel EXCEPT
       !.target = IF reply = "opened" THEN panel.mounted ELSE @,
       !.phase  = IF ~Mounted THEN @ ELSE IF reply = "opened" THEN "open" ELSE "failed"]
  /\ UNCHANGED <<inbox, streamVars, store, clock, reach, acts>>

(* open() answers, to an unmounted panel too.                              *)
OpenReturns ==
  /\ reply # "none"
  /\ reply' = "none"
  /\ panel' = [panel EXCEPT
       !.target = IF reply = "opened" THEN panel.mounted ELSE @,
       !.phase  = IF ~Mounted THEN @ ELSE IF reply = "opened" THEN "open" ELSE "failed"]
  /\ Send(IF reply = "opened" /\ store.playing THEN Handoff ELSE <<>>)
  /\ UNCHANGED <<streamVars, store, clock, reach, acts>>

\* Mutant: the target is not recorded.
TimerFiresForgetful ==
  /\ panel.timer
  /\ IF panel.target = store.cursor
     THEN /\ panel' = [panel EXCEPT !.timer = FALSE]
          /\ UNCHANGED inbox
     ELSE /\ panel' = [panel EXCEPT !.timer = FALSE, !.sent = store.cursor]
          /\ Send(<<Call("seek", store.cursor, FALSE)>>)
  /\ UNCHANGED <<store, acts>> /\ MainOnly

(* SEEK_DEBOUNCE_MS after the last scrub.                                  *)
TimerFires ==
  /\ panel.timer
  /\ IF panel.target = store.cursor
     THEN /\ panel' = [panel EXCEPT !.timer = FALSE]
          /\ UNCHANGED inbox
     ELSE /\ panel' = [panel EXCEPT !.timer = FALSE, !.target = store.cursor,
                                    !.sent = store.cursor]
          /\ Send(<<Call("seek", store.cursor, FALSE)>>)
  /\ UNCHANGED <<store, acts>> /\ MainOnly

(* onRetry: a forced seek that the panel's target does not record.         *)
Retry ==
  /\ Act("retry")
  /\ Mounted
  /\ Send(<<Call("seek", store.cursor, TRUE)>>)
  /\ UNCHANGED <<store, panel>> /\ MainOnly

\* Mutant: the worker is left to itself.
UnmountSilent ==
  /\ Act("unmount")
  /\ Mounted
  /\ panel' = [panel EXCEPT !.phase = "gone", !.timer = FALSE,
                            !.target = None, !.sent = None]
  /\ UNCHANGED <<inbox, store>> /\ MainOnly

Unmount ==
  /\ Act("unmount")
  /\ Mounted
  /\ panel' = [panel EXCEPT !.phase = "gone", !.timer = FALSE,
                            !.target = None, !.sent = None]
  /\ Send(<<Call("close", 0, FALSE)>>)
  /\ UNCHANGED store /\ MainOnly

-----------------------------------------------------------------------------
(* The worker.                                                             *)

(* reach starts anew with each stream.                                     *)
Tracked == reach' = IF at' = NoStream THEN cursor' ELSE Max({reach, cursor'})

Receive(name) ==
  /\ inbox # <<>> /\ Head(inbox).call = name
  /\ inbox' = Tail(inbox)
  /\ UNCHANGED <<store, panel, reply, acts>>

ReceiveOperation(name) ==
  /\ Receive(name)
  /\ Request(Op(name, Head(inbox).ns, Head(inbox).flag, FALSE))
  /\ UNCHANGED clock
  /\ Tracked

(* While playing the cursor sent moves the clock only if it jumped.        *)
ReceiveSetCursor ==
  /\ Receive("setCursor")
  /\ LET ns     == Head(inbox).ns
         snaps  == ~clock.playing \/ Distance(ns, clock.lastSet) > SCRUB_THRESHOLD
     IN /\ clock' = [clock EXCEPT !.lastSet = ns, !.now = IF snaps THEN ns ELSE @]
        /\ MoveCursor(IF snaps THEN ns ELSE cursor)
  /\ Tracked

ReceiveSetPlayback ==
  /\ Receive("setPlayback")
  /\ LET ns == Head(inbox).ns
     IN /\ clock' = [playing |-> Head(inbox).flag, lastSet |-> ns, now |-> ns]
        /\ MoveCursor(ns)
  /\ Tracked

(* The worker's clock free-runs up to AHEAD_MARGIN past the cursor sent.   *)
BlitClockTick(ns) ==
  /\ clock.playing
  /\ LET cap == clock.lastSet + AHEAD_MARGIN
     IN IF clock.now > cap THEN ns = cap ELSE ns \in clock.now..cap
  /\ clock' = [clock EXCEPT !.now = ns]
  /\ MoveCursor(ns)
  /\ Tracked
  /\ UNCHANGED <<store, panel, inbox, reply, acts>>

Answered ==
  reply' = IF stage # "idle" /\ stage' = "idle" /\ First.op = "open"
           THEN IF at' = NoStream THEN "failed" ELSE "opened"
           ELSE reply

(* Without faults every open succeeds.                                     *)
WorkerRuns ==
  /\ \/ Skip \/ Drop \/ StartOpen \/ StartCapture \/ Closed \/ Opened
     \/ at # NoStream /\ Settle
  /\ Answered
  /\ Tracked
  /\ UNCHANGED <<store, panel, inbox, clock, acts>>

WorkerFails ==
  /\ Act("fault")
  /\ \/ at = NoStream /\ Settle
     \/ \E healing, settling \in BOOLEAN : DecoderFails(healing, settling)
  /\ Answered
  /\ Tracked
  /\ UNCHANGED <<store, panel, inbox, clock>>

PanelNext ==
  \/ \E c \in Times : Scrub(c)
  \/ Advance \/ TogglePlay
  \/ SendOpen \/ OpenReturns \/ TimerFires \/ Retry \/ Unmount
  \/ \E name \in {"open", "seek", "close"} : ReceiveOperation(name)
  \/ ReceiveSetCursor \/ ReceiveSetPlayback
  \/ \E ns \in Times : BlitClockTick(ns)
  \/ WorkerRuns \/ WorkerFails

PanelSpec == PanelInit /\ [][PanelNext]_panelVars

(* Calls arrive, the worker runs, timers fire and promises resolve; the    *)
(* user owes nothing.                                                      *)
FairPanelSpec ==
  /\ PanelSpec
  /\ WF_panelVars(SendOpen) /\ WF_panelVars(OpenReturns) /\ WF_panelVars(TimerFires)
  /\ WF_panelVars(\E name \in {"open", "seek", "close"} : ReceiveOperation(name))
  /\ WF_panelVars(ReceiveSetCursor) /\ WF_panelVars(ReceiveSetPlayback)
  /\ WF_panelVars(WorkerRuns)

-----------------------------------------------------------------------------
PanelTypeOK ==
  /\ TypeOK
  /\ store \in [cursor : Times, playing : BOOLEAN]
  /\ panel \in PanelState
  /\ inbox \in Seq(CallTypes)
  /\ reply \in {"none", "opened", "failed"}
  /\ clock \in [playing : BOOLEAN, lastSet : Times \cup {0}, now : Nat]
  /\ reach \in Nat
  /\ acts \in [count : 0..MaxActs, patient : BOOLEAN]

(* The worker plays exactly when the session does, whatever the user       *)
(* toggled while the panel opened (the hand-off after open(), and the      *)
(* subscription).                                                          *)
PlaybackAgrees == panel.phase = "open" /\ inbox = <<>> => clock.playing = store.playing

(* The target the panel's duplicate guard compares with is where the       *)
(* stream was opened last.                                                 *)
BeliefHolds == Settled /\ at # NoStream => panel.target = at

(* "the worker's view of the cursor never drifts more than a frame behind  *)
(* reality": once nothing is under way and the session is paused, the      *)
(* cursor the worker blits for is the session's, to SETCURSOR_DELTA.       *)
CursorFresh == Settled /\ ~store.playing => Distance(cursor, store.cursor) < SETCURSOR_DELTA

(* CursorFresh as far as the code keeps it: every jump so far waited for   *)
(* the seek before it and went SETCURSOR_DELTA or further.                 *)
PatientCursorFresh == acts.patient => CursorFresh

(* The open stream can show the session's cursor: it starts at or before   *)
(* it, and has not been played on past it, to AHEAD_MARGIN.  "The panel's  *)
(* guard blocks a seek" to a value "that was already blit-aligned" (docs/  *)
(* book/09-video-pipeline.md:357-359): it blocks those played past, too.   *)
StreamServesCursor ==
  Settled /\ ~store.playing /\ at # NoStream =>
    at <= store.cursor /\ reach <= store.cursor + AHEAD_MARGIN

(* An unmounted panel leaves no stream open, whatever was under way: its   *)
(* close() comes after everything else it asked for.                       *)
GoneIsClosed == panel.phase = "gone" /\ inbox = <<>> /\ queue = <<>> => at = NoStream

(* Whatever was asked for comes to rest: no call, timer or answer is lost. *)
UnderWay == panel.timer \/ inbox # <<>> \/ queue # <<>> \/ reply # "none"

ComesToRest == UnderWay ~> ~UnderWay
===============================================================================
