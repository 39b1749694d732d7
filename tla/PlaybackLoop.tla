---------------------------- MODULE PlaybackLoop ----------------------------
(***************************************************************************)
(* The playback loop (timeline/playback.ts, startPlaybackLoop): while the  *)
(* session plays it moves the store's cursor by the wall clock, from an    *)
(* anchor it takes when playback starts, and holds it while a bound video  *)
(* panel waits for its decoder.  The store (state/store.ts) clamps, stops  *)
(* at the end of the session and notifies the loop of every change.        *)
(*                                                                         *)
(* A unit of time is a millisecond or any multiple of it; what an anchor   *)
(* has played is the time since it was taken, times its speed.             *)
(***************************************************************************)
EXTENDS Integers

CONSTANTS
  EndNs,   \* the session's range is 0..EndNs
  Panels,  \* bound video panels
  Speeds,  \* playback speeds
  MaxGap   \* bound on the time between two steps of the loop

ASSUME EndAssumption == EndNs \in Nat \ {0}
ASSUME SpeedsAssumption == Speeds # {} /\ Speeds \subseteq Nat \ {0}
ASSUME GapAssumption == MaxGap \in Nat \ {0}

VARIABLES
  store,     \* cursorNs, playing and speed
  loop,      \* wired, and the animation frame and timer armed or not
  anchor,    \* anchor and lastWritten, or NoAnchor
  registry,  \* the readiness each panel published last
  since      \* history: time since the loop last looked at the clock

loopVars == <<store, loop, anchor, registry, since>>

NoAnchor == [cursor |-> -1, played |-> 0, speed |-> 0, written |-> -1]

AnchorState ==
  {NoAnchor} \cup [cursor : 0..EndNs, played : Nat, speed : Speeds, written : Nat]

(* "none": the panel is bound but not mounted.                             *)
ReadyState == {"none", "ready", "waiting", "stalled", "uncovered", "absent"}

Clamp(ns) == IF ns > EndNs THEN EndNs ELSE ns

Capture(s) == [cursor |-> s.cursor, played |-> 0, speed |-> s.speed, written |-> s.cursor]

Init ==
  /\ \E c \in 0..EndNs, p \in BOOLEAN, v \in Speeds :
       store = [cursor |-> c, playing |-> p /\ c < EndNs, speed |-> v]
  /\ loop = [wired |-> FALSE, armed |-> FALSE]
  /\ anchor = NoAnchor
  /\ registry \in [Panels -> {"none"}]
  /\ since = 0

Stopped == anchor' = NoAnchor /\ loop' = [loop EXCEPT !.armed = FALSE] /\ since' = 0

(* A new speed, or a cursor that is not the loop's own last write.         *)
Jumps(new) ==
  \/ new.speed # store.speed
  \/ new.cursor # store.cursor /\ new.cursor # anchor.written

(* The loop's subscription hears that the store becomes new.               *)
Heard(new) ==
  CASE ~loop.wired -> UNCHANGED <<loop, anchor, since>>
    [] loop.wired /\ new.playing /\ (~store.playing \/ Jumps(new)) ->
         /\ anchor' = Capture(new)
         /\ loop' = [loop EXCEPT !.armed = @ \/ ~store.playing]
         /\ since' = 0
    [] loop.wired /\ ~new.playing /\ store.playing -> Stopped
    [] OTHER -> UNCHANGED <<loop, anchor, since>>

-----------------------------------------------------------------------------
(* What the user and other code do to the store.                           *)

StoreBecomes(new) ==
  /\ store' = new
  /\ Heard(new)
  /\ UNCHANGED registry

(* At the end of the session play rewinds.                                 *)
Play ==
  /\ ~store.playing
  /\ StoreBecomes([store EXCEPT !.playing = TRUE,
                                !.cursor = IF @ >= EndNs THEN 0 ELSE @])

Pause == store.playing /\ StoreBecomes([store EXCEPT !.playing = FALSE])

SetSpeed(v) == v # store.speed /\ StoreBecomes([store EXCEPT !.speed = v])

(* A scrub; a jump to the end stops playback.                              *)
SetCursor(c) ==
  StoreBecomes([store EXCEPT !.cursor = c, !.playing = @ /\ c # EndNs])

-----------------------------------------------------------------------------
(* The loop.                                                               *)

Blocks(p) == registry[p] \in {"waiting", "absent"}

Gated == \E p \in Panels : Blocks(p)

\* Mutant: the loop forgets to schedule itself while it holds the cursor.
HoldOnce ==
  /\ anchor' = [anchor EXCEPT !.cursor = store.cursor, !.played = 0, !.written = store.cursor]
  /\ since' = 0
  /\ loop' = [loop EXCEPT !.armed = FALSE]
  /\ UNCHANGED store

\* Mutant: only the wall clock is re-anchored, not the cursor it counts from.
HoldClock ==
  /\ anchor' = [anchor EXCEPT !.played = 0, !.written = store.cursor]
  /\ since' = 0
  /\ UNCHANGED <<loop, store>>

(* Held: the anchor moves to the cursor and to now.                        *)
Hold ==
  /\ anchor' = [anchor EXCEPT !.cursor = store.cursor, !.played = 0, !.written = store.cursor]
  /\ since' = 0
  /\ UNCHANGED <<loop, store>>

\* Mutant: the cursor is not clamped to the session's end.
AdvanceUnclamped ==
  LET next == anchor.cursor + anchor.played
  IN /\ store' = [store EXCEPT !.cursor = next, !.playing = next # EndNs]
     /\ IF next = EndNs
        THEN Stopped
        ELSE /\ anchor' = [anchor EXCEPT !.written = next]
             /\ since' = 0
             /\ UNCHANGED loop

(* Not held: advanceCursor writes the clamped position, which at the end   *)
(* of the session stops playback and the loop.                             *)
AdvanceCursor ==
  LET next == anchor.cursor + anchor.played
  IN /\ store' = [store EXCEPT !.cursor = Clamp(next), !.playing = Clamp(next) # EndNs]
     /\ IF Clamp(next) = EndNs
        THEN Stopped
        ELSE /\ anchor' = [anchor EXCEPT !.written = next]
             /\ since' = 0
             /\ UNCHANGED loop

Tick ==
  /\ loop.armed
  /\ IF Gated THEN Hold ELSE AdvanceCursor
  /\ UNCHANGED registry

(* startPlaybackLoop, over a store that may already be playing.            *)
Wire ==
  /\ ~loop.wired
  /\ loop' = [wired |-> TRUE, armed |-> store.playing]
  /\ anchor' = IF store.playing THEN Capture(store) ELSE NoAnchor
  /\ since' = 0
  /\ UNCHANGED <<store, registry>>

Unwire ==
  /\ loop.wired
  /\ loop' = [wired |-> FALSE, armed |-> FALSE]
  /\ anchor' = NoAnchor
  /\ since' = 0
  /\ UNCHANGED <<store, registry>>

-----------------------------------------------------------------------------
(* The wall clock, and the panels' own ticks.                              *)

Elapse(d) ==
  /\ loop.armed
  /\ since + d <= MaxGap
  /\ since' = since + d
  /\ anchor' = [anchor EXCEPT !.played = @ + d * anchor.speed]
  /\ UNCHANGED <<store, loop, registry>>

(* setPanelReadiness and clearPanelReadiness.                              *)
Publish(p, state) ==
  /\ registry' = [registry EXCEPT ![p] = state]
  /\ UNCHANGED <<store, loop, anchor, since>>

Next ==
  \/ Play \/ Pause \/ Tick \/ Wire \/ Unwire
  \/ \E v \in Speeds : SetSpeed(v)
  \/ \E c \in 0..EndNs : SetCursor(c)
  \/ \E d \in 1..MaxGap : Elapse(d)
  \/ \E p \in Panels, s \in ReadyState : Publish(p, s)

Spec == Init /\ [][Next]_loopVars

-----------------------------------------------------------------------------
TypeOK ==
  /\ store \in [cursor : 0..EndNs, playing : BOOLEAN, speed : Speeds]
  /\ loop \in [wired : BOOLEAN, armed : BOOLEAN]
  /\ anchor \in AnchorState
  /\ registry \in [Panels -> ReadyState]
  /\ since \in 0..MaxGap

(* The loop runs exactly while it is wired and the session plays: no       *)
(* change of the store, and no hold, leaves it stopped or running twice.   *)
RunsWhilePlaying ==
  /\ loop.armed <=> loop.wired /\ store.playing
  /\ loop.armed <=> anchor # NoAnchor

(* A tick that is not held moves the cursor by the time since the loop     *)
(* last looked at the clock, times the speed: a scrub, a change of speed,  *)
(* a hold or a pause is neither overwritten from an old anchor nor caught  *)
(* up on, and nothing of the time between two ticks is lost.               *)
TicksAtSpeed ==
  [][Tick => store'.cursor = IF Gated THEN store.cursor
                             ELSE Clamp(store.cursor + since * store.speed)]_loopVars
===============================================================================
