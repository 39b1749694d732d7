------------------------------ MODULE Views_proofs ------------------------------
(***************************************************************************)
(* Proofs about the views of a session that MCViews runs one at a time:    *)
(* the playback loop, for every session, set of panels and speeds and      *)
(* every gap between two ticks; the waiting dot, for every set of panels;  *)
(* the viewers of LiDAR spins, for all channels and times; a panel of      *)
(* channels, for all of its kinds, channels and bindings; and FrameBlit,   *)
(* for every set of frames, every hold and every order in which the        *)
(* decoder outputs the frames.                                             *)
(***************************************************************************)
EXTENDS MCViews, FiniteFolds, WellFoundedInduction

-----------------------------------------------------------------------------
(* TicksAtSpeed needs to know where an anchor points.  While the loop is   *)
(* armed, the time an anchor has played leads from its cursor to the       *)
(* store's and on by what has passed since the loop last looked at the     *)
(* clock; it has the store's speed; and the loop's last write is the       *)
(* store's cursor, so that a scrub never looks like the loop's own write.  *)
Anchored ==
  loop.armed =>
    /\ anchor.cursor + anchor.played = store.cursor + loopSince * store.speed
    /\ anchor.speed = store.speed
    /\ anchor.written = store.cursor

LoopInv == Loop!TypeOK /\ Loop!RunsWhilePlaying /\ Anchored

StoreType == [cursor : 0..LoopEnd, playing : BOOLEAN, speed : Speeds]

-----------------------------------------------------------------------------
(* The products of speed and time the proofs need.                         *)
LEMMA TimesSpeed ==
  ASSUME NEW v \in Speeds, NEW d \in Nat, NEW e \in Nat
  PROVE  /\ v \in Nat
         /\ d * v \in Nat
         /\ 0 * v = 0
         /\ (e + d) * v = e * v + d * v
  BY LoopConstants, SMT

LEMMA CaptureOK ==
  ASSUME NEW s \in StoreType
  PROVE  /\ Loop!Capture(s) \in Loop!AnchorState
         /\ Loop!Capture(s) # Loop!NoAnchor
         /\ Loop!Capture(s).cursor + Loop!Capture(s).played = s.cursor + 0 * s.speed
         /\ Loop!Capture(s).speed = s.speed
         /\ Loop!Capture(s).written = s.cursor
<1>1. s.cursor \in Nat /\ s.cursor \in 0..LoopEnd /\ s.speed \in Speeds
  BY LoopConstants DEF StoreType
<1>2. 0 * s.speed = 0
  BY <1>1, TimesSpeed
<1>3. Loop!Capture(s) \in Loop!AnchorState
  BY <1>1 DEF Loop!Capture, Loop!AnchorState
<1> QED
  BY <1>1, <1>2, <1>3 DEF Loop!Capture, Loop!NoAnchor

LEMMA ClampOK ==
  ASSUME NEW n \in Nat
  PROVE  /\ Loop!Clamp(n) \in 0..LoopEnd
         /\ Loop!Clamp(n) # LoopEnd => Loop!Clamp(n) = n
  BY LoopConstants DEF Loop!Clamp

-----------------------------------------------------------------------------
(* A change of the store from outside: whatever it is, the subscription    *)
(* leaves the loop running exactly if it should, anchored where it should. *)
LEMMA StoreBecomesInv ==
  ASSUME LoopInv, NEW new \in StoreType, Loop!StoreBecomes(new)
  PROVE  LoopInv'
<1>1. store' = new /\ registry' = registry /\ Loop!Heard(new)
  BY DEF Loop!StoreBecomes
<1>2. new.playing \in BOOLEAN /\ store.playing \in BOOLEAN /\ loop.wired \in BOOLEAN
  BY DEF LoopInv, Loop!TypeOK, StoreType
<1>3. CASE ~loop.wired
  <2>1. UNCHANGED <<loop, anchor, loopSince>> /\ ~loop.armed
    BY <1>1, <1>3 DEF Loop!Heard, LoopInv, Loop!RunsWhilePlaying, Loop!TypeOK
  <2> QED
    BY <1>1, <1>3, <2>1 DEF LoopInv, Loop!TypeOK, Loop!RunsWhilePlaying, Anchored, StoreType
<1>4. CASE loop.wired /\ new.playing /\ (~store.playing \/ Loop!Jumps(new))
  <2>1. /\ anchor' = Loop!Capture(new)
        /\ loop' = [loop EXCEPT !.armed = @ \/ ~store.playing]
        /\ loopSince' = 0
    BY <1>1, <1>4 DEF Loop!Heard
  <2>2. loop.armed <=> store.playing
    BY <1>4 DEF LoopInv, Loop!RunsWhilePlaying
  <2>3. loop' = [wired |-> TRUE, armed |-> TRUE]
    BY <1>2, <1>4, <2>1, <2>2 DEF LoopInv, Loop!TypeOK
  <2>4. Loop!TypeOK'
    BY <1>1, <2>1, <2>3, CaptureOK, LoopConstants DEF LoopInv, Loop!TypeOK, StoreType
  <2>5. Loop!RunsWhilePlaying'
    BY <1>1, <1>4, <2>1, <2>3, CaptureOK DEF Loop!RunsWhilePlaying
  <2>6. Anchored'
    BY <1>1, <2>1, CaptureOK DEF Anchored
  <2> QED
    BY <2>4, <2>5, <2>6 DEF LoopInv
<1>5. CASE loop.wired /\ ~new.playing /\ store.playing
  <2>1. Loop!Stopped
    BY <1>1, <1>5 DEF Loop!Heard
  <2>2. anchor' = Loop!NoAnchor /\ loop' = [loop EXCEPT !.armed = FALSE] /\ loopSince' = 0
    BY <2>1 DEF Loop!Stopped
  <2>3. loop' \in [wired : BOOLEAN, armed : BOOLEAN] /\ ~loop'.armed
    BY <2>2 DEF LoopInv, Loop!TypeOK
  <2>4. Loop!TypeOK'
    BY <1>1, <2>2, <2>3, LoopConstants DEF LoopInv, Loop!TypeOK, StoreType, Loop!AnchorState
  <2> QED
    BY <1>1, <1>5, <2>2, <2>3, <2>4 DEF LoopInv, Loop!RunsWhilePlaying, Anchored
<1>6. CASE loop.wired /\ new.playing /\ store.playing /\ ~Loop!Jumps(new)
  <2>1. UNCHANGED <<loop, anchor, loopSince>>
    BY <1>1, <1>6 DEF Loop!Heard
  <2>2. loop.armed
    BY <1>6 DEF LoopInv, Loop!RunsWhilePlaying
  <2>3. new.speed = store.speed /\ new.cursor = store.cursor
    BY <1>6, <2>2 DEF Loop!Jumps, LoopInv, Anchored
  <2> QED
    BY <1>1, <1>6, <2>1, <2>3 DEF LoopInv, Loop!TypeOK, Loop!RunsWhilePlaying, Anchored, StoreType
<1>7. CASE loop.wired /\ ~new.playing /\ ~store.playing
  <2>1. UNCHANGED <<loop, anchor, loopSince>>
    BY <1>1, <1>7 DEF Loop!Heard
  <2> QED
    BY <1>1, <1>7, <2>1 DEF LoopInv, Loop!TypeOK, Loop!RunsWhilePlaying, Anchored, StoreType
<1> QED
  BY <1>2, <1>3, <1>4, <1>5, <1>6, <1>7

LEMMA UserInv ==
  ASSUME LoopInv,
         \/ Loop!Play \/ Loop!Pause
         \/ \E v \in Speeds : Loop!SetSpeed(v)
         \/ \E c \in 0..LoopEnd : Loop!SetCursor(c)
  PROVE  LoopInv'
<1>0. store \in StoreType
  BY DEF LoopInv, Loop!TypeOK, StoreType
<1>1. CASE Loop!Play
  <2> DEFINE new == [store EXCEPT !.playing = TRUE,
                                  !.cursor = IF @ >= LoopEnd THEN 0 ELSE @]
  <2>0. 0 \in 0..LoopEnd /\ store.cursor \in 0..LoopEnd
    BY <1>0, LoopConstants DEF StoreType
  <2>1. new \in StoreType
    <3>1. CASE store.cursor >= LoopEnd
      <4>1. new = [store EXCEPT !.playing = TRUE, !.cursor = 0]
        BY <3>1
      <4> QED
        BY <1>0, <2>0, <4>1 DEF StoreType
    <3>2. CASE ~(store.cursor >= LoopEnd)
      <4>1. new = [store EXCEPT !.playing = TRUE, !.cursor = store.cursor]
        BY <3>2
      <4> QED
        BY <1>0, <2>0, <4>1 DEF StoreType
    <3> QED
      BY <3>1, <3>2
  <2> QED
    BY <1>1, <2>1, StoreBecomesInv DEF Loop!Play
<1>2. CASE Loop!Pause
  <2>1. [store EXCEPT !.playing = FALSE] \in StoreType
    BY <1>0 DEF StoreType
  <2> QED
    BY <1>2, <2>1, StoreBecomesInv DEF Loop!Pause
<1>3. ASSUME NEW v \in Speeds, Loop!SetSpeed(v) PROVE LoopInv'
  <2>1. [store EXCEPT !.speed = v] \in StoreType
    BY <1>0 DEF StoreType
  <2> QED
    BY <1>3, <2>1, StoreBecomesInv DEF Loop!SetSpeed
<1>4. ASSUME NEW c \in 0..LoopEnd, Loop!SetCursor(c) PROVE LoopInv'
  <2>1. [store EXCEPT !.cursor = c, !.playing = @ /\ c # LoopEnd] \in StoreType
    BY <1>0 DEF StoreType
  <2> QED
    BY <1>4, <2>1, StoreBecomesInv DEF Loop!SetCursor
<1> QED
  BY <1>1, <1>2, <1>3, <1>4

-----------------------------------------------------------------------------
(* The values an armed loop computes with.                                 *)
LEMMA ArmedValues ==
  ASSUME LoopInv, loop.armed
  PROVE  /\ loop.wired /\ store.playing
         /\ anchor.cursor \in Nat /\ anchor.played \in Nat /\ anchor.speed \in Speeds
         /\ anchor # Loop!NoAnchor
         /\ anchor \in [cursor : 0..LoopEnd, played : Nat, speed : Speeds, written : Nat]
         /\ store.cursor \in Nat /\ store.cursor \in 0..LoopEnd /\ store.speed \in Speeds
         /\ loopSince \in Nat
<1>1. anchor # Loop!NoAnchor /\ loop.wired /\ store.playing
  BY DEF LoopInv, Loop!RunsWhilePlaying
<1>2. anchor \in [cursor : 0..LoopEnd, played : Nat, speed : Speeds, written : Nat]
  BY <1>1 DEF LoopInv, Loop!TypeOK, Loop!AnchorState
<1>3. anchor.cursor \in 0..LoopEnd /\ anchor.played \in Nat /\ anchor.speed \in Speeds
  BY <1>2
<1>4. store.cursor \in 0..LoopEnd /\ store.speed \in Speeds /\ loopSince \in 0..MaxGap
  BY DEF LoopInv, Loop!TypeOK
<1> QED
  BY <1>1, <1>2, <1>3, <1>4, LoopConstants, LoopConstants

LEMMA HoldInv ==
  ASSUME LoopInv, loop.armed, Loop!Hold, UNCHANGED registry
  PROVE  LoopInv'
<1>1. /\ anchor' = [anchor EXCEPT !.cursor = store.cursor, !.played = 0,
                                  !.written = store.cursor]
      /\ loopSince' = 0 /\ loop' = loop /\ store' = store
  BY DEF Loop!Hold
<1>2. anchor' = [cursor |-> store.cursor, played |-> 0, speed |-> anchor.speed,
                 written |-> store.cursor]
  BY <1>1, ArmedValues
<1>3. anchor' \in Loop!AnchorState /\ anchor' # Loop!NoAnchor
  BY <1>2, ArmedValues DEF Loop!AnchorState, Loop!NoAnchor
<1>4. Loop!TypeOK'
  BY <1>1, <1>3, LoopConstants DEF LoopInv, Loop!TypeOK
<1>5. Loop!RunsWhilePlaying'
  BY <1>1, <1>3 DEF LoopInv, Loop!RunsWhilePlaying
<1>6. Anchored'
  <2>1. 0 * store.speed = 0
    BY ArmedValues, TimesSpeed
  <2> QED
    BY <1>1, <1>2, <2>1, ArmedValues DEF LoopInv, Anchored
<1> QED
  BY <1>4, <1>5, <1>6 DEF LoopInv

LEMMA AdvanceInv ==
  ASSUME LoopInv, loop.armed, Loop!AdvanceCursor, UNCHANGED registry
  PROVE  LoopInv'
<1> DEFINE next == anchor.cursor + anchor.played
<1>1. next \in Nat
  BY ArmedValues
<1>2. store' = [store EXCEPT !.cursor = Loop!Clamp(next), !.playing = Loop!Clamp(next) # LoopEnd]
  BY DEF Loop!AdvanceCursor
<1>3. store' \in StoreType
  BY <1>1, <1>2, ClampOK DEF LoopInv, Loop!TypeOK, StoreType
<1>4. CASE Loop!Clamp(next) = LoopEnd
  <2>1. Loop!Stopped /\ ~store'.playing
    BY <1>2, <1>4 DEF Loop!AdvanceCursor, LoopInv, Loop!TypeOK
  <2>2. anchor' = Loop!NoAnchor /\ loop' = [loop EXCEPT !.armed = FALSE] /\ loopSince' = 0
    BY <2>1 DEF Loop!Stopped
  <2>3. loop' \in [wired : BOOLEAN, armed : BOOLEAN] /\ ~loop'.armed
    BY <2>2 DEF LoopInv, Loop!TypeOK
  <2>4. Loop!TypeOK'
    BY <1>3, <2>2, <2>3, LoopConstants DEF LoopInv, Loop!TypeOK, StoreType, Loop!AnchorState
  <2> QED
    BY <2>1, <2>2, <2>3, <2>4 DEF LoopInv, Loop!RunsWhilePlaying, Anchored
<1>5. CASE Loop!Clamp(next) # LoopEnd
  <2>1. /\ anchor' = [anchor EXCEPT !.written = next]
        /\ loopSince' = 0 /\ loop' = loop
    BY <1>5 DEF Loop!AdvanceCursor
  <2>2. store'.cursor = next /\ store'.playing /\ store'.speed = store.speed
    BY <1>1, <1>2, <1>5, ClampOK DEF LoopInv, Loop!TypeOK
  <2>3. /\ anchor'.cursor = anchor.cursor /\ anchor'.played = anchor.played
        /\ anchor'.speed = anchor.speed /\ anchor'.written = next
        /\ anchor' \in Loop!AnchorState /\ anchor'.cursor # -1
    BY <1>1, <2>1, ArmedValues DEF Loop!AnchorState
  <2>4. Loop!TypeOK'
    BY <1>3, <2>1, <2>3, LoopConstants DEF LoopInv, Loop!TypeOK, StoreType
  <2>5. Loop!RunsWhilePlaying'
    BY <2>1, <2>2, <2>3, ArmedValues DEF Loop!RunsWhilePlaying, Loop!NoAnchor
  <2>6. Anchored'
    <3>1. 0 * store.speed = 0
      BY ArmedValues, TimesSpeed
    <3> QED
      BY <1>1, <2>1, <2>2, <2>3, <3>1 DEF LoopInv, Anchored
  <2> QED
    BY <2>4, <2>5, <2>6 DEF LoopInv
<1> QED
  BY <1>4, <1>5

LEMMA ElapseInv ==
  ASSUME LoopInv, NEW d \in 1..MaxGap, Loop!Elapse(d)
  PROVE  LoopInv'
<1>1. /\ loop.armed /\ loopSince + d <= MaxGap /\ loopSince' = loopSince + d
      /\ anchor' = [anchor EXCEPT !.played = @ + d * anchor.speed]
      /\ store' = store /\ loop' = loop /\ registry' = registry
  BY DEF Loop!Elapse
<1>2. d \in Nat /\ loopSince \in Nat
  BY <1>1, ArmedValues, LoopConstants
<1>3. d * anchor.speed \in Nat
  BY <1>1, <1>2, ArmedValues, TimesSpeed
<1>4. /\ anchor'.cursor = anchor.cursor /\ anchor'.speed = anchor.speed
      /\ anchor'.written = anchor.written
      /\ anchor'.played = anchor.played + d * anchor.speed
      /\ anchor' \in Loop!AnchorState /\ anchor'.cursor # -1
  BY <1>1, <1>3, ArmedValues DEF Loop!AnchorState
<1>5. Loop!TypeOK'
  BY <1>1, <1>2, <1>4, LoopConstants DEF LoopInv, Loop!TypeOK
<1>6. Loop!RunsWhilePlaying'
  BY <1>1, <1>4 DEF LoopInv, Loop!RunsWhilePlaying, Loop!NoAnchor
<1>7. Anchored'
  <2>1. (loopSince + d) * store.speed = loopSince * store.speed + d * store.speed
    BY <1>1, <1>2, ArmedValues, TimesSpeed
  <2>2. loopSince * store.speed \in Nat /\ d * store.speed \in Nat
    BY <1>1, <1>2, ArmedValues, TimesSpeed
  <2>3. anchor.cursor + anchor.played = store.cursor + loopSince * store.speed
    BY <1>1 DEF LoopInv, Anchored
  <2>4. anchor.speed = store.speed /\ anchor.written = store.cursor
    BY <1>1 DEF LoopInv, Anchored
  <2> QED
    BY <1>1, <1>4, <2>1, <2>2, <2>3, <2>4, ArmedValues DEF Anchored
<1> QED
  BY <1>5, <1>6, <1>7 DEF LoopInv

LEMMA WireInv ==
  ASSUME LoopInv, Loop!Wire \/ Loop!Unwire
  PROVE  LoopInv'
<1>1. store \in StoreType
  BY DEF LoopInv, Loop!TypeOK, StoreType
<1>2. CASE Loop!Wire
  BY <1>1, <1>2, CaptureOK, LoopConstants
  DEF Loop!Wire, LoopInv, Loop!TypeOK, Loop!RunsWhilePlaying, Anchored, StoreType, Loop!AnchorState
<1>3. CASE Loop!Unwire
  BY <1>3, LoopConstants
  DEF Loop!Unwire, LoopInv, Loop!TypeOK, Loop!RunsWhilePlaying, Anchored, Loop!AnchorState
<1> QED
  BY <1>2, <1>3

-----------------------------------------------------------------------------
LEMMA LoopInitInv ==
  ASSUME Loop!Init
  PROVE  LoopInv
<1>1. /\ loop = [wired |-> FALSE, armed |-> FALSE] /\ anchor = Loop!NoAnchor /\ loopSince = 0
      /\ store \in StoreType
  BY DEF Loop!Init, StoreType
<1>2. registry \in [VideoPanels -> Loop!ReadyState]
  BY DEF Loop!Init, Loop!ReadyState
<1> QED
  BY <1>1, <1>2, LoopConstants
  DEF LoopInv, Loop!TypeOK, Loop!RunsWhilePlaying, Anchored, StoreType, Loop!AnchorState

LEMMA LoopStepInv ==
  ASSUME LoopInv, [Loop!Next]_(Loop!loopVars)
  PROVE  LoopInv'
<1>1. CASE \/ Loop!Play \/ Loop!Pause
           \/ \E v \in Speeds : Loop!SetSpeed(v)
           \/ \E c \in 0..LoopEnd : Loop!SetCursor(c)
  BY <1>1, UserInv
<1>2. CASE Loop!Tick
  BY <1>2, HoldInv, AdvanceInv DEF Loop!Tick
<1>3. CASE Loop!Wire \/ Loop!Unwire
  BY <1>3, WireInv
<1>4. CASE \E d \in 1..MaxGap : Loop!Elapse(d)
  BY <1>4, ElapseInv
<1>5. CASE \E p \in VideoPanels, s \in Loop!ReadyState : Loop!Publish(p, s)
  BY <1>5 DEF Loop!Publish, LoopInv, Loop!TypeOK, Loop!RunsWhilePlaying, Anchored
<1>6. CASE UNCHANGED Loop!loopVars
  BY <1>6 DEF Loop!loopVars, LoopInv, Loop!TypeOK, Loop!RunsWhilePlaying, Anchored
<1> QED
  BY <1>1, <1>2, <1>3, <1>4, <1>5, <1>6 DEF Loop!Next

(* The loop's types, and anchors that lead to where the loop last looked.  *)
THEOREM LoopInductive == Loop!Spec => []LoopInv
<1>1. Loop!Init => LoopInv
  BY LoopInitInv
<1>2. LoopInv /\ [Loop!Next]_(Loop!loopVars) => LoopInv'
  BY LoopStepInv
<1> QED
  BY <1>1, <1>2, PTL DEF Loop!Spec

(* The loop's variables keep their types, the anchor included.             *)
THEOREM LoopTypeOK == Loop!Spec => []Loop!TypeOK
<1>1. LoopInv => Loop!TypeOK
  BY DEF LoopInv
<1> QED
  BY <1>1, LoopInductive, PTL

(* The loop is armed, and has an anchor, exactly while it is wired and the *)
(* session plays.                                                          *)
THEOREM LoopRuns == Loop!Spec => []Loop!RunsWhilePlaying
<1>1. LoopInv => Loop!RunsWhilePlaying
  BY DEF LoopInv
<1> QED
  BY <1>1, LoopInductive, PTL

(* Every tick moves the cursor by exactly the time since the loop last     *)
(* looked at the clock, times the speed, clamped; or not at all.           *)
THEOREM LoopTicksAtSpeed == Loop!Spec => TicksAtSpeed
<1> DEFINE Moves ==
      Loop!Tick => store'.cursor = IF Loop!Gated THEN store.cursor
                              ELSE Loop!Clamp(store.cursor + loopSince * store.speed)
<1>1. LoopInv /\ Loop!Next => Moves
  <2> SUFFICES ASSUME LoopInv, Loop!Tick
               PROVE  store'.cursor = IF Loop!Gated THEN store.cursor
                                      ELSE Loop!Clamp(store.cursor + loopSince * store.speed)
    OBVIOUS
  <2>1. CASE Loop!Gated
    BY <2>1 DEF Loop!Tick, Loop!Hold
  <2>2. CASE ~Loop!Gated
    BY <2>2 DEF Loop!Tick, Loop!AdvanceCursor, LoopInv, Anchored, Loop!TypeOK
  <2> QED
    BY <2>1, <2>2
<1>2. LoopInv /\ [Loop!Next]_(Loop!loopVars) => [Moves]_(Loop!loopVars)
  BY <1>1
<1> QED
  BY <1>2, LoopInductive, PTL DEF Loop!Spec, TicksAtSpeed, Loop!TicksAtSpeed

-----------------------------------------------------------------------------
(* What has still to happen for the dot to be right: as long as no         *)
(* notification is due, a panel that waits has the dot on or the timer     *)
(* that turns it on set; if none does that timer is not set, and a dot     *)
(* that is on has its other timer set.                                     *)
DotPending ==
  /\ Dot!Waiting => visible \/ show
  /\ ~ Dot!Waiting => ~ show /\ (visible => hide)

DotInv == ~ notify /\ ~ crossed => DotPending

LEMMA InitDotPending == Dot!Init => DotInv
BY DEF Dot!Init, DotInv, DotPending, Dot!Waiting

(* A notification that sees the dot as it is sets the timers right.        *)
LEMMA NotifyDotPending == ASSUME Dot!Notify, ~ crossed' PROVE DotPending'
<1>1. visible = drawn /\ visible' = visible /\ (Dot!Waiting' <=> Dot!Waiting)
  BY DEF Dot!Notify, Dot!Waiting
<1>2. CASE Dot!Waiting
  <2>1. show' = (show \/ ~ drawn)
    BY <1>2 DEF Dot!Notify, Dot!Wanted
  <2>2. CASE drawn
    BY <1>1, <1>2, <2>2 DEF DotPending
  <2>3. CASE ~ drawn
    <3>1. show'
      BY <2>1, <2>3, Zenon
    <3> QED BY <1>1, <1>2, <3>1 DEF DotPending
  <2> QED BY <2>2, <2>3
<1>3. CASE ~ Dot!Waiting
  <2>1. ~ show' /\ hide' = (hide \/ drawn)
    BY <1>3 DEF Dot!Notify, Dot!Quiet
  <2>2. visible' => hide'
    BY <1>1, <2>1, Zenon
  <2> QED BY <1>1, <1>3, <2>1, <2>2 DEF DotPending
<1> QED BY <1>2, <1>3

LEMMA StepDotPending == DotInv /\ [Dot!Next]_(Dot!vars) => DotInv'
<1> SUFFICES ASSUME DotInv, [Dot!Next]_(Dot!vars), ~ notify', ~ crossed' PROVE DotPending'
  BY DEF DotInv
<1>1. ASSUME NEW p \in VideoPanels, NEW state \in Dot!States, Dot!SetReadiness(p, state)
      PROVE  DotPending'
  BY <1>1 DEF Dot!SetReadiness
<1>2. CASE Dot!Notify
  BY <1>2, NotifyDotPending
<1>3. CASE Dot!ShowTimer
  <2>1. DotPending /\ Dot!Waiting /\ (Dot!Waiting' <=> Dot!Waiting)
    BY <1>3 DEF Dot!ShowTimer, DotInv, DotPending, Dot!Waiting
  <2> QED BY <1>3, <2>1 DEF Dot!ShowTimer, DotPending
<1>4. CASE Dot!HideTimer
  <2>1. DotPending /\ (Dot!Waiting' <=> Dot!Waiting)
    BY <1>4 DEF Dot!HideTimer, DotInv, Dot!Waiting
  <2> QED BY <1>4, <2>1 DEF Dot!HideTimer, DotPending
<1>5. CASE Dot!Render
  <2>1. DotPending /\ (Dot!Waiting' <=> Dot!Waiting)
    BY <1>5 DEF Dot!Render, DotInv, Dot!Waiting
  <2> QED BY <1>5, <2>1 DEF Dot!Render, DotPending
<1>6. CASE UNCHANGED Dot!vars
  BY <1>6 DEF Dot!vars, DotInv, DotPending, Dot!Waiting
<1> QED BY <1>1, <1>2, <1>3, <1>4, <1>5, <1>6 DEF Dot!Next

(* Once all timers and renderings are done the dot is on exactly if a      *)
(* panel waits, unless the last notification came between a timer and the  *)
(* rendering of what it set (Transport.tsx:69-97).                         *)
THEOREM DotFollows == Dot!Spec => []DotAgrees
<1>1. DotInv => DotAgrees
  BY DEF DotInv, DotPending, DotAgrees, Dot!DotAgrees, Dot!Settled
<1> QED BY <1>1, InitDotPending, StepDotPending, PTL DEF Dot!Spec

-----------------------------------------------------------------------------
(* A request number is used once, so whoever waits under the current one   *)
(* waits for what was last asked: of the scene, since it was last bound,   *)
(* the spin it takes for current.                                          *)
Spin(c, idx) == [ch |-> c, t |-> CloudTimes[c][idx]]

Waiter(ws, who, req) == {w \in ws : w.who = who /\ w.req = req}

WaitsFit(ws, rs, s, o) ==
  /\ \A w \in ws : Cloud!Same(w.read, Spin(w.ch, w.at)) /\ w.read \in rs
  /\ \A w \in ws : w.who = "scene" => w.req \in Nat /\ w.req <= s.req
  /\ \A w \in ws : w.who = "overlay" => w.req \in Nat /\ w.req <= o.req

Timed(s) == s.ch # Cloud!NoCloud /\ s.times /\ s.last # 0

SceneFields(s) ==
  /\ DOMAIN s = {"ch", "gl", "times", "lost", "last", "req", "failed", "shows"}
  /\ s.req \in Nat

SceneFits(s, ws, t) ==
  /\ SceneFields(s)
  /\ s.ch # Cloud!NoCloud /\ ~ s.times => s.last = 0
  /\ Timed(s) => s.last = Cloud!SpinAt(s.ch, t)
  /\ Timed(s) => \A w \in Waiter(ws, "scene", s.req) :
                   w.gl = s.gl /\ Cloud!Same(w.read, Spin(s.ch, s.last))
  /\ Timed(s) /\ ~ s.failed =>
       Waiter(ws, "scene", s.req) # {} \/ Cloud!Same(s.shows, Spin(s.ch, s.last))

OverlayFields(o) ==
  /\ DOMAIN o = {"ch", "ready", "last", "busy", "req", "late", "shows"}
  /\ o.req \in Nat

OverlayFits(o, ws) ==
  /\ OverlayFields(o)
  /\ o.busy => Waiter(ws, "overlay", o.req) # {}
  /\ (o.shows # Cloud!NoSpin /\ ~ o.late) => Cloud!Same(o.shows, Spin(o.ch, o.last))

CloudInv ==
  /\ WaitsFit(waits, reads, scene, overlay)
  /\ SceneFits(scene, waits, time)
  /\ OverlayFits(overlay, waits)

LEMMA CloudInitInv == Cloud!Init => CloudInv
<1> SUFFICES ASSUME Cloud!Init PROVE CloudInv
  OBVIOUS
<1>1. scene = Cloud!NewScene /\ overlay = Cloud!NewOverlay /\ waits = {}
  BY DEF Cloud!Init
<1>2. /\ SceneFields(Cloud!NewScene) /\ Cloud!NewScene.ch = Cloud!NoCloud
      /\ OverlayFields(Cloud!NewOverlay) /\ ~ Cloud!NewOverlay.busy /\ Cloud!NewOverlay.shows = Cloud!NoSpin
  BY DEF SceneFields, Cloud!NewScene, OverlayFields, Cloud!NewOverlay
<1> QED
  BY <1>1, <1>2 DEF CloudInv, WaitsFit, SceneFits, OverlayFits, Timed

(* A caller waits for a read of its spin, its own or one under way.        *)
LEMMA WaitsIs ==
  ASSUME NEW who, NEW req, NEW gl, NEW c, NEW idx, Cloud!Waits(who, req, gl, c, idx)
  PROVE  \E r : /\ Cloud!Same(r, Spin(c, idx)) /\ reads' = reads \cup {r}
                /\ waits' = waits \cup {[who |-> who, req |-> req, gl |-> gl, read |-> r,
                                         ch |-> c, at |-> idx]}
<1> DEFINE read == [ch |-> c, t |-> CloudTimes[c][idx], session |-> clouds]
           join == {r \in inflight : Cloud!Same(r, read)}
           for  == IF join = {} THEN read ELSE CHOOSE r \in join : TRUE
<1>1. Cloud!Same(for, read)
  BY DEF Cloud!Same
<1>2. /\ waits' = waits \cup {[who |-> who, req |-> req, gl |-> gl, read |-> for,
                               ch |-> c, at |-> idx]}
      /\ reads' = reads \cup {for}
  BY DEF Cloud!Waits
<1>3. read.ch = c /\ read.t = CloudTimes[c][idx]
  OBVIOUS
<1> HIDE DEF for, read
<1>4. Cloud!Same(for, Spin(c, idx))
  BY <1>1, <1>3 DEF Cloud!Same, Spin
<1> QED
  BY <1>2, <1>4

(* A frame for a cursor at `t`, of a scene that fits another one.          *)
LEMMA FrameFits ==
  ASSUME CloudInv, NEW s, NEW t, NEW u, SceneFits(s, waits, u), s.req = scene.req,
         Cloud!UpdateFrame(s, t), overlay' = overlay, time' = t
  PROVE  CloudInv'
<1> DEFINE idx == Cloud!SpinAt(s.ch, t)
<1>1. /\ WaitsFit(waits, reads, s, overlay) /\ OverlayFits(overlay, waits)
      /\ SceneFields(s) /\ s.req \in Nat
  BY DEF CloudInv, WaitsFit, SceneFits, SceneFields
<1>2. CASE s.ch = Cloud!NoCloud \/ ~ s.times \/ idx = s.last
  <2>1. scene' = s /\ waits' = waits /\ reads' = reads
    BY <1>2 DEF Cloud!UpdateFrame, Cloud!NoFetch
  <2>2. SceneFits(s, waits, t)
    BY <1>2 DEF SceneFits, Timed
  <2> QED
    BY <1>1, <2>1, <2>2 DEF CloudInv
<1>3. CASE s.ch # Cloud!NoCloud /\ s.times /\ idx # s.last /\ idx = 0
  <2>1. /\ scene' = [s EXCEPT !.last = 0, !.shows = Cloud!NoSpin, !.failed = FALSE]
        /\ waits' = waits /\ reads' = reads
    BY <1>3 DEF Cloud!UpdateFrame, Cloud!NoFetch
  <2>2. /\ scene'.last = 0 /\ scene'.req = s.req /\ SceneFields(scene')
    BY <1>1, <2>1 DEF SceneFields
  <2>3. SceneFits(scene', waits', time') /\ WaitsFit(waits', reads', scene', overlay')
    BY <1>1, <2>1, <2>2 DEF SceneFits, Timed, WaitsFit
  <2> QED
    BY <1>1, <2>1, <2>3 DEF CloudInv
<1>4. CASE s.ch # Cloud!NoCloud /\ s.times /\ idx # s.last /\ idx # 0
  <2> DEFINE ask == [s EXCEPT !.last = idx, !.req = @ + 1]
             hit == Cloud!Hit(s.ch, CloudTimes[s.ch][idx])
  <2>1. /\ SceneFields(ask) /\ ask.req = s.req + 1 /\ ask.last = idx /\ ask.ch = s.ch
        /\ ask.gl = s.gl /\ ask.times = s.times
    BY <1>1 DEF SceneFields
  <2>2. /\ hit = {} => scene' = ask /\ Cloud!Waits("scene", ask.req, s.gl, s.ch, idx)
        /\ hit # {} => /\ \E spin \in hit : scene' = [ask EXCEPT !.shows = spin, !.failed = FALSE]
                       /\ waits' = waits /\ reads' = reads
    BY <1>4 DEF Cloud!UpdateFrame
  <2> HIDE DEF ask
  <2>3. \A w \in waits : w.who = "scene" => w.req # ask.req /\ w.req \in Nat /\ w.req <= ask.req
    BY <1>1, <2>1 DEF WaitsFit
  <2>4. CASE hit = {}
    <3>1. PICK r : /\ Cloud!Same(r, Spin(s.ch, idx)) /\ reads' = reads \cup {r}
                   /\ waits' = waits \cup {[who |-> "scene", req |-> ask.req, gl |-> s.gl,
                                            read |-> r, ch |-> s.ch, at |-> idx]}
      BY <2>2, <2>4, WaitsIs
    <3> DEFINE new == [who |-> "scene", req |-> ask.req, gl |-> s.gl, read |-> r, ch |-> s.ch,
                       at |-> idx]
    <3>2. /\ new.who = "scene" /\ new.req = ask.req /\ new.gl = s.gl /\ new.read = r
          /\ new.ch = s.ch /\ new.at = idx /\ waits' = waits \cup {new}
      BY <3>1
    <3> HIDE DEF new
    <3>3. Waiter(waits', "scene", ask.req) = {new}
      BY <2>3, <3>2 DEF Waiter
    <3>4. SceneFits(scene', waits', time')
      BY <1>4, <2>1, <2>2, <2>4, <3>1, <3>2, <3>3 DEF SceneFits, Timed
    <3>5. WaitsFit(waits', reads', scene', overlay')
      BY <1>1, <2>1, <2>2, <2>3, <2>4, <3>1, <3>2 DEF WaitsFit
    <3>6. OverlayFits(overlay', waits')
      BY <1>1, <3>2 DEF OverlayFits, Waiter
    <3> QED
      BY <3>4, <3>5, <3>6 DEF CloudInv
  <2>5. CASE hit # {}
    <3>1. PICK spin \in hit : scene' = [ask EXCEPT !.shows = spin, !.failed = FALSE]
      BY <2>2, <2>5
    <3>2. Cloud!Same(spin, Spin(s.ch, idx))
      BY DEF Cloud!Hit, Cloud!Same, Spin
    <3>3. /\ SceneFields(scene') /\ scene'.shows = spin /\ scene'.req = ask.req
          /\ scene'.last = idx /\ scene'.ch = s.ch /\ scene'.times = s.times
      BY <2>1, <3>1 DEF SceneFields
    <3>4. waits' = waits /\ reads' = reads /\ Waiter(waits', "scene", ask.req) = {}
      BY <2>2, <2>3, <2>5 DEF Waiter
    <3>5. SceneFits(scene', waits', time')
      BY <1>4, <3>2, <3>3, <3>4 DEF SceneFits, Timed
    <3>6. WaitsFit(waits', reads', scene', overlay')
      BY <1>1, <2>3, <3>3, <3>4 DEF WaitsFit
    <3> QED
      BY <1>1, <3>4, <3>5, <3>6 DEF CloudInv
  <2> QED
    BY <2>4, <2>5
<1> QED
  BY <1>2, <1>3, <1>4

(* The overlay asks, or takes a spin that is there.                        *)
LEMMA DrawInv ==
  ASSUME CloudInv, Cloud!Draw
  PROVE  CloudInv'
<1> DEFINE idx  == Cloud!SpinAt(overlay.ch, time)
           hit == Cloud!Hit(overlay.ch, CloudTimes[overlay.ch][idx])
           req == overlay.req + 1
<1>1. /\ WaitsFit(waits, reads, scene, overlay) /\ SceneFits(scene, waits, time)
      /\ OverlayFits(overlay, waits) /\ OverlayFields(overlay) /\ overlay.req \in Nat
      /\ scene' = scene /\ time' = time /\ ~ overlay.busy
  BY DEF CloudInv, OverlayFits, OverlayFields, Cloud!Draw
<1>2. \A w \in waits : w.who = "overlay" => w.req \in Nat /\ w.req <= req
  BY <1>1 DEF WaitsFit
<1>3. CASE hit = {}
  <2>1. overlay' = [overlay EXCEPT !.busy = TRUE, !.req = @ + 1]
        /\ Cloud!Waits("overlay", req, 0, overlay.ch, idx)
    BY <1>3 DEF Cloud!Draw
  <2>2. PICK r : /\ Cloud!Same(r, Spin(overlay.ch, idx)) /\ reads' = reads \cup {r}
                 /\ waits' = waits \cup {[who |-> "overlay", req |-> req, gl |-> 0,
                                          read |-> r, ch |-> overlay.ch, at |-> idx]}
    BY <2>1, WaitsIs
  <2> DEFINE new == [who |-> "overlay", req |-> req, gl |-> 0, read |-> r, ch |-> overlay.ch,
                     at |-> idx]
  <2>3. /\ new.who = "overlay" /\ new.req = req /\ new.read = r
        /\ new.ch = overlay.ch /\ new.at = idx /\ waits' = waits \cup {new}
    BY <2>2
  <2> HIDE DEF new
  <2>4. /\ OverlayFields(overlay') /\ overlay'.req = req /\ overlay'.shows = overlay.shows
        /\ overlay'.late = overlay.late /\ overlay'.ch = overlay.ch /\ overlay'.last = overlay.last
    BY <1>1, <2>1 DEF OverlayFields
  <2>5. OverlayFits(overlay', waits')
    BY <1>1, <2>3, <2>4 DEF OverlayFits, Waiter
  <2>6. WaitsFit(waits', reads', scene', overlay')
    BY <1>1, <1>2, <2>2, <2>3, <2>4 DEF WaitsFit
  <2>7. \A n : Waiter(waits', "scene", n) = Waiter(waits, "scene", n)
    BY <2>3 DEF Waiter
  <2>8. SceneFits(scene', waits', time')
    BY <1>1, <2>7 DEF SceneFits
  <2> QED
    BY <2>5, <2>6, <2>8 DEF CloudInv
<1>4. CASE hit # {}
  <2>1. PICK spin \in hit : overlay' = Cloud!Projected([overlay EXCEPT !.req = @ + 1], spin, idx)
    BY <1>4 DEF Cloud!Draw
  <2>2. waits' = waits /\ reads' = reads
    BY <1>4 DEF Cloud!Draw
  <2>3. Cloud!Same(spin, Spin(overlay.ch, idx))
    BY DEF Cloud!Hit, Cloud!Same, Spin
  <2>4. /\ OverlayFields(overlay') /\ overlay'.req = req /\ overlay'.shows = spin
        /\ ~ overlay'.busy /\ overlay'.ch = overlay.ch /\ overlay'.last = idx
    BY <1>1, <2>1 DEF OverlayFields, Cloud!Projected, Cloud!Freed
  <2>5. OverlayFits(overlay', waits')
    BY <2>3, <2>4 DEF OverlayFits
  <2>6. WaitsFit(waits', reads', scene', overlay')
    BY <1>1, <1>2, <2>2, <2>4 DEF WaitsFit
  <2> QED
    BY <1>1, <2>2, <2>5, <2>6 DEF CloudInv
<1> QED
  BY <1>3, <1>4

(* A read ends, with what the scene and the overlay make of it.            *)
LEMMA EndedInv ==
  ASSUME CloudInv, NEW r \in reads, Cloud!Ended(r), time' = time,
         (\E w \in Cloud!For(r) : Cloud!SceneTakes(w)) =>
           \/ scene' = [scene EXCEPT !.shows = r, !.failed = FALSE]
           \/ scene' = [scene EXCEPT !.failed = TRUE],
         (~ \E w \in Cloud!For(r) : Cloud!SceneTakes(w)) => scene' = scene,
         NEW spin, spin = r \/ spin = Cloud!NoSpin,
         (\E w \in Cloud!For(r) : Cloud!OverlayTakes(w)) =>
           overlay' = Cloud!Projected(overlay, spin, (CHOOSE w \in Cloud!For(r) : Cloud!OverlayTakes(w)).at),
         (~ \E w \in Cloud!For(r) : Cloud!OverlayTakes(w)) => overlay' = overlay
  PROVE  CloudInv'
<1>1. /\ WaitsFit(waits, reads, scene, overlay) /\ SceneFits(scene, waits, time)
      /\ OverlayFits(overlay, waits) /\ OverlayFields(overlay) /\ SceneFields(scene)
      /\ overlay.req \in Nat /\ scene.req \in Nat
      /\ waits' = {w \in waits : w.read # r} /\ reads' = reads \ {r}
  BY DEF CloudInv, OverlayFits, OverlayFields, SceneFits, SceneFields, Cloud!Ended
<1>2. /\ SceneFields(scene') /\ scene'.req = scene.req /\ scene'.gl = scene.gl
      /\ scene'.ch = scene.ch /\ scene'.times = scene.times /\ scene'.last = scene.last
  <2>1. CASE scene' = scene
    BY <1>1, <2>1
  <2>2. CASE scene' = [scene EXCEPT !.failed = TRUE]
    BY <1>1, <2>2 DEF SceneFields
  <2>3. CASE scene' = [scene EXCEPT !.shows = r, !.failed = FALSE]
    BY <1>1, <2>3 DEF SceneFields
  <2> QED
    BY <2>1, <2>2, <2>3
<1>3. SceneFits(scene', waits', time')
  <2>1. \A w \in Waiter(waits', "scene", scene.req) : w \in Waiter(waits, "scene", scene.req)
    BY <1>1 DEF Waiter
  <2>2. CASE \E w \in Cloud!For(r) : Cloud!SceneTakes(w)
    <3>1. PICK w \in waits : w.read = r /\ w \in Waiter(waits, "scene", scene.req)
      BY <2>2 DEF Cloud!For, Cloud!SceneTakes, Waiter
    <3>2. scene'.shows = r \/ scene'.failed
      BY <1>1, <2>2 DEF SceneFields
    <3> QED
      BY <1>1, <1>2, <2>1, <3>1, <3>2 DEF SceneFits, Timed
  <2>3. CASE ~ \E w \in Cloud!For(r) : Cloud!SceneTakes(w)
    <3>1. scene' = scene
      BY <2>3
    <3>2. ASSUME Timed(scene), NEW w \in Waiter(waits, "scene", scene.req)
          PROVE  w \in Waiter(waits', "scene", scene.req)
      <4>1. w.gl = scene.gl /\ scene.ch # Cloud!NoCloud
        BY <1>1, <3>2 DEF SceneFits, Timed
      <4> QED
        BY <1>1, <2>3, <4>1 DEF Waiter, Cloud!For, Cloud!SceneTakes
    <3> QED
      BY <1>1, <2>1, <3>1, <3>2 DEF SceneFits
  <2> QED
    BY <2>2, <2>3
<1>4. OverlayFits(overlay', waits') /\ overlay'.req = overlay.req
  <2>1. CASE \E w \in Cloud!For(r) : Cloud!OverlayTakes(w)
    <3> DEFINE x == CHOOSE w \in Cloud!For(r) : Cloud!OverlayTakes(w)
    <3>1. x \in waits /\ x.read = r
      BY <2>1 DEF Cloud!For
    <3>2. overlay' = Cloud!Projected(overlay, spin, x.at)
      BY <2>1
    <3> HIDE DEF x
    <3>3. Cloud!Same(r, Spin(x.ch, x.at))
      BY <1>1, <3>1 DEF WaitsFit
    <3>4. /\ OverlayFields(overlay') /\ overlay'.req = overlay.req /\ ~ overlay'.busy
          /\ overlay'.shows = spin /\ overlay'.ch = overlay.ch /\ overlay'.last = x.at
      BY <1>1, <3>2 DEF OverlayFields, Cloud!Projected, Cloud!Freed
    <3>5. ~ overlay'.late => spin = Cloud!NoSpin \/ spin.ch = overlay.ch
      BY <1>1, <3>2 DEF OverlayFields, Cloud!Projected, Cloud!Freed
    <3>6. r.ch = overlay.ch => Cloud!Same(r, Spin(overlay.ch, x.at))
      BY <3>3 DEF Cloud!Same, Spin
    <3> QED
      BY <3>4, <3>5, <3>6 DEF OverlayFits
  <2>2. CASE ~ \E w \in Cloud!For(r) : Cloud!OverlayTakes(w)
    <3>1. overlay' = overlay
      BY <2>2
    <3>2. Waiter(waits, "overlay", overlay.req) \subseteq Waiter(waits', "overlay", overlay.req)
      BY <1>1, <2>2 DEF Waiter, Cloud!For, Cloud!OverlayTakes
    <3> QED
      BY <1>1, <3>1, <3>2 DEF OverlayFits
  <2> QED
    BY <2>1, <2>2
<1>5. WaitsFit(waits', reads', scene', overlay')
  BY <1>1, <1>2, <1>4 DEF WaitsFit
<1> QED
  BY <1>3, <1>4, <1>5 DEF CloudInv

LEMMA CloudNextInv == CloudInv /\ [Cloud!Next]_(Cloud!vars) => CloudInv'
<1> SUFFICES ASSUME CloudInv, [Cloud!Next]_(Cloud!vars) PROVE CloudInv'
  OBVIOUS
<1>0. /\ WaitsFit(waits, reads, scene, overlay) /\ SceneFits(scene, waits, time)
      /\ OverlayFits(overlay, waits) /\ OverlayFields(overlay) /\ SceneFields(scene)
  BY DEF CloudInv, OverlayFits, SceneFits
<1>1. ASSUME NEW c \in CloudChannels \cup {Cloud!NoCloud}, Cloud!BindScene(c) PROVE CloudInv'
  <2>1. /\ SceneFields(scene') /\ scene'.req = scene.req /\ ~ scene'.times /\ scene'.last = 0
    BY <1>0, <1>1 DEF Cloud!BindScene, SceneFields
  <2>2. UNCHANGED <<waits, reads, overlay, time>>
    BY <1>1 DEF Cloud!BindScene, Cloud!NoFetch
  <2> QED
    BY <1>0, <2>1, <2>2 DEF CloudInv, WaitsFit, SceneFits, Timed
<1>2. ASSUME NEW c \in CloudChannels \cup {Cloud!NoCloud}, Cloud!BindOverlay(c) PROVE CloudInv'
  <2>1. /\ OverlayFields(overlay') /\ overlay'.req = overlay.req /\ overlay'.shows = Cloud!NoSpin
        /\ overlay'.busy = overlay.busy
    BY <1>0, <1>2 DEF Cloud!BindOverlay, OverlayFields
  <2>2. UNCHANGED <<waits, reads, scene, time>>
    BY <1>2 DEF Cloud!BindOverlay, Cloud!NoFetch
  <2> QED
    BY <1>0, <2>1, <2>2 DEF CloudInv, WaitsFit, OverlayFits
<1>3. CASE Cloud!SceneTimesLoaded
  <2>1. PICK s : s = [scene EXCEPT !.times = TRUE]
    OBVIOUS
  <2>2. Cloud!UpdateFrame(s, time) /\ overlay' = overlay /\ time' = time /\ scene.last = 0
    BY <1>0, <1>3, <2>1 DEF Cloud!SceneTimesLoaded, SceneFits
  <2>3. SceneFields(s) /\ s.req = scene.req /\ s.last = 0
    BY <1>0, <2>1, <2>2 DEF SceneFields
  <2>4. SceneFits(s, waits, time)
    BY <2>3 DEF SceneFits, Timed
  <2>5. PICK t : t = time
    OBVIOUS
  <2> QED
    BY <2>2, <2>3, <2>4, <2>5, FrameFits
<1>4. CASE Cloud!SceneTimesFail
  <2>1. /\ SceneFields(scene') /\ scene'.req = scene.req /\ scene'.times = scene.times
        /\ scene'.last = scene.last /\ scene'.ch = scene.ch /\ ~ scene.times
    BY <1>0, <1>4 DEF Cloud!SceneTimesFail, SceneFields
  <2>2. UNCHANGED <<waits, reads, overlay, time>>
    BY <1>4 DEF Cloud!SceneTimesFail, Cloud!NoFetch
  <2> QED
    BY <1>0, <2>1, <2>2 DEF CloudInv, WaitsFit, SceneFits, Timed
<1>5. ASSUME NEW t \in 1..3, Cloud!MoveCursor(t) PROVE CloudInv'
  <2>1. PICK s, u : s = scene /\ u = time
    OBVIOUS
  <2>2. Cloud!UpdateFrame(s, t) /\ overlay' = overlay /\ time' = t
    BY <1>5, <2>1 DEF Cloud!MoveCursor
  <2> QED
    BY <1>0, <2>1, <2>2, FrameFits
<1>6. CASE Cloud!OverlayLoaded
  <2>1. /\ OverlayFields(overlay') /\ overlay'.req = overlay.req /\ overlay'.shows = overlay.shows
        /\ overlay'.busy = overlay.busy /\ overlay'.late = overlay.late
        /\ overlay'.ch = overlay.ch /\ overlay'.last = overlay.last
    BY <1>0, <1>6 DEF Cloud!OverlayLoaded, OverlayFields
  <2>2. UNCHANGED <<waits, reads, scene, time>>
    BY <1>6 DEF Cloud!OverlayLoaded, Cloud!NoFetch
  <2> QED
    BY <1>0, <2>1, <2>2 DEF CloudInv, WaitsFit, OverlayFits
<1>7. CASE Cloud!Draw
  BY <1>7, DrawInv
<1>8. CASE Cloud!SpinRead
  <2>1. PICK r \in reads :
          /\ Cloud!Ended(r)
          /\ scene' = IF \E w \in Cloud!For(r) : Cloud!SceneTakes(w)
                      THEN [scene EXCEPT !.shows = r, !.failed = FALSE] ELSE scene
          /\ overlay' = IF \E w \in Cloud!For(r) : Cloud!OverlayTakes(w)
                        THEN Cloud!Projected(overlay, r, (CHOOSE w \in Cloud!For(r) : Cloud!OverlayTakes(w)).at)
                        ELSE overlay
          /\ UNCHANGED <<time, clouds, cloudActs>>
    BY <1>8 DEF Cloud!SpinRead
  <2>2. /\ (\E w \in Cloud!For(r) : Cloud!SceneTakes(w)) =>
               \/ scene' = [scene EXCEPT !.shows = r, !.failed = FALSE]
               \/ scene' = [scene EXCEPT !.failed = TRUE]
        /\ (~ \E w \in Cloud!For(r) : Cloud!SceneTakes(w)) => scene' = scene
        /\ (~ \E w \in Cloud!For(r) : Cloud!OverlayTakes(w)) => overlay' = overlay
    BY <2>1
  <2>3. PICK spin : spin = r
    OBVIOUS
  <2>4. (\E w \in Cloud!For(r) : Cloud!OverlayTakes(w)) =>
          overlay' = Cloud!Projected(overlay, spin, (CHOOSE w \in Cloud!For(r) : Cloud!OverlayTakes(w)).at)
    BY <2>1, <2>3
  <2>5. spin = r \/ spin = Cloud!NoSpin
    BY <2>3
  <2>6. Cloud!Ended(r) /\ time' = time
    BY <2>1
  <2> QED
    BY <2>2, <2>4, <2>5, <2>6, EndedInv
<1>9. CASE Cloud!SpinFails
  <2>1. PICK r \in reads :
          /\ Cloud!Ended(r)
          /\ scene' = IF \E w \in Cloud!For(r) : Cloud!SceneTakes(w) THEN [scene EXCEPT !.failed = TRUE]
                      ELSE scene
          /\ overlay' = IF \E w \in Cloud!For(r) : Cloud!OverlayTakes(w)
                        THEN Cloud!Projected(overlay, Cloud!NoSpin,
                                       (CHOOSE w \in Cloud!For(r) : Cloud!OverlayTakes(w)).at)
                        ELSE overlay
          /\ UNCHANGED <<time, clouds, spins, cloudActs>>
    BY <1>9 DEF Cloud!SpinFails
  <2>2. /\ (\E w \in Cloud!For(r) : Cloud!SceneTakes(w)) =>
               \/ scene' = [scene EXCEPT !.shows = r, !.failed = FALSE]
               \/ scene' = [scene EXCEPT !.failed = TRUE]
        /\ (~ \E w \in Cloud!For(r) : Cloud!SceneTakes(w)) => scene' = scene
        /\ (~ \E w \in Cloud!For(r) : Cloud!OverlayTakes(w)) => overlay' = overlay
    BY <2>1
  <2>3. PICK spin : spin = Cloud!NoSpin
    OBVIOUS
  <2>4. (\E w \in Cloud!For(r) : Cloud!OverlayTakes(w)) =>
          overlay' = Cloud!Projected(overlay, spin, (CHOOSE w \in Cloud!For(r) : Cloud!OverlayTakes(w)).at)
    BY <2>1, <2>3
  <2>5. spin = r \/ spin = Cloud!NoSpin
    BY <2>3
  <2>6. Cloud!Ended(r) /\ time' = time
    BY <2>1
  <2> QED
    BY <2>2, <2>4, <2>5, <2>6, EndedInv
<1>10. CASE Cloud!ClearSession
  <2>1. /\ OverlayFields(overlay') /\ overlay'.req = overlay.req /\ overlay'.shows = Cloud!NoSpin
        /\ overlay'.busy = overlay.busy
    BY <1>0, <1>10 DEF Cloud!ClearSession, OverlayFields
  <2>2. SceneFields(scene') /\ scene'.req = scene.req /\ scene'.ch = Cloud!NoCloud
    BY <1>0, <1>10 DEF Cloud!ClearSession, SceneFields
  <2>3. UNCHANGED <<waits, reads, time>>
    BY <1>10 DEF Cloud!ClearSession
  <2> QED
    BY <1>0, <2>1, <2>2, <2>3 DEF CloudInv, WaitsFit, OverlayFits, SceneFits, Timed
<1>11. CASE UNCHANGED Cloud!vars
  BY <1>11 DEF Cloud!vars, CloudInv
<1> QED
  BY <1>1, <1>2, <1>3, <1>4, <1>5, <1>6, <1>7, <1>8, <1>9, <1>10, <1>11 DEF Cloud!Next

(* What waits for a spin reads that spin, under a number its viewer has    *)
(* given; and a viewer shows, or waits for, the spin it takes for current. *)
THEOREM CloudInductive == Cloud!Spec => []CloudInv
<1> QED
  BY CloudInitInv, CloudNextInv, PTL DEF Cloud!Spec

(* With nothing on its way, a scene panel whose cursor is past the first   *)
(* spin shows the bound channel's spin under the cursor or an error        *)
(* (ScenePanel.tsx:154-231, 405-464).                                      *)
THEOREM SceneShowsCurrent == Cloud!Spec => []SceneShowsSpin
<1>1. CloudInv => SceneShowsSpin
  <2> SUFFICES ASSUME CloudInv, scene.ch # Cloud!NoCloud, scene.times, ~ scene.failed,
                      ~ Cloud!Asked("scene", scene.req), scene.last > 0
               PROVE  /\ scene.last = Cloud!SpinAt(scene.ch, time)
                      /\ Cloud!Same(scene.shows, Spin(scene.ch, scene.last))
    BY DEF SceneShowsSpin, Cloud!SceneShowsSpin, Spin
  <2>1. Timed(scene)
    BY DEF Timed
  <2>2. Waiter(waits, "scene", scene.req) = {}
    BY DEF Waiter, Cloud!Asked
  <2> QED
    BY <2>1, <2>2 DEF CloudInv, SceneFits
<1> QED
  BY <1>1, CloudInductive, PTL

(* An overlay that is busy has its refresh on its way, and what it         *)
(* projects is the bound channel's spin that it takes for current, unless  *)
(* the refresh was asked for under another binding                         *)
(* (lidarOverlay.ts:120-166, 196-200).                                     *)
THEOREM OverlayNeverHangs == Cloud!Spec => []OverlayShowsSpin
<1>1. CloudInv => OverlayShowsSpin
  BY DEF CloudInv, OverlayFits, OverlayShowsSpin, Cloud!OverlayShowsSpin, Waiter, Cloud!Asked, Spin
<1> QED
  BY <1>1, CloudInductive, PTL

-----------------------------------------------------------------------------
(* What a slot holds is about the key it last asked for.  It draws only    *)
(* channels of that key; while it waits, each of them is awaited, and on   *)
(* its way, or answered over the key's window; and once it does not it     *)
(* draws all of them, over that window, unless a fetch has failed.  A lane *)
(* never asks for a channel but its own.                                   *)
OnItsWay(fs, c, w) == \E f \in fs : f.ch = c /\ f.win = w

Drawn(v) ==
  /\ Panel!Shown(v) \subseteq Panel!Chans(v.key)
  /\ (v.wanted = {} /\ ~ v.failed) =>
       Panel!Chans(v.key) \subseteq Panel!Shown(v) /\ \A f \in v.data : f.win = v.key[2]

Expected(v, fs) ==
  /\ v.wanted \subseteq Panel!Chans(v.key)
  /\ \A c \in v.wanted : OnItsWay(fs, c, v.key[2])
  /\ \A f \in v.got : f.ch \in Panel!Chans(v.key) /\ f.win = v.key[2]
  /\ v.wanted # {} => \A c \in Panel!Chans(v.key) \ v.wanted : \E f \in v.got : f.ch = c

SlotFits(s, v, fs) ==
  /\ DOMAIN v = {"key", "wanted", "got", "data", "failed"}
  /\ Drawn(v) /\ Expected(v, fs)
  /\ kind = "enum" => Panel!Chans(v.key) \subseteq {s}

(* Once rendered, the key is that of the store.                            *)
PanelInv ==
  /\ bound \in Seq(PanelChannels) /\ live \subseteq PanelChannels /\ kind \in Panel!AllKinds
  /\ DOMAIN view = Panel!Slots
  /\ \A s \in Panel!Slots : SlotFits(s, view[s], flights)
  /\ dirty = {} => \A s \in Panel!Slots : view[s].key = Panel!Key(s)

LEMMA PanelSets ==
  ASSUME NEW q
  PROVE  Panel!ToSet(q) = ToSet(q)
  BY DEF Panel!ToSet, ToSet

LEMMA WithoutIs ==
  ASSUME NEW ids \in Seq(PanelChannels), NEW gone
  PROVE  /\ Panel!Without(ids, gone) \in Seq(PanelChannels)
         /\ Panel!ToSet(Panel!Without(ids, gone)) = Panel!ToSet(ids) \ gone
<1>1. Panel!Without(ids, gone) = Dropped(ids, gone)
  BY DEF Panel!Without, Dropped, Panel!FoldLeft, FoldLeft, Panel!MapThenFoldSet,
     MapThenFoldSet, Panel!Max, Max
<1> QED
  BY <1>1, DroppedIs, PanelSets

LEMMA EmptyIs ==
  ASSUME NEW q \in Seq(PanelChannels)
  PROVE  /\ q = <<>> => Panel!ToSet(q) = {}
         /\ Panel!ToSet(q) = {} => q = <<>>
<1>1. ASSUME Panel!ToSet(q) = {} PROVE q = <<>>
  <2>1. 1 \notin DOMAIN q
    BY <1>1 DEF Panel!ToSet
  <2>2. Len(q) = 0
    BY <2>1
  <2> QED
    BY <2>2
<1>2. Panel!ToSet(<<>>) = {}
  BY DEF Panel!ToSet
<1> QED
  BY <1>1, <1>2

LEMMA ResolvedIs ==
  ASSUME bound \in Seq(PanelChannels), live \subseteq PanelChannels
  PROVE  /\ Panel!Resolved \in Seq(PanelChannels)
         /\ live = {} => Panel!Resolved = <<>>
<1> DEFINE ids == Panel!Without(bound, PanelChannels \ live)
<1>1. ids \in Seq(PanelChannels) /\ Panel!ToSet(ids) = Panel!ToSet(bound) \ (PanelChannels \ live)
  BY WithoutIs
<1>2. Panel!ToSet(bound) \in SUBSET PanelChannels
  BY SetOfSeq, PanelSets
<1>3. live = {} => ids = <<>>
  BY <1>1, <1>2, EmptyIs
<1>4. <<>> \in Seq(PanelChannels)
  OBVIOUS
<1>5. Panel!Resolved = ids \/ Panel!Resolved = <<>>
  BY DEF Panel!Resolved
<1> HIDE DEF ids
<1> QED
  BY <1>1, <1>3, <1>4, <1>5

(* The key of a slot is empty or has the window and channels, and a lane's *)
(* key its own channel.                                                    *)
LEMMA KeyIs ==
  ASSUME bound \in Seq(PanelChannels), live \subseteq PanelChannels, NEW s \in Panel!Slots
  PROVE  /\ Panel!Chans(<<>>) = {}
         /\ Panel!Resolved = <<>> => Panel!Key(s) = <<>>
         /\ Panel!Key(s) # <<>> => /\ Panel!Key(s)[2] = Panel!Window /\ Panel!Chans(Panel!Key(s)) # {}
                             /\ (kind = "enum" => Panel!Chans(Panel!Key(s)) = {s})
<1>1. Panel!Chans(<<>>) = {}
  BY DEF Panel!Chans
<1>2. Panel!Resolved = <<>> => Panel!Key(s) = <<>>
  BY DEF Panel!Key
<1>3. CASE Panel!Resolved # <<>> /\ s = Panel!Whole
  <2>1. Panel!Key(s) = <<Panel!Resolved, Panel!Window>>
    BY <1>3, Zenon DEF Panel!Key
  <2>2. Panel!Chans(Panel!Key(s)) = Panel!ToSet(Panel!Resolved) /\ Panel!Key(s)[2] = Panel!Window
    BY <2>1 DEF Panel!Chans
  <2>3. Panel!ToSet(Panel!Resolved) # {}
    BY <1>3, ResolvedIs, EmptyIs
  <2>4. kind # "enum"
    BY <1>3, PanelConstants DEF Panel!PanelAssumption, Panel!Slots
  <2> QED
    BY <1>1, <1>3, <2>2, <2>3, <2>4
<1>4. CASE Panel!Resolved # <<>> /\ s # Panel!Whole
  <2>1. CASE s \in Panel!ToSet(Panel!Resolved)
    <3>1. Panel!Key(s) = <<<<s>>, Panel!Window>>
      BY <1>4, <2>1 DEF Panel!Key
    <3>2. Panel!ToSet(<<s>>) = {s}
      BY DEF Panel!ToSet
    <3>3. Panel!Chans(Panel!Key(s)) = {s} /\ Panel!Key(s)[2] = Panel!Window
      BY <3>1, <3>2 DEF Panel!Chans
    <3> QED
      BY <1>1, <1>4, <3>3
  <2>2. CASE s \notin Panel!ToSet(Panel!Resolved)
    <3>1. Panel!Key(s) = <<>>
      BY <1>4, <2>2 DEF Panel!Key
    <3> QED
      BY <1>1, <3>1
  <2> QED
    BY <2>1, <2>2
<1> QED
  BY <1>1, <1>2, <1>3, <1>4

LEMMA BlankFits ==
  ASSUME NEW s, NEW fs
  PROVE  SlotFits(s, Panel!Blank, fs)
  BY DEF SlotFits, Panel!Blank, Drawn, Expected, Panel!Shown, Panel!Chans

LEMMA PanelInitInv == Panel!Init => PanelInv
<1> SUFFICES ASSUME Panel!Init PROVE PanelInv
  OBVIOUS
<1>1. bound \in Seq(PanelChannels)
  <2>1. CASE bound = <<>>
    BY <2>1
  <2>2. ASSUME NEW c \in PanelChannels, NEW d \in PanelChannels, bound = <<c, d>>
        PROVE  bound \in Seq(PanelChannels)
    BY <2>2
  <2> QED
    BY <2>1, <2>2 DEF Panel!Init
<1>2. live = {} /\ live \subseteq PanelChannels
  BY DEF Panel!Init
<1>3. kind \in Panel!AllKinds
  BY PanelConstants DEF Panel!Init, Panel!PanelAssumption
<1>4. DOMAIN view = Panel!Slots /\ \A s \in Panel!Slots : view[s] = Panel!Blank
  BY DEF Panel!Init
<1>5. \A s \in Panel!Slots : SlotFits(s, view[s], flights)
  BY <1>4, BlankFits
<1>6. ASSUME NEW s \in Panel!Slots PROVE view[s].key = Panel!Key(s)
  <2>1. Panel!Key(s) = <<>>
    BY <1>1, <1>2, ResolvedIs, KeyIs
  <2> QED
    BY <1>4, <2>1 DEF Panel!Blank
<1> QED
  BY <1>1, <1>2, <1>3, <1>4, <1>5, <1>6 DEF PanelInv

(* An update of the store leaves the panel as it is and dirty.             *)
LEMMA UpdateInv ==
  ASSUME PanelInv, NEW what, Panel!Update(what), bound' \in Seq(PanelChannels),
         live' \subseteq PanelChannels,
         UNCHANGED <<kind, view, flights>>
  PROVE  PanelInv'
<1>1. dirty' # {}
  BY DEF Panel!Update
<1>2. Panel!Slots' = Panel!Slots
  BY DEF Panel!Slots
<1>3. \A s \in Panel!Slots : SlotFits(s, view[s], flights)'
  BY DEF PanelInv, SlotFits
<1> QED
  BY <1>1, <1>2, <1>3 DEF PanelInv

LEMMA BlankWith ==
  ASSUME NEW key, NEW wanted, NEW data
  PROVE  [Panel!Blank EXCEPT !.key = key, !.wanted = wanted, !.data = data] =
           [key |-> key, wanted |-> wanted, got |-> {}, data |-> data, failed |-> FALSE]
<1> DEFINE With(no, k, w, d) == [key |-> k, wanted |-> w, got |-> {}, data |-> d, failed |-> no]
<1>1. ASSUME NEW no, NEW k0, NEW w0, NEW d0
      PROVE  [With(no, k0, w0, d0) EXCEPT !.key = key, !.wanted = wanted, !.data = data] =
               With(no, key, wanted, data)
  <2> DEFINE b0 == With(no, k0, w0, d0)
             b1 == [b0 EXCEPT !.key = key]
             b2 == [b1 EXCEPT !.wanted = wanted]
             b3 == [b2 EXCEPT !.data = data]
  <2>1. b1 = With(no, key, w0, d0)
    OBVIOUS
  <2> HIDE DEF b1
  <2>2. b2 = With(no, key, wanted, d0)
    BY <2>1
  <2> HIDE DEF b2
  <2>3. b3 = With(no, key, wanted, data)
    BY <2>2
  <2>4. b3 = [b0 EXCEPT !.key = key, !.wanted = wanted, !.data = data]
    BY DEF b1, b2
  <2> QED
    BY <2>3, <2>4
<1>2. Panel!Blank = With(FALSE, <<>>, {}, {})
  BY DEF Panel!Blank
<1> HIDE DEF With
<1>3. [With(FALSE, <<>>, {}, {}) EXCEPT !.key = key, !.wanted = wanted, !.data = data] =
        With(FALSE, key, wanted, data)
  BY <1>1, Zenon
<1>4. [Panel!Blank EXCEPT !.key = key, !.wanted = wanted, !.data = data] =
        With(FALSE, key, wanted, data)
  BY <1>2, <1>3, Zenon
<1> QED
  BY <1>4 DEF With

LEMMA LoadedFits ==
  ASSUME PanelInv, Panel!Render, NEW s \in Panel!Slots
  PROVE  SlotFits(s, Panel!Loaded(s), flights') /\ Panel!Loaded(s).key = Panel!Key(s)
<1>1. /\ bound \in Seq(PanelChannels) /\ live \subseteq PanelChannels
      /\ SlotFits(s, view[s], flights)
  BY DEF PanelInv
<1>2. flights \subseteq flights'
  BY DEF Panel!Render
<1>3. CASE ~ Panel!Reloads(s)
  <2>1. Panel!Loaded(s) = view[s] /\ view[s].key = Panel!Key(s)
    BY <1>3 DEF Panel!Loaded, Panel!Reloads
  <2>2. Expected(view[s], flights')
    BY <1>1, <1>2 DEF SlotFits, Expected, OnItsWay
  <2> QED
    BY <1>1, <2>1, <2>2 DEF SlotFits
<1>4. CASE Panel!Reloads(s)
  <2> DEFINE v == [Panel!Blank EXCEPT !.key = Panel!Key(s), !.wanted = Panel!Chans(Panel!Key(s)),
                                   !.data = Panel!Kept(s)]
  <2>1. /\ Panel!Loaded(s) = v
        /\ v = [key |-> Panel!Key(s), wanted |-> Panel!Chans(Panel!Key(s)), got |-> {}, data |-> Panel!Kept(s),
                failed |-> FALSE]
    BY <1>4, BlankWith DEF Panel!Loaded
  <2>2. /\ DOMAIN v = {"key", "wanted", "got", "data", "failed"}
        /\ v.key = Panel!Key(s) /\ v.wanted = Panel!Chans(Panel!Key(s)) /\ v.got = {} /\ v.data = Panel!Kept(s)
    BY <2>1
  <2> HIDE DEF v
  <2>3. {f.ch : f \in Panel!Kept(s)} \subseteq Panel!Chans(Panel!Key(s))
    <3>1. {f.ch : f \in view[s].data} \subseteq Panel!Chans(view[s].key)
      BY <1>1 DEF SlotFits, Drawn, Panel!Shown
    <3>2. CASE Panel!Key(s) = <<>>
      BY <3>2 DEF Panel!Kept
    <3>3. CASE Panel!Key(s) # <<>> /\ kind = "plot"
      BY <3>1, <3>3 DEF Panel!Kept, Panel!Rebuilt
    <3>4. CASE Panel!Key(s) # <<>> /\ kind = "enum"
      <4>1. Panel!Kept(s) = view[s].data
        BY <3>4 DEF Panel!Kept
      <4>2. Panel!Chans(Panel!Key(s)) = {s} /\ Panel!Chans(view[s].key) \subseteq {s}
        BY <1>1, <3>4, KeyIs DEF SlotFits
      <4> QED
        BY <3>1, <4>1, <4>2
    <3>5. CASE Panel!Key(s) # <<>> /\ kind # "plot" /\ kind # "enum"
      BY <3>5 DEF Panel!Kept
    <3> QED
      BY <3>2, <3>3, <3>4, <3>5
  <2>4. Panel!Key(s) = <<>> => Panel!Chans(Panel!Key(s)) = {} /\ Panel!Kept(s) = {}
    BY <1>1, KeyIs DEF Panel!Kept
  <2>5. Panel!Key(s) # <<>> => Panel!Chans(Panel!Key(s)) # {} /\ Panel!Key(s)[2] = Panel!Window
    BY <1>1, KeyIs
  <2>6. Drawn(v)
    BY <2>2, <2>3, <2>4, <2>5 DEF Drawn, Panel!Shown
  <2>7. ASSUME NEW c \in Panel!Chans(Panel!Key(s)) PROVE OnItsWay(flights', c, Panel!Key(s)[2])
    <3>1. Panel!Key(s)[2] = Panel!Window
      BY <2>4, <2>5
    <3>2. CASE Panel!InFlight(c, Panel!Window)
      BY <1>2, <3>1, <3>2 DEF Panel!InFlight, OnItsWay
    <3>3. CASE ~ Panel!InFlight(c, Panel!Window)
      <4>1. c \in Panel!Asked
        BY <1>4, <3>3 DEF Panel!Asked
      <4>2. [ch |-> c, win |-> Panel!Window, off |-> offset[c]] \in flights'
        BY <4>1 DEF Panel!Render
      <4>3. PICK f \in flights' : f = [ch |-> c, win |-> Panel!Window, off |-> offset[c]]
        BY <4>2
      <4>4. f.ch = c /\ f.win = Panel!Window
        BY <4>3
      <4> QED
        BY <3>1, <4>4 DEF OnItsWay
    <3> QED
      BY <3>2, <3>3
  <2>8. Expected(v, flights')
    BY <2>2, <2>7 DEF Expected
  <2>9. kind = "enum" => Panel!Chans(Panel!Key(s)) \subseteq {s}
    BY <1>1, <2>4, KeyIs
  <2> QED
    BY <2>1, <2>2, <2>6, <2>8, <2>9 DEF SlotFits
<1> QED
  BY <1>3, <1>4

LEMMA RenderInv ==
  ASSUME PanelInv, Panel!Render
  PROVE  PanelInv'
<1>1. /\ bound \in Seq(PanelChannels) /\ live \subseteq PanelChannels /\ kind \in Panel!AllKinds
      /\ kind' = kind /\ live' = live
      /\ bound' = Panel!Culled /\ view' = [s \in Panel!Slots |-> Panel!Loaded(s)]
      /\ dirty' = IF Panel!Culled # bound THEN {"bound"} ELSE {}
  BY DEF PanelInv, Panel!Render
<1>2. Panel!Slots' = Panel!Slots
  BY <1>1 DEF Panel!Slots
<1>3. bound' \in Seq(PanelChannels)
  BY <1>1, ResolvedIs, WithoutIs DEF Panel!Culled
<1>4. \A s \in Panel!Slots : SlotFits(s, view'[s], flights') /\ view'[s].key = Panel!Key(s)
  BY <1>1, LoadedFits
<1>5. \A s \in Panel!Slots : SlotFits(s, view[s], flights)'
  BY <1>1, <1>4 DEF SlotFits
<1>6. ASSUME dirty' = {}, NEW s \in Panel!Slots PROVE Panel!Key(s)' = Panel!Key(s)
  <2>1. bound' = bound
    BY <1>1, <1>6
  <2> QED
    BY <1>1, <2>1 DEF Panel!Key, Panel!Resolved, Panel!Window
<1> QED
  BY <1>1, <1>2, <1>3, <1>4, <1>5, <1>6 DEF PanelInv

(* A read ends, answered or not, and whoever awaits it takes it.           *)
LEMMA AnsweredFits ==
  ASSUME NEW s, NEW fs, NEW v, SlotFits(s, v, fs), NEW f \in fs, Panel!Awaiting(v, f)
  PROVE  SlotFits(s, Panel!Answered(v, f), fs \ {f}) /\ Panel!Answered(v, f).key = v.key
<1> DEFINE w1 == [v EXCEPT !.wanted = v.wanted \ {f.ch}]
           more == [w1 EXCEPT !.got = v.got \cup {f}]
           d1 == [more EXCEPT !.data = more.got]
           done == [d1 EXCEPT !.got = {}]
<1>1. Panel!Answered(v, f) = IF more.wanted = {} THEN done ELSE more
  <2>1. more = [v EXCEPT !.wanted = @ \ {f.ch}, !.got = @ \cup {f}]
    BY DEF SlotFits
  <2>2. done = [more EXCEPT !.data = more.got, !.got = {}]
    OBVIOUS
  <2> QED
    BY <2>1, <2>2 DEF Panel!Answered
<1>2. /\ DOMAIN more = {"key", "wanted", "got", "data", "failed"}
      /\ more.key = v.key /\ more.wanted = v.wanted \ {f.ch} /\ more.got = v.got \cup {f}
      /\ more.data = v.data /\ more.failed = v.failed
  BY DEF SlotFits
<1>3. /\ DOMAIN done = {"key", "wanted", "got", "data", "failed"}
      /\ done.key = v.key /\ done.wanted = v.wanted \ {f.ch} /\ done.got = {}
      /\ done.data = v.got \cup {f}
  BY <1>2
<1> HIDE DEF w1, more, d1, done
<1>4. f.ch \in v.wanted /\ f.ch \in Panel!Chans(v.key) /\ v.key[2] = f.win
  BY DEF Panel!Awaiting, SlotFits, Expected
<1>5. \A c \in v.wanted \ {f.ch} : OnItsWay(fs \ {f}, c, v.key[2])
  BY DEF SlotFits, Expected, OnItsWay
<1>6. \A g \in v.got \cup {f} : g.ch \in Panel!Chans(v.key) /\ g.win = v.key[2]
  BY <1>4 DEF SlotFits, Expected
<1>7. \A c \in Panel!Chans(v.key) \ (v.wanted \ {f.ch}) : \E g \in v.got \cup {f} : g.ch = c
  BY <1>4 DEF SlotFits, Expected
<1>8. CASE more.wanted = {}
  <2>1. Drawn(done)
    <3>1. Panel!Shown(done) = {g.ch : g \in v.got \cup {f}}
      BY <1>3 DEF Panel!Shown
    <3>2. Panel!Shown(done) \subseteq Panel!Chans(v.key) /\ Panel!Chans(v.key) \subseteq Panel!Shown(done)
      BY <1>2, <1>6, <1>7, <1>8, <3>1
    <3> QED
      BY <1>3, <1>6, <3>2 DEF Drawn
  <2>2. Expected(done, fs \ {f})
    BY <1>2, <1>3, <1>8 DEF Expected
  <2> QED
    BY <1>1, <1>3, <1>8, <2>1, <2>2 DEF SlotFits
<1>9. CASE more.wanted # {}
  <2>1. Drawn(more)
    <3>1. Panel!Shown(more) = Panel!Shown(v)
      BY <1>2 DEF Panel!Shown
    <3> QED
      BY <1>2, <1>9, <3>1 DEF Drawn, SlotFits
  <2>2. Expected(more, fs \ {f})
    BY <1>2, <1>5, <1>6, <1>7 DEF Expected, SlotFits
  <2> QED
    BY <1>1, <1>2, <1>9, <2>1, <2>2 DEF SlotFits
<1> QED
  BY <1>8, <1>9

LEMMA FailedFits ==
  ASSUME NEW s, NEW fs, NEW v, SlotFits(s, v, fs), NEW f
  PROVE  SlotFits(s, Panel!Failed(v), fs \ {f}) /\ Panel!Failed(v).key = v.key
<1> DEFINE data == IF kind = "plot" THEN v.data ELSE {}
           x == Panel!Failed(v)
<1>1. /\ DOMAIN x = {"key", "wanted", "got", "data", "failed"}
      /\ x.key = v.key /\ x.wanted = {} /\ x.got = {} /\ x.data = data
  BY DEF Panel!Failed, SlotFits
<1>2. x.failed
  BY DEF Panel!Failed, SlotFits
<1> HIDE DEF x
<1>3. Panel!Shown(x) \subseteq Panel!Shown(v)
  BY <1>1 DEF Panel!Shown
<1>4. Drawn(x) /\ Expected(x, fs \ {f})
  BY <1>1, <1>2, <1>3 DEF Drawn, Expected, SlotFits
<1> QED
  BY <1>1, <1>4 DEF SlotFits, x

LEMMA StillFits ==
  ASSUME NEW s, NEW fs, NEW v, SlotFits(s, v, fs), NEW f \in fs, ~ Panel!Awaiting(v, f)
  PROVE  SlotFits(s, v, fs \ {f})
<1>1. ASSUME NEW c \in v.wanted PROVE OnItsWay(fs \ {f}, c, v.key[2])
  <2>1. PICK g \in fs : g.ch = c /\ g.win = v.key[2]
    BY <1>1 DEF SlotFits, Expected, OnItsWay
  <2>2. v.key # <<>>
    BY <1>1 DEF SlotFits, Expected, Panel!Chans
  <2>3. g # f
    BY <1>1, <2>1, <2>2 DEF Panel!Awaiting
  <2> QED
    BY <2>1, <2>3 DEF OnItsWay
<1> QED
  BY <1>1 DEF SlotFits, Expected

LEMMA SettledInv ==
  ASSUME PanelInv, UNCHANGED <<kind, live, offset, bound, dirty>>,
         NEW f \in flights, flights' = flights \ {f},
         DOMAIN view' = Panel!Slots,
         \A s \in Panel!Slots : SlotFits(s, view'[s], flights \ {f}) /\ view'[s].key = view[s].key
  PROVE  PanelInv'
<1>1. Panel!Slots' = Panel!Slots
  BY DEF Panel!Slots
<1>2. \A s \in Panel!Slots : SlotFits(s, view[s], flights)'
  BY DEF SlotFits
<1>3. ASSUME NEW s \in Panel!Slots PROVE Panel!Key(s)' = Panel!Key(s)
  BY DEF Panel!Key, Panel!Resolved, Panel!Window
<1> QED
  BY <1>1, <1>2, <1>3 DEF PanelInv

LEMMA PanelNextInv == PanelInv /\ [Panel!Next]_(Panel!vars) => PanelInv'
<1> SUFFICES ASSUME PanelInv, [Panel!Next]_(Panel!vars) PROVE PanelInv'
  OBVIOUS
<1>0. bound \in Seq(PanelChannels) /\ live \subseteq PanelChannels
  BY DEF PanelInv
<1>1. ASSUME NEW c \in PanelChannels, Panel!OpenSource(c) PROVE PanelInv'
  <2>1. Panel!Update("sources") /\ bound' = bound /\ live' = live \cup {c}
        /\ UNCHANGED <<kind, view, flights>>
    BY <1>1 DEF Panel!OpenSource
  <2> QED
    BY <1>0, <2>1, UpdateInv
<1>2. ASSUME NEW c \in PanelChannels, Panel!RemoveSource(c) PROVE PanelInv'
  <2>1. Panel!Update("sources") /\ bound' = Panel!Pruned(bound, c) /\ live' = live \ {c}
        /\ UNCHANGED <<kind, view, flights>>
    BY <1>2 DEF Panel!RemoveSource
  <2>2. Panel!Pruned(bound, c) \in Seq(PanelChannels)
    BY <1>0, WithoutIs DEF Panel!Pruned
  <2> QED
    BY <1>0, <2>1, <2>2, UpdateInv
<1>3. ASSUME NEW c \in PanelChannels, NEW o \in {0, 1}, Panel!SetSourceOffset(c, o) PROVE PanelInv'
  <2>1. Panel!Update("sources") /\ bound' = bound /\ live' = live /\ UNCHANGED <<kind, view, flights>>
    BY <1>3 DEF Panel!SetSourceOffset
  <2> QED
    BY <1>0, <2>1, UpdateInv
<1>4. ASSUME NEW ids \in Panel!Bindings, Panel!SetBinding(ids) PROVE PanelInv'
  <2>1. Panel!Update("bound") /\ bound' = ids /\ live' = live /\ UNCHANGED <<kind, view, flights>>
    BY <1>4 DEF Panel!SetBinding
  <2>2. ids \in Seq(PanelChannels)
    <3>1. CASE kind = "map"
      <4>1. ids \in {<<>>} \cup {<<c, d>> : c, d \in PanelChannels}
        BY <1>4, <3>1 DEF Panel!Bindings
      <4>2. ASSUME NEW c \in PanelChannels, NEW d \in PanelChannels, ids = <<c, d>>
            PROVE  ids \in Seq(PanelChannels)
        BY <4>2
      <4>3. CASE ids = <<>>
        BY <4>3
      <4> QED
        BY <4>1, <4>2, <4>3
    <3>2. CASE kind # "map"
      <4>1. ids \in Panel!BoundedSeq(PanelChannels, PanelBound)
        BY <1>4, <3>2 DEF Panel!Bindings
      <4>2. PICK n \in 0..PanelBound : ids \in [1..n -> PanelChannels]
        BY <4>1 DEF Panel!BoundedSeq, Panel!SeqOf
      <4>3. n \in Nat
        BY <4>2, PanelConstants DEF Panel!PanelAssumption
      <4>4. ids = [i \in 1..n |-> ids[i]] /\ \A i \in 1..n : ids[i] \in PanelChannels
        BY <4>2
      <4> QED
        BY <4>3, <4>4
    <3> QED
      BY <3>1, <3>2
  <2> QED
    BY <1>0, <2>1, <2>2, UpdateInv
<1>5. CASE Panel!Restyle
  <2>1. Panel!Update("style") /\ bound' = bound /\ live' = live /\ UNCHANGED <<kind, view, flights>>
    BY <1>5 DEF Panel!Restyle
  <2> QED
    BY <1>0, <2>1, UpdateInv
<1>6. CASE Panel!Render
  BY <1>6, RenderInv
<1>7. CASE Panel!FetchLands
  <2>1. PICK f \in flights :
          /\ flights' = flights \ {f}
          /\ view' = [s \in Panel!Slots |->
               IF Panel!Awaiting(view[s], f) THEN Panel!Answered(view[s], f) ELSE view[s]]
          /\ UNCHANGED <<kind, live, offset, bound, dirty>>
    BY <1>7 DEF Panel!FetchLands
  <2>2. ASSUME NEW s \in Panel!Slots
        PROVE  SlotFits(s, view'[s], flights \ {f}) /\ view'[s].key = view[s].key
    <3>1. PICK v : v = view[s]
      OBVIOUS
    <3>2. SlotFits(s, v, flights)
      BY <3>1 DEF PanelInv
    <3>3. CASE Panel!Awaiting(v, f)
      BY <2>1, <3>1, <3>2, <3>3, AnsweredFits
    <3>4. CASE ~ Panel!Awaiting(v, f)
      BY <2>1, <3>1, <3>2, <3>4, StillFits
    <3> QED
      BY <3>3, <3>4
  <2> QED
    BY <2>1, <2>2, SettledInv
<1>8. CASE Panel!FetchFails
  <2>1. PICK f \in flights :
          /\ flights' = flights \ {f}
          /\ view' = [s \in Panel!Slots |->
               IF Panel!Awaiting(view[s], f) THEN Panel!Failed(view[s]) ELSE view[s]]
          /\ UNCHANGED <<kind, live, offset, bound, dirty>>
    BY <1>8 DEF Panel!FetchFails
  <2>2. ASSUME NEW s \in Panel!Slots
        PROVE  SlotFits(s, view'[s], flights \ {f}) /\ view'[s].key = view[s].key
    <3>1. PICK v : v = view[s]
      OBVIOUS
    <3>2. SlotFits(s, v, flights)
      BY <3>1 DEF PanelInv
    <3>3. CASE Panel!Awaiting(v, f)
      BY <2>1, <3>1, <3>2, <3>3, FailedFits
    <3>4. CASE ~ Panel!Awaiting(v, f)
      BY <2>1, <3>1, <3>2, <3>4, StillFits
    <3> QED
      BY <3>3, <3>4
  <2> QED
    BY <2>1, <2>2, SettledInv
<1>9. CASE UNCHANGED Panel!vars
  <2>1. UNCHANGED <<kind, live, bound, dirty, view, flights>>
    BY <1>9 DEF Panel!vars
  <2>2. Panel!Slots' = Panel!Slots /\ \A s \in Panel!Slots : SlotFits(s, view[s], flights)'
    BY <2>1 DEF PanelInv, Panel!Slots, SlotFits
  <2>3. ASSUME NEW s \in Panel!Slots PROVE Panel!Key(s)' = Panel!Key(s)
    BY <2>1 DEF Panel!Key, Panel!Resolved, Panel!Window
  <2> QED
    BY <2>1, <2>2, <2>3 DEF PanelInv
<1> QED
  BY <1>1, <1>2, <1>3, <1>4, <1>5, <1>6, <1>7, <1>8, <1>9 DEF Panel!Next

(* What a slot holds is about the key it last asked for, and once it is    *)
(* rendered that is the store's.                                           *)
THEOREM PanelInductive == Panel!Spec => []PanelInv
<1> QED
  BY PanelInitInv, PanelNextInv, PTL DEF Panel!Spec

(* Once rendered, no slot draws a channel it is not bound to; when nothing *)
(* is awaited and no fetch has failed it draws exactly the bound channels  *)
(* that are there, over the session's window (usePanelChannels.ts,         *)
(* useChannelRanges.ts, PlotPanel.tsx, EnumPanel.tsx, MapPanel.tsx).       *)
THEOREM PanelShowsBound == Panel!Spec => []ShowsBound
<1>1. PanelInv => ShowsBound
  <2> SUFFICES ASSUME PanelInv, dirty = {}, NEW s \in Panel!Slots
               PROVE  /\ Panel!Shown(view[s]) \subseteq Panel!Chans(Panel!Key(s))
                      /\ (view[s].wanted = {} /\ ~ view[s].failed) =>
                           /\ Panel!Shown(view[s]) = Panel!Chans(Panel!Key(s))
                           /\ \A f \in view[s].data : f.win = Panel!Window
    BY DEF ShowsBound, Panel!ShowsBound
  <2>1. view[s].key = Panel!Key(s) /\ Drawn(view[s])
    BY DEF PanelInv, SlotFits
  <2>2. ASSUME NEW f \in view[s].data PROVE Panel!Key(s)[2] = Panel!Window
    <3>1. f.ch \in Panel!Chans(Panel!Key(s))
      BY <2>1 DEF Drawn, Panel!Shown
    <3> QED
      BY <3>1, KeyIs DEF PanelInv
  <2> QED
    BY <2>1, <2>2 DEF Drawn
<1> QED
  BY <1>1, PanelInductive, PTL

(* A panel is never left loading: what it awaits is on its way, whoever    *)
(* asked for it (useChannelRanges.ts:44-73, store.ts:1126-1165).           *)
THEOREM PanelLoadEnds == Panel!Spec => []LoadEnds
<1>1. PanelInv => LoadEnds
  BY DEF PanelInv, SlotFits, Expected, OnItsWay, LoadEnds, Panel!LoadEnds, Panel!InFlight
<1> QED
  BY <1>1, PanelInductive, PTL

-----------------------------------------------------------------------------
(* The offset a read was asked with is its source's, or has changed under  *)
(* it; and so for what a plot that is rendered has got, and draws when it  *)
(* waits for nothing more.                                                 *)
Current(f) == f.off = offset[f.ch] \/ <<f.ch, f.win>> \in raced

FlightsCurrent ==
  /\ DOMAIN offset = PanelChannels
  /\ \A f \in flights : f.ch \in PanelChannels /\ Current(f)

PlotCurrent ==
  (kind = "plot" /\ dirty = {}) =>
    /\ \A f \in view[Panel!Whole].got : Current(f)
    /\ (view[Panel!Whole].wanted = {} /\ ~ view[Panel!Whole].failed) =>
         \A f \in view[Panel!Whole].data : Current(f)

OffsetInv == PanelInv /\ FlightsCurrent /\ PlotCurrent

LEMMA OffsetInitInv == Panel!Init => OffsetInv
<1> SUFFICES ASSUME Panel!Init PROVE OffsetInv
  OBVIOUS
<1>1. FlightsCurrent
  BY DEF Panel!Init, FlightsCurrent
<1>2. kind = "plot" => view[Panel!Whole] = Panel!Blank
  BY DEF Panel!Init, Panel!Slots
<1>3. PlotCurrent
  BY <1>2 DEF PlotCurrent, Panel!Blank
<1> QED
  BY <1>1, <1>3, PanelInitInv DEF OffsetInv

(* An offset changes only with what is in flight for its channel noted.    *)
LEMMA UpdateCurrent ==
  ASSUME OffsetInv, NEW what, Panel!Update(what), flights' = flights,
         DOMAIN offset' = PanelChannels,
         \A c \in PanelChannels : offset'[c] = offset[c] \/ Panel!Outdated(c) \subseteq raced',
         raced \subseteq raced'
  PROVE  FlightsCurrent' /\ PlotCurrent'
<1>1. dirty' # {}
  BY DEF Panel!Update
<1>2. ASSUME NEW f \in flights PROVE f.ch \in PanelChannels /\ Current(f)'
  <2>1. f.ch \in PanelChannels /\ Current(f)
    BY DEF OffsetInv, FlightsCurrent
  <2>2. CASE offset'[f.ch] = offset[f.ch]
    BY <2>1, <2>2 DEF Current
  <2>3. CASE Panel!Outdated(f.ch) \subseteq raced'
    <3>1. <<f.ch, f.win>> \in Panel!Outdated(f.ch)
      BY DEF Panel!Outdated
    <3> QED
      BY <2>1, <2>3, <3>1 DEF Current
  <2> QED
    BY <2>1, <2>2, <2>3
<1> QED
  BY <1>1, <1>2 DEF FlightsCurrent, PlotCurrent

LEMMA RenderCurrent ==
  ASSUME OffsetInv, Panel!Render
  PROVE  FlightsCurrent' /\ PlotCurrent'
<1>1. /\ kind' = kind /\ offset' = offset
      /\ view' = [s \in Panel!Slots |-> Panel!Loaded(s)]
      /\ flights' = flights \cup {[ch |-> c, win |-> Panel!Window, off |-> offset[c]] : c \in Panel!Asked}
      /\ raced' = raced \ {<<c, Panel!Window>> : c \in Panel!Asked}
  BY DEF Panel!Render
<1>2. ASSUME NEW c \in Panel!Asked PROVE c \in PanelChannels
  <2>1. PICK s \in Panel!Slots : c \in Panel!Chans(Panel!Key(s))
    BY DEF Panel!Asked
  <2>2. bound \in Seq(PanelChannels) /\ live \subseteq PanelChannels
    BY DEF OffsetInv, PanelInv
  <2>3. CASE kind = "enum"
    BY <2>1, <2>2, <2>3, KeyIs DEF Panel!Slots
  <2>4. CASE kind # "enum"
    <3>1. s = Panel!Whole
      BY <2>4 DEF Panel!Slots
    <3>2. Panel!Key(s) = <<>> \/ Panel!Key(s)[1] = Panel!Resolved
      BY <3>1 DEF Panel!Key
    <3>3. Panel!ToSet(Panel!Resolved) \in SUBSET PanelChannels
      BY <2>2, ResolvedIs, SetOfSeq, PanelSets
    <3> QED
      BY <2>1, <3>2, <3>3 DEF Panel!Chans
  <2> QED
    BY <2>3, <2>4
<1>3. ASSUME NEW f \in flights' PROVE f.ch \in PanelChannels /\ Current(f)'
  <2>1. CASE f \in flights
    <3>1. f.ch \in PanelChannels /\ Current(f)
      BY <2>1 DEF OffsetInv, FlightsCurrent
    <3>2. ASSUME NEW c \in Panel!Asked, <<f.ch, f.win>> = <<c, Panel!Window>> PROVE FALSE
      BY <2>1, <3>2 DEF Panel!Asked, Panel!InFlight
    <3> QED
      BY <1>1, <3>1, <3>2 DEF Current
  <2>2. ASSUME NEW c \in Panel!Asked, f = [ch |-> c, win |-> Panel!Window, off |-> offset[c]]
        PROVE  f.ch \in PanelChannels /\ Current(f)'
    <3>1. f.ch = c /\ f.off = offset[c]
      BY <2>2
    <3> QED
      BY <1>1, <1>2, <3>1 DEF Current
  <2> QED
    BY <1>1, <2>1, <2>2
<1>4. ASSUME kind = "plot"
      PROVE  view'[Panel!Whole].got = {} /\ (view'[Panel!Whole].wanted = {} => view'[Panel!Whole].data = {})
  <2>1. Panel!Whole \in Panel!Slots /\ Panel!Reloads(Panel!Whole)
    BY <1>4 DEF Panel!Slots, Panel!Reloads
  <2>2. view'[Panel!Whole] = [key |-> Panel!Key(Panel!Whole), wanted |-> Panel!Chans(Panel!Key(Panel!Whole)), got |-> {},
                        data |-> Panel!Kept(Panel!Whole), failed |-> FALSE]
    BY <1>1, <2>1, BlankWith DEF Panel!Loaded
  <2>3. /\ view'[Panel!Whole].got = {} /\ view'[Panel!Whole].wanted = Panel!Chans(Panel!Key(Panel!Whole))
        /\ view'[Panel!Whole].data = Panel!Kept(Panel!Whole)
    BY <2>2
  <2>4. Panel!Chans(Panel!Key(Panel!Whole)) = {} => Panel!Kept(Panel!Whole) = {}
    BY <2>1, KeyIs DEF OffsetInv, PanelInv, Panel!Kept
  <2> QED
    BY <2>3, <2>4
<1>5. FlightsCurrent'
  BY <1>1, <1>3 DEF FlightsCurrent, OffsetInv
<1>6. PlotCurrent'
  BY <1>1, <1>4 DEF PlotCurrent
<1> QED
  BY <1>5, <1>6

LEMMA LandsCurrent ==
  ASSUME OffsetInv, Panel!FetchLands \/ Panel!FetchFails
  PROVE  FlightsCurrent' /\ PlotCurrent'
<1>1. UNCHANGED <<kind, offset, dirty, raced>> /\ flights' \subseteq flights
  BY DEF Panel!FetchLands, Panel!FetchFails
<1>2. PICK f \in flights : \A s \in Panel!Slots :
        view'[s] \in {view[s], Panel!Answered(view[s], f), Panel!Failed(view[s])}
  BY DEF Panel!FetchLands, Panel!FetchFails
<1>3. \A g : Current(g)' <=> Current(g)
  BY <1>1 DEF Current
<1>4. FlightsCurrent'
  BY <1>1, <1>3 DEF FlightsCurrent, OffsetInv
<1>5. ASSUME kind = "plot", dirty = {}
      PROVE  /\ \A g \in view'[Panel!Whole].got : Current(g)
             /\ (view'[Panel!Whole].wanted = {} /\ ~ view'[Panel!Whole].failed) =>
                  \A g \in view'[Panel!Whole].data : Current(g)
  <2>1. Current(f)
    BY DEF OffsetInv, FlightsCurrent
  <2>2. PICK v : v = view[Panel!Whole]
    OBVIOUS
  <2>3. /\ DOMAIN v = {"key", "wanted", "got", "data", "failed"}
        /\ \A g \in v.got : Current(g)
        /\ (v.wanted = {} /\ ~ v.failed) => \A g \in v.data : Current(g)
        /\ view'[Panel!Whole] \in {v, Panel!Answered(v, f), Panel!Failed(v)}
    BY <1>2, <1>5, <2>2 DEF OffsetInv, PanelInv, SlotFits, PlotCurrent, Panel!Slots
  <2>4. CASE view'[Panel!Whole] = v
    BY <2>3, <2>4
  <2>5. CASE view'[Panel!Whole] = Panel!Failed(v)
    <3>1. view'[Panel!Whole].got = {} /\ view'[Panel!Whole].failed
      BY <2>3, <2>5 DEF Panel!Failed
    <3> QED
      BY <3>1
  <2>6. CASE view'[Panel!Whole] = Panel!Answered(v, f)
    <3> DEFINE w1 == [v EXCEPT !.wanted = v.wanted \ {f.ch}]
               more == [w1 EXCEPT !.got = v.got \cup {f}]
               d1 == [more EXCEPT !.data = more.got]
               done == [d1 EXCEPT !.got = {}]
    <3>1. Panel!Answered(v, f) = IF more.wanted = {} THEN done ELSE more
      <4>1. more = [v EXCEPT !.wanted = @ \ {f.ch}, !.got = @ \cup {f}]
        BY <2>3
      <4>2. done = [more EXCEPT !.data = more.got, !.got = {}]
        OBVIOUS
      <4> QED
        BY <4>1, <4>2 DEF Panel!Answered
    <3>2. more.got = v.got \cup {f} /\ DOMAIN more = DOMAIN v
      BY <2>3
    <3>3. done.got = {} /\ done.data = v.got \cup {f}
      BY <2>3, <3>2
    <3> HIDE DEF w1, more, d1, done
    <3> QED
      BY <2>1, <2>3, <2>6, <3>1, <3>2, <3>3
  <2> QED
    BY <2>3, <2>4, <2>5, <2>6
<1>6. PlotCurrent'
  BY <1>1, <1>3, <1>5 DEF PlotCurrent
<1> QED
  BY <1>4, <1>6

LEMMA OffsetNextInv == OffsetInv /\ [Panel!Next]_(Panel!vars) => OffsetInv'
<1> SUFFICES ASSUME OffsetInv, [Panel!Next]_(Panel!vars) PROVE FlightsCurrent' /\ PlotCurrent'
  BY PanelNextInv DEF OffsetInv
<1>0. DOMAIN offset = PanelChannels
  BY DEF OffsetInv, FlightsCurrent
<1>1. ASSUME NEW c \in PanelChannels, Panel!OpenSource(c) PROVE FlightsCurrent' /\ PlotCurrent'
  <2>1. /\ Panel!Update("sources") /\ flights' = flights /\ offset' = [offset EXCEPT ![c] = 0]
        /\ raced' = raced \cup Panel!Outdated(c)
    BY <1>1 DEF Panel!OpenSource
  <2> QED
    BY <1>0, <2>1, UpdateCurrent
<1>2. ASSUME NEW c \in PanelChannels, Panel!RemoveSource(c) PROVE FlightsCurrent' /\ PlotCurrent'
  <2>1. Panel!Update("sources") /\ flights' = flights /\ offset' = offset /\ raced' = raced
    BY <1>2 DEF Panel!RemoveSource
  <2> QED
    BY <1>0, <2>1, UpdateCurrent
<1>3. ASSUME NEW c \in PanelChannels, NEW o \in {0, 1}, Panel!SetSourceOffset(c, o)
      PROVE  FlightsCurrent' /\ PlotCurrent'
  <2>1. /\ Panel!Update("sources") /\ flights' = flights /\ offset' = [offset EXCEPT ![c] = o]
        /\ raced' = raced \cup Panel!Outdated(c)
    BY <1>3 DEF Panel!SetSourceOffset
  <2> QED
    BY <1>0, <2>1, UpdateCurrent
<1>4. ASSUME NEW ids \in Panel!Bindings, Panel!SetBinding(ids) PROVE FlightsCurrent' /\ PlotCurrent'
  <2>1. Panel!Update("bound") /\ flights' = flights /\ offset' = offset /\ raced' = raced
    BY <1>4 DEF Panel!SetBinding
  <2> QED
    BY <1>0, <2>1, UpdateCurrent
<1>5. CASE Panel!Restyle
  <2>1. Panel!Update("style") /\ flights' = flights /\ offset' = offset /\ raced' = raced
    BY <1>5 DEF Panel!Restyle
  <2> QED
    BY <1>0, <2>1, UpdateCurrent
<1>6. CASE UNCHANGED Panel!vars
  <2>1. UNCHANGED <<kind, dirty, view, flights, offset, raced>>
    BY <1>6 DEF Panel!vars
  <2> QED
    BY <2>1 DEF OffsetInv, FlightsCurrent, PlotCurrent, Current
<1> QED
  BY <1>1, <1>2, <1>3, <1>4, <1>5, <1>6, RenderCurrent, LandsCurrent DEF Panel!Next

(* A plot follows the time offsets: what it draws was read with the        *)
(* offset its source has, unless that changed while the read was under way *)
(* and the new request joined it (PlotPanel.tsx:270-276, store.ts:1126).   *)
THEOREM PlotFollowsOffsets == Panel!Spec => []PlotOffsets
<1>1. OffsetInv => PlotOffsets
  BY DEF OffsetInv, PlotCurrent, PlotOffsets, Panel!PlotOffsets, Current
<1> QED
  BY <1>1, OffsetInitInv, OffsetNextInv, PTL DEF Panel!Spec

-----------------------------------------------------------------------------
(* FrameBlit: what the canvas shows.                                       *)

(* A non-empty finite set of naturals has a greatest element: among the    *)
(* sets {g \in S : g > f} one is minimal under inclusion, and is empty.    *)
LEMMA GreatestExists ==
  ASSUME NEW S, S \subseteq Nat, IsFiniteSet(S), S # {}
  PROVE  \E x \in S : \A y \in S : x >= y
<1> DEFINE Above(f) == {g \in S : g > f}
           Tops == {Above(f) : f \in S}
<1>1. IsWellFoundedOn(StrictSubsetOrdering(S), FiniteSubsetsOf(S))
  BY FS_StrictSubsetOrderingWellFounded
<1>2. Tops \subseteq FiniteSubsetsOf(S)
  BY FS_FiniteSubsetsOfFinite
<1>3. Tops # {}
  OBVIOUS
<1> HIDE DEF Tops
<1>4. PICK X \in Tops : \A Y \in Tops : ~(<<Y, X>> \in StrictSubsetOrdering(S))
  BY <1>1, <1>2, <1>3, WFMin
<1>5. PICK x \in S : X = Above(x)
  BY <1>4 DEF Tops
<1>6. ASSUME NEW y \in S, y > x
      PROVE  FALSE
  <2>1. Above(y) \in Tops
    BY <1>6 DEF Tops
  <2>2. Above(y) \subseteq Above(x)
    <3>1. \A g \in S : g > y => g > x
      <4>1. \A g \in Nat, i \in Nat, j \in Nat : g > i /\ i > j => g > j
        OBVIOUS
      <4> QED
        BY <4>1, <1>6
    <3> QED
      BY <3>1
  <2>3. y \in Above(x) /\ y \notin Above(y)
    <3>1. y \in Nat
      OBVIOUS
    <3> QED
      BY <1>6, <3>1
  <2>4. <<Above(y), Above(x)>> \in StrictSubsetOrdering(S)
    BY <2>2, <2>3 DEF StrictSubsetOrdering
  <2> QED
    BY <2>1, <2>4, <1>4, <1>5
<1> QED
  BY <1>6

LEMMA MaxProperty ==
  ASSUME NEW S, S \subseteq Nat, IsFiniteSet(S), S # {}
  PROVE  Max(S) \in S /\ \A y \in S : y <= Max(S)
<1>1. PICK x \in S : \A y \in S : x >= y
  BY GreatestExists
<1>2. Max(S) \in S /\ \A y \in S : Max(S) >= y
  BY <1>1 DEF Max
<1> QED
  BY <1>2

(* Dually, by the same argument on the sets of smaller elements.           *)
LEMMA LeastExists ==
  ASSUME NEW S, S \subseteq Nat, IsFiniteSet(S), S # {}
  PROVE  \E x \in S : \A y \in S : x <= y
<1> DEFINE Below(f) == {g \in S : g < f}
           Bottoms == {Below(f) : f \in S}
<1>1. IsWellFoundedOn(StrictSubsetOrdering(S), FiniteSubsetsOf(S))
  BY FS_StrictSubsetOrderingWellFounded
<1>2. Bottoms \subseteq FiniteSubsetsOf(S)
  BY FS_FiniteSubsetsOfFinite
<1>3. Bottoms # {}
  OBVIOUS
<1> HIDE DEF Bottoms
<1>4. PICK X \in Bottoms : \A Y \in Bottoms : ~(<<Y, X>> \in StrictSubsetOrdering(S))
  BY <1>1, <1>2, <1>3, WFMin
<1>5. PICK x \in S : X = Below(x)
  BY <1>4 DEF Bottoms
<1>6. ASSUME NEW y \in S, y < x
      PROVE  FALSE
  <2>1. Below(y) \in Bottoms
    BY <1>6 DEF Bottoms
  <2>2. Below(y) \subseteq Below(x)
    <3>1. \A g \in S : g < y => g < x
      <4>1. \A g \in Nat, i \in Nat, j \in Nat : g < i /\ i < j => g < j
        OBVIOUS
      <4> QED
        BY <4>1, <1>6
    <3> QED
      BY <3>1
  <2>3. y \in Below(x) /\ y \notin Below(y)
    <3>1. y \in Nat
      OBVIOUS
    <3> QED
      BY <1>6, <3>1
  <2>4. <<Below(y), Below(x)>> \in StrictSubsetOrdering(S)
    BY <2>2, <2>3 DEF StrictSubsetOrdering
  <2> QED
    BY <2>1, <2>4, <1>4, <1>5
<1> QED
  BY <1>6

-----------------------------------------------------------------------------
(***************************************************************************)
(* The inductive invariant, as predicates of the blit state.  Queued is    *)
(* the strengthening: a released frame has been overtaken on the screen or *)
(* is still in the blit queue, wherever the cursor is.                     *)
(***************************************************************************)
Queued(x) == \A f \in Released(x) : f <= x.shown \/ f \in x.blit

Held(x) ==
  /\ Cardinality(x.reorder) <= REORDER_HOLD_FRAMES
  /\ ~x.playing => x.reorder = {}

NoWait(x) == x.canvas => Due(x) = {}

BlitInv(x) == x \in BlitState /\ Queued(x) /\ Held(x) /\ NoWait(x)

(* What an operator that ends in a blit may do to the picture.             *)
ShownGrows(x, y) ==
  y.shown # x.shown => y.shown > x.shown /\ y.shown <= y.cursor

LEMMA SubsetsOfPts ==
  ASSUME NEW S \in SUBSET Pts
  PROVE  S \subseteq Nat /\ IsFiniteSet(S) /\ Cardinality(S) \in Nat
<1>1. IsFiniteSet(S)
  BY PtsAssumption, FS_Subset
<1> QED
  BY <1>1, PtsAssumption, FS_CardinalityType

(* Blitting leaves no due frame, accounts for every released one and moves *)
(* the picture forward only, up to the cursor.                             *)
LEMMA BlitWorks ==
  ASSUME NEW x \in BlitState, Queued(x)
  PROVE  LET y == BlitForCursor(x)
         IN  /\ y \in BlitState
             /\ Queued(y)
             /\ NoWait(y)
             /\ y.reorder = x.reorder /\ y.playing = x.playing
             /\ y.cursor = x.cursor
             /\ ShownGrows(x, y)
<1> DEFINE y == BlitForCursor(x)
<1>1. CASE ~x.canvas \/ Due(x) = {}
  BY <1>1 DEF BlitForCursor, NoWait, ShownGrows
<1>2. CASE x.canvas /\ Due(x) # {}
  <2>1. Due(x) \in SUBSET Pts
    BY DEF Due, BlitState
  <2>2. Max(Due(x)) \in Due(x) /\ \A f \in Due(x) : f <= Max(Due(x))
    BY <1>2, <2>1, SubsetsOfPts, MaxProperty
  <2> DEFINE top == Max(Due(x))
             sh == IF top > x.shown THEN top ELSE x.shown
  <2>3. y = [x EXCEPT !.blit = x.blit \ Due(x), !.shown = sh]
    BY <1>2 DEF BlitForCursor
  <2>4. /\ top \in Pts /\ top \in Nat /\ top <= x.cursor
        /\ x.shown \in Int /\ x.cursor \in Nat
    <3>1. x.shown \in Int /\ x.cursor \in Nat /\ x.blit \subseteq Pts
      <4>1. x.shown \in Pts \cup {NoPts} /\ x.cursor \in Nat /\ x.blit \subseteq Pts
        BY DEF BlitState
      <4>2. NoPts \in Int
        BY DEF NoPts
      <4>3. x.shown \in Int
        <5>1. CASE x.shown \in Pts
          <6>1. x.shown \in Nat
            BY <5>1, PtsAssumption
          <6> QED
            BY <6>1
        <5>2. CASE x.shown = NoPts
          BY <5>2, <4>2
        <5> QED
          BY <4>1, <5>1, <5>2
      <4> QED
        BY <4>1, <4>3
    <3>2. top \in x.blit /\ top <= x.cursor
      BY <2>2 DEF Due
    <3> QED
      BY <3>1, <3>2, PtsAssumption
  <2> HIDE DEF top
  <2>5. /\ sh \in Pts \cup {NoPts} /\ sh \in Int /\ sh >= x.shown /\ sh >= top
        /\ sh # x.shown => sh > x.shown /\ sh <= x.cursor
    BY <2>4 DEF BlitState
  <2> HIDE DEF sh
  <2>6. /\ y \in BlitState
        /\ y.blit = x.blit \ Due(x) /\ y.shown = sh /\ y.cursor = x.cursor
        /\ y.reorder = x.reorder /\ y.playing = x.playing
        /\ y.emitted = x.emitted /\ y.dropped = x.dropped
    BY <2>3, <2>5 DEF BlitState
  <2>7. Due(y) = {}
    BY <2>6 DEF Due
  <2>8. ASSUME NEW f \in Released(y)
        PROVE  f <= y.shown \/ f \in y.blit
    <3>1. f \in Released(x) /\ f \in Nat
      BY <2>6, PtsAssumption DEF Released, BlitState
    <3>2. CASE f \in Due(x)
      BY <3>1, <3>2, <2>2, <2>4, <2>5, <2>6 DEF top
    <3>3. CASE f \notin Due(x) /\ f \in x.blit
      BY <3>3, <2>6
    <3>4. CASE f <= x.shown
      BY <3>4, <3>1, <2>4, <2>5, <2>6
    <3> QED
      BY <3>1, <3>2, <3>3, <3>4 DEF Queued
  <2> QED
    BY <2>5, <2>6, <2>7, <2>8 DEF Queued, NoWait, ShownGrows
<1> QED
  BY <1>1, <1>2

(* The frames kept by a release are at most as many as it may keep: the    *)
(* least of them has fewer than that many above it.                        *)
LEMMA KeptBound ==
  ASSUME NEW x \in BlitState, NEW keep \in Nat
  PROVE  LET K == x.reorder \ Releasable(x, keep)
         IN  /\ K \subseteq Pts
             /\ Cardinality(K) <= keep
             /\ keep = 0 => K = {}
<1> DEFINE K == x.reorder \ Releasable(x, keep)
           Above(f) == {g \in x.reorder : g > f}
<1>1. x.reorder \in SUBSET Pts /\ K \in SUBSET Pts
  BY DEF BlitState
<1>2. ASSUME NEW f
      PROVE  Above(f) \in SUBSET Pts /\ IsFiniteSet(Above(f)) /\ Cardinality(Above(f)) \in Nat
  BY <1>1, SubsetsOfPts
<1>3. \A f \in K : ~(Cardinality(Above(f)) >= keep)
  BY DEF Releasable
<1>4. \A f \in K : Cardinality(Above(f)) < keep
  <2>1. \A c \in Nat : ~(c >= keep) => c < keep
    OBVIOUS
  <2> QED
    BY <1>2, <1>3, <2>1
<1>5. CASE K = {}
  BY <1>5, FS_EmptySet
<1>6. CASE K # {}
  <2>1. PICK m \in K : \A g \in K : m <= g
    BY <1>6, <1>1, SubsetsOfPts, LeastExists
  <2>2. K \subseteq Above(m) \cup {m}
    <3>1. \A g \in K : g = m \/ g > m
      BY <2>1, <1>1, SubsetsOfPts
    <3> QED
      BY <3>1
  <2>3. /\ IsFiniteSet(Above(m) \cup {m})
        /\ Cardinality(Above(m) \cup {m}) <= Cardinality(Above(m)) + 1
    <3>1. ASSUME NEW A, IsFiniteSet(A), Cardinality(A) \in Nat
          PROVE  /\ IsFiniteSet(A \cup {m})
                 /\ Cardinality(A \cup {m}) <= Cardinality(A) + 1
      <4>1. CASE m \in A
        BY <3>1, <4>1, FS_AddElement
      <4>2. CASE m \notin A
        <5>1. /\ IsFiniteSet(A \cup {m})
              /\ Cardinality(A \cup {m}) = Cardinality(A) + 1
          BY <3>1, <4>2, FS_AddElement
        <5> QED
          BY <3>1, <5>1
      <4> QED
        BY <4>1, <4>2
    <3> HIDE DEF Above
    <3> QED
      BY <1>2, <3>1
  <2>4. Cardinality(K) <= Cardinality(Above(m) \cup {m})
    <3> HIDE DEF K, Above
    <3> QED
      BY <2>2, <2>3, FS_Subset
  <2>5. Cardinality(Above(m)) < keep /\ Cardinality(Above(m)) \in Nat
    BY <1>2, <1>4, <2>1
  <2>6. Cardinality(K) \in Nat /\ Cardinality(Above(m) \cup {m}) \in Nat
    BY <1>1, <2>3, SubsetsOfPts, FS_CardinalityType
  <2>7. keep # 0
    BY <2>5
  <2>8. Cardinality(K) <= keep
    <3> HIDE DEF K, Above
    <3> QED
      BY <2>3, <2>4, <2>5, <2>6
  <2> QED
    BY <1>1, <2>7, <2>8
<1> QED
  BY <1>5, <1>6

(* Releasing and blitting restores the whole invariant.                    *)
LEMMA ReleaseWorks ==
  ASSUME NEW x \in BlitState, Queued(x), NEW flushAll \in BOOLEAN,
         ~x.playing => flushAll
  PROVE  LET y == ReleaseReordered(x, flushAll)
         IN  BlitInv(y) /\ ShownGrows(x, y) /\ y.cursor = x.cursor
<1> DEFINE keep == IF flushAll THEN 0 ELSE REORDER_HOLD_FRAMES
           r == Release(x, keep)
           y == ReleaseReordered(x, flushAll)
<1>1. keep \in Nat /\ keep <= REORDER_HOLD_FRAMES
  BY HoldAssumption
<1>2. x.reorder \ Releasable(x, keep) \subseteq Pts /\ Releasable(x, keep) \subseteq x.reorder
  BY DEF BlitState, Releasable
<1>3. /\ r \in BlitState
      /\ r.reorder = x.reorder \ Releasable(x, keep)
      /\ r.blit = x.blit \cup Releasable(x, keep)
      /\ r.shown = x.shown /\ r.playing = x.playing /\ r.cursor = x.cursor
      /\ r.emitted = x.emitted /\ r.dropped = x.dropped
  BY <1>2 DEF Release, BlitState
<1>4. Queued(r)
  BY <1>2, <1>3 DEF Queued, Released
<1>5. /\ Cardinality(r.reorder) <= keep /\ Cardinality(r.reorder) \in Nat
      /\ keep = 0 => r.reorder = {}
  BY <1>1, <1>2, <1>3, KeptBound, SubsetsOfPts
<1>6. y = BlitForCursor(r)
  BY DEF ReleaseReordered
<1> HIDE DEF r, y
<1>7. /\ y \in BlitState /\ Queued(y) /\ NoWait(y)
      /\ y.reorder = r.reorder /\ y.playing = x.playing /\ y.cursor = x.cursor
      /\ ShownGrows(r, y)
  BY <1>3, <1>4, <1>6, BlitWorks
<1>8. Cardinality(y.reorder) <= REORDER_HOLD_FRAMES
  BY <1>1, <1>5, <1>7, HoldAssumption
<1>9. ~y.playing => y.reorder = {}
  BY <1>5, <1>7
<1> QED
  BY <1>3, <1>7, <1>8, <1>9 DEF BlitInv, Held, ShownGrows, y

LEMMA InsertWorks ==
  ASSUME NEW x \in BlitState, Queued(x), NEW f \in Pts
  PROVE  LET y == Insert(x, f)
         IN  /\ y \in BlitState /\ Queued(y)
             /\ y.shown = x.shown /\ y.playing = x.playing /\ y.cursor = x.cursor
<1> DEFINE y == Insert(x, f)
<1>1. Victim(x) \in SUBSET Pts
  <2>1. CASE x.reorder = {}
    BY <2>1 DEF Victim
  <2>2. CASE x.reorder # {}
    <3>1. x.reorder \in SUBSET Pts
      BY DEF BlitState
    <3>2. Max(x.reorder) \in Pts
      BY <2>2, <3>1, SubsetsOfPts, MaxProperty
    <3> QED
      BY <3>2 DEF Victim
  <2> QED
    BY <2>1, <2>2
<1>2. /\ y \in BlitState
      /\ y.reorder = (x.reorder \ Victim(x)) \cup {f}
      /\ y.emitted = x.emitted \cup {f}
      /\ y.dropped = x.dropped \cup Victim(x)
      /\ y.blit = x.blit /\ y.shown = x.shown
      /\ y.playing = x.playing /\ y.cursor = x.cursor
  BY <1>1 DEF Insert, BlitState
<1>3. Released(y) \subseteq Released(x)
  BY <1>2 DEF Released
<1> QED
  BY <1>2, <1>3 DEF Queued

LEMMA EmitWorks ==
  ASSUME NEW x \in BlitState, Queued(x), NEW f \in Pts
  PROVE  LET y == EmitFrame(x, f)
         IN  BlitInv(y) /\ ShownGrows(x, y) /\ y.cursor = x.cursor
<1> DEFINE i == Insert(x, f)
<1>1. /\ i \in BlitState /\ Queued(i)
      /\ i.shown = x.shown /\ i.playing = x.playing /\ i.cursor = x.cursor
  BY InsertWorks
<1>2. EmitFrame(x, f) = ReleaseReordered(i, ~x.playing)
  BY DEF EmitFrame
<1>3. ~i.playing => ~x.playing
  BY <1>1
<1> HIDE DEF i
<1>4. LET y == ReleaseReordered(i, ~x.playing)
      IN  BlitInv(y) /\ ShownGrows(i, y) /\ y.cursor = i.cursor
  BY <1>1, <1>3, ReleaseWorks
<1> QED
  BY <1>1, <1>2, <1>4 DEF ShownGrows

(* The screen moves forward across two operators as it does across each.   *)
LEMMA GrowsTransitive ==
  ASSUME NEW x \in BlitState, NEW y \in BlitState, NEW z \in BlitState,
         ShownGrows(x, y), ShownGrows(y, z), z.cursor = y.cursor
  PROVE  ShownGrows(x, z)
<1>1. \A s \in Pts \cup {NoPts} : s \in Int
  BY PtsAssumption DEF NoPts
<1>2. x.shown \in Int /\ y.shown \in Int /\ z.shown \in Int
  BY <1>1 DEF BlitState
<1> QED
  BY <1>2 DEF ShownGrows

LEMMA FlushWorks ==
  ASSUME NEW x \in BlitState
  PROVE  BlitInv(FlushBlitQueue(x)) /\ FlushBlitQueue(x).shown = NoPts
<1> DEFINE y == FlushBlitQueue(x)
<1>1. /\ y \in BlitState
      /\ y.reorder = {} /\ y.blit = {} /\ y.emitted = {} /\ y.shown = NoPts
  BY DEF FlushBlitQueue, BlitState
<1>2. Cardinality(y.reorder) <= REORDER_HOLD_FRAMES
  BY <1>1, FS_EmptySet, HoldAssumption
<1> QED
  BY <1>1, <1>2 DEF BlitInv, Queued, Held, NoWait, Released, Due

(* Moving the cursor and blitting keeps the whole invariant.               *)
LEMMA AtCursorWorks ==
  ASSUME NEW x, BlitInv(x), NEW ns \in Nat
  PROVE  BlitInv(AtCursor(x, ns)) /\ ShownGrows(x, AtCursor(x, ns))
<1> DEFINE i == [x EXCEPT !.cursor = ns]
<1>1. x \in BlitState /\ Queued(x) /\ Held(x)
  BY DEF BlitInv
<1>2. /\ i \in BlitState
      /\ i.reorder = x.reorder /\ i.blit = x.blit /\ i.shown = x.shown
      /\ i.playing = x.playing /\ i.emitted = x.emitted /\ i.dropped = x.dropped
  BY <1>1 DEF BlitState
<1>3. Queued(i)
  BY <1>1, <1>2 DEF Queued, Released
<1>4. AtCursor(x, ns) = BlitForCursor(i)
  BY DEF AtCursor
<1> HIDE DEF i
<1>5. LET y == BlitForCursor(i)
      IN  /\ y \in BlitState /\ Queued(y) /\ NoWait(y)
          /\ y.reorder = x.reorder /\ y.playing = x.playing /\ ShownGrows(i, y)
  BY <1>2, <1>3, BlitWorks
<1> QED
  BY <1>1, <1>2, <1>4, <1>5 DEF BlitInv, Held, ShownGrows

LEMMA StartPlaybackWorks ==
  ASSUME NEW x, BlitInv(x), NEW ns \in Nat
  PROVE  BlitInv(StartPlayback(x, ns)) /\ ShownGrows(x, StartPlayback(x, ns))
<1> DEFINE i == [x EXCEPT !.playing = TRUE]
<1>1. x \in BlitState /\ Queued(x) /\ Held(x) /\ NoWait(x)
  BY DEF BlitInv
<1>2. /\ i \in BlitState
      /\ i.reorder = x.reorder /\ i.blit = x.blit /\ i.shown = x.shown
      /\ i.canvas = x.canvas /\ i.cursor = x.cursor
      /\ i.emitted = x.emitted /\ i.dropped = x.dropped /\ i.playing
  BY <1>1 DEF BlitState
<1>3. BlitInv(i)
  BY <1>1, <1>2 DEF BlitInv, Queued, Released, Held, NoWait, Due
<1>4. StartPlayback(x, ns) = AtCursor(i, ns)
  BY DEF StartPlayback
<1> HIDE DEF i
<1> QED
  BY <1>2, <1>3, <1>4, AtCursorWorks DEF ShownGrows

LEMMA StopPlaybackWorks ==
  ASSUME NEW x, BlitInv(x), NEW ns \in Nat
  PROVE  BlitInv(StopPlayback(x, ns)) /\ ShownGrows(x, StopPlayback(x, ns))
<1> DEFINE i == [x EXCEPT !.playing = FALSE, !.cursor = ns, !.ordered = FALSE]
<1>1. x \in BlitState /\ Queued(x)
  BY DEF BlitInv
<1>2. /\ i \in BlitState
      /\ i.reorder = x.reorder /\ i.blit = x.blit /\ i.shown = x.shown
      /\ i.emitted = x.emitted /\ i.dropped = x.dropped
  BY <1>1 DEF BlitState
<1>3. Queued(i)
  BY <1>1, <1>2 DEF Queued, Released
<1>4. StopPlayback(x, ns) = ReleaseReordered(i, TRUE)
  BY DEF StopPlayback
<1> HIDE DEF i
<1> QED
  BY <1>2, <1>3, <1>4, ReleaseWorks DEF ShownGrows

LEMMA AttachCanvasWorks ==
  ASSUME NEW x, BlitInv(x)
  PROVE  BlitInv(AttachCanvas(x)) /\ ShownGrows(x, AttachCanvas(x))
<1> DEFINE i == [x EXCEPT !.canvas = TRUE]
<1>1. x \in BlitState /\ Queued(x) /\ Held(x)
  BY DEF BlitInv
<1>2. /\ i \in BlitState
      /\ i.reorder = x.reorder /\ i.blit = x.blit /\ i.shown = x.shown
      /\ i.playing = x.playing /\ i.emitted = x.emitted /\ i.dropped = x.dropped
  BY <1>1 DEF BlitState
<1>3. Queued(i)
  BY <1>1, <1>2 DEF Queued, Released
<1>4. AttachCanvas(x) = BlitForCursor(i)
  BY DEF AttachCanvas
<1> HIDE DEF i
<1>5. LET y == BlitForCursor(i)
      IN  /\ y \in BlitState /\ Queued(y) /\ NoWait(y)
          /\ y.reorder = x.reorder /\ y.playing = x.playing /\ ShownGrows(i, y)
  BY <1>2, <1>3, BlitWorks
<1> QED
  BY <1>1, <1>2, <1>4, <1>5 DEF BlitInv, Held, ShownGrows

(* The watermark moves while no session is open, when the queue is empty.  *)
LEMMA ReseedWorks ==
  ASSUME NEW x, BlitInv(x), x.blit = {}, NEW t \in Nat
  PROVE  BlitInv(Reseed(x, t)) /\ ShownGrows(x, Reseed(x, t))
<1> DEFINE y == Reseed(x, t)
<1>1. x \in BlitState /\ Queued(x) /\ Held(x) /\ x.cursor \in Nat
  BY DEF BlitInv, BlitState
<1>2. /\ y \in BlitState
      /\ y.reorder = x.reorder /\ y.blit = x.blit /\ y.shown = x.shown
      /\ y.playing = x.playing /\ y.emitted = x.emitted /\ y.dropped = x.dropped
  BY <1>1 DEF BlitState, Reseed
<1> QED
  BY <1>1, <1>2 DEF BlitInv, Queued, Released, Held, NoWait, Due, ShownGrows

LEMMA EmitIfAnyWorks ==
  ASSUME NEW x, BlitInv(x), NEW f \in Pts \cup {NoPts}
  PROVE  LET y == EmitIfAny(x, f)
         IN  BlitInv(y) /\ ShownGrows(x, y) /\ y.cursor = x.cursor
<1>1. x \in BlitState /\ Queued(x)
  BY DEF BlitInv
<1>2. CASE f = NoPts
  BY <1>2 DEF EmitIfAny, ShownGrows
<1>3. CASE f # NoPts
  BY <1>1, <1>3, EmitWorks DEF EmitIfAny
<1> QED
  BY <1>2, <1>3

(* Without a session both queues are empty, and stay so.                   *)
NoFrames(x) == x.blit = {} /\ x.reorder = {}

LEMMA NoFramesBlit ==
  ASSUME NEW x \in BlitState, NoFrames(x)
  PROVE  NoFrames(BlitForCursor(x))
BY DEF NoFrames, BlitForCursor, Due

LEMMA NoFramesKept ==
  ASSUME NEW x \in BlitState, NoFrames(x), NEW ns \in Nat
  PROVE  /\ NoFrames(AtCursor(x, ns))
         /\ NoFrames(StartPlayback(x, ns))
         /\ NoFrames(StopPlayback(x, ns))
         /\ NoFrames(AttachCanvas(x))
         /\ NoFrames(Reseed(x, ns))
<1>1. NoFrames(AtCursor(x, ns))
  <2> DEFINE i == [x EXCEPT !.cursor = ns]
  <2>1. i \in BlitState /\ NoFrames(i)
    BY DEF BlitState, NoFrames
  <2> QED
    BY <2>1, NoFramesBlit DEF AtCursor
<1>2. NoFrames(StartPlayback(x, ns))
  <2> DEFINE i == [[x EXCEPT !.playing = TRUE] EXCEPT !.cursor = ns]
  <2>1. i \in BlitState /\ NoFrames(i)
    BY DEF BlitState, NoFrames
  <2> QED
    BY <2>1, NoFramesBlit DEF AtCursor, StartPlayback
<1>3. NoFrames(StopPlayback(x, ns))
  <2> DEFINE i == [x EXCEPT !.playing = FALSE, !.cursor = ns, !.ordered = FALSE]
             r == Release(i, 0)
  <2>1. i \in BlitState /\ NoFrames(i)
    BY DEF BlitState, NoFrames
  <2>2. r \in BlitState /\ NoFrames(r)
    BY <2>1 DEF BlitState, NoFrames, Release, Releasable
  <2>3. StopPlayback(x, ns) = BlitForCursor(r)
    BY DEF StopPlayback, ReleaseReordered
  <2> QED
    BY <2>2, <2>3, NoFramesBlit
<1>4. NoFrames(AttachCanvas(x))
  <2> DEFINE i == [x EXCEPT !.canvas = TRUE]
  <2>1. i \in BlitState /\ NoFrames(i)
    BY DEF BlitState, NoFrames
  <2> QED
    BY <2>1, NoFramesBlit DEF AttachCanvas
<1>5. NoFrames(Reseed(x, ns))
  BY DEF BlitState, NoFrames, Reseed
<1> QED
  BY <1>1, <1>2, <1>3, <1>4, <1>5

LEMMA NoFramesFlushed ==
  ASSUME NEW x \in BlitState
  PROVE  NoFrames(FlushBlitQueue(x))
BY DEF BlitState, NoFrames, FlushBlitQueue

-----------------------------------------------------------------------------
(***************************************************************************)
(* The inductive invariant of the specification, and its step.             *)
(***************************************************************************)
IInv ==
  /\ BlitInv(b)
  /\ session \in SessionState
  /\ ~IsOpen => NoFrames(b)

(* A step of the picture: forward up to the cursor, or cleared by a flush. *)
DisplayStep == ShownGrows(b, b') \/ b'.shown = NoPts

LEMMA InitInv == Init => IInv
<1> SUFFICES ASSUME Init PROVE IInv
  OBVIOUS
<1>1. b = InitBlit /\ session = NoSession
  BY DEF Init
<1>2. InitBlit \in BlitState /\ InitBlit.reorder = {} /\ InitBlit.blit = {} /\ InitBlit.emitted = {}
  BY DEF InitBlit, BlitState
<1>3. BlitInv(InitBlit)
  BY <1>2, FS_EmptySet, HoldAssumption
  DEF BlitInv, Queued, Released, Held, NoWait, Due
<1>4. session \in SessionState
  BY <1>1 DEF NoSession, SessionState
<1> QED
  BY <1>1, <1>2, <1>3, <1>4 DEF IInv, NoFrames

LEMMA StepInv == IInv /\ [Next]_vars => IInv' /\ DisplayStep
<1> SUFFICES ASSUME IInv, [Next]_vars PROVE IInv' /\ DisplayStep
  OBVIOUS
<1>0. /\ BlitInv(b) /\ b \in BlitState /\ Queued(b)
      /\ session \in SessionState
      /\ ~IsOpen => NoFrames(b)
  BY DEF IInv, BlitInv
<1>1. ASSUME NEW t \in Cursors, ReseedCursor(t)
      PROVE  IInv' /\ DisplayStep
  <2>1. t \in Nat /\ b.blit = {} /\ NoFrames(b)
    BY <1>0, <1>1, CursorsAssumption DEF ReseedCursor, NoFrames
  <2>2. b' = Reseed(b, t) /\ session' = session
    BY <1>1 DEF ReseedCursor
  <2>3. BlitInv(b') /\ ShownGrows(b, b') /\ NoFrames(b')
    BY <1>0, <2>1, <2>2, ReseedWorks, NoFramesKept
  <2> QED
    BY <1>0, <2>2, <2>3 DEF IInv, DisplayStep
<1>2. ASSUME NEW t \in Cursors, OpenSession(t)
      PROVE  IInv' /\ DisplayStep
  <2>1. b' = b /\ session' = [NoSession EXCEPT !.from = t] /\ t \in Nat
    BY <1>2, CursorsAssumption DEF OpenSession
  <2>2. session' \in SessionState /\ session'.from = t
    BY <2>1 DEF SessionState, NoSession
  <2>3. IsOpen'
    BY <2>1, <2>2 DEF IsOpen, NoPts
  <2> QED
    BY <1>0, <2>1, <2>2, <2>3 DEF IInv, DisplayStep, ShownGrows
<1>3. ASSUME NEW t \in Cursors, SetCursor(t)
      PROVE  IInv' /\ DisplayStep
  <2> DEFINE ns == IF b.playing THEN b.cursor ELSE t
  <2>1. ns \in Nat
    BY <1>0, CursorsAssumption DEF BlitState
  <2>2. b' = AtCursor(b, ns) /\ session' = session
    BY <1>3 DEF SetCursor
  <2> HIDE DEF ns
  <2>3. BlitInv(b') /\ ShownGrows(b, b') /\ (NoFrames(b) => NoFrames(b'))
    BY <1>0, <2>1, <2>2, AtCursorWorks, NoFramesKept
  <2> QED
    BY <1>0, <2>2, <2>3 DEF IInv, DisplayStep, IsOpen
<1>4. ASSUME NEW t \in Cursors, BlitClockTick(t)
      PROVE  IInv' /\ DisplayStep
  <2>1. t \in Nat
    BY CursorsAssumption
  <2>2. b' = AtCursor(b, t) /\ session' = session
    BY <1>4 DEF BlitClockTick
  <2>3. BlitInv(b') /\ ShownGrows(b, b') /\ (NoFrames(b) => NoFrames(b'))
    BY <1>0, <2>1, <2>2, AtCursorWorks, NoFramesKept
  <2> QED
    BY <1>0, <2>2, <2>3 DEF IInv, DisplayStep, IsOpen
<1>5. ASSUME NEW t \in Cursors, SetPlayback(t)
      PROVE  IInv' /\ DisplayStep
  <2>1. t \in Nat
    BY CursorsAssumption
  <2>2. session' = session
    BY <1>5 DEF SetPlayback
  <2>3. CASE b' = StartPlayback(b, t)
    BY <1>0, <2>1, <2>2, <2>3, StartPlaybackWorks, NoFramesKept DEF IInv, DisplayStep, IsOpen
  <2>4. CASE b' = StopPlayback(b, t)
    BY <1>0, <2>1, <2>2, <2>4, StopPlaybackWorks, NoFramesKept DEF IInv, DisplayStep, IsOpen
  <2> QED
    BY <1>5, <2>3, <2>4 DEF SetPlayback
<1>6. ASSUME NEW f \in Pts, OnPreTargetFrame(f)
      PROVE  IInv' /\ DisplayStep
  <2>1. b' = b /\ IsOpen /\ session' = [session EXCEPT !.pre = f, !.out = @ \cup {f}]
    BY <1>6 DEF OnPreTargetFrame, Output
  <2>2. session' \in SessionState /\ session'.from = session.from
    BY <1>0, <2>1 DEF SessionState
  <2> QED
    BY <1>0, <2>1, <2>2 DEF IInv, DisplayStep, ShownGrows, IsOpen
<1>7. ASSUME NEW f \in Pts, OnFrame(f)
      PROVE  IInv' /\ DisplayStep
  <2>1. IsOpen /\ session' = [session EXCEPT !.pre = NoPts, !.out = @ \cup {f}]
    BY <1>7 DEF OnFrame, Output
  <2>2. /\ session' \in SessionState /\ session'.from = session.from
        /\ session.pre \in Pts \cup {NoPts}
    BY <1>0, <2>1 DEF SessionState
  <2> DEFINE e == EmitIfAny(b, session.pre)
  <2>3. b' = IF b.canvas THEN EmitFrame(e, f) ELSE b
    BY <1>7 DEF OnFrame
  <2>4. BlitInv(e) /\ ShownGrows(b, e) /\ e.cursor = b.cursor
    BY <1>0, <2>2, EmitIfAnyWorks
  <2> HIDE DEF e
  <2>5. e \in BlitState /\ Queued(e)
    BY <2>4 DEF BlitInv
  <2>6. /\ BlitInv(EmitFrame(e, f)) /\ ShownGrows(e, EmitFrame(e, f))
        /\ EmitFrame(e, f).cursor = e.cursor
    BY <2>5, EmitWorks
  <2>7. ShownGrows(b, EmitFrame(e, f))
    BY <1>0, <2>4, <2>5, <2>6, GrowsTransitive DEF BlitInv
  <2>8. BlitInv(b') /\ ShownGrows(b, b')
    BY <1>0, <2>3, <2>6, <2>7 DEF ShownGrows
  <2> QED
    BY <2>1, <2>2, <2>8 DEF IInv, DisplayStep, IsOpen
<1>8. ASSUME CloseSession
      PROVE  IInv' /\ DisplayStep
  <2>1. session' = NoSession /\ b' = FlushBlitQueue(b)
    BY <1>8 DEF CloseSession
  <2>2. session' \in SessionState
    BY <2>1 DEF NoSession, SessionState
  <2> QED
    BY <1>0, <2>1, <2>2, FlushWorks, NoFramesFlushed DEF IInv, DisplayStep
<1>9. ASSUME DrainAtEnd
      PROVE  IInv' /\ DisplayStep
  <2>1. IsOpen /\ session' = [session EXCEPT !.pre = NoPts, !.drained = TRUE]
    BY <1>9 DEF DrainAtEnd
  <2>2. /\ session' \in SessionState /\ session'.from = session.from
        /\ session.pre \in Pts \cup {NoPts}
    BY <1>0, <2>1 DEF SessionState
  <2> DEFINE e == EmitIfAny(b, session.pre)
  <2>3. b' = ReleaseReordered(e, TRUE)
    BY <1>9 DEF DrainAtEnd
  <2>4. BlitInv(e) /\ ShownGrows(b, e)
    BY <1>0, <2>2, EmitIfAnyWorks
  <2> HIDE DEF e
  <2>5. e \in BlitState /\ Queued(e)
    BY <2>4 DEF BlitInv
  <2>6. BlitInv(b') /\ ShownGrows(e, b') /\ b'.cursor = e.cursor
    BY <2>3, <2>5, ReleaseWorks
  <2>7. ShownGrows(b, b')
    BY <1>0, <2>4, <2>5, <2>6, GrowsTransitive DEF BlitInv
  <2> QED
    BY <2>1, <2>2, <2>6, <2>7 DEF IInv, DisplayStep, IsOpen
<1>10. ASSUME OnDecoderError
      PROVE  IInv' /\ DisplayStep
  <2>1. b' = b /\ IsOpen /\ session' = [session EXCEPT !.pre = NoPts]
    BY <1>10 DEF OnDecoderError
  <2>2. session' \in SessionState /\ session'.from = session.from
    BY <1>0, <2>1 DEF SessionState
  <2> QED
    BY <1>0, <2>1, <2>2 DEF IInv, DisplayStep, ShownGrows, IsOpen
<1>11. ASSUME SetRenderCanvas
      PROVE  IInv' /\ DisplayStep
  <2>1. b' = AttachCanvas(b) /\ session' = session /\ 0 \in Nat
    BY <1>11 DEF SetRenderCanvas
  <2>2. BlitInv(b') /\ ShownGrows(b, b')
    BY <1>0, <2>1, AttachCanvasWorks
  <2>3. NoFrames(b) => NoFrames(b')
    BY <1>0, <2>1, NoFramesKept
  <2> QED
    BY <1>0, <2>1, <2>2, <2>3 DEF IInv, DisplayStep, IsOpen
<1>12. ASSUME ClearCanvas
      PROVE  IInv' /\ DisplayStep
  <2>1. session' = session
    BY <1>12 DEF ClearCanvas
  <2>2. CASE b' = b
    BY <1>0, <2>1, <2>2 DEF IInv, DisplayStep, ShownGrows, IsOpen
  <2>3. CASE b' = FlushBlitQueue(b)
    BY <1>0, <2>1, <2>3, FlushWorks, NoFramesFlushed DEF IInv, DisplayStep
  <2> QED
    BY <1>12, <2>2, <2>3 DEF ClearCanvas, PaintBlack
<1>13. CASE UNCHANGED vars
  BY <1>0, <1>13 DEF vars, IInv, DisplayStep, ShownGrows, IsOpen
<1> QED
  BY <1>1, <1>2, <1>3, <1>4, <1>5, <1>6, <1>7, <1>8, <1>9, <1>10, <1>11, <1>12, <1>13
  DEF Next

THEOREM InvHolds == Spec => []IInv
BY InitInv, StepInv, PTL DEF Spec

(* The state of the frame path and of the session keep their types.        *)
THEOREM TypeCorrect == Spec => []TypeOK
<1>1. IInv => TypeOK
  BY DEF IInv, BlitInv, TypeOK
<1> QED
  BY <1>1, InvHolds, PTL

(* No frame whose time has come is left in the blit queue, for any frames, *)
(* hold and decoder order.                                                 *)
THEOREM DueFramesBlit == Spec => []NoDueFrameWaits
<1>1. IInv => NoDueFrameWaits
  BY DEF IInv, BlitInv, NoWait, NoDueFrameWaits
<1> QED
  BY <1>1, InvHolds, PTL

(* The reorder window never holds more than REORDER_HOLD_FRAMES frames and *)
(* holds none while paused.                                                *)
THEOREM ReorderWindow == Spec => []ReorderBounded
<1>1. IInv => ReorderBounded
  BY DEF IInv, BlitInv, Held, ReorderBounded
<1> QED
  BY <1>1, InvHolds, PTL

(* The paused picture is the newest emitted frame at or before the cursor. *)
THEOREM PausedPicture == Spec => []PausedShowsNewest
<1>1. ASSUME IInv, b.canvas, ~b.playing,
             NEW f \in b.emitted \ b.dropped, f <= b.cursor
      PROVE  f <= b.shown
  <2>1. b.reorder = {} /\ Due(b) = {} /\ Queued(b)
    BY <1>1 DEF IInv, BlitInv, Held, NoWait
  <2>2. f \in Released(b) /\ f \notin b.blit
    BY <1>1, <2>1 DEF Released, Due
  <2> QED
    BY <2>1, <2>2 DEF Queued
<1>2. IInv => PausedShowsNewest
  BY <1>1 DEF PausedShowsNewest
<1> QED
  BY <1>2, InvHolds, PTL

(* The picture never goes back between two flushes and never runs ahead of *)
(* the cursor it is drawn for.                                             *)
THEOREM PictureMovesForward == Spec => MonotoneDisplay
<1>1. IInv /\ [Next]_vars =>
        [b'.shown # b.shown => b'.shown = NoPts \/ (b'.shown > b.shown /\ b'.shown <= b'.cursor)]_vars
  BY StepInv DEF DisplayStep, ShownGrows
<1> QED
  BY <1>1, InvHolds, PTL DEF Spec, MonotoneDisplay
===============================================================================
