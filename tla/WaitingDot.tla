------------------------------ MODULE WaitingDot ------------------------------
(***************************************************************************)
(* The transport's decode-waiting dot (timeline/Transport.tsx:             *)
(* useDecodeWaiting) over the readiness of the video panels                *)
(* (panels/videoReadiness.ts): it comes on when a panel has waited for a   *)
(* while and goes out some time after none does.                           *)
(*                                                                         *)
(* React renders a state a timer has set in a task of its own.  The delays *)
(* are left out: a timer may fire at any time after it was set.            *)
(***************************************************************************)
EXTENDS FiniteSets

CONSTANT Panels  \* video panels

DotAssumption == IsFiniteSet(Panels)

VARIABLES
  ready,    \* the registry: each panel's state, or "none"
  notify,   \* pendingNotify
  show,     \* the timer that turns the dot on is set
  hide,     \* the one that turns it off is
  visible,  \* the state of the dot
  drawn,    \* visibleRef: the dot when last rendered
  crossed   \* the last notification came between a timer and the rendering

vars == <<ready, notify, show, hide, visible, drawn, crossed>>

States == {"waiting", "ready", "stalled", "none"}

Waiting == \E p \in Panels : ready[p] = "waiting"

Init ==
  /\ ready = [p \in Panels |-> "none"]
  /\ notify = FALSE
  /\ show = FALSE /\ hide = FALSE
  /\ visible = FALSE /\ drawn = FALSE
  /\ crossed = FALSE

(* setPanelReadiness, clearPanelReadiness: a change schedules a frame.     *)
SetReadiness(p, state) ==
  /\ ready[p] # state
  /\ ready' = [ready EXCEPT ![p] = state]
  /\ notify' = TRUE
  /\ UNCHANGED <<show, hide, visible, drawn, crossed>>

\* Mutant: a wait that has ended leaves the dot to come on.
QuietLate == show' = show /\ hide' = (hide \/ drawn)

(* Nobody waits: the dot, if it is on, is to go out.                       *)
Quiet == show' = FALSE /\ hide' = (hide \/ drawn)

(* Somebody waits: the dot, if it is off, is to come on.                   *)
Wanted == hide' = FALSE /\ show' = (show \/ ~ drawn)

(* evaluate.                                                               *)
Notify ==
  /\ notify
  /\ notify' = FALSE
  /\ IF Waiting THEN Wanted ELSE Quiet
  /\ crossed' = (visible # drawn)
  /\ UNCHANGED <<ready, visible, drawn>>

ShowTimer ==
  /\ show
  /\ show' = FALSE /\ visible' = TRUE
  /\ UNCHANGED <<ready, notify, hide, drawn, crossed>>

(* A wait that has begun since keeps the dot on.                           *)
HideTimer ==
  /\ hide
  /\ hide' = FALSE /\ visible' = Waiting
  /\ UNCHANGED <<ready, notify, show, drawn, crossed>>

Render ==
  /\ visible # drawn
  /\ drawn' = visible
  /\ UNCHANGED <<ready, notify, show, hide, visible, crossed>>

Next ==
  \/ \E p \in Panels, state \in States : SetReadiness(p, state)
  \/ Notify \/ ShowTimer \/ HideTimer \/ Render

Spec == Init /\ [][Next]_vars

Settled == ~ notify /\ ~ show /\ ~ hide /\ visible = drawn

(* When all there is to do has been done, the dot is on exactly if a panel *)
(* waits, unless the last notification came between a timer and the        *)
(* rendering of what it set: then `visibleRef` is out of date, and the     *)
(* dot stays as it is until the next change (Transport.tsx:69-97).         *)
DotAgrees == (Settled /\ ~ crossed) => (visible <=> Waiting)

(* The same without the exception: "a wait that started while the hide     *)
(* timer was pending keeps the dot visible" (Transport.tsx:87-88), and the *)
(* code's own concern is a dot that stays stuck (videoReadiness.ts:107).   *)
DotNeverStuck == Settled => (visible <=> Waiting)
===============================================================================
