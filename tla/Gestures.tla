------------------------------- MODULE Gestures -------------------------------
(***************************************************************************)
(* The pointer over the plots and the transport's track (PlotPanel.tsx,    *)
(* plotZoom.ts, timeline/Transport.tsx, PlotBody.tsx, store.ts): a drag    *)
(* scrubs the session's cursor, a hover shares a crosshair between plots,  *)
(* the wheel zooms a plot's time axis or the one the synced plots share.   *)
(* Scrubs and hovers are written to the store once per animation frame.    *)
(*                                                                         *)
(* A plot maps the pointer over the window it shows; that it may still     *)
(* show the range of its last fetch is left out.                           *)
(***************************************************************************)
EXTENDS Integers, FiniteSets

CONSTANTS
  Plots,     \* plot panels
  Ranges,    \* ranges a session may have
  MinSpan,   \* MIN_X_SPAN_NS
  At,        \* places along a surface the pointer may be at, in halves of it
  MaxActs    \* zooms, edits of the panels and of the session

Track == "track"
Surfaces == Plots \cup {Track}
Window == [lo : Int, hi : Int]

GestureAssumption ==
  /\ {Track, "none"} \cap Plots = {}
  /\ At \subseteq 0..2 /\ MinSpan \in Nat \ {0} /\ MaxActs \in Nat
  /\ Ranges \subseteq Window
  /\ \A r \in Ranges : r.hi - r.lo >= MinSpan

None      == -1
NoSurface == "none"
Whole     == [lo |-> 0, hi |-> 0]  \* no window: the whole session

VARIABLES
  range,   \* globalRange, Whole when there is none
  cursor,  \* cursorNs
  hover,   \* hoverNs
  shared,  \* sharedPlotZoomX
  plot,    \* of each plot, see NewPlot
  scrub,   \* each surface's scrub to write, and whether a frame will
  over,    \* the surface under the pointer
  held,    \* the surface that has captured it
  since,   \* the range each zoomed window was computed in
  acts

vars == <<range, cursor, hover, shared, plot, scrub, over, held, since, acts>>

NewPlot ==
  [open |-> TRUE,
   sync |-> TRUE,     \* syncTimeAxis
   own |-> Whole,     \* plotZoom: its own time window ...
   axes |-> {},       \* ... and the value axes with one
   next |-> None,     \* pendingHover, and the frame that shows it
   tip |-> None]      \* what its tooltip is for

NoScrub == [ns |-> None, frame |-> FALSE]

Init ==
  /\ range \in Ranges /\ cursor = range.lo
  /\ hover = None
  /\ shared = Whole
  /\ plot = [p \in Plots |-> NewPlot]
  /\ scrub = [s \in Surfaces |-> NoScrub]
  /\ over = NoSurface /\ held = NoSurface
  /\ since = [p \in Plots \cup {"shared"} |-> Whole]
  /\ acts = 0

Act == acts < MaxActs /\ acts' = acts + 1

session == <<range, cursor, shared, since, acts>>

-----------------------------------------------------------------------------
(* Zoomed windows.                                                         *)

(* Math.round of a / b.                                                    *)
Round(a, b) == (2 * a + b) \div (2 * b)

Half(n) == IF n < 0 THEN -((-n) \div 2) ELSE n \div 2

\* Mutant: a window is widened to the least span without a look at the bound.
Widened(w, bound) ==
  IF w.hi - w.lo >= MinSpan THEN w
  ELSE LET lo == w.lo + Half(w.hi - w.lo) - MinSpan \div 2
       IN [lo |-> lo, hi |-> lo + MinSpan]

(* The least span, moved back into the bound.                              *)
AtLeast(w, bound) ==
  LET wide  == IF w.hi - w.lo >= MinSpan THEN w
               ELSE LET lo == w.lo + Half(w.hi - w.lo) - MinSpan \div 2
                    IN [lo |-> lo, hi |-> lo + MinSpan]
      right == IF wide.lo < bound.lo THEN [lo |-> bound.lo, hi |-> bound.lo + MinSpan]
               ELSE wide
  IN CASE w.hi - w.lo >= MinSpan -> w
       [] w.hi - w.lo < MinSpan /\ right.hi > bound.hi ->
            [lo |-> bound.hi - MinSpan, hi |-> bound.hi]
       [] OTHER -> right

Clamped(n, w) == IF n < w.lo THEN w.lo ELSE IF n > w.hi THEN w.hi ELSE n

(* scaleWindowX around a fraction of halves, by a factor of num / den.     *)
ScaleWindowX(base, halves, num, den, bound) ==
  LET span   == base.hi - base.lo
      anchor == base.lo + Round(halves * span, 2)
      lo     == anchor - Round(halves * span * num, 2 * den)
      hi     == anchor + Round((2 - halves) * span * num, 2 * den)
  IN IF span <= 0 \/ (lo <= bound.lo /\ hi >= bound.hi) THEN Whole
     ELSE AtLeast([lo |-> IF lo < bound.lo THEN bound.lo ELSE lo,
                   hi |-> IF hi > bound.hi THEN bound.hi ELSE hi], bound)

(* effectivePlotZoomX.                                                     *)
Effective(p) == IF plot[p].sync THEN shared ELSE plot[p].own

Visible(s) ==
  IF s = Track \/ Effective(s) = Whole THEN range ELSE Effective(s)

(* nsFromXPx, nsFromRatio.                                                 *)
NsAt(s, halves) ==
  Visible(s).lo + Round(halves * (Visible(s).hi - Visible(s).lo), 2)

(* applyPlotZoomX.                                                         *)
Apply(p, w) ==
  IF plot[p].sync
  THEN shared' = w /\ since' = [since EXCEPT !["shared"] = range] /\ UNCHANGED plot
  ELSE /\ plot' = [plot EXCEPT ![p].own = w]
       /\ since' = [since EXCEPT ![p] = range]
       /\ UNCHANGED shared

(* The wheel over a plot and the buttons of its drawer.                    *)
ZoomTime(p, halves, num, den) ==
  /\ plot[p].open /\ range # Whole
  /\ Act
  /\ Apply(p, ScaleWindowX(Visible(p), halves, num, den, range))
  /\ UNCHANGED <<range, cursor, hover, scrub, over, held>>

(* The wheel over a value axis.                                            *)
ZoomValues(p, axis) ==
  /\ plot[p].open /\ over = p /\ range # Whole
  /\ plot' = [plot EXCEPT ![p].axes = @ \cup {axis}]
  /\ UNCHANGED <<session, hover, scrub, over, held>>

(* clearPlotZoom.                                                          *)
ResetZoom(p) ==
  /\ plot[p].open
  /\ Act
  /\ plot' = [plot EXCEPT ![p].own = Whole, ![p].axes = {}]
  /\ shared' = IF plot[p].sync THEN Whole ELSE shared
  /\ UNCHANGED <<range, cursor, hover, scrub, over, held, since>>

(* setPlotSyncTimeAxis: leaving the group, a plot takes the window along;  *)
(* joining it, it drops its own.                                           *)
SetSync(p) ==
  /\ plot[p].open
  /\ Act
  /\ plot' = [plot EXCEPT ![p].sync = ~ @, ![p].own = IF plot[p].sync THEN shared ELSE Whole]
  /\ since' = IF plot[p].sync THEN [since EXCEPT ![p] = since["shared"]] ELSE since
  /\ UNCHANGED <<range, cursor, hover, shared, scrub, over, held>>

-----------------------------------------------------------------------------
(* The pointer.                                                            *)

(* setCursor.                                                              *)
Sought(ns) == IF ns = None \/ range = Whole THEN cursor ELSE Clamped(ns, range)

Schedule(s, ns) == scrub' = [scrub EXCEPT ![s] = [ns |-> ns, frame |-> TRUE]]

(* clearHover: it clears the crosshair whoever drew it.                    *)
ClearHover(p) ==
  /\ plot' = [plot EXCEPT ![p].next = None, ![p].tip = None]
  /\ hover' = None

Enter(s) ==
  /\ held = NoSurface /\ over = NoSurface
  /\ s \in Plots => plot[s].open
  /\ over' = s
  /\ UNCHANGED <<session, hover, plot, scrub, held>>

Leave ==
  /\ held = NoSurface /\ over # NoSurface
  /\ over' = NoSurface
  /\ IF over \in Plots THEN ClearHover(over) ELSE UNCHANGED <<plot, hover>>
  /\ UNCHANGED <<session, scrub, held>>

PointerMove(at) ==
  /\ over \in Plots /\ held = NoSurface /\ range # Whole
  /\ plot' = [plot EXCEPT ![over].next = NsAt(over, at)]
  /\ UNCHANGED <<session, hover, scrub, over, held>>

(* flushHover.                                                             *)
HoverFrame(p) ==
  /\ plot[p].next # None
  /\ hover' = plot[p].next
  /\ plot' = [plot EXCEPT ![p].tip = plot[p].next, ![p].next = None]
  /\ UNCHANGED <<session, scrub, over, held>>

PointerDown(at) ==
  /\ over # NoSurface /\ held = NoSurface /\ range # Whole
  /\ held' = over
  /\ Schedule(over, NsAt(over, at))
  /\ IF over \in Plots THEN ClearHover(over) ELSE UNCHANGED <<plot, hover>>
  /\ UNCHANGED <<session, over>>

Drag(at) ==
  /\ held # NoSurface /\ range # Whole
  /\ Schedule(held, NsAt(held, at))
  /\ UNCHANGED <<session, hover, plot, over, held>>

\* Mutant: the scrub is written by the frame that is due.
ReleasedLate(s) == UNCHANGED <<cursor, scrub>>

(* The frame is cancelled and the scrub written at once.                   *)
Released(s) ==
  cursor' = Sought(scrub[s].ns) /\ scrub' = [scrub EXCEPT ![s] = NoScrub]

PointerUp ==
  /\ held # NoSurface
  /\ held' = NoSurface
  /\ Released(held)
  /\ UNCHANGED <<range, hover, shared, plot, over, since, acts>>

(* flushScrub, flushPending.                                               *)
ScrubFrame(s) ==
  /\ scrub[s].frame
  /\ cursor' = Sought(scrub[s].ns) /\ scrub' = [scrub EXCEPT ![s] = NoScrub]
  /\ UNCHANGED <<range, hover, shared, plot, over, held, since, acts>>

-----------------------------------------------------------------------------
(* Beside the pointer.                                                     *)

(* An unmounted plot cancels its frames; what it had to write is lost.     *)
ClosePlot(p) ==
  /\ plot[p].open
  /\ Act
  /\ plot' = [plot EXCEPT ![p] = [@ EXCEPT !.open = FALSE, !.next = None, !.tip = None]]
  /\ hover' = None
  /\ scrub' = [scrub EXCEPT ![p] = NoScrub]
  /\ over' = IF over = p THEN NoSurface ELSE over
  /\ held' = IF held = p THEN NoSurface ELSE held
  /\ UNCHANGED <<range, cursor, shared, since>>

(* A step key or button, or the playback loop.                             *)
StepBy(d) ==
  /\ range # Whole
  /\ Act
  /\ cursor' = Sought(cursor + d)
  /\ UNCHANGED <<range, hover, shared, plot, scrub, over, held, since>>

(* Sources come and go.                                                    *)
ChangeRange(r) ==
  /\ r # range
  /\ Act
  /\ range' = r /\ cursor' = Clamped(cursor, r)
  /\ UNCHANGED <<hover, shared, plot, scrub, over, held, since>>

(* clear; the settings of the panels go with their bindings.               *)
ClearSession ==
  /\ range # Whole
  /\ Act
  /\ range' = Whole /\ cursor' = 0 /\ hover' = None /\ shared' = Whole
  /\ plot' = [p \in Plots |-> [plot[p] EXCEPT !.sync = TRUE, !.own = Whole, !.axes = {}]]
  /\ UNCHANGED <<scrub, over, held, since>>

(* restoreNamedLayout, applyDemoWorkspace: the settings, not the zoom.     *)
RestoreLayout(synced) ==
  /\ Act
  /\ plot' = [p \in Plots |-> [plot[p] EXCEPT !.sync = p \in synced]]
  /\ UNCHANGED <<range, cursor, hover, shared, scrub, over, held, since>>

Next ==
  \/ \E p \in Plots, halves \in At : ZoomTime(p, halves, 1, 2) \/ ZoomTime(p, halves, 2, 1)
  \/ \E p \in Plots : ZoomValues(p, 0) \/ ResetZoom(p) \/ SetSync(p) \/ ClosePlot(p)
  \/ \E p \in Plots : HoverFrame(p)
  \/ \E s \in Surfaces : Enter(s) \/ ScrubFrame(s)
  \/ Leave \/ PointerUp
  \/ \E at \in At : PointerMove(at) \/ PointerDown(at) \/ Drag(at)
  \/ \E d \in {-1, 1} : StepBy(d)
  \/ \E r \in Ranges : ChangeRange(r)
  \/ \E synced \in SUBSET Plots : RestoreLayout(synced)
  \/ ClearSession

Spec == Init /\ [][Next]_vars

-----------------------------------------------------------------------------
(* No gesture writes after its end: a frame is due only for the surface    *)
(* that has captured the pointer, or, with a hover, for the plot under it; *)
(* and the crosshair the plots share has a tooltip on an open plot under   *)
(* the pointer (PlotPanel.tsx:1002-1022, 1080-1092, Transport.tsx:194-214).*)
GesturesEnd ==
  /\ \A s \in Surfaces :
       /\ scrub[s].frame <=> scrub[s].ns # None
       /\ scrub[s].frame => held = s
  /\ \A p \in Plots : (plot[p].next # None \/ plot[p].tip # None) => plot[p].open /\ over = p
  /\ hover # None => \E p \in Plots : plot[p].tip = hover

Within(w, bound) == w # Whole => bound.lo <= w.lo /\ w.hi <= bound.hi /\ w.hi - w.lo >= MinSpan

(* A zoomed window lies in the range it was made in and does not shrink    *)
(* below the least span, wherever the window it was made from lay: the     *)
(* range may have moved since (plotZoom.ts:126-164, PlotPanel.tsx:674-681, *)
(* PlotBody.tsx:94-102, store.ts:754-842).                                 *)
WindowsSound ==
  /\ Within(shared, since["shared"])
  /\ \A p \in Plots : Within(plot[p].own, since[p])

===============================================================================
