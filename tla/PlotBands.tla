------------------------------- MODULE PlotBands -------------------------------
(***************************************************************************)
(* The value axes of a plot and the wheel over them (PlotPanel.tsx,        *)
(* plotAxes.ts, plotGeometry.ts, plotZoom.ts, buildPlotOptions.ts,         *)
(* PlotBody.tsx): channels are assigned to axes, axes overlay each other   *)
(* or are stacked in bands, and the wheel zooms what is under the pointer. *)
(*                                                                         *)
(* Three computations must agree: which band is hit, where a band draws    *)
(* its values, and which value the wheel keeps fixed.  Positions are rows  *)
(* of the plot from its top; fractions of a band, 1 - 2 * STACK_BAND_GAP   *)
(* of it being 21 parts in 25, are kept over the denominator D.            *)
(***************************************************************************)
EXTENDS Integers, FiniteSets, FiniteSetsExt

CONSTANTS
  Channels,
  Data,      \* of each channel, the least and the greatest value
  Axes,      \* 0 .. MAX_PLOT_Y_AXES - 1
  Height,    \* rows of the plot
  Rows,      \* those the pointer may be at
  Pad,       \* what uPlot's automatic range leaves on both sides
  MaxActs

Window == [lo : Int, hi : Int]

BandsAssumption ==
  /\ Data \in [Channels -> Window] /\ \A c \in Channels : Data[c].lo <= Data[c].hi
  /\ Axes \subseteq Nat /\ 0 \in Axes
  /\ Height \in Nat \ {0} /\ Rows \subseteq 0..Height
  /\ Pad \in Nat /\ MaxActs \in Nat

D == 21 * Height

Auto == [lo |-> 0, hi |-> 0]  \* no window: the axis fits its data

VARIABLES
  bound,    \* plotBindings
  axis,     \* axisAssignments
  stack,    \* stackAxes
  zoom,     \* plotZoom.y
  pointer,  \* where the wheel was turned last, -1 after anything else
  acts

vars == <<bound, axis, stack, zoom, pointer, acts>>

Init ==
  /\ bound = Channels /\ axis \in [Channels -> Axes]
  /\ stack \in BOOLEAN /\ zoom = [a \in Axes |-> Auto]
  /\ pointer = -1 /\ acts = 0

Act == acts < MaxActs /\ acts' = acts + 1

Used     == {axis[c] : c \in bound}  \* usedAxisIndices
Count    == Cardinality(Used)
Stacking == stack /\ Count >= 2
Slot(a)  == Cardinality({b \in Used : b < a})

-----------------------------------------------------------------------------
(* What an axis draws.                                                     *)

Extent(a) ==
  [lo |-> Min({Data[c].lo : c \in {d \in bound : axis[d] = a}}),
   hi |-> Max({Data[c].hi : c \in {d \in bound : axis[d] = a}})]

(* A flat extent gets a span around its value.                             *)
Widened(w) ==
  IF w.hi > w.lo THEN w
  ELSE LET half == Max({(IF w.lo < 0 THEN -w.lo ELSE w.lo) \div 20, 1})
       IN [lo |-> w.lo - half, hi |-> w.lo + half]

(* What is seen of an axis: its window, else all of its data, which uPlot  *)
(* pads when it fills the plot.                                            *)
Seen(a) ==
  IF zoom[a] # Auto THEN zoom[a]
  ELSE IF Stacking THEN Widened(Extent(a))
  ELSE [lo |-> Extent(a).lo - Pad, hi |-> Extent(a).hi + Pad]

(* stackedBandRange: D times the value that a row shows, on a scale that   *)
(* is wider than the data so that they fill the axis' band.                *)
Banded(a, row) ==
  LET w      == Seen(a)
      span   == w.hi - w.lo
      normLo == 25 * Count - 25 * (Slot(a) + 1) + 2
  IN D * w.lo - Height * normLo * span + (Height - row) * 25 * Count * span

Value(a, row) ==
  IF Stacking THEN Banded(a, row)
  ELSE D * Seen(a).hi - 21 * row * (Seen(a).hi - Seen(a).lo)

(* The rows an axis draws its data in.                                     *)
Draws(a, row) ==
  Stacking => /\ 25 * Count * row >= Height * (25 * Slot(a) + 2)
              /\ 25 * Count * row <= Height * (25 * Slot(a) + 23)

-----------------------------------------------------------------------------
(* The wheel.                                                              *)

(* zoomTargetForPointer in the geometry of buildZoomGeometry: of the bands *)
(* the topmost that has the row; over the plot all axes, over a gutter the *)
(* one that is there.                                                      *)
Targets(row) ==
  IF Stacking
  THEN LET on == {a \in Used : /\ Slot(a) * Height <= Count * row
                               /\ Count * row <= (Slot(a) + 1) * Height}
       IN {{a \in on : \A b \in on : a <= b}}
  ELSE {Used} \cup {{a} : a \in Used}

Clamp(n) == IF n < 0 THEN 0 ELSE IF n > D THEN D ELSE n

\* Mutant: the fraction within a band forgets the gap at its edges.
FullBand(a, row) == Clamp(21 * (Count * row - Height * Slot(a)))

(* bandFracTop, in parts of D.                                             *)
BandFracTop(a, row) == Clamp(25 * Count * row - Height * (25 * Slot(a) + 2))

(* scaleWindowY.                                                           *)
ScaleWindowY(base, frac, num, den) ==
  LET w      == Widened(base)
      anchor == w.hi - (frac * (w.hi - w.lo)) \div D
      span   == ((w.hi - w.lo) * num) \div den
  IN [lo |-> anchor - ((D - frac) * span) \div D, hi |-> anchor + (frac * span) \div D]

Wheel(row, num, den) ==
  \E hit \in Targets(row) :
    /\ Act /\ bound # {}
    /\ zoom' = [a \in Axes |->
                  IF a \notin hit THEN zoom[a]
                  ELSE ScaleWindowY(Seen(a), IF Stacking THEN BandFracTop(a, row) ELSE 21 * row,
                                    num, den)]
    /\ pointer' = row
    /\ UNCHANGED <<bound, axis, stack>>

(* setPlotStackAxes, setPlotChannelAxis, clearPlotZoom, and the channels   *)
(* of the plot: none of them moves the windows of the axes.                *)
SetStackAxes ==
  /\ Act /\ stack' = ~stack /\ pointer' = -1
  /\ UNCHANGED <<bound, axis, zoom>>

SetChannelAxis(c, a) ==
  /\ Act /\ c \in bound /\ a # axis[c]
  /\ axis' = [axis EXCEPT ![c] = a] /\ pointer' = -1
  /\ UNCHANGED <<bound, stack, zoom>>

ClearZoom ==
  /\ Act /\ zoom' = [a \in Axes |-> Auto] /\ pointer' = -1
  /\ UNCHANGED <<bound, axis, stack>>

Bind(c) ==
  /\ Act /\ pointer' = -1
  /\ bound' = IF c \in bound THEN bound \ {c} ELSE bound \cup {c}
  /\ UNCHANGED <<axis, stack, zoom>>

Next ==
  \/ \E row \in Rows : Wheel(row, 2, 1) \/ Wheel(row, 1, 2)
  \/ SetStackAxes \/ ClearZoom
  \/ \E c \in Channels : Bind(c) \/ \E a \in Axes : SetChannelAxis(c, a)

Spec == Init /\ [][Next]_vars

-----------------------------------------------------------------------------
(* The wheel zooms the axes that draw under the pointer, and the value     *)
(* under it stays where it is: plotZoom.ts:166-167, "keeping the value     *)
(* under the pointer fixed", in bands "exactly like the unstacked y-zoom"  *)
(* (plotAxes.ts:95).                                                       *)
Anchored ==
  \A row \in Rows : row = pointer' =>
    /\ \A a \in Used : Draws(a, row) => Value(a, row)' = Value(a, row)
    /\ Stacking => \A a \in Used : Draws(a, row) => zoom'[a] # zoom[a]
    /\ \A a \in Axes : zoom'[a] # zoom[a] =>
         a \in Used /\ (Stacking => \A b \in Used : Draws(b, row) => b = a)

AnchorFixed == [][Anchored]_vars
===============================================================================
