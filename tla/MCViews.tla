------------------------------- MODULE MCViews -------------------------------
(***************************************************************************)
(* The views of a session, one at a time: the decode worker's blit queue,  *)
(* the playback loop, a panel of channels, the pointer over plots and      *)
(* transport, the waiting dot, the viewers of LiDAR spins, the merge of    *)
(* series and the value axes of a plot.  They share no state but the       *)
(* store's, which each of their modules has the part of that it reads and  *)
(* writes.                                                                 *)
(***************************************************************************)
EXTENDS FrameBlit, Sequences

CONSTANTS
  VideoPanels, LoopEnd, Speeds, MaxGap,                \* what PlaybackLoop runs with
  CloudChannels, CloudTimes, CloudEntries, CloudActs,  \* CloudViews
  PanelChannels, PanelKinds, PanelSuits, PanelSpan, PanelBound, PanelActs  \* DataPanels

VARIABLES
  part,  \* the one that runs
  kind, live, offset, bound, dirty, view, flights, fit, raced, panelActs,
  range, cursor, hover, shared, plot, scrub, over, held, since, pointerActs,
  ready, notify, show, hide, visible, drawn, crossed,
  time, clouds, spins, reads, inflight, waits, scene, overlay, cloudActs,
  store, loop, anchor, registry, loopSince,
  settings, batch, stage, rows, at, marker, axis, cols, exact, truncated,
  plotted, assigned, stack, zoom, wheeled, bandActs

panelVars   == <<kind, live, offset, bound, dirty, view, flights, fit, raced, panelActs>>
pointerVars == <<range, cursor, hover, shared, plot, scrub, over, held, since, pointerActs>>
dotVars     == <<ready, notify, show, hide, visible, drawn, crossed>>
cloudVars   == <<time, clouds, spins, reads, inflight, waits, scene, overlay, cloudActs>>
loopVars    == <<store, loop, anchor, registry, loopSince>>
mergeVars   == <<settings, batch, stage, rows, at, marker, axis, cols, exact, truncated>>
bandVars    == <<plotted, assigned, stack, zoom, wheeled, bandActs>>

Panel == INSTANCE DataPanels WITH
  Channels <- PanelChannels, Kinds <- PanelKinds, Suits <- PanelSuits, Span <- PanelSpan,
  MaxBound <- PanelBound, MaxActs <- PanelActs, acts <- panelActs

(* Enums on lanes and maps, whose panels take any channel here; ranges     *)
(* that differ.                                                            *)
SuitsOf == [k \in {"plot", "table", "value", "enum", "map"} |->
              IF k \in {"enum", "map"} THEN {"a", "b", "e"} ELSE {"a", "b"}]
SpanOf  == [c \in {"a", "b", "e"} |-> [lo |-> 1, hi |-> IF c = "b" THEN 3 ELSE 2]]

Pointer == INSTANCE Gestures WITH
  Plots <- {"p1", "p2"}, Ranges <- {[lo |-> 1, hi |-> 5], [lo |-> 3, hi |-> 7]},
  MinSpan <- 2, At <- {0, 2}, MaxActs <- 3, acts <- pointerActs

Dot == INSTANCE WaitingDot WITH Panels <- VideoPanels

Cloud == INSTANCE CloudViews WITH
  Clouds <- CloudChannels, Times <- CloudTimes, MaxEntries <- CloudEntries,
  MaxActs <- CloudActs, cursor <- time, session <- clouds, acts <- cloudActs

TimesOf == [k1 |-> <<1, 3>>, k2 |-> <<2>>]

Loop == INSTANCE PlaybackLoop WITH
  EndNs <- LoopEnd, Panels <- VideoPanels, since <- loopSince

Sample(t, v) == [ts |-> t, v |-> v]
B(schema, chunks, samples) == [schema |-> schema, chunks |-> chunks, rows |-> samples]

Merge(mode, transform, grid, hold, eps) ==
  [mode |-> mode, transform |-> transform, grid |-> grid, hold |-> hold, eps |-> eps]

(* Up to three scalar samples, one of them not a number or two at one      *)
(* time, and what is not drawn: vectors, and an answer in two chunks.      *)
Times3 == {t \in [1..3 -> {0, 1, 3, 6}] : t[1] <= t[2] /\ t[2] <= t[3]}

Batches ==
  {B("scalar", 1, SubSeq([i \in 1..3 |-> Sample(t[i], IF i = nan THEN -1000 ELSE 2 * i - 3)], 1, n)) :
     t \in Times3, nan \in {0, 2}, n \in 0..3}
  \cup {B("vector", 1, <<Sample(1, 1)>>), B("enum", 2, <<Sample(1, 1), Sample(3, 2)>>)}

Plot == INSTANCE PlotMerge WITH
  Series <- {"a", "b"}, Batches <- Batches, MaxRows <- 3, view <- settings,
  Settings <- {Merge("union", "none", 1, 0, 0), Merge("union", "derivative", 1, 0, 0),
               Merge("union", "abs", 2, 0, 0), Merge("hold", "none", 1, 2, 1),
               Merge("hold", "none", 1, 2, 2), Merge("hold", "none", 3, 3, 1),
               Merge("table", "none", 1, 0, 0)}

Bands == INSTANCE PlotBands WITH
  Channels <- {"a", "b", "e"}, Axes <- {0, 1, 2}, Height <- 25, Pad <- 1050,
  Rows <- {0, 1, 8, 9, 12, 13, 24, 25}, MaxActs <- 2,
  Data <- [a |-> [lo |-> 0, hi |-> 2100], b |-> [lo |-> 4200, hi |-> 6300],
           e |-> [lo |-> 21000, hi |-> 21000]],
  bound <- plotted, axis <- assigned, pointer <- wheeled, acts <- bandActs

ASSUME LoopConstants == /\ LoopEnd \in Nat \ {0} /\ MaxGap \in Nat \ {0}
                        /\ Speeds # {} /\ Speeds \subseteq Nat \ {0}
ASSUME DotConstants == Dot!DotAssumption
ASSUME CloudConstants == Cloud!CloudAssumption
ASSUME PanelConstants == Panel!PanelAssumption
ASSUME Pointer!GestureAssumption /\ Plot!MergeAssumption /\ Bands!BandsAssumption

(* What does not run rests in one of its initial states.                   *)
ViewsInit ==
  /\ part \in {"blit", "loop", "panel", "pointer", "dot", "cloud", "merge", "bands"}
  /\ Init /\ Dot!Init /\ Cloud!Init
  /\ Panel!Init /\ (part # "panel" => kind = "table" /\ bound = <<>>)
  /\ Pointer!Init /\ (part # "pointer" => range.lo = 1)
  /\ Loop!Init /\ (part # "loop" => store = [cursor |-> 0, playing |-> FALSE, speed |-> 1])
  /\ IF part = "merge" THEN Plot!Init
     ELSE /\ settings = "rests" /\ batch = <<>> /\ stage = "fetched" /\ rows = <<>>
          /\ at = <<>> /\ marker = <<>> /\ axis = <<>> /\ cols = <<>> /\ exact = <<>>
          /\ truncated = FALSE
  /\ IF part = "bands" THEN Bands!Init
     ELSE /\ plotted = {} /\ assigned = <<>> /\ stack = FALSE /\ zoom = <<>>
          /\ wheeled = 0 /\ bandActs = 0

ViewsNext ==
  \/ /\ part = "blit" /\ Next
     /\ UNCHANGED <<part, loopVars, panelVars, pointerVars, dotVars, cloudVars, mergeVars, bandVars>>
  \/ /\ part = "loop" /\ Loop!Next
     /\ UNCHANGED <<part, vars, panelVars, pointerVars, dotVars, cloudVars, mergeVars, bandVars>>
  \/ /\ part = "panel" /\ Panel!Next
     /\ UNCHANGED <<part, vars, loopVars, pointerVars, dotVars, cloudVars, mergeVars, bandVars>>
  \/ /\ part = "pointer" /\ Pointer!Next
     /\ UNCHANGED <<part, vars, loopVars, panelVars, dotVars, cloudVars, mergeVars, bandVars>>
  \/ /\ part = "dot" /\ Dot!Next
     /\ UNCHANGED <<part, vars, loopVars, panelVars, pointerVars, cloudVars, mergeVars, bandVars>>
  \/ /\ part = "cloud" /\ Cloud!Next
     /\ UNCHANGED <<part, vars, loopVars, panelVars, pointerVars, dotVars, mergeVars, bandVars>>
  \/ /\ part = "merge" /\ Plot!Next
     /\ UNCHANGED <<part, vars, loopVars, panelVars, pointerVars, dotVars, cloudVars, bandVars>>
  \/ /\ part = "bands" /\ Bands!Next
     /\ UNCHANGED <<part, vars, loopVars, panelVars, pointerVars, dotVars, cloudVars, mergeVars>>

ViewsSpec ==
  ViewsInit /\ [][ViewsNext]_<<part, vars, loopVars, panelVars, pointerVars, dotVars, cloudVars,
                               mergeVars, bandVars>>

(* A tick of the playback loop moves the cursor by the time since it last  *)
(* looked at the clock (PlaybackLoop).                                     *)
TicksAtSpeed == Loop!TicksAtSpeed

(* A panel draws exactly what it is bound to (DataPanels).                 *)
ShowsBound == Panel!ShowsBound

(* What a panel waits for is on its way (DataPanels).                      *)
LoadEnds == Panel!LoadEnds

(* A plot follows the sources' time offsets (DataPanels).                  *)
PlotOffsets == Panel!PlotOffsets

(* No gesture writes after its end (Gestures).                             *)
GesturesEnd == Pointer!GesturesEnd

(* Zoomed windows lie in the range they were made in (Gestures).           *)
WindowsSound == Pointer!WindowsSound

(* The dot is on exactly if a panel waits (WaitingDot).                    *)
DotAgrees == Dot!DotAgrees

(* A scene panel shows the spin under the cursor (CloudViews).             *)
SceneShowsSpin == Cloud!SceneShowsSpin

(* An overlay projects the bound channel's spin and never waits in vain    *)
(* (CloudViews).                                                           *)
OverlayShowsSpin == Cloud!OverlayShowsSpin

(* What is drawn is what was fetched (PlotMerge).                          *)
MergeExact == part = "merge" => Plot!MergeExact

(* The wheel keeps the value under the pointer (PlotBands).                *)
AnchorFixed == [][part = "bands" => Bands!Anchored]_<<part, bandVars>>

(* Disagreements with the code's own comments, see the modules.            *)
OffsetsShown     == Panel!OffsetsShown
MapFitted        == Panel!MapFitted
DotNeverStuck    == Dot!DotNeverStuck
StaleSpinDropped == Cloud!StaleSpinDropped
OfThisSession    == Cloud!OfThisSession
GapShown         == part = "merge" => Plot!GapShown
AxisAscends      == part = "merge" => Plot!AxisAscends
===============================================================================
