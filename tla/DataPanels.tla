------------------------------ MODULE DataPanels ------------------------------
(***************************************************************************)
(* A panel that draws bound channels (PlotPanel, TablePanel, ValuePanel,   *)
(* EnumPanel, MapPanel; panels/shared): which bindings it keeps, when it   *)
(* asks the store for their samples, and what it shows when answers land,  *)
(* fail or come too late.                                                  *)
(*                                                                         *)
(* A channel stands for the source it comes from.  A store update is       *)
(* rendered, and the effects it causes run, before the next event is       *)
(* handled; an answer that was already due may land between the two.       *)
(***************************************************************************)
EXTENDS Integers, Sequences, FiniteSets, FiniteSetsExt, SequencesExt

CONSTANTS
  Channels,  \* channels, each of a source of its own
  Kinds,     \* kinds of panel
  Suits,     \* channels a panel of each kind accepts
  Span,      \* the time range of each channel's source
  MaxBound,  \* most channels bound
  MaxActs    \* updates of the store

AllKinds == {"plot", "table", "value", "enum", "map"}

Whole == "panel"

PanelAssumption ==
  /\ Whole \notin Channels
  /\ Kinds \subseteq AllKinds
  /\ Suits \in [AllKinds -> SUBSET Channels]
  /\ Span \in [Channels -> [lo : Nat, hi : Nat]]
  /\ {MaxBound, MaxActs} \subseteq Nat

VARIABLES
  kind,     \* of the panel
  live,     \* channels whose source is open
  offset,   \* timeOffsetNs of each source
  bound,    \* the stored binding
  dirty,    \* what has changed since the panel was last rendered
  view,     \* what the panel holds of each slot, see Blank
  flights,  \* inFlightFetches
  fit,      \* the map: the binding it was last fitted for, and to which track
  raced,    \* channel and window of fetches an offset has changed under
  acts      \* updates so far

vars == <<kind, live, offset, bound, dirty, view, flights, fit, raced, acts>>

(* Enum panels have a lane per channel, the others fetch all they show.    *)
Slots == IF kind = "enum" THEN Channels ELSE {Whole}

Blank ==
  [key |-> <<>>,       \* channels and window last asked for
   wanted |-> {},      \* channels whose answer is awaited
   got |-> {},         \* answers so far
   data |-> {},        \* what is decoded and drawn
   failed |-> FALSE]

Init ==
  /\ kind \in Kinds
  /\ live = {}
  /\ offset = [c \in Channels |-> 0]
  /\ bound \in {<<>>} \cup {<<c, d>> : c, d \in Channels}  \* hydrated
  /\ ~ (\E i, j \in DOMAIN bound : i # j /\ bound[i] = bound[j])
  /\ dirty = {}
  /\ view = [s \in Slots |-> Blank]
  /\ flights = {}
  /\ fit = [key |-> <<>>, track |-> <<>>]
  /\ raced = {}
  /\ acts = 0

-----------------------------------------------------------------------------
(* The store.                                                              *)

Window ==
  [lo |-> Min({Span[c].lo : c \in live}), hi |-> Max({Span[c].hi : c \in live})]

(* Nothing happens between an update and its rendering but answers.        *)
Update(what) == dirty = {} /\ dirty' = {what} /\ acts < MaxActs /\ acts' = acts + 1

(* What is left of a binding, in its order.                                *)
Without(b, gone) ==
  FoldLeft(LAMBDA rest, c : IF c \in gone THEN rest ELSE Append(rest, c), <<>>, b)

(* prune*Bindings: a pair of map channels goes as one.                     *)
Pruned(b, c) == IF kind = "map" /\ c \in ToSet(b) THEN <<>> ELSE Without(b, {c})

(* Fetches under way that a later request for the channel may still join.  *)
Outdated(c) == {<<f.ch, f.win>> : f \in {g \in flights : g.ch = c}}

OpenSource(c) ==
  /\ c \notin live
  /\ Update("sources")
  /\ live' = live \cup {c} /\ offset' = [offset EXCEPT ![c] = 0]
  /\ raced' = raced \cup Outdated(c)
  /\ UNCHANGED <<kind, bound, view, flights, fit>>

RemoveSource(c) ==
  /\ c \in live
  /\ Update("sources")
  /\ live' = live \ {c} /\ bound' = Pruned(bound, c)
  /\ UNCHANGED <<kind, offset, view, flights, fit, raced>>

SetSourceOffset(c, o) ==
  /\ c \in live /\ offset[c] # o
  /\ Update("sources")
  /\ offset' = [offset EXCEPT ![c] = o]
  /\ raced' = raced \cup Outdated(c)
  /\ UNCHANGED <<kind, live, bound, view, flights, fit>>

(* setMulti, addMulti, removeMulti, setMapBinding; an applied layout may   *)
(* name channels that are not there.                                       *)
SetBinding(b) ==
  /\ b # bound
  /\ Update("bound")
  /\ bound' = b
  /\ UNCHANGED <<kind, live, offset, view, flights, fit, raced>>

(* A transform, an axis, a unit, the gap threshold or stacking of a plot.  *)
Restyle ==
  /\ kind = "plot"
  /\ Update("style")
  /\ UNCHANGED <<kind, live, offset, bound, view, flights, fit, raced>>

-----------------------------------------------------------------------------
(* The panel.                                                              *)

(* The bound channels there are; a map needs both.                         *)
Resolved ==
  LET b == Without(bound, Channels \ live)
  IN IF kind = "map" /\ b # bound THEN <<>> ELSE b

(* What a slot has to show, <<>> for nothing.                              *)
Key(s) ==
  IF Resolved = <<>> \/ s \notin {Whole} \cup ToSet(Resolved) THEN <<>>
  ELSE <<IF s = Whole THEN Resolved ELSE <<s>>, Window>>

Chans(key) == IF key = <<>> THEN {} ELSE ToSet(key[1])

\* Mutant: a plot, too, looks at ids and window only.
ReloadsOnKey(s) == Key(s) # view[s].key

(* The plot's effect hangs on the identity of its channels, which every    *)
(* update of the sources renews, the others' on ids and window.            *)
Reloads(s) == kind = "plot" \/ Key(s) # view[s].key

(* seriesKey: a plot with other series is built anew, empty.               *)
Rebuilt(s) ==
  "style" \in dirty \/ "bound" \in dirty \/ Chans(Key(s)) # Chans(view[s].key)

\* Mutant: a plot that is built anew keeps what was decoded for the old one.
KeptOnRebuild(s) == IF Key(s) = <<>> THEN {} ELSE view[s].data

(* What stays on show while the answers are awaited.                       *)
Kept(s) ==
  CASE Key(s) = <<>> -> {}
    [] Key(s) # <<>> /\ kind = "plot" -> IF Rebuilt(s) THEN {} ELSE view[s].data
    [] Key(s) # <<>> /\ kind = "enum" -> view[s].data
    [] OTHER -> {}

(* The effect: what was awaited before is aborted.                         *)
Loaded(s) ==
  IF ~ Reloads(s) THEN view[s]
  ELSE [Blank EXCEPT !.key = Key(s), !.wanted = Chans(Key(s)), !.data = Kept(s)]

InFlight(c, w) == \E f \in flights : f.ch = c /\ f.win = w

(* fetchChannelRange joins a fetch of the same channel and window.         *)
Asked ==
  {c \in UNION {Chans(Key(s)) : s \in {t \in Slots : Reloads(t)}} : ~ InFlight(c, Window)}

(* Once a source is open, bindings to what is not there, or not of the     *)
(* kind, are dropped.                                                      *)
Culled ==
  CASE live = {} -> bound
    [] live # {} /\ kind = "map" -> Resolved
    [] OTHER -> Without(bound, Channels \ (live \cap Suits[kind]))

(* The map is made with its first track's binding and goes with the last.  *)
(* A track is fitted once for a binding.  The effect runs on the commit    *)
(* that brings the binding, when the points are still those of the last.   *)
Fitted(v, f) ==
  CASE Key(Whole) = <<>> -> [key |-> <<>>, track |-> <<>>]
    [] Key(Whole) # <<>> /\ v.data # {} /\ f.key # bound ->
         [key |-> bound, track |-> v.key[1]]
    [] OTHER -> f

Render ==
  /\ dirty # {}
  /\ bound' = Culled
  /\ dirty' = IF Culled # bound THEN {"bound"} ELSE {}
  /\ view' = [s \in Slots |-> Loaded(s)]
  /\ flights' = flights \cup {[ch |-> c, win |-> Window, off |-> offset[c]] : c \in Asked}
  /\ raced' = raced \ {<<c, Window>> : c \in Asked}
  /\ fit' = IF kind = "map" THEN Fitted(view[Whole], fit) ELSE fit
  /\ UNCHANGED <<kind, live, offset, acts>>

(* An answer that is due when the store changes may write a plot or a lane *)
(* before they are rendered.  The others keep it in React's state, where   *)
(* what the rendering's effect sets comes after it.                        *)
MaySettle == dirty = {} \/ kind \in {"plot", "enum"}

Awaiting(v, f) == v.key # <<>> /\ f.ch \in v.wanted /\ v.key[2] = f.win

Answered(v, f) ==
  LET more == [v EXCEPT !.wanted = @ \ {f.ch}, !.got = @ \cup {f}]
  IN IF more.wanted = {} THEN [more EXCEPT !.data = more.got, !.got = {}] ELSE more

FetchLands ==
  MaySettle /\ \E f \in flights :
    /\ flights' = flights \ {f}
    /\ view' = [s \in Slots |->
         IF Awaiting(view[s], f) THEN Answered(view[s], f) ELSE view[s]]
    /\ fit' = IF kind = "map" /\ view'[Whole].data # view[Whole].data
              THEN Fitted(view'[Whole], fit) ELSE fit
    /\ UNCHANGED <<kind, live, offset, bound, dirty, raced, acts>>

\* Mutant: a read that fails is reported and nothing else.
FailedQuietly(v) == v

(* The first failure rejects the lot.  A plot only logs it.                *)
Failed(v) ==
  [v EXCEPT !.wanted = {}, !.got = {}, !.failed = TRUE,
            !.data = IF kind = "plot" THEN @ ELSE {}]

(* The reader was closed, or its file can no longer be read.               *)
FetchFails ==
  MaySettle /\ \E f \in flights :
    /\ flights' = flights \ {f}
    /\ view' = [s \in Slots |->
         IF Awaiting(view[s], f) THEN Failed(view[s]) ELSE view[s]]
    /\ UNCHANGED <<kind, live, offset, bound, dirty, fit, raced, acts>>

Bindings ==
  IF kind = "map" THEN {<<>>} \cup {<<c, d>> : c, d \in Channels}
  ELSE {b \in BoundedSeq(Channels, MaxBound) : \A i, j \in DOMAIN b : i # j => b[i] # b[j]}

Next ==
  \/ \E c \in Channels : OpenSource(c) \/ RemoveSource(c)
  \/ \E c \in Channels, o \in {0, 1} : SetSourceOffset(c, o)
  \/ \E b \in Bindings : SetBinding(b)
  \/ Restyle
  \/ Render
  \/ FetchLands \/ FetchFails

Spec == Init /\ [][Next]_vars

-----------------------------------------------------------------------------
Shown(v) == {f.ch : f \in v.data}

(* Once rendered, no slot draws a channel it is not bound to; when nothing *)
(* is awaited and no fetch has failed it draws exactly the bound channels  *)
(* that are there, over the session's window (usePanelChannels.ts,         *)
(* useChannelRanges.ts, PlotPanel.tsx, EnumPanel.tsx, MapPanel.tsx).       *)
ShowsBound ==
  dirty = {} =>
    \A s \in Slots :
      /\ Shown(view[s]) \subseteq Chans(Key(s))
      /\ (view[s].wanted = {} /\ ~ view[s].failed) =>
           /\ Shown(view[s]) = Chans(Key(s))
           /\ \A f \in view[s].data : f.win = Window

(* A panel is never left loading: what it awaits is on its way, whoever    *)
(* asked for it (useChannelRanges.ts:44-73, store.ts:1126-1165).           *)
LoadEnds ==
  \A s \in Slots : \A c \in view[s].wanted : InFlight(c, view[s].key[2])

(* A plot follows the time offsets: what it draws was read with the        *)
(* offset its source has, unless that changed while the read was under way *)
(* and the new request joined it (PlotPanel.tsx:270-276, store.ts:1126).   *)
PlotOffsets ==
  (kind = "plot" /\ dirty = {}) =>
    LET v == view[Whole] IN
      (v.wanted = {} /\ ~ v.failed) =>
        \A f \in v.data : f.off = offset[f.ch] \/ <<f.ch, f.win>> \in raced

(* Every sample a panel draws has its source's offset added ("the offset   *)
(* O is added back to every returned sample timestamp before it reaches a  *)
(* panel", types.ts:104-113).  Only the plot sees a new offset.            *)
OffsetsShown ==
  (dirty = {} /\ flights = {}) =>
    \A s \in Slots : ~ view[s].failed => \A f \in view[s].data : f.off = offset[f.ch]

(* A map is fitted to the track it shows ("one-shot fit to it when the     *)
(* binding changes", MapPanel.tsx:279-282).  A binding that replaces       *)
(* another is fitted to the old one's track, which is still drawn.         *)
MapFitted ==
  (kind = "map" /\ dirty = {} /\ view[Whole].data # {}) =>
    (fit.key = bound => fit.track = bound)
===============================================================================
