------------------------------- MODULE Proposal -------------------------------
(***************************************************************************)
(* A layout for a new source (layoutHeuristics.ts, layoutSanitize.ts,      *)
(* layoutProposal.ts, applyLayoutProposal.ts and the write operations of   *)
(* agentApi.ts): the heuristic proposes panels, a model may answer with    *)
(* others, which are cleaned, and the checked ones are created and bound   *)
(* one after the other.                                                    *)
(***************************************************************************)
EXTENDS Integers, Sequences, FiniteSets, FiniteSetsExt, SequencesExt

CONSTANTS
  Manifests,  \* sequences of channels, see ChannelType
  Replies,    \* sequences of panels that fit the schema, ids at the model's will
  MaxSeries   \* MAX_PLOT_SERIES

ListKinds == {"plot", "enum", "table", "value"}

ChannelType ==
  [id : STRING, kind : {"scalar", "enum", "other"}, group : STRING, lat : BOOLEAN, lon : BOOLEAN]

ProposalAssumption ==
  /\ MaxSeries \in Nat \ {0}
  /\ \A m \in Manifests :
       /\ \A i \in DOMAIN m : m[i] \in ChannelType
       /\ \A i, j \in DOMAIN m : m[i].id = m[j].id => i = j
  /\ \A r \in Replies : \A i \in DOMAIN r : r[i].kind \in ListKinds \cup {"map"}

VARIABLES
  channels,  \* of the source
  bridge,    \* there is a workspace that creates panels
  by,        \* whose proposal is shown
  proposal, checked,
  todo,      \* panels to apply
  panels,    \* panels created, with what is bound to them
  applied, failed

vars == <<channels, bridge, by, proposal, checked, todo, panels, applied, failed>>

Known == {channels[i].id : i \in DOMAIN channels}
Ids(s) == [i \in DOMAIN s |-> s[i].id]

-----------------------------------------------------------------------------
(* proposeLayoutHeuristic.                                                 *)

(* The first that reads as a latitude, and as a longitude but that one.    *)
Pair(m) ==
  LET lats == {i \in DOMAIN m : m[i].lat}
      lons == {i \in DOMAIN m : m[i].lon} \ (IF lats = {} THEN {} ELSE {Min(lats)})
  IN IF lats = {} \/ lons = {} THEN <<>> ELSE <<m[Min(lats)].id, m[Min(lons)].id>>

Of(kind, m) == SelectSeq(m, LAMBDA c : c.kind = kind /\ c.id \notin ToSet(Pair(m)))

\* Mutant: a group that is a multiple of the cap loses its last part.
PartsBelow(s) == [n \in 1..((Len(s) - 1) \div MaxSeries) |->
                    SubSeq(s, (n - 1) * MaxSeries + 1, Min({n * MaxSeries, Len(s)}))]

(* A group larger than the cap is split.                                   *)
Parts(s) == [n \in 1..((Len(s) + MaxSeries - 1) \div MaxSeries) |->
               SubSeq(s, (n - 1) * MaxSeries + 1, Min({n * MaxSeries, Len(s)}))]

Plots(m) ==
  LET s == Of("scalar", m)
      FirstOf(g) == Min({i \in DOMAIN s : s[i].group = g})
      groups == SetToSortSeq({s[i].group : i \in DOMAIN s}, LAMBDA g, h : FirstOf(g) < FirstOf(h))
  IN FlattenSeq([n \in DOMAIN groups |->
       LET parts == Parts(Ids(SelectSeq(s, LAMBDA c : c.group = groups[n])))
       IN [k \in DOMAIN parts |-> [kind |-> "plot", ids |-> parts[k]]]])

Heuristic(m) ==
  (IF Pair(m) = <<>> THEN <<>> ELSE <<[kind |-> "map", ids |-> Pair(m)]>>)
  \o (IF Of("enum", m) = <<>> THEN <<>> ELSE <<[kind |-> "enum", ids |-> Ids(Of("enum", m))]>>)
  \o Plots(m)

-----------------------------------------------------------------------------
(* sanitizeProposal.                                                       *)

(* Known channels, each at its first place.                                *)
Clean(ids) ==
  LET first == {i \in DOMAIN ids : ids[i] \in Known /\ \A j \in 1..i - 1 : ids[j] # ids[i]}
      order == SetToSortSeq(first, <)
  IN [n \in DOMAIN order |-> ids[order[n]]]

Cleaned(p) ==
  CASE p.kind = "map"  -> p
    [] p.kind = "plot" -> [p EXCEPT !.ids = SubSeq(Clean(@), 1, Min({MaxSeries, Len(Clean(@))}))]
    [] OTHER           -> [p EXCEPT !.ids = Clean(@)]

Keeps(p) == IF p.kind = "map" THEN ToSet(p.ids) \subseteq Known /\ p.ids[1] # p.ids[2]
            ELSE Clean(p.ids) # <<>>

Sanitized(ps) == LET kept == SelectSeq(ps, Keeps) IN [i \in DOMAIN kept |-> Cleaned(kept[i])]

-----------------------------------------------------------------------------
Init ==
  /\ channels \in Manifests /\ bridge \in BOOLEAN
  /\ by = "heuristic" /\ proposal = Heuristic(channels)
  /\ checked = DOMAIN proposal
  /\ todo = <<>> /\ panels = <<>> /\ applied = 0 /\ failed = 0

Editing == todo = <<>> /\ applied + failed = 0

(* requestLayoutProposal; with anything but an answer in the schema the    *)
(* heuristic's stays.                                                      *)
Refine(reply) ==
  /\ Editing /\ by' = "claude"
  /\ proposal' = Sanitized(reply) /\ checked' = DOMAIN proposal'
  /\ UNCHANGED <<channels, bridge, todo, panels, applied, failed>>

Toggle(i) ==
  /\ Editing /\ i \in DOMAIN proposal
  /\ checked' = IF i \in checked THEN checked \ {i} ELSE checked \cup {i}
  /\ UNCHANGED <<channels, bridge, by, proposal, todo, panels, applied, failed>>

Apply ==
  /\ Editing /\ checked # {}
  /\ todo' = LET order == SetToSortSeq(checked, <) IN [n \in DOMAIN order |-> proposal[order[n]]]
  /\ UNCHANGED <<channels, bridge, by, proposal, checked, panels, applied, failed>>

(* setMapBinding, and bindChannels for a panel without channels yet.       *)
Binds(p) ==
  /\ ToSet(p.ids) \subseteq Known
  /\ p.kind # "map" => Cardinality(ToSet(p.ids)) <= MaxSeries

(* applyLayoutPanels: a panel that is created but cannot be bound stays.   *)
Place ==
  /\ todo # <<>> /\ todo' = Tail(todo)
  /\ LET p == Head(todo)
         ok == bridge /\ Binds(p)
     IN /\ panels' = IF ~bridge THEN panels
                     ELSE Append(panels, [p EXCEPT !.ids = IF Binds(p) THEN @ ELSE <<>>])
        /\ applied' = applied + (IF ok THEN 1 ELSE 0)
        /\ failed'  = failed + (IF ok THEN 0 ELSE 1)
  /\ UNCHANGED <<channels, bridge, by, proposal, checked>>

Next ==
  \/ \E r \in Replies : Refine(r)
  \/ \E i \in 1..8 : Toggle(i)
  \/ Apply \/ Place

Spec == Init /\ [][Next]_vars

-----------------------------------------------------------------------------
Placed(kind, id) ==
  Cardinality({i \in DOMAIN proposal : proposal[i].kind = kind /\ id \in ToSet(proposal[i].ids)})

(* The floor leaves nothing out: each scalar and each enum channel is in   *)
(* one panel, of its kind or as a coordinate.  Whoever proposed, only      *)
(* channels of the source are bound, none twice in a panel and never more  *)
(* than the cap, and every checked panel is accounted for                  *)
(* (layoutSanitize.ts:6-9, applyLayoutProposal.ts:33-38).                  *)
ProposalSound ==
  /\ by = "heuristic" => \A i \in DOMAIN channels :
       LET c == channels[i]
           plain == IF c.kind = "scalar" THEN "plot" ELSE "enum"
       IN /\ c.kind # "other" => Placed("map", c.id) + Placed(plain, c.id) = 1
          /\ \A k \in ListKinds \ {plain} : Placed(k, c.id) = 0
  /\ \A i \in DOMAIN panels :
       LET p == panels[i]
       IN /\ ToSet(p.ids) \subseteq Known
          /\ Cardinality(ToSet(p.ids)) = Len(p.ids)
          /\ p.kind # "map" => Len(p.ids) <= MaxSeries
  /\ applied + failed > 0 => applied + failed + Len(todo) = Cardinality(checked)
  /\ applied = Cardinality({i \in DOMAIN panels : panels[i].ids # <<>>})

(* "sanitizeProposal enforces both", that the ids exist and that "per-     *)
(* panel caps hold" (layoutSanitize.ts:6-9): a proposed panel can be       *)
(* bound.  The cap is enforced for plots alone, bindChannels has it for    *)
(* every list of channels, and the heuristic puts all enums in one lane.   *)
ProposalBinds == bridge => failed = 0
===============================================================================
