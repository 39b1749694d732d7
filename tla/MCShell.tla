------------------------------- MODULE MCShell -------------------------------
(***************************************************************************)
(* What the shell keeps beside the session, one at a time: the files of    *)
(* unknown formats and the sample of one that is shown and uploaded, the   *)
(* dock and its layouts, a layout proposed for a new source, the events    *)
(* and their tags.  They read and write disjoint parts of the store.       *)
(***************************************************************************)
EXTENDS FormatAgent

CONSTANTS
  \* The dock's (Workspace).
  DockPanels, DockTabs, DockChannels, DockSaved, DockLinks, DockActs

VARIABLES
  part,  \* the one that runs
  layout, bind, saved, active, model, built, ignore, missed, hash, timer,
  playing, noted, dockActs,
  events, config, minted, file, eventActs,
  manifest, bridge, by, suggested, checked, todo, panels, applied, failed,
  size, opts, slices, parts, stage

dockVars  == <<layout, bind, saved, active, model, built, ignore, missed, hash, timer,
               playing, noted, dockActs>>
eventVars == <<events, config, minted, file, eventActs>>

MCOffers == [name : {"a"}, good : BOOLEAN]

(* A demo's or a colleague's view: one panel, bound.                       *)
MCLinks == {[layout |-> [tabs |-> {"d"}, arr |-> 1],
             bind |-> [p \in DockPanels |-> IF p = "d" THEN "c" ELSE "absent"]]}

Dock == INSTANCE Workspace WITH
  Panels <- DockPanels, DefaultTabs <- DockTabs, Channels <- DockChannels,
  Saved <- DockSaved, Links <- DockLinks, MaxActs <- DockActs, acts <- dockActs

Events == INSTANCE EventTags WITH
  Attributes <- {"a"}, MaxEvents <- 3, MaxActs <- 4, acts <- eventActs

-----------------------------------------------------------------------------
proposalVars == <<manifest, bridge, by, suggested, checked, todo, panels, applied, failed>>
samplerVars  == <<size, opts, slices, parts, stage>>

C(k, g, lat, lon) == [kind |-> k, group |-> g, lat |-> lat, lon |-> lon]

Named(m) ==
  [i \in DOMAIN m |-> [id |-> <<"a", "b", "c", "d">>[i], kind |-> m[i].kind, group |-> m[i].group,
                       lat |-> m[i].lat, lon |-> m[i].lon]]

(* All manifests of two channels, coordinates beside others of three, and  *)
(* of four what fills or overflows panels of two.                          *)
TheManifests ==
  {Named(m) : m \in
     UNION {[1..n -> {C(k, g, lat, lon) : k \in {"scalar", "enum"}, g \in {"g", "h"},
                                          lat, lon \in BOOLEAN}] : n \in 1..2}
     \cup [1..3 -> {C("scalar", "g", TRUE, FALSE), C("other", "g", FALSE, TRUE),
                    C("enum", "g", FALSE, FALSE)}]
     \cup [1..4 -> {C("scalar", "g", FALSE, FALSE), C("scalar", "h", FALSE, FALSE),
                    C("enum", "g", FALSE, FALSE)}]}

P(k, ids) == [kind |-> k, ids |-> ids]

\* Unknown ids, repeated ones, maps of one channel, and lists that are too long.
TheReplies ==
  {<<P("map", <<"a", "a">>), P("plot", <<"a", "z", "a", "b", "c">>), P("map", <<"b", "a">>)>>,
   <<P("table", <<"z">>), P("value", <<"a", "b", "a">>), P("enum", <<"a", "b", "c">>)>>}

Layouts == INSTANCE Proposal WITH
  Manifests <- TheManifests, Replies <- TheReplies, MaxSeries <- 2, channels <- manifest,
  proposal <- suggested

O(head, tail, count, slice, max) ==
  [head |-> head, tail |-> tail, count |-> count, slice |-> slice, max |-> max]

Sample == INSTANCE Sampler WITH
  Sizes <- 0..40,
  Options <- {O(4, 1, 4, 2, 60), O(4, 1, 3, 5, 20), O(2, 3, 1, 3, 60), O(0, 2, 2, 1, 60),
              O(3, 2, 0, 2, 60), O(3, 2, 5, 0, 60)}

ASSUME DockConstants == Dock!DockAssumption
ASSUME Events!EventAssumption
ASSUME Layouts!ProposalAssumption /\ Sample!SamplerAssumption

ShellInit ==
  /\ part \in {"formats", "dock", "events", "layout", "sample"}
  /\ Init /\ Dock!Init /\ Events!Init
  /\ IF part = "layout" THEN Layouts!Init
     ELSE /\ manifest = <<>> /\ bridge = TRUE /\ by = "heuristic" /\ suggested = <<>>
          /\ checked = {} /\ todo = <<>> /\ panels = <<>> /\ applied = 0 /\ failed = 0
  /\ IF part = "sample" THEN Sample!Init
     ELSE size = 0 /\ opts = O(0, 0, 0, 0, 0) /\ slices = <<>> /\ parts = <<>> /\ stage = "plan"

ShellNext ==
  \/ /\ part = "formats" /\ Next
     /\ UNCHANGED <<part, dockVars, eventVars, proposalVars, samplerVars>>
  \/ /\ part = "dock" /\ Dock!Next
     /\ UNCHANGED <<part, vars, eventVars, proposalVars, samplerVars>>
  \/ /\ part = "events" /\ Events!Next
     /\ UNCHANGED <<part, vars, dockVars, proposalVars, samplerVars>>
  \/ /\ part = "layout" /\ Layouts!Next
     /\ UNCHANGED <<part, vars, dockVars, eventVars, samplerVars>>
  \/ /\ part = "sample" /\ Sample!Next
     /\ UNCHANGED <<part, vars, dockVars, eventVars, proposalVars>>

ShellSpec ==
  ShellInit /\ [][ShellNext]_<<part, vars, dockVars, eventVars, proposalVars, samplerVars>>

(* The dock shows the stored layout (Workspace).                           *)
DockIsStored == Dock!DockIsStored

(* The saved layout marked active is the stored one (Workspace).           *)
ActiveIsStored == Dock!ActiveIsStored

(* The link in the address bar is kept current (Workspace).                *)
LinkIsCurrent == Dock!LinkIsCurrent

(* No two events have one id (EventTags).                                  *)
EventIdsUnique == Events!EventIdsUnique

(* An exported file brings back each event once (EventTags).               *)
ImportIsFaithful ==
  [][part = "events" => Events!FaithfulImport]_<<part, eventVars>>

(* An attribute that goes leaves no event tagged with it (EventTags).      *)
TagsRetracted == Events!TagsRetracted

(* What is proposed is complete, bounded and accounted for (Proposal).     *)
ProposalSound == Layouts!ProposalSound

(* A proposed panel can be bound (Proposal).                               *)
ProposalBinds == Layouts!ProposalBinds

(* A sample has both ends, no byte twice, and an even spread (Sampler).    *)
SlicesCover == part = "sample" => Sample!SlicesCover

(* Disagreement with the code's own comment, see Workspace.                *)
ReloadRestores == Dock!ReloadRestores
===============================================================================
