------------------------------- MODULE Workspace -------------------------------
(***************************************************************************)
(* The dock of panels: the live FlexLayout model and the JSON of it in the *)
(* store (layout/Workspace.tsx), the panels' bindings that travel with it  *)
(* (state/bindings.ts), saved layouts (store.ts, LayoutDrawer.tsx), what   *)
(* survives a reload (layout/persist.ts, persist/namedLayouts.ts) and the  *)
(* link in the address bar (urlState.ts).                                  *)
(*                                                                         *)
(* Saving is synchronous with the store, so what is stored is the store.   *)
(* That a write to the storage fails is left out.  A layout is its tabs    *)
(* and their arrangement.                                                  *)
(***************************************************************************)
EXTENDS Naturals, FiniteSets

CONSTANTS
  Panels,        \* ids of tabs, those of the default layout included
  DefaultTabs,   \* video-1, plot-1
  Channels,
  Saved,         \* ids of saved layouts
  Links,         \* views the page may be opened with
  MaxActs        \* edits of the dock, the bindings and the saved layouts

Absent  == "absent"   \* the panel has no binding
Empty   == "empty"    \* null, or no channels

Unbound == [p \in Panels |-> Absent]
Default == [tabs |-> DefaultTabs, arr |-> 2]  \* layoutJson null
NoView  == [layout |-> [tabs |-> {}, arr |-> 3], bind |-> Unbound]
NoneActive == "none"

BindingType == [Panels -> Channels \cup {Absent, Empty}]

DockAssumption ==
  /\ DefaultTabs \subseteq Panels /\ MaxActs \in Nat
  /\ Links \subseteq [layout : [tabs : SUBSET Panels, arr : {0, 1}] \cup {Default},
                     bind : BindingType]

VARIABLES
  layout,   \* layoutJson
  bind,     \* the binding of each panel
  saved,    \* namedLayouts
  active,   \* activeNamedLayoutId
  model,    \* FlexLayout's model
  built,    \* lastBuiltJsonRef
  ignore,   \* ignoreNextChangeRef
  missed,   \* the model has changed without the mark
  hash,     \* the fragment of the URL
  timer,    \* a write of it is due
  playing,
  noted,    \* the store has changed since the page was opened
  acts

dock   == <<model, built, ignore, missed>>
link   == <<hash, timer, playing, noted>>
vars   == <<layout, bind, saved, active, dock, link, acts>>

(* Model.fromJson; toJson never gives the default's text back.             *)
Build(json) == IF json = Default THEN [tabs |-> DefaultTabs, arr |-> 0] ELSE json

(* What a link takes over, panel by panel: only bindings it has.           *)
Merged(own, theirs) ==
  [p \in Panels |-> IF theirs[p] = Absent THEN own[p] ELSE theirs[p]]

\* Mutant: the mark is what the link brings, the model is not.
OpenedMarked(json, bindings, act) ==
  /\ layout' = IF hash' = NoView THEN json ELSE hash'.layout
  /\ bind' = IF hash' = NoView THEN bindings ELSE Merged(bindings, hash'.bind)
  /\ active' = IF hash' = NoView THEN act ELSE NoneActive
  /\ model' = Build(json) /\ built' = layout'
  /\ ignore' = FALSE /\ missed' = FALSE
  /\ timer' = FALSE /\ playing' = FALSE /\ noted' = FALSE

(* The page opens with what was saved.  The workspace is built before the  *)
(* link is applied; the store's setLayoutJson gives up the active layout.  *)
Opened(json, bindings, act) ==
  /\ model' = Build(json) /\ built' = json
  /\ ignore' = FALSE /\ missed' = FALSE
  /\ timer' = FALSE /\ playing' = FALSE /\ noted' = FALSE
  /\ IF hash' = NoView
     THEN layout' = json /\ bind' = bindings /\ active' = act
     ELSE /\ layout' = hash'.layout /\ active' = NoneActive
          /\ bind' = Merged(bindings, hash'.bind)

Init ==
  /\ layout = Default /\ bind = Unbound
  /\ saved = [s \in Saved |-> NoView] /\ active = NoneActive
  /\ model = Build(Default) /\ built = Default
  /\ ignore = FALSE /\ missed = FALSE
  /\ hash = NoView /\ timer = FALSE /\ playing = FALSE /\ noted = FALSE
  /\ acts = 0

-----------------------------------------------------------------------------
(* The link.  Every change of the store schedules a write, but not while   *)
(* the session plays.                                                      *)

View == [layout |-> layout, bind |-> bind]

Meaningful(v) == v.layout # Default \/ v.bind # Unbound

Noted ==
  noted' = TRUE /\ timer' = (timer \/ ~ playing) /\ UNCHANGED <<hash, playing>>

Act == acts < MaxActs /\ acts' = acts + 1

Written == IF Meaningful(View) THEN View ELSE hash

WriteHash ==
  /\ timer
  /\ hash' = Written /\ timer' = FALSE
  /\ UNCHANGED <<layout, bind, saved, active, dock, playing, noted, acts>>

Play ==
  /\ ~ playing
  /\ playing' = TRUE /\ noted' = TRUE
  /\ UNCHANGED <<layout, bind, saved, active, dock, hash, timer, acts>>

\* Mutant: a change during playback is forgotten when it stops.
PausedQuietly == timer' = timer

Paused == timer' = TRUE

Pause ==
  /\ playing
  /\ playing' = FALSE /\ noted' = TRUE
  /\ Paused
  /\ UNCHANGED <<layout, bind, saved, active, dock, hash, acts>>

-----------------------------------------------------------------------------
(* The dock.                                                               *)

\* Mutant: a layout that is set stays the one that was saved.
StoredActive(json) == layout' = json /\ UNCHANGED active

(* setLayoutJson.                                                          *)
Stored(json) == layout' = json /\ active' = NoneActive

(* doAction, and onModelChange with it.                                    *)
Changed(m) ==
  /\ model' = m
  /\ IF ignore
     THEN ignore' = FALSE /\ missed' = TRUE /\ UNCHANGED <<layout, active, built>>
     ELSE Stored(m) /\ built' = m /\ missed' = FALSE /\ UNCHANGED ignore

(* The user moves a tab or a splitter, or picks a tab.                     *)
Rearrange ==
  /\ Act
  /\ Changed([model EXCEPT !.arr = 1 - @])
  /\ IF ignore THEN UNCHANGED link ELSE Noted
  /\ UNCHANGED <<bind, saved>>

(* The user closes a tab.  Its bindings stay.                              *)
CloseTab(p) ==
  /\ p \in model.tabs
  /\ Act
  /\ Changed([model EXCEPT !.tabs = @ \ {p}])
  /\ IF ignore THEN UNCHANGED link ELSE Noted
  /\ UNCHANGED <<bind, saved>>

(* addTab, closePanel: the same, and the JSON is stored in any case.  What *)
(* is stored without the mark will be built anew.                          *)
Pushed(m) ==
  /\ model' = m
  /\ Stored(m)
  /\ ignore' = FALSE
  /\ built' = IF ignore THEN built ELSE m
  /\ missed' = ignore

Fresh ==
  Panels \ (model.tabs \cup layout.tabs \cup {p \in Panels : bind[p] # Absent}
            \cup UNION {saved[s].layout.tabs : s \in {t \in Saved : saved[t] # NoView}}
            \cup (IF hash = NoView THEN {} ELSE hash.layout.tabs))

(* createPanel: a video panel may come with its channel.                   *)
CreatePanel(c) ==
  /\ Fresh # {}
  /\ Act
  /\ LET p == CHOOSE q \in Fresh : TRUE IN
       /\ Pushed([model EXCEPT !.tabs = @ \cup {p}])
       /\ bind' = IF c = Absent THEN bind ELSE [bind EXCEPT ![p] = c]
  /\ Noted
  /\ UNCHANGED saved

ClosePanel(p) ==
  /\ p \in model.tabs
  /\ Act
  /\ Pushed([model EXCEPT !.tabs = @ \ {p}])
  /\ Noted
  /\ UNCHANGED <<bind, saved>>

ResetLayout ==
  /\ Act
  /\ Stored(Default)
  /\ Noted
  /\ UNCHANGED <<bind, saved, dock>>

(* The effect: JSON that is neither what the model was built from nor what *)
(* it was last reported as makes a new model.                              *)
Rebuild ==
  /\ layout # built
  /\ built' = layout /\ model' = Build(layout)
  /\ ignore' = TRUE /\ missed' = FALSE
  /\ UNCHANGED <<layout, bind, saved, active, link, acts>>

-----------------------------------------------------------------------------
(* Bindings and saved layouts.                                             *)

(* A binding in a panel or a drawer; the agent's only for a tab there is.  *)
SetBinding(p, c) ==
  /\ p \in model.tabs \cup layout.tabs /\ bind[p] # c
  /\ Act
  /\ bind' = [bind EXCEPT ![p] = c]
  /\ Noted
  /\ UNCHANGED <<layout, saved, active, dock>>

(* removeSource.                                                           *)
PruneBindings(c) ==
  /\ \E p \in Panels : bind[p] = c
  /\ Act
  /\ bind' = [p \in Panels |-> IF bind[p] = c THEN Empty ELSE bind[p]]
  /\ Noted
  /\ UNCHANGED <<layout, saved, active, dock>>

(* clear: the layout stays.                                                *)
ClearSession ==
  /\ Act
  /\ bind' = Unbound
  /\ noted' = TRUE /\ playing' = FALSE /\ timer' = TRUE
  /\ UNCHANGED <<layout, saved, active, dock, hash>>

SaveCurrentLayoutAs(s) ==
  /\ saved[s] = NoView
  /\ Act
  /\ saved' = [saved EXCEPT ![s] = View] /\ active' = s
  /\ Noted
  /\ UNCHANGED <<layout, bind, dock>>

RestoreNamedLayout(s) ==
  /\ saved[s] # NoView
  /\ Act
  /\ layout' = saved[s].layout /\ bind' = saved[s].bind /\ active' = s
  /\ Noted
  /\ UNCHANGED <<saved, dock>>

RemoveNamedLayout(s) ==
  /\ saved[s] # NoView
  /\ Act
  /\ saved' = [saved EXCEPT ![s] = NoView]
  /\ active' = IF active = s THEN NoneActive ELSE active
  /\ Noted
  /\ UNCHANGED <<layout, bind, dock>>

(* applyDemoWorkspace.                                                     *)
ApplyDemo(v) ==
  /\ Act
  /\ layout' = v.layout /\ bind' = v.bind /\ active' = NoneActive
  /\ Noted
  /\ UNCHANGED <<saved, dock>>

(* The page is opened anew, with the link it had or with another.          *)
Reload(v) ==
  /\ Act
  /\ hash' = v
  /\ Opened(layout, bind, active)
  /\ UNCHANGED saved

Next ==
  \/ Rearrange \/ ResetLayout \/ Rebuild
  \/ \E p \in Panels : CloseTab(p) \/ ClosePanel(p)
  \/ \E c \in Channels \cup {Absent} : CreatePanel(c)
  \/ \E p \in Panels, c \in Channels \cup {Empty} : SetBinding(p, c)
  \/ \E c \in Channels : PruneBindings(c)
  \/ \E s \in Saved : SaveCurrentLayoutAs(s) \/ RestoreNamedLayout(s) \/ RemoveNamedLayout(s)
  \/ \E v \in Links : ApplyDemo(v)
  \/ \E v \in Links \cup {hash} : Reload(v)
  \/ ClearSession \/ WriteHash \/ Play \/ Pause

Spec == Init /\ [][Next]_vars

-----------------------------------------------------------------------------
(* Once the effect has run, the dock shows the stored layout, whatever was *)
(* restored, reset or pushed before it ran, unless a change of the model   *)
(* was ignored (Workspace.tsx:146-200, 229-237).                           *)
DockIsStored == (layout = built /\ ~ missed) => Build(layout) = model

(* The saved layout that is marked active is the stored one                *)
(* (store.ts:669-685, 1019-1089, persist/namedLayouts.ts:144-151).         *)
ActiveIsStored ==
  active # NoneActive => saved[active] # NoView /\ saved[active].layout = layout

(* The link is kept current: when no write is due, the session does not    *)
(* play and something has changed since the page was opened, it is the     *)
(* view, unless that has nothing to share (urlState.ts:233-302).           *)
LinkIsCurrent ==
  (noted /\ ~ timer /\ ~ playing /\ Meaningful(View)) => hash = View

(* "A reload restores exactly what the user last saw"                      *)
(* (layout/persist.ts:3-5).  The link in the address bar, which may be     *)
(* behind, wins over what was stored; and what the user saw may not have   *)
(* been stored.                                                            *)
ReloadRestores ==
  [][Reload(hash) => Build(layout') = model /\ bind' = bind]_vars
===============================================================================
