--------------------------- MODULE FormatAgent_proofs ---------------------------
(***************************************************************************)
(* Proofs about FormatAgent, for any number of imports, tasks, tries and   *)
(* acts, any names and any recipes offered: an import opens once, nothing  *)
(* the agent made is registered unverified, and the dialog waits for       *)
(* nothing that does not come; and about the dock beside it (Workspace),   *)
(* for any panels, channels, saved layouts and links: it shows what is     *)
(* stored, and the link in the address bar is kept current.                *)
(***************************************************************************)
EXTENDS MCShell, FiniteFolds

-----------------------------------------------------------------------------
(* Types.                                                                  *)

SomeName   == Names \cup {None}
SomeRecipe == Recipes \cup {NoRecipe}
SomeTask   == Tasks \cup {NoTask}

QueueType == [id : Imports, re : SomeName]

Errors == {None, "aborted", "api", "refusal", "unsupported", "iteration-cap",
           "acceptance-gate"}

Phases == {"idle", "start", "ask", "check", "end", "recheck", "ingest", "over"}

TaskType ==
  [kind : {None, "run", "convert"}, imp : Imports \cup {0}, phase : Phases,
   aborted : BOOLEAN, mine : BOOLEAN, tries : Nat,
   last : SomeRecipe, best : SomeRecipe, err : Errors]

FlowType ==
  [step : {"key", "consent", "run", "failed", "success"},
   ctl : SomeTask, shown : SomeTask, conv : SomeTask, busy : BOOLEAN]

FormType == [tab : {None, "manual", "byok"}, manual : BOOLEAN, flow : FlowType]

EntryType ==
  [imp : Imports, rec : Recipes, by : {"user", "agent"}, draft : BOOLEAN,
   re : SomeName, from : {"manual", "byok"}, mine : BOOLEAN]

Registration == [good : BOOLEAN, by : {"user", "agent"}]

QueueTypeOK    == queue \in Seq(QueueType) /\ arrived \in 0..MaxImports
FormTypeOK     == form \in FormType
TasksTypeOK    == tasks \in [Tasks -> TaskType]
ChainTypeOK    == chain \in Seq(EntryType) /\ opening \in BOOLEAN /\ opened \in [Imports -> Nat]
RegistryTypeOK == /\ registry \in [Names -> Registration \cup {NoRecipe}]
                  /\ drafts \in [Names -> SomeRecipe]
RestTypeOK     == /\ proposal \in [imp : Imports \cup {0}, refine : {"idle", "running"}]
                  /\ acts \in 0..MaxActs

TypeOK ==
  /\ QueueTypeOK /\ FormTypeOK /\ TasksTypeOK
  /\ ChainTypeOK /\ RegistryTypeOK /\ RestTypeOK

-----------------------------------------------------------------------------
(* The inductive invariant.                                                *)

(* There is a form exactly if there is an import, and the agent's tab is   *)
(* at its first step while the other is shown.                             *)
FormOK ==
  /\ queue = <<>> <=> form.tab = None
  /\ form.flow.step \in {"run", "failed", "success"} => form.flow.shown # NoTask
  /\ form.tab # "byok" =>
       form.flow.step = "key" /\ form.flow.shown = NoTask /\ ~ form.flow.busy

(* What reaches the flow belongs to its tab; a run that does is the one    *)
(* shown until it is over, and one that ends well ends with a recipe of    *)
(* its own that passed.                                                    *)
TaskOK(r, t, f) ==
  /\ r.mine => f.tab = "byok"
  /\ (r.kind = "run" /\ r.mine /\ r.phase \notin {"idle", "over"}) =>
       f.flow.step = "run" /\ f.flow.shown = t
  /\ (r.kind = "run" /\ r.phase \in {"end", "recheck", "over"} /\ r.err = None) =>
       r.last \in Recipes /\ r.last.good
  /\ r.phase = "recheck" => r.err = None
  /\ r.phase = "over" => r.kind = "run"

(* The run that a screen is about is there, in the phase the screen shows. *)
Shown(r, f) ==
  /\ f.flow.step = "run" => r.kind = "run" /\ r.mine /\ r.phase \notin {"idle", "over"}
  /\ f.flow.step = "failed" => r.phase = "over"
  /\ f.flow.step = "success" => r.phase = "over" /\ r.err = None

TasksOK ==
  /\ \A t \in Tasks : TaskOK(tasks[t], t, form)
  /\ form.flow.shown # NoTask => Shown(tasks[form.flow.shown], form)

(* A button that is held waits for an entry of the chain.                  *)
HeldOK ==
  /\ form.manual    => \E i \in DOMAIN chain : chain[i].mine /\ chain[i].from = "manual"
  /\ form.flow.busy => \E i \in DOMAIN chain : chain[i].mine /\ chain[i].from = "byok"

(* Of what the agent confirmed only a draft may be unverified.             *)
EntryOK(e, last) ==
  /\ e.imp <= last
  /\ e.by = "agent" /\ ~ e.draft => e.rec.good

ChainOK == \A k \in DOMAIN chain : EntryOK(chain[k], arrived)

(* An import that was opened has left the queue for good, and the one that *)
(* is being opened was not opened before.                                  *)
OpenedOK ==
  /\ \A p \in ToSet(queue) : p.id <= arrived /\ opened[p.id] = 0
  /\ \A i \in Imports : opened[i] \in {0, 1} /\ (opened[i] = 1 => i <= arrived)
  /\ opening => chain # <<>> /\ opened[chain[1].imp] = 0

IInv ==
  /\ TypeOK /\ FormOK /\ TasksOK /\ HeldOK
  /\ ChainOK /\ OpenedOK /\ VerifiedOnly

-----------------------------------------------------------------------------
(* Operators.                                                              *)

LEMMA Constants ==
  /\ MaxImports \in Nat \ {0} /\ MaxTasks \in Nat \ {0} /\ MaxActs \in Nat \ {0}
  /\ Offers \subseteq Recipes
  /\ NoTask \notin Tasks
  /\ \A r \in SomeRecipe : r.good \in BOOLEAN /\ (r.good => r \in Recipes)
<1>1. NoTask \notin Tasks
  BY FormatAssumption DEF Tasks, NoTask
<1>2. ASSUME NEW r \in SomeRecipe
      PROVE  r.good \in BOOLEAN /\ (r.good => r \in Recipes)
  <2>1. CASE r \in Recipes
    BY <2>1 DEF Recipes
  <2>2. CASE r = NoRecipe
    BY <2>2 DEF NoRecipe
  <2> QED
    BY <2>1, <2>2 DEF SomeRecipe
<1> QED
  BY <1>1, <1>2, FormatAssumption

LEMMA IdleIs == Idle \in TaskType /\ Flow \in FlowType /\ NoForm \in FormType
  BY DEF Idle, TaskType, Phases, Errors, SomeRecipe, Flow, FlowType, NoForm, FormType, SomeTask

(* The queue without an import has the others, and no more.                *)
LEMMA WithoutIs ==
  ASSUME QueueTypeOK, NEW i
  PROVE  /\ Without(i) \in Seq(QueueType)
         /\ ToSet(Without(i)) = {p \in ToSet(queue) : p.id # i}
<1>1. Without(i) = Dropped(queue, Of(i))
  BY DEF Without, Dropped
<1>2. queue \in Seq(QueueType)
  BY DEF QueueTypeOK
<1>3. /\ Dropped(queue, Of(i)) \in Seq(QueueType)
      /\ ToSet(Dropped(queue, Of(i))) = ToSet(queue) \ Of(i)
  BY <1>2, DroppedIs
<1> QED
  BY <1>1, <1>3 DEF Of

(* A form for a queue, with no run and no button held.                     *)
LEMMA FormForIs ==
  ASSUME NEW q \in Seq(QueueType)
  PROVE  /\ FormFor(q) \in FormType
         /\ q = <<>> <=> FormFor(q).tab = None
         /\ FormFor(q).flow = Flow /\ ~ FormFor(q).manual
<1>1. CASE q = <<>>
  BY <1>1, IdleIs DEF FormFor, NoForm
<1>2. CASE q # <<>>
  <2>1. FormFor(q) = [tab |-> IF q[1].re = None THEN "manual" ELSE "byok",
                      manual |-> FALSE, flow |-> Flow]
    BY <1>2 DEF FormFor
  <2>2. Flow \in FlowType
    BY IdleIs
  <2> HIDE DEF FormFor, Flow
  <2> QED
    BY <1>2, <2>1, <2>2 DEF FormType, None
<1> QED
  BY <1>1, <1>2

(* After the dialog has gone a task is as it was, but reaches nothing; one *)
(* that was over is forgotten.                                             *)
Left(r, s) ==
  \/ s = Idle
  \/ /\ r.phase # "over" /\ s.phase = r.phase /\ ~ s.mine
     /\ s.kind = r.kind /\ s.last = r.last /\ s.err = r.err

LEMMA LeftTasksIs ==
  ASSUME TasksTypeOK
  PROVE  /\ LeftTasks \in [Tasks -> TaskType]
         /\ \A t \in Tasks : Left(tasks[t], LeftTasks[t])
<1>1. ASSUME NEW t \in Tasks
      PROVE  LeftTasks[t] \in TaskType /\ Left(tasks[t], LeftTasks[t])
  <2> DEFINE r == tasks[t]
             b == r.aborted \/ t = Ctl
  <2>1. r \in TaskType
    BY DEF TasksTypeOK
  <2>2. LeftTasks[t] = IF r.phase = "over" THEN Idle
                       ELSE [r EXCEPT !.mine = FALSE, !.aborted = b]
    BY DEF LeftTasks
  <2>3. b \in BOOLEAN
    OBVIOUS
  <2> HIDE DEF r, b
  <2>4. CASE r.phase = "over"
    BY <2>2, <2>4, IdleIs DEF Left, r
  <2>5. CASE r.phase # "over"
    <3>1. LeftTasks[t] = [r EXCEPT !.mine = FALSE, !.aborted = b]
      BY <2>2, <2>5
    <3> QED
      BY <2>1, <2>3, <2>5, <3>1 DEF Left, TaskType, r
  <2> QED
    BY <2>4, <2>5
<1>2. LeftTasks = [t \in Tasks |-> LeftTasks[t]]
  BY DEF LeftTasks
<1> QED
  BY <1>1, <1>2

(* The chain of confirmations is the same, but for whose button they free. *)
SameEntry(d, e) ==
  /\ d.imp = e.imp /\ d.rec = e.rec /\ d.by = e.by /\ d.draft = e.draft /\ d.re = e.re

SameChain(c) ==
  /\ c \in Seq(EntryType) /\ Len(c) = Len(chain)
  /\ \A k \in DOMAIN chain : SameEntry(c[k], chain[k])

LEMMA ChainIsSame ==
  ASSUME ChainTypeOK
  PROVE  SameChain(chain)
  BY DEF ChainTypeOK, SameChain, SameEntry

LEMMA LeftChainAll ==
  ASSUME ChainTypeOK
  PROVE  SameChain(LeftChain(LAMBDA e : TRUE))
<1> DEFINE c == LeftChain(LAMBDA e : TRUE)
<1>1. chain \in Seq(EntryType) /\ DOMAIN chain = 1..Len(chain) /\ Len(chain) \in Nat
  BY DEF ChainTypeOK
<1>2. c = [i \in DOMAIN chain |-> [chain[i] EXCEPT !.mine = FALSE]]
  BY DEF LeftChain
<1> HIDE DEF c
<1>3. ASSUME NEW k \in DOMAIN chain
      PROVE  c[k] \in EntryType /\ SameEntry(c[k], chain[k])
  <2>1. chain[k] \in EntryType /\ c[k] = [chain[k] EXCEPT !.mine = FALSE]
    BY <1>1, <1>2
  <2> QED
    BY <2>1 DEF EntryType, SameEntry
<1>4. c \in [1..Len(chain) -> EntryType]
  BY <1>1, <1>2, <1>3
<1>5. c \in Seq(EntryType) /\ Len(c) = Len(chain)
  BY <1>1, <1>4
<1> QED
  BY <1>3, <1>5 DEF SameChain, c

LEMMA LeftChainByok ==
  ASSUME ChainTypeOK
  PROVE  /\ SameChain(LeftChain(LAMBDA e : e.from = "byok"))
         /\ \A k \in DOMAIN chain : chain[k].from # "byok" =>
              LeftChain(LAMBDA e : e.from = "byok")[k] = chain[k]
<1> DEFINE c == LeftChain(LAMBDA e : e.from = "byok")
<1>1. chain \in Seq(EntryType) /\ DOMAIN chain = 1..Len(chain) /\ Len(chain) \in Nat
  BY DEF ChainTypeOK
<1>2. c = [i \in DOMAIN chain |-> IF chain[i].from = "byok"
                                  THEN [chain[i] EXCEPT !.mine = FALSE] ELSE chain[i]]
  BY DEF LeftChain
<1> HIDE DEF c
<1>3. ASSUME NEW k \in DOMAIN chain
      PROVE  /\ c[k] \in EntryType /\ SameEntry(c[k], chain[k])
             /\ chain[k].from # "byok" => c[k] = chain[k]
  <2>1. chain[k] \in EntryType
    BY <1>1
  <2>2. c[k] = IF chain[k].from = "byok" THEN [chain[k] EXCEPT !.mine = FALSE] ELSE chain[k]
    BY <1>2
  <2> QED
    BY <2>1, <2>2 DEF EntryType, SameEntry
<1>4. c \in [1..Len(chain) -> EntryType]
  BY <1>1, <1>2, <1>3
<1>5. c \in Seq(EntryType) /\ Len(c) = Len(chain)
  BY <1>1, <1>4
<1> QED
  BY <1>3, <1>5 DEF SameChain, c

-----------------------------------------------------------------------------
(* The dialog.                                                             *)

Dialog == FormTypeOK /\ TasksTypeOK /\ FormOK /\ TasksOK /\ HeldOK

LEMMA InvIs ==
  /\ TypeOK <=> /\ QueueTypeOK /\ FormTypeOK /\ TasksTypeOK
                /\ ChainTypeOK /\ RegistryTypeOK /\ RestTypeOK
  /\ IInv => TypeOK /\ Dialog /\ ChainOK /\ OpenedOK /\ VerifiedOnly
  BY DEF IInv, TypeOK, Dialog

(* What is on the screen, as far as the tasks are concerned.               *)
SameScreen(f, g) ==
  g.tab = f.tab /\ g.flow.step = f.flow.step /\ g.flow.shown = f.flow.shown

LEMMA ScreenKept ==
  ASSUME TasksOK, tasks' = tasks, SameScreen(form, form')
  PROVE  TasksOK'
  BY DEF TasksOK, TaskOK, Shown, SameScreen

(* Nothing reaches a flow that has begun anew.                             *)
LEMMA FlowLeft ==
  ASSUME TasksTypeOK, TasksOK, \A t \in Tasks : Left(tasks[t], tasks'[t]), form'.flow = Flow
  PROVE  TasksOK'
<1>1. ASSUME NEW t \in Tasks
      PROVE  TaskOK(tasks'[t], t, form')
  <2>1. TaskOK(tasks[t], t, form) /\ Left(tasks[t], tasks'[t])
    BY DEF TasksOK
  <2>2. CASE tasks'[t] = Idle
    BY <2>2 DEF TaskOK, Idle, None
  <2>3. CASE tasks'[t] # Idle
    BY <2>1, <2>3 DEF Left, TaskOK
  <2> QED
    BY <2>2, <2>3
<1>2. form'.flow.shown = NoTask
  BY DEF Flow
<1> QED
  BY <1>1, <1>2 DEF TasksOK

(* The queue has changed: its first import has its own form.               *)
LEMMA DialogRequeued ==
  ASSUME IInv, NEW q \in Seq(QueueType), Requeued(q)
  PROVE  Dialog' /\ SameChain(chain')
<1>0. TypeOK /\ Dialog /\ TasksTypeOK /\ ChainTypeOK /\ queue' = q
  BY InvIs DEF Requeued
<1>1. CASE UNCHANGED <<form, tasks, chain>> /\ q # <<>> /\ queue # <<>>
  BY <1>0, <1>1, ChainIsSame
     DEF Dialog, FormTypeOK, TasksTypeOK, FormOK, TasksOK, HeldOK
<1>2. CASE form' = FormFor(q) /\ tasks' = LeftTasks /\ chain' = LeftChain(LAMBDA e : TRUE)
  <2>1. /\ form' \in FormType /\ (q = <<>> <=> form'.tab = None)
        /\ form'.flow = Flow /\ ~ form'.manual
    BY <1>2, FormForIs
  <2>2. tasks' \in [Tasks -> TaskType] /\ \A t \in Tasks : Left(tasks[t], tasks'[t])
    BY <1>0, <1>2, LeftTasksIs
  <2>3. TasksOK'
    BY <1>0, <2>1, <2>2, FlowLeft DEF Dialog
  <2>4. FormOK' /\ HeldOK'
    BY <1>0, <2>1 DEF FormOK, HeldOK, Flow
  <2>5. SameChain(chain')
    BY <1>0, <1>2, LeftChainAll
  <2> QED
    BY <2>1, <2>2, <2>3, <2>4, <2>5 DEF Dialog, FormTypeOK, TasksTypeOK
<1> QED
  BY <1>1, <1>2 DEF Requeued

LEMMA DialogSetTab ==
  ASSUME IInv, NEW tab \in {"manual", "byok"}, SetTab(tab)
  PROVE  Dialog' /\ SameChain(chain')
<1>0. /\ Dialog /\ TasksTypeOK /\ ChainTypeOK /\ form \in FormType
      /\ tab # None /\ form.tab # None /\ tab # form.tab /\ queue' = queue
      /\ form' = [form EXCEPT !.tab = tab, !.flow = Flow]
  BY InvIs DEF SetTab, FormTypeOK, None
<1>1. /\ form' \in FormType /\ form'.tab = tab /\ form'.flow = Flow
      /\ form'.manual = form.manual
  BY <1>0, IdleIs DEF FormType
<1>2. FormOK'
  BY <1>0, <1>1 DEF Dialog, FormOK, Flow
<1>3. CASE tab = "manual"
  <2>1. tasks' = LeftTasks /\ chain' = LeftChain(LAMBDA e : e.from = "byok")
    BY <1>3 DEF SetTab
  <2>2. tasks' \in [Tasks -> TaskType] /\ \A t \in Tasks : Left(tasks[t], tasks'[t])
    BY <1>0, <2>1, LeftTasksIs
  <2>3. TasksOK'
    BY <1>0, <1>1, <2>2, FlowLeft DEF Dialog
  <2>4. /\ SameChain(chain')
        /\ \A k \in DOMAIN chain : chain[k].from # "byok" => chain'[k] = chain[k]
    BY <1>0, <2>1, LeftChainByok
  <2>5. DOMAIN chain' = DOMAIN chain
    BY <1>0, <2>4 DEF SameChain, ChainTypeOK
  <2>6. HeldOK'
    BY <1>0, <1>1, <2>4, <2>5 DEF Dialog, HeldOK, Flow
  <2> QED
    BY <1>1, <1>2, <2>2, <2>3, <2>4, <2>6 DEF Dialog, FormTypeOK, TasksTypeOK
<1>4. CASE tab = "byok"
  <2>1. tasks' = tasks /\ chain' = chain
    BY <1>4 DEF SetTab
  <2>2. form.tab # "byok" /\ form.flow.shown = NoTask
    BY <1>0, <1>4 DEF Dialog, FormOK
  <2>3. TasksOK'
    BY <1>0, <1>1, <2>1, <2>2 DEF Dialog, TasksOK, TaskOK, Flow
  <2>4. HeldOK'
    BY <1>0, <1>1, <2>1 DEF Dialog, HeldOK, Flow
  <2> QED
    BY <1>0, <1>1, <1>2, <2>1, <2>3, <2>4, ChainIsSame DEF Dialog, FormTypeOK, TasksTypeOK
<1> QED
  BY <1>3, <1>4

(* The dialog's steps between runs.                                        *)
LEMMA DialogStep ==
  ASSUME IInv, NEW from \in {"key", "consent", "failed"}, NEW to \in {"key", "consent"},
         Step(from, to)
  PROVE  Dialog'
<1>0. /\ Dialog /\ form \in FormType /\ form.tab = "byok" /\ form.flow.step = from
      /\ form' = [form EXCEPT !.flow.step = to, !.flow.conv = NoTask]
      /\ UNCHANGED <<queue, tasks, chain>>
  BY InvIs DEF Step, FormTypeOK
<1>1. /\ form' \in FormType /\ form'.tab = "byok" /\ form'.manual = form.manual
      /\ form'.flow.step = to /\ form'.flow.shown = form.flow.shown
      /\ form'.flow.busy = form.flow.busy
  BY <1>0 DEF FormType, FlowType, SomeTask
<1>2. FormOK' /\ HeldOK'
  BY <1>0, <1>1 DEF Dialog, FormOK, HeldOK
<1>3. TasksOK'
  BY <1>0, <1>1 DEF Dialog, TasksOK, TaskOK, Shown
<1> QED
  BY <1>0, <1>1, <1>2, <1>3 DEF Dialog, FormTypeOK, TasksTypeOK
-----------------------------------------------------------------------------
(* Runs and conversions.                                                   *)

(* One task's record changes, and nothing that the dialog shows of it.     *)
Proceeds(r, s) ==
  /\ s.kind = r.kind /\ s.mine = r.mine
  /\ s.phase \in {"idle", "over"} \/ r.phase \in {"idle", "over"} => s.phase = r.phase
  /\ s.phase = "over" => s.err = r.err
  /\ s.phase = "recheck" => s.err = None
  /\ (s.kind = "run" /\ s.phase \in {"end", "recheck", "over"} /\ s.err = None) =>
       s.last \in Recipes /\ s.last.good

LEMMA DialogProceeds ==
  ASSUME IInv, NEW t \in Tasks, NEW r \in TaskType, Becomes(t, r), Proceeds(tasks[t], r)
  PROVE  Dialog'
<1>0. /\ Dialog /\ tasks \in [Tasks -> TaskType] /\ tasks' = [tasks EXCEPT ![t] = r]
      /\ UNCHANGED <<queue, form, chain>>
  BY InvIs DEF Becomes, TasksTypeOK
<1>1. /\ tasks' \in [Tasks -> TaskType] /\ tasks'[t] = r
      /\ \A u \in Tasks \ {t} : tasks'[u] = tasks[u]
  BY <1>0
<1>2. \A u \in Tasks : TaskOK(tasks[u], u, form)
  BY <1>0 DEF Dialog, TasksOK
<1>3. TaskOK(r, t, form)
  BY <1>2 DEF TaskOK, Proceeds
<1>4. ASSUME form.flow.shown = t, Shown(tasks[t], form)
      PROVE  Shown(r, form)
  BY <1>4 DEF Shown, Proceeds
<1>5. form.flow.shown \in Tasks \cup {NoTask}
  BY <1>0 DEF Dialog, FormTypeOK, FormType, FlowType, SomeTask
<1>6. TasksOK'
  BY <1>0, <1>1, <1>2, <1>3, <1>4, <1>5 DEF Dialog, TasksOK
<1> QED
  BY <1>0, <1>1, <1>6 DEF Dialog, FormTypeOK, TasksTypeOK, FormOK, HeldOK

(* What a run's record becomes.                                            *)
LEMMA RunsProceed ==
  ASSUME NEW r \in TaskType, r.phase \in {"start", "ask", "check"}
  PROVE  /\ \A e \in Errors \ {None} : Ended(r, e) \in TaskType /\ Proceeds(r, Ended(r, e))
         /\ AsksNext(r) \in TaskType /\ Proceeds(r, AsksNext(r))
         /\ Reported(r) \in TaskType /\ Proceeds(r, Reported(r))
         /\ Tried(r) \in TaskType /\ Tried(r).phase = r.phase /\ Proceeds(r, Tried(r))
         /\ \A rec \in Recipes :
              LET s == [r EXCEPT !.phase = "check", !.last = rec]
              IN s \in TaskType /\ Proceeds(r, s)
         /\ Better(r) \in TaskType /\ Better(r).phase = r.phase /\ Proceeds(r, Better(r))
<1>1. ASSUME NEW e \in Errors, e = None => r.last \in Recipes /\ r.last.good
      PROVE  Ended(r, e) \in TaskType /\ Proceeds(r, Ended(r, e))
  <2>1. Ended(r, e) = [r EXCEPT !.phase = "end", !.err = e, !.tries = 0]
    BY DEF Ended
  <2>2. Ended(r, e) \in TaskType
    <3>1. "end" \in Phases /\ 0 \in Nat /\ e \in Errors
      BY DEF Phases
    <3> HIDE DEF Phases, Errors
    <3> QED
      BY <2>1, <3>1 DEF TaskType
  <2>3. /\ Ended(r, e).phase = "end" /\ Ended(r, e).err = e /\ Ended(r, e).kind = r.kind
        /\ Ended(r, e).mine = r.mine /\ Ended(r, e).last = r.last
    BY <2>1 DEF TaskType
  <2> QED
    BY <1>1, <2>2, <2>3 DEF Proceeds
<1>2. {"aborted", "api", "refusal", "unsupported", "iteration-cap", "acceptance-gate"}
         = Errors \ {None}
  BY DEF Errors, None
<1>3. AsksNext(r) \in TaskType /\ Proceeds(r, AsksNext(r))
  <2>1. CASE AsksNext(r) = [r EXCEPT !.phase = "ask"]
    BY <2>1 DEF TaskType, Phases, Proceeds
  <2>2. CASE AsksNext(r) \in {Ended(r, "iteration-cap"), Ended(r, "aborted")}
    BY <1>1, <1>2, <2>2
  <2> QED
    BY <2>1, <2>2 DEF AsksNext
<1>4. Reported(r) \in TaskType /\ Proceeds(r, Reported(r))
  <2> DEFINE e == IF r.last = NoRecipe THEN "api"
                  ELSE IF Passes(r) THEN None ELSE "acceptance-gate"
  <2>1. Reported(r) = Ended(r, e) /\ e \in Errors
    BY DEF Reported, Errors
  <2>2. e = None => r.last \in Recipes /\ r.last.good
    BY <1>2 DEF Passes, TaskType, SomeRecipe
  <2> QED
    BY <1>1, <2>1, <2>2
<1>5. Tried(r) \in TaskType /\ Tried(r).phase = r.phase /\ Proceeds(r, Tried(r))
  BY DEF Tried, TaskType, Proceeds
<1>6. ASSUME NEW rec \in Recipes
      PROVE  LET s == [r EXCEPT !.phase = "check", !.last = rec]
             IN s \in TaskType /\ Proceeds(r, s)
  BY DEF TaskType, Phases, SomeRecipe, Proceeds
<1>7. Better(r) \in TaskType /\ Better(r).phase = r.phase /\ Proceeds(r, Better(r))
  BY DEF Better, TaskType, Proceeds
<1> QED
  BY <1>1, <1>2, <1>3, <1>4, <1>5, <1>6, <1>7

LEMMA ProceedsTwice ==
  ASSUME NEW r, NEW s, NEW u, Proceeds(r, s), Proceeds(s, u)
  PROVE  Proceeds(r, u)
  BY DEF Proceeds

LEMMA DialogRuns ==
  ASSUME IInv, NEW t \in Tasks, NEW ok \in BOOLEAN,
         Uploaded(t, ok) \/ Replied(t) \/ Checked(t, ok)
  PROVE  Dialog'
<1> DEFINE r == tasks[t]
<1>1. r \in TaskType
  BY InvIs DEF TasksTypeOK
<1> HIDE DEF r
<1>2. PICK s \in TaskType : Proceeds(r, s) /\ Becomes(t, s)
  <2>1. CASE Uploaded(t, ok)
    <3>1. r.phase = "start"
      BY <2>1 DEF Uploaded, Running, r
    <3>2. \/ Becomes(t, AsksNext(r))
          \/ Becomes(t, Ended(r, "aborted")) \/ Becomes(t, Ended(r, "api"))
      BY <2>1 DEF Uploaded, r
    <3> QED
      BY <1>1, <3>1, <3>2, RunsProceed DEF Errors, None
  <2>2. CASE Replied(t)
    <3>1. r.phase = "ask"
      BY <2>2 DEF Replied, Running, r
    <3>2. \/ \E e \in Errors \ {None} : Becomes(t, Ended(r, e))
          \/ Becomes(t, Reported(r))
          \/ Becomes(t, AsksNext(Tried(r)))
          \/ \E rec \in Offers : Becomes(t, [r EXCEPT !.phase = "check", !.last = rec])
      BY <2>2 DEF Replied, Errors, None, r
    <3>3. Tried(r) \in TaskType /\ Tried(r).phase = "ask" /\ Proceeds(r, Tried(r))
      BY <1>1, <3>1, RunsProceed
    <3>4. AsksNext(Tried(r)) \in TaskType /\ Proceeds(Tried(r), AsksNext(Tried(r)))
      BY <3>3, RunsProceed
    <3>5. Proceeds(r, AsksNext(Tried(r)))
      BY <3>3, <3>4, ProceedsTwice
    <3>6. \A rec \in Offers : rec \in Recipes
      BY Constants
    <3> QED
      BY <1>1, <3>1, <3>2, <3>4, <3>5, <3>6, RunsProceed
  <2>3. CASE Checked(t, ok)
    <3>1. r.phase = "check"
      BY <2>3 DEF Checked, Running, r
    <3>2. Becomes(t, AsksNext(Tried(Better(r)))) \/ Becomes(t, Ended(r, "api"))
      BY <2>3 DEF Checked, r
    <3> DEFINE b == Better(r)
               c == Tried(b)
    <3>3. b \in TaskType /\ b.phase = "check" /\ Proceeds(r, b)
      BY <1>1, <3>1, RunsProceed
    <3> HIDE DEF b
    <3>4. c \in TaskType /\ c.phase = "check" /\ Proceeds(b, c)
      BY <3>3, RunsProceed
    <3> HIDE DEF c
    <3>5. AsksNext(c) \in TaskType /\ Proceeds(c, AsksNext(c))
      BY <3>4, RunsProceed
    <3>6. Proceeds(r, AsksNext(c))
      BY <3>3, <3>4, <3>5, ProceedsTwice
    <3> QED
      BY <1>1, <3>1, <3>2, <3>5, <3>6, RunsProceed DEF Errors, None, b, c
  <2> QED
    BY <2>1, <2>2, <2>3
<1> QED
  BY <1>2, DialogProceeds DEF r

LEMMA DialogAbort ==
  ASSUME IInv, Abort
  PROVE  Dialog'
<1> DEFINE r == [tasks[Ctl] EXCEPT !.aborted = TRUE]
<1>1. Ctl \in Tasks /\ tasks \in [Tasks -> TaskType]
  BY InvIs DEF Abort, Ctl, FormTypeOK, TasksTypeOK, FormType, FlowType, SomeTask
<1>2. TaskOK(tasks[Ctl], Ctl, form) /\ tasks[Ctl] \in TaskType
  BY <1>1, InvIs DEF Dialog, TasksOK
<1>3. r \in TaskType /\ Proceeds(tasks[Ctl], r)
  BY <1>2 DEF TaskType, Proceeds, TaskOK
<1>4. tasks' = [tasks EXCEPT ![Ctl] = r]
  BY <1>1 DEF Abort
<1>5. Becomes(Ctl, r)
  BY <1>4 DEF Abort, Becomes
<1> HIDE DEF r
<1> QED
  BY <1>1, <1>3, <1>5, DialogProceeds
LEMMA DialogShows ==
  ASSUME IInv, NEW t \in Tasks, NEW step \in {"failed", "success"}, NEW err \in Errors,
         Shows(t, step, err), tasks[t].kind = "run", tasks[t].phase \in {"end", "recheck"},
         err = None => tasks[t].err = None,
         step = "success" => err = None
  PROVE  Dialog'
<1> DEFINE r == tasks[t]
<1>0. /\ Dialog /\ form \in FormType /\ tasks \in [Tasks -> TaskType] /\ r \in TaskType
      /\ UNCHANGED <<queue, chain>>
      /\ \A u \in Tasks : TaskOK(tasks[u], u, form)
      /\ form.flow.shown # NoTask => Shown(tasks[form.flow.shown], form)
  BY InvIs DEF Shows, FormTypeOK, TasksTypeOK, Dialog, TasksOK
<1>1. CASE r.mine
  <2> DEFINE s == [r EXCEPT !.phase = "over", !.err = err, !.aborted = FALSE]
  <2>1. /\ form' = [form EXCEPT !.flow.step = step, !.flow.ctl = NoTask]
        /\ tasks' = [tasks EXCEPT ![t] = s]
    BY <1>0, <1>1 DEF Shows
  <2>2. form.flow.step = "run" /\ form.flow.shown = t /\ form.tab = "byok"
    BY <1>0, <1>1 DEF TaskOK
  <2>3. /\ form' \in FormType /\ form'.tab = form.tab /\ form'.manual = form.manual
        /\ form'.flow.step = step /\ form'.flow.shown = t
        /\ form'.flow.busy = form.flow.busy
    BY <1>0, <2>1, <2>2 DEF FormType, FlowType, SomeTask
  <2>4. /\ s \in TaskType /\ s.phase = "over" /\ s.err = err /\ s.kind = "run" /\ s.mine
        /\ s.last = r.last
    BY <1>0, <1>1 DEF TaskType, Phases
  <2> HIDE DEF s
  <2>5. /\ tasks' \in [Tasks -> TaskType] /\ tasks'[t] = s
        /\ \A u \in Tasks \ {t} : tasks'[u] = tasks[u]
    BY <1>0, <2>1, <2>4
  <2>6. TaskOK(s, t, form')
    <3>1. err = None => r.last \in Recipes /\ r.last.good
      BY <1>0 DEF TaskOK
    <3> QED
      BY <2>2, <2>3, <2>4, <3>1 DEF TaskOK
  <2>7. \A u \in Tasks \ {t} : TaskOK(tasks[u], u, form')
    BY <1>0, <2>2, <2>3 DEF TaskOK
  <2>8. Shown(s, form')
    BY <2>3, <2>4 DEF Shown
  <2>9. TasksOK'
    BY <2>3, <2>5, <2>6, <2>7, <2>8 DEF TasksOK
  <2>10. FormOK' /\ HeldOK'
    BY <1>0, <2>2, <2>3 DEF Dialog, FormOK, HeldOK, Tasks, NoTask
  <2> QED
    BY <2>3, <2>5, <2>9, <2>10 DEF Dialog, FormTypeOK, TasksTypeOK
<1>2. CASE ~ r.mine
  <2>1. form' = form /\ tasks' = [tasks EXCEPT ![t] = Idle]
    BY <1>2 DEF Shows
  <2>2. /\ tasks' \in [Tasks -> TaskType] /\ tasks'[t] = Idle
        /\ \A u \in Tasks \ {t} : tasks'[u] = tasks[u]
    BY <1>0, <2>1, IdleIs
  <2>3. TaskOK(Idle, t, form)
    BY DEF TaskOK, Idle, None
  <2>4. form.flow.shown = t => Shown(Idle, form)
    BY <1>0, <1>2 DEF Shown, Tasks, NoTask
  <2>5. TasksOK'
    BY <1>0, <2>1, <2>2, <2>3, <2>4 DEF TasksOK, FormType, FlowType, SomeTask
  <2> QED
    BY <1>0, <2>1, <2>2, <2>5 DEF Dialog, FormTypeOK, TasksTypeOK, FormOK, HeldOK
<1> QED
  BY <1>1, <1>2

LEMMA DialogEnds ==
  ASSUME IInv, NEW t \in Tasks, NEW ok \in BOOLEAN, Caught(t) \/ Rechecked(t, ok)
  PROVE  Dialog'
<1>0. /\ tasks[t] \in TaskType /\ tasks[t].kind = "run" /\ tasks[t].phase \in {"end", "recheck"}
      /\ TaskOK(tasks[t], t, form)
  BY InvIs DEF Caught, Rechecked, Running, TasksTypeOK, Dialog, TasksOK
<1>1. CASE Caught(t) /\ tasks[t].err = None
  <2> DEFINE r == [tasks[t] EXCEPT !.phase = "recheck"]
  <2>1. Becomes(t, r) /\ tasks[t].phase = "end"
    BY <1>1 DEF Caught, Running
  <2>2. r \in TaskType /\ Proceeds(tasks[t], r)
    BY <1>0, <1>1, <2>1 DEF TaskType, Phases, Proceeds, TaskOK
  <2> HIDE DEF r
  <2> QED
    BY <2>1, <2>2, DialogProceeds
<1>2. CASE Caught(t) /\ tasks[t].err # None
  <2>1. Shows(t, "failed", tasks[t].err) /\ tasks[t].err \in Errors
    BY <1>0, <1>2 DEF Caught, TaskType
  <2> QED
    BY <1>0, <1>2, <2>1, DialogShows
<1>3. CASE Rechecked(t, ok)
  <2>1. tasks[t].err = None
    BY <1>0, <1>3 DEF Rechecked, Running, TaskOK
  <2>2. Shows(t, "success", None) \/ Shows(t, "failed", "api")
    BY <1>3 DEF Rechecked
  <2> QED
    BY <1>0, <2>1, <2>2, DialogShows DEF Errors, None
<1> QED
  BY <1>1, <1>2, <1>3

(* A task begins in a place that is free.                                  *)
LEMMA BeganIs ==
  ASSUME IInv, NEW t \in Tasks, NEW kind \in {"run", "convert"}, Began(kind, t), form.tab # None
  PROVE  /\ tasks' \in [Tasks -> TaskType] /\ \A u \in Tasks \ {t} : tasks'[u] = tasks[u]
         /\ tasks'[t].kind = kind /\ tasks'[t].mine /\ tasks'[t].phase = "start"
         /\ kind = "convert" => t # form.flow.shown
<1>1. queue # <<>> /\ queue \in Seq(QueueType) /\ tasks \in [Tasks -> TaskType]
  BY InvIs DEF Dialog, FormOK, QueueTypeOK, TasksTypeOK
<1>2. queue[1].id \in Imports
  <2>1. queue[1] \in QueueType
    BY <1>1
  <2> QED
    BY <2>1 DEF QueueType
<1> DEFINE r == [Idle EXCEPT !.kind = kind, !.imp = queue[1].id, !.mine = TRUE, !.phase = "start"]
<1>3. r \in TaskType /\ r.kind = kind /\ r.mine /\ r.phase = "start"
  <2>1. Idle \in TaskType /\ "start" \in Phases
    BY IdleIs DEF Phases
  <2> HIDE DEF Idle
  <2> QED
    BY <1>2, <2>1 DEF TaskType
<1>4. tasks' = [tasks EXCEPT ![t] = r]
  BY DEF Began
<1>5. kind = "convert" => t # form.flow.shown
  BY DEF Began, Free
<1> HIDE DEF r
<1> QED
  BY <1>1, <1>3, <1>4, <1>5

LEMMA DialogStartRun ==
  ASSUME IInv, NEW t \in Tasks, StartRun(t)
  PROVE  Dialog'
<1>0. /\ Dialog /\ form \in FormType /\ UNCHANGED <<queue, chain>>
      /\ form.tab = "byok" /\ form.flow.step = "consent" /\ Began("run", t)
      /\ form' = [form EXCEPT !.flow.step = "run", !.flow.ctl = t, !.flow.shown = t]
      /\ \A u \in Tasks : TaskOK(tasks[u], u, form)
  BY InvIs DEF StartRun, FormTypeOK, Dialog, TasksOK
<1>1. /\ tasks' \in [Tasks -> TaskType] /\ \A u \in Tasks \ {t} : tasks'[u] = tasks[u]
      /\ tasks'[t].kind = "run" /\ tasks'[t].mine /\ tasks'[t].phase = "start"
  BY <1>0, BeganIs DEF None
<1>2. /\ form' \in FormType /\ form'.tab = "byok" /\ form'.manual = form.manual
      /\ form'.flow.step = "run" /\ form'.flow.shown = t
      /\ form'.flow.busy = form.flow.busy
  BY <1>0 DEF FormType, FlowType, SomeTask
<1>3. TaskOK(tasks'[t], t, form') /\ Shown(tasks'[t], form')
  BY <1>1, <1>2 DEF TaskOK, Shown
<1>4. \A u \in Tasks \ {t} : TaskOK(tasks[u], u, form')
  BY <1>0, <1>2 DEF TaskOK
<1>5. TasksOK'
  BY <1>1, <1>2, <1>3, <1>4 DEF TasksOK
<1>6. FormOK' /\ HeldOK'
  BY <1>0, <1>2 DEF Dialog, FormOK, HeldOK, Tasks, NoTask
<1> QED
  BY <1>1, <1>2, <1>5, <1>6 DEF Dialog, FormTypeOK, TasksTypeOK

LEMMA DialogConvert ==
  ASSUME IInv, NEW t \in Tasks, Convert(t)
  PROVE  Dialog'
<1>0. /\ Dialog /\ form \in FormType /\ UNCHANGED <<queue, chain>>
      /\ form.tab = "byok" /\ form.flow.step = "failed" /\ Began("convert", t)
      /\ form' = [form EXCEPT !.flow.ctl = t, !.flow.conv = t]
      /\ \A u \in Tasks : TaskOK(tasks[u], u, form)
      /\ form.flow.shown # NoTask => Shown(tasks[form.flow.shown], form)
  BY InvIs DEF Convert, FormTypeOK, Dialog, TasksOK
<1>1. /\ tasks' \in [Tasks -> TaskType] /\ \A u \in Tasks \ {t} : tasks'[u] = tasks[u]
      /\ tasks'[t].kind = "convert" /\ tasks'[t].mine /\ tasks'[t].phase = "start"
      /\ t # form.flow.shown
  BY <1>0, BeganIs DEF None
<1>2. /\ form' \in FormType /\ form'.tab = "byok" /\ form'.manual = form.manual
      /\ form'.flow.step = "failed" /\ form'.flow.shown = form.flow.shown
      /\ form'.flow.busy = form.flow.busy
  BY <1>0 DEF FormType, FlowType, SomeTask
<1>3. TaskOK(tasks'[t], t, form')
  BY <1>1, <1>2 DEF TaskOK
<1>4. \A u \in Tasks \ {t} : TaskOK(tasks[u], u, form')
  BY <1>0, <1>2 DEF TaskOK
<1>5. TasksOK'
  BY <1>0, <1>1, <1>2, <1>3, <1>4 DEF TasksOK, Shown, FormType, FlowType, SomeTask
<1>6. FormOK' /\ HeldOK'
  BY <1>0, <1>2 DEF Dialog, FormOK, HeldOK
<1> QED
  BY <1>1, <1>2, <1>5, <1>6 DEF Dialog, FormTypeOK, TasksTypeOK
(* The end of a conversion takes the controller, and leaves the screen.    *)
LEMMA ConvertOverIs ==
  ASSUME IInv, NEW t \in Tasks
  PROVE  /\ ConvertOver(t, form) \in FormType /\ SameScreen(form, ConvertOver(t, form))
         /\ ConvertOver(t, form).manual = form.manual
         /\ ConvertOver(t, form).flow.busy = form.flow.busy
<1>1. form \in FormType /\ (tasks[t].mine => form.tab = "byok")
  BY InvIs DEF FormTypeOK, Dialog, TasksOK, TaskOK
<1> DEFINE f == [form EXCEPT !.flow.ctl = NoTask, !.flow.conv = IF @ = t THEN NoTask ELSE @]
<1>2. /\ f \in FormType /\ f.tab = form.tab /\ f.manual = form.manual
      /\ f.flow.step = form.flow.step /\ f.flow.shown = form.flow.shown
      /\ f.flow.busy = form.flow.busy
  BY <1>1 DEF FormType, FlowType, SomeTask
<1>3. ConvertOver(t, form) = IF tasks[t].mine THEN f ELSE form
  BY DEF ConvertOver
<1> HIDE DEF f
<1> QED
  BY <1>1, <1>2, <1>3 DEF SameScreen

LEMMA ConversionGone ==
  ASSUME IInv, NEW t \in Tasks, tasks[t].kind = "convert",
         tasks' = [tasks EXCEPT ![t] = Idle], form' = ConvertOver(t, form),
         chain' = chain, queue' = <<>> <=> queue = <<>>
  PROVE  Dialog'
<1>0. /\ Dialog /\ tasks \in [Tasks -> TaskType] /\ form \in FormType
      /\ \A u \in Tasks : TaskOK(tasks[u], u, form)
      /\ form.flow.shown # NoTask => Shown(tasks[form.flow.shown], form)
  BY InvIs DEF Dialog, TasksOK, TasksTypeOK, FormTypeOK
<1>1. /\ form' \in FormType /\ SameScreen(form, form')
      /\ form'.manual = form.manual /\ form'.flow.busy = form.flow.busy
  BY ConvertOverIs
<1>2. /\ tasks' \in [Tasks -> TaskType] /\ tasks'[t] = Idle
      /\ \A u \in Tasks \ {t} : tasks'[u] = tasks[u]
  BY <1>0, IdleIs
<1>3. TaskOK(Idle, t, form')
  BY DEF TaskOK, Idle, None
<1>4. \A u \in Tasks : TaskOK(tasks'[u], u, form')
  BY <1>0, <1>1, <1>2, <1>3 DEF TaskOK, SameScreen
<1>5. form.flow.shown = t => Shown(Idle, form')
  BY <1>0, <1>1 DEF Shown, SameScreen, TaskOK, Tasks, NoTask
<1>6. TasksOK'
  BY <1>0, <1>1, <1>2, <1>4, <1>5
     DEF TasksOK, Shown, SameScreen, FormType, FlowType, SomeTask
<1>7. FormOK' /\ HeldOK'
  BY <1>0, <1>1 DEF Dialog, FormOK, HeldOK, SameScreen
<1> QED
  BY <1>1, <1>2, <1>6, <1>7 DEF Dialog, FormTypeOK, TasksTypeOK

LEMMA DialogConverted ==
  ASSUME IInv, NEW t \in Tasks, NEW ok \in BOOLEAN, Converted(t, ok)
  PROVE  Dialog'
<1>0. /\ tasks[t] \in TaskType /\ tasks[t].kind = "convert" /\ tasks[t].phase = "start"
      /\ UNCHANGED <<queue, arrived, chain, opening, opened, registry, drafts, proposal, acts>>
  BY InvIs DEF Converted, TasksTypeOK
<1>1. CASE ok /\ ~ tasks[t].aborted
  <2> DEFINE r == [tasks[t] EXCEPT !.phase = "ingest"]
  <2>1. Becomes(t, r)
    BY <1>0, <1>1 DEF Converted, Becomes
  <2>2. r \in TaskType /\ Proceeds(tasks[t], r)
    BY <1>0 DEF TaskType, Phases, Proceeds
  <2> HIDE DEF r
  <2> QED
    BY <2>1, <2>2, DialogProceeds
<1>2. CASE ~(ok /\ ~ tasks[t].aborted)
  BY <1>0, <1>2, ConversionGone DEF Converted
<1> QED
  BY <1>1, <1>2

LEMMA DialogIngested ==
  ASSUME IInv, NEW t \in Tasks, NEW ok \in BOOLEAN, Ingested(t, ok)
  PROVE  Dialog' /\ SameChain(chain')
<1>0. /\ TypeOK /\ Dialog /\ QueueTypeOK /\ TasksTypeOK /\ ChainTypeOK
      /\ tasks[t].kind = "convert"
  BY InvIs DEF Ingested
<1> DEFINE q == IF ok THEN Without(tasks[t].imp) ELSE queue
           same == q # <<>> /\ queue # <<>> /\ q[1] = queue[1]
<1>1. q \in Seq(QueueType)
  BY <1>0, WithoutIs DEF QueueTypeOK
<1>2. /\ queue' = q
      /\ form' = IF same THEN ConvertOver(t, form) ELSE FormFor(q)
      /\ tasks' = [IF same THEN tasks ELSE LeftTasks EXCEPT ![t] = Idle]
      /\ chain' = IF same THEN chain ELSE LeftChain(LAMBDA e : TRUE)
  BY DEF Ingested
<1> HIDE DEF q
<1>3. CASE same
  <2>1. Dialog'
    BY <1>0, <1>2, <1>3, ConversionGone
  <2> QED
    BY <1>0, <1>2, <1>3, <2>1, ChainIsSame
<1>4. CASE ~ same
  <2>1. /\ form' \in FormType /\ (q = <<>> <=> form'.tab = None)
        /\ form'.flow = Flow /\ ~ form'.manual
    BY <1>1, <1>2, <1>4, FormForIs
  <2>2. LeftTasks \in [Tasks -> TaskType] /\ \A u \in Tasks : Left(tasks[u], LeftTasks[u])
    BY <1>0, LeftTasksIs
  <2>3. tasks' = [LeftTasks EXCEPT ![t] = Idle]
    BY <1>2, <1>4
  <2>4. tasks' \in [Tasks -> TaskType] /\ \A u \in Tasks : Left(tasks[u], tasks'[u])
    BY <2>2, <2>3, IdleIs DEF Left
  <2>5. TasksOK'
    BY <1>0, <2>1, <2>4, FlowLeft DEF Dialog
  <2>6. FormOK' /\ HeldOK'
    BY <1>2, <2>1 DEF FormOK, HeldOK, Flow
  <2>7. SameChain(chain')
    BY <1>0, <1>2, <1>4, LeftChainAll
  <2> QED
    BY <2>1, <2>4, <2>5, <2>6, <2>7 DEF Dialog, FormTypeOK, TasksTypeOK
<1> QED
  BY <1>3, <1>4

-----------------------------------------------------------------------------
(* Confirming.                                                             *)

(* A confirmation joins the chain, and the button that sent it is held.    *)
LEMMA ConfirmJoins ==
  ASSUME IInv, NEW from \in {"manual", "byok"}, NEW rec \in Recipes, NEW who \in {"user", "agent"},
         NEW draft \in BOOLEAN, Confirm(from, rec, who, draft), form.tab # None,
         who = "agent" /\ ~ draft => rec.good
  PROVE  /\ chain' \in Seq(EntryType) /\ Len(chain') = Len(chain) + 1
         /\ \A k \in DOMAIN chain : k \in DOMAIN chain' /\ chain'[k] = chain[k]
         /\ LET e == chain'[Len(chain')]
            IN EntryOK(e, arrived) /\ e.mine /\ e.from = from /\ Len(chain') \in DOMAIN chain'
<1> DEFINE e == [imp |-> queue[1].id, rec |-> rec, by |-> who, draft |-> draft,
                 re |-> IF from = "byok" /\ ~ draft THEN queue[1].re ELSE None,
                 from |-> from, mine |-> TRUE]
<1>1. /\ queue # <<>> /\ queue \in Seq(QueueType) /\ chain \in Seq(EntryType)
      /\ \A p \in ToSet(queue) : p.id <= arrived
  BY InvIs DEF Dialog, FormOK, QueueTypeOK, ChainTypeOK, OpenedOK
<1>2. queue[1] \in QueueType /\ 1 \in DOMAIN queue
  BY <1>1
<1>3. queue[1] \in ToSet(queue)
  BY <1>2 DEF ToSet
<1>4. e \in EntryType /\ e.mine /\ e.from = from /\ EntryOK(e, arrived)
  BY <1>1, <1>2, <1>3 DEF QueueType, EntryType, SomeName, EntryOK
<1>5. chain' = Append(chain, e)
  BY DEF Confirm
<1> HIDE DEF e
<1> QED
  BY <1>1, <1>4, <1>5

LEMMA DialogOpen ==
  ASSUME IInv, NEW rec \in Offers, Open(rec)
  PROVE  Dialog'
<1>0. /\ Dialog /\ form \in FormType /\ form.tab = "manual" /\ UNCHANGED <<queue, tasks>>
      /\ form' = [form EXCEPT !.manual = TRUE] /\ Confirm("manual", rec, "user", FALSE)
      /\ rec \in Recipes
  BY InvIs, Constants DEF Open, Confirm, FormTypeOK
<1>1. /\ form' \in FormType /\ form'.tab = form.tab /\ form'.flow = form.flow
  BY <1>0 DEF FormType
<1>2. TasksOK'
  BY <1>0, <1>1, ScreenKept DEF Dialog, SameScreen
<1>3. form.tab # None
  BY <1>0 DEF None
<1>4. HeldOK'
  BY <1>0, <1>1, <1>3, ConfirmJoins DEF Dialog, HeldOK
<1>5. FormOK'
  BY <1>0, <1>1 DEF Dialog, FormOK
<1> QED
  BY <1>0, <1>1, <1>2, <1>4, <1>5 DEF Dialog, FormTypeOK, TasksTypeOK

(* The agent's tab opens what its run proved, or a draft.                  *)
LEMMA AgentConfirms ==
  ASSUME IInv, ConfirmSuccess \/ SaveDraftAndOpen
  PROVE  /\ form' = [form EXCEPT !.flow.busy = TRUE] /\ form.tab = "byok"
         /\ \E rec \in Recipes : \E draft \in BOOLEAN :
              Confirm("byok", rec, "agent", draft) /\ (~ draft => rec.good)
<1> DEFINE r == tasks[form.flow.shown]
<1>1. /\ form.flow.step \in {"success", "failed"} /\ form.tab = "byok"
      /\ form' = [form EXCEPT !.flow.busy = TRUE]
  BY DEF ConfirmSuccess, SaveDraftAndOpen
<1>2. form.flow.shown \in Tasks
  BY <1>1, InvIs DEF Dialog, FormOK, FormTypeOK, FormType, FlowType, SomeTask
<1>3. r \in TaskType /\ TaskOK(r, form.flow.shown, form) /\ Shown(r, form)
  BY <1>2, InvIs, Constants DEF Dialog, TasksTypeOK, TasksOK
<1>4. CASE ConfirmSuccess
  <2>1. r.last \in Recipes /\ r.last.good
    BY <1>3, <1>4 DEF ConfirmSuccess, TaskOK, Shown
  <2>2. Confirm("byok", r.last, "agent", FALSE)
    BY <1>4 DEF ConfirmSuccess
  <2> QED
    BY <1>1, <2>1, <2>2
<1>5. CASE SaveDraftAndOpen
  <2>1. Confirm("byok", r.best, "agent", TRUE) /\ r.best # NoRecipe
    BY <1>5 DEF SaveDraftAndOpen
  <2>2. r.best \in Recipes
    BY <1>3, <2>1 DEF TaskType, SomeRecipe
  <2> QED
    BY <1>1, <2>1, <2>2
<1> QED
  BY <1>4, <1>5

LEMMA DialogConfirm ==
  ASSUME IInv, ConfirmSuccess \/ SaveDraftAndOpen
  PROVE  Dialog'
<1>0. /\ Dialog /\ form \in FormType /\ form.tab = "byok" /\ UNCHANGED <<queue, tasks>>
      /\ form' = [form EXCEPT !.flow.busy = TRUE]
  BY InvIs, AgentConfirms DEF FormTypeOK, Confirm
<1>1. /\ form' \in FormType /\ form'.tab = form.tab /\ form'.manual = form.manual
      /\ form'.flow.step = form.flow.step /\ form'.flow.shown = form.flow.shown
  BY <1>0 DEF FormType, FlowType
<1>2. TasksOK'
  BY <1>0, <1>1, ScreenKept DEF Dialog, SameScreen
<1>3. PICK rec \in Recipes, draft \in BOOLEAN :
        Confirm("byok", rec, "agent", draft) /\ (~ draft => rec.good)
  BY AgentConfirms
<1>4. form.tab # None
  BY <1>0 DEF None
<1>5. HeldOK'
  BY <1>0, <1>1, <1>3, <1>4, ConfirmJoins DEF Dialog, HeldOK
<1>6. FormOK'
  BY <1>0, <1>1 DEF Dialog, FormOK
<1> QED
  BY <1>0, <1>1, <1>2, <1>5, <1>6 DEF Dialog, FormTypeOK, TasksTypeOK
(* The first confirmation is done, and its button free.                    *)
LEMMA FreedIs ==
  ASSUME IInv, chain # <<>>, form' = Freed(chain[1], form), chain' = Tail(chain),
         tasks' = tasks, queue' = <<>> <=> queue = <<>>
  PROVE  Dialog'
<1> DEFINE e == chain[1]
<1>0. Dialog /\ form \in FormType /\ chain \in Seq(EntryType)
  BY InvIs DEF FormTypeOK, ChainTypeOK
<1>1. /\ form' \in FormType /\ SameScreen(form, form')
      /\ form'.manual => form.manual /\ ~(e.mine /\ e.from = "manual")
      /\ form'.flow.busy => form.flow.busy /\ ~(e.mine /\ e.from = "byok")
  <2>1. e \in EntryType
    BY <1>0
  <2> HIDE DEF e
  <2>2. form' = Freed(e, form)
    BY DEF e
  <2>3. CASE ~ e.mine
    BY <1>0, <2>2, <2>3 DEF Freed, SameScreen
  <2>4. CASE e.mine /\ e.from = "manual"
    <3>1. form' = [form EXCEPT !.manual = FALSE]
      BY <2>2, <2>4 DEF Freed
    <3> QED
      BY <1>0, <2>4, <3>1 DEF FormType, SameScreen
  <2>5. CASE e.mine /\ e.from = "byok"
    <3>1. form' = [form EXCEPT !.flow.busy = FALSE]
      BY <2>2, <2>5 DEF Freed
    <3>2. /\ form' \in FormType /\ SameScreen(form, form') /\ form'.manual = form.manual
          /\ ~ form'.flow.busy
      BY <1>0, <3>1 DEF FormType, FlowType, SameScreen
    <3> QED
      BY <2>5, <3>2
  <2> QED
    BY <2>1, <2>3, <2>4, <2>5 DEF EntryType
<1>2. TasksOK'
  BY <1>0, <1>1, ScreenKept DEF Dialog
<1>3. FormOK'
  BY <1>0, <1>1 DEF Dialog, FormOK, SameScreen
<1>4. ASSUME NEW from, \E i \in DOMAIN chain : chain[i].mine /\ chain[i].from = from,
             ~(e.mine /\ e.from = from)
      PROVE  \E i \in DOMAIN chain' : chain'[i].mine /\ chain'[i].from = from
  <2>1. PICK i \in DOMAIN chain : chain[i].mine /\ chain[i].from = from
    BY <1>4
  <2>2. i # 1
    BY <1>4, <2>1
  <2>3. i - 1 \in DOMAIN Tail(chain) /\ Tail(chain)[i - 1] = chain[i]
    BY <1>0, <2>1, <2>2
  <2> QED
    BY <2>1, <2>3
<1>5. HeldOK'
  BY <1>0, <1>1, <1>4 DEF Dialog, HeldOK
<1> QED
  BY <1>0, <1>1, <1>2, <1>3, <1>5 DEF Dialog, FormTypeOK, TasksTypeOK

LEMMA DialogConfirmStarts ==
  ASSUME IInv, ConfirmStarts
  PROVE  Dialog'
<1>1. CASE UNCHANGED <<chain, form>>
  BY <1>1, InvIs DEF ConfirmStarts, Dialog, FormTypeOK, TasksTypeOK, FormOK, TasksOK, HeldOK
<1>2. CASE chain' = Tail(chain) /\ form' = Freed(chain[1], form)
  BY <1>2, FreedIs DEF ConfirmStarts
<1> QED
  BY <1>1, <1>2 DEF ConfirmStarts

LEMMA DialogConfirmEnds ==
  ASSUME IInv, NEW ok \in BOOLEAN, ConfirmEnds(ok)
  PROVE  /\ Dialog'
         /\ \E c : SameChain(c) /\ chain' = Tail(c)
<1>0. /\ Dialog /\ QueueTypeOK /\ TasksTypeOK /\ ChainTypeOK /\ chain # <<>>
  BY InvIs DEF ConfirmEnds, OpenedOK
<1> DEFINE q == IF ok THEN Without(chain[1].imp) ELSE queue
           same == (q # <<>> /\ queue # <<>> /\ q[1] = queue[1]) \/ q = queue
<1>1. q \in Seq(QueueType)
  BY <1>0, WithoutIs DEF QueueTypeOK
<1>2. /\ queue' = q
      /\ form' = IF same THEN Freed(chain[1], form) ELSE FormFor(q)
      /\ tasks' = IF same THEN tasks ELSE LeftTasks
      /\ chain' = Tail(IF same THEN chain ELSE LeftChain(LAMBDA x : TRUE))
  BY DEF ConfirmEnds
<1> HIDE DEF q
<1>3. CASE same
  <2>1. Dialog'
    BY <1>0, <1>2, <1>3, FreedIs
  <2> QED
    BY <1>0, <1>2, <1>3, <2>1, ChainIsSame
<1>4. CASE ~ same
  <2>1. /\ form' \in FormType /\ (q = <<>> <=> form'.tab = None)
        /\ form'.flow = Flow /\ ~ form'.manual
    BY <1>1, <1>2, <1>4, FormForIs
  <2>2. tasks' = LeftTasks
    BY <1>2, <1>4
  <2>3. tasks' \in [Tasks -> TaskType] /\ \A u \in Tasks : Left(tasks[u], tasks'[u])
    BY <1>0, <2>2, LeftTasksIs
  <2>4. TasksOK'
    BY <1>0, <2>1, <2>3, FlowLeft DEF Dialog
  <2>5. FormOK' /\ HeldOK'
    BY <1>2, <2>1 DEF FormOK, HeldOK, Flow
  <2>6. SameChain(LeftChain(LAMBDA x : TRUE)) /\ chain' = Tail(LeftChain(LAMBDA x : TRUE))
    BY <1>0, <1>2, <1>4, LeftChainAll
  <2> QED
    BY <2>1, <2>3, <2>4, <2>5, <2>6 DEF Dialog, FormTypeOK, TasksTypeOK
<1> QED
  BY <1>3, <1>4

LEMMA DialogArrives ==
  ASSUME IInv, NEW re \in SomeName, Arrive(re)
  PROVE  /\ Dialog' /\ SameChain(chain') /\ arrived' = arrived + 1 /\ arrived' \in Imports
         /\ queue' \in Seq(QueueType)
         /\ ToSet(queue') = ToSet(queue) \cup {[id |-> arrived', re |-> re]}
<1> DEFINE p == [id |-> arrived', re |-> re]
<1>1. /\ arrived' = arrived + 1 /\ arrived \in 0..MaxImports /\ arrived < MaxImports
      /\ MaxImports \in Nat /\ queue \in Seq(QueueType)
  BY InvIs, Constants DEF Arrive, QueueTypeOK
<1>2. arrived' \in Imports
  BY <1>1 DEF Imports
<1>3. p \in QueueType /\ Requeued(Append(queue, p)) /\ queue' = Append(queue, p)
  BY <1>2 DEF Arrive, QueueType, Requeued
<1> HIDE DEF p
<1>4. Append(queue, p) \in Seq(QueueType) /\ ToSet(Append(queue, p)) = ToSet(queue) \cup {p}
  BY <1>1, <1>3, SetOfAppend
<1>5. Dialog' /\ SameChain(chain')
  BY <1>3, <1>4, DialogRequeued
<1> QED
  BY <1>1, <1>2, <1>3, <1>4, <1>5 DEF p

LEMMA DialogCancels ==
  ASSUME IInv, Cancel
  PROVE  /\ Dialog' /\ SameChain(chain') /\ queue' \in Seq(QueueType)
         /\ ToSet(queue') \subseteq ToSet(queue)
<1>1. queue # <<>> /\ queue \in Seq(QueueType)
  BY InvIs DEF Cancel, Dialog, FormOK, QueueTypeOK
<1>2. /\ Tail(queue) \in Seq(QueueType)
      /\ \A k \in DOMAIN Tail(queue) : k + 1 \in DOMAIN queue /\ Tail(queue)[k] = queue[k + 1]
  BY <1>1
<1>3. ToSet(Tail(queue)) \subseteq ToSet(queue)
  BY <1>2 DEF ToSet
<1>4. Requeued(Tail(queue)) /\ queue' = Tail(queue)
  BY DEF Cancel, Requeued
<1> QED
  BY <1>2, <1>3, <1>4, DialogRequeued

LEMMA DialogClears ==
  ASSUME IInv, ClearSession
  PROVE  Dialog' /\ SameChain(chain') /\ queue' = <<>>
<1>1. <<>> \in Seq(QueueType) /\ Requeued(<<>>)
  BY DEF ClearSession
<1> QED
  BY <1>1, DialogRequeued DEF Requeued
LEMMA DialogKept ==
  ASSUME IInv, UNCHANGED <<queue, form, tasks, chain>>
  PROVE  Dialog'
  BY InvIs DEF Dialog, FormTypeOK, TasksTypeOK, FormOK, TasksOK, HeldOK

LEMMA DialogNext ==
  ASSUME IInv, [Next]_vars
  PROVE  Dialog'
<1>1. CASE \E re \in Names \cup {None} : Arrive(re)
  BY <1>1, DialogArrives DEF SomeName
<1>2. CASE \E tab \in {"manual", "byok"} : SetTab(tab)
  BY <1>2, DialogSetTab
<1>3. CASE Cancel
  BY <1>3, DialogCancels
<1>4. CASE GoToConsent \/ Back \/ Retry
  BY <1>4, DialogStep DEF GoToConsent, Back, Retry
<1>5. CASE Abort
  BY <1>5, DialogAbort
<1>6. CASE \E t \in Tasks :
             \/ StartRun(t) \/ Replied(t) \/ Caught(t) \/ Convert(t)
             \/ \E ok \in BOOLEAN :
                  \/ Uploaded(t, ok) \/ Checked(t, ok) \/ Rechecked(t, ok)
                  \/ Converted(t, ok) \/ Ingested(t, ok)
  BY <1>6, DialogStartRun, DialogRuns, DialogEnds, DialogConvert, DialogConverted,
     DialogIngested
<1>7. CASE \E rec \in Offers : Open(rec)
  BY <1>7, DialogOpen
<1>8. CASE ConfirmSuccess \/ SaveDraftAndOpen
  BY <1>8, DialogConfirm
<1>9. CASE ConfirmStarts
  BY <1>9, DialogConfirmStarts
<1>10. CASE \E ok \in BOOLEAN : ConfirmEnds(ok)
  BY <1>10, DialogConfirmEnds
<1>11. CASE ClearSession
  BY <1>11, DialogClears
<1>12. CASE \/ \E n \in Names : RemoveRecipe(n) \/ PromoteDraft(n) \/ RemoveDraft(n)
            \/ \E n, to \in Names : RenameRecipe(n, to)
            \/ RefineWithClaude \/ Refined \/ DismissLayout
            \/ UNCHANGED vars
  <2>1. UNCHANGED <<queue, form, tasks, chain>>
    BY <1>12 DEF RemoveRecipe, PromoteDraft, RemoveDraft, RenameRecipe, Drawer,
                 RefineWithClaude, Refined, DismissLayout, Layout, vars
  <2> QED
    BY <2>1, DialogKept
<1> QED
  BY <1>1, <1>2, <1>3, <1>4, <1>5, <1>6, <1>7, <1>8, <1>9, <1>10, <1>11, <1>12 DEF Next

-----------------------------------------------------------------------------
(* The queue, the chain and what was opened.                               *)

Store == QueueTypeOK /\ ChainTypeOK /\ ChainOK /\ OpenedOK

LEMMA StoreIs == IInv => Store
  BY InvIs DEF Store

(* Nothing new is opened, and nobody joins: only those who leave, leave.   *)
LEMMA StoreKept ==
  ASSUME IInv, SameChain(chain'), queue' \in Seq(QueueType), ToSet(queue') \subseteq ToSet(queue),
         UNCHANGED <<arrived, opening, opened>>
  PROVE  Store'
<1>0. Store
  BY StoreIs
<1>1. QueueTypeOK' /\ ChainTypeOK'
  BY <1>0 DEF Store, QueueTypeOK, ChainTypeOK, SameChain
<1>2. /\ DOMAIN chain' = DOMAIN chain /\ \A k \in DOMAIN chain : SameEntry(chain'[k], chain[k])
      /\ chain' = <<>> => chain = <<>>
      /\ chain # <<>> => 1 \in DOMAIN chain
  BY <1>0 DEF Store, ChainTypeOK, SameChain
<1>3. ChainOK'
  BY <1>0, <1>2 DEF Store, ChainOK, EntryOK, SameEntry
<1>4. OpenedOK'
  BY <1>0, <1>2 DEF Store, OpenedOK, SameEntry
<1> QED
  BY <1>1, <1>3, <1>4 DEF Store

LEMMA StoreArrives ==
  ASSUME IInv, NEW re \in SomeName, Arrive(re)
  PROVE  Store'
<1>0. /\ Store /\ SameChain(chain') /\ arrived' = arrived + 1 /\ arrived' \in Imports
      /\ queue' \in Seq(QueueType)
      /\ ToSet(queue') = ToSet(queue) \cup {[id |-> arrived', re |-> re]}
      /\ UNCHANGED <<opening, opened>>
  BY StoreIs, DialogArrives DEF Arrive
<1>1. /\ arrived \in Nat /\ arrived' \in 0..MaxImports
      /\ opened[arrived'] = 0
  BY <1>0, Constants DEF Store, QueueTypeOK, OpenedOK, Imports
<1>2. QueueTypeOK' /\ ChainTypeOK'
  BY <1>0, <1>1 DEF Store, QueueTypeOK, ChainTypeOK, SameChain
<1>3. /\ DOMAIN chain' = DOMAIN chain /\ \A k \in DOMAIN chain : SameEntry(chain'[k], chain[k])
      /\ chain' = <<>> => chain = <<>>
      /\ chain # <<>> => 1 \in DOMAIN chain
  BY <1>0 DEF Store, ChainTypeOK, SameChain
<1>4. ASSUME NEW k \in DOMAIN chain
      PROVE  EntryOK(chain'[k], arrived')
  <2>1. chain[k] \in EntryType /\ EntryOK(chain[k], arrived)
    BY <1>0 DEF Store, ChainTypeOK, ChainOK
  <2>2. chain[k].imp \in Int
    BY <2>1 DEF EntryType, Imports
  <2> QED
    BY <1>0, <1>1, <1>3, <2>1, <2>2 DEF EntryOK, SameEntry
<1>5. ChainOK'
  BY <1>3, <1>4 DEF ChainOK
<1>6. \A p \in ToSet(queue) : p.id \in Nat
  <2>1. ToSet(queue) \in SUBSET QueueType
    BY <1>0, SetOfSeq DEF Store, QueueTypeOK
  <2> QED
    BY <2>1 DEF QueueType, Imports
<1>7. \A p \in ToSet(queue') : p.id <= arrived' /\ opened[p.id] = 0
  BY <1>0, <1>1, <1>6 DEF Store, OpenedOK
<1>8. \A i \in Imports : i \in Nat /\ (opened[i] = 1 => i <= arrived')
  BY <1>0, <1>1 DEF Store, OpenedOK, Imports
<1>9. OpenedOK'
  BY <1>0, <1>3, <1>7, <1>8 DEF Store, OpenedOK, SameEntry
<1> QED
  BY <1>2, <1>5, <1>9 DEF Store

LEMMA StoreConfirms ==
  ASSUME IInv, (\E rec \in Offers : Open(rec)) \/ ConfirmSuccess \/ SaveDraftAndOpen
  PROVE  Store'
<1>0. Store
  BY StoreIs
<1>1. PICK from \in {"manual", "byok"}, rec \in Recipes, who \in {"user", "agent"},
           draft \in BOOLEAN :
        Confirm(from, rec, who, draft) /\ (who = "agent" /\ ~ draft => rec.good)
  <2>1. CASE \E rec \in Offers : Open(rec)
    <3>1. \E rec \in Offers : Confirm("manual", rec, "user", FALSE)
      BY <2>1 DEF Open
    <3>2. Offers \subseteq Recipes
      BY Constants
    <3> QED
      BY <3>1, <3>2
  <2>2. CASE ConfirmSuccess \/ SaveDraftAndOpen
    BY <2>2, AgentConfirms
  <2> QED
    BY <2>1, <2>2
<1>2. form.tab # None
  BY DEF Open, ConfirmSuccess, SaveDraftAndOpen, None
<1>3. /\ chain' \in Seq(EntryType) /\ Len(chain') = Len(chain) + 1
      /\ \A k \in DOMAIN chain : k \in DOMAIN chain' /\ chain'[k] = chain[k]
      /\ EntryOK(chain'[Len(chain')], arrived)
  BY <1>1, <1>2, ConfirmJoins
<1>4. UNCHANGED <<queue, arrived, opening, opened>>
  BY DEF Open, ConfirmSuccess, SaveDraftAndOpen, Confirm
<1>5. QueueTypeOK' /\ ChainTypeOK'
  BY <1>0, <1>3, <1>4 DEF Store, QueueTypeOK, ChainTypeOK
<1>6. /\ \A k \in DOMAIN chain' : k \in DOMAIN chain \/ k = Len(chain')
      /\ chain' # <<>> /\ (chain # <<>> => 1 \in DOMAIN chain)
  BY <1>0, <1>3 DEF Store, ChainTypeOK
<1>7. ChainOK'
  BY <1>0, <1>3, <1>4, <1>6 DEF Store, ChainOK, EntryOK
<1>8. OpenedOK'
  BY <1>0, <1>3, <1>4, <1>6 DEF Store, OpenedOK
<1> QED
  BY <1>5, <1>7, <1>8 DEF Store

LEMMA TailIs ==
  ASSUME NEW c \in Seq(EntryType), c # <<>>
  PROVE  /\ Tail(c) \in Seq(EntryType) /\ 1 \in DOMAIN c
         /\ \A k \in DOMAIN Tail(c) : k + 1 \in DOMAIN c /\ Tail(c)[k] = c[k + 1]
  OBVIOUS

LEMMA StoreConfirmStarts ==
  ASSUME IInv, ConfirmStarts
  PROVE  Store'
<1>0. /\ Store /\ chain \in Seq(EntryType) /\ chain # <<>> /\ opening = FALSE
      /\ UNCHANGED <<queue, arrived, opened>>
  BY StoreIs DEF ConfirmStarts, Store, ChainTypeOK
<1>1. CASE Found(chain[1]) /\ opening' = TRUE /\ chain' = chain
  <2>1. opened[chain[1].imp] = 0
    BY <1>0, <1>1 DEF Found, Queued, Of, Store, OpenedOK
  <2> QED
    BY <1>0, <1>1, <2>1 DEF Store, QueueTypeOK, ChainTypeOK, ChainOK, EntryOK, OpenedOK
<1>2. CASE chain' = Tail(chain) /\ opening' = opening
  <2>1. QueueTypeOK' /\ ChainTypeOK'
    BY <1>0, <1>2, TailIs DEF Store, QueueTypeOK, ChainTypeOK
  <2>2. ChainOK'
    BY <1>0, <1>2, TailIs DEF Store, ChainOK, EntryOK
  <2>3. OpenedOK'
    BY <1>0, <1>2 DEF Store, OpenedOK
  <2> QED
    BY <2>1, <2>2, <2>3 DEF Store
<1> QED
  BY <1>1, <1>2 DEF ConfirmStarts

LEMMA StoreConfirmEnds ==
  ASSUME IInv, NEW ok \in BOOLEAN, ConfirmEnds(ok)
  PROVE  Store'
<1> DEFINE i == chain[1].imp
<1>0. /\ Store /\ opening /\ opening' = FALSE /\ chain \in Seq(EntryType) /\ chain # <<>>
      /\ arrived' = arrived /\ opened \in [Imports -> Nat] /\ opened[i] = 0
      /\ queue' = IF ok THEN Without(i) ELSE queue
      /\ opened' = IF ok THEN [opened EXCEPT ![i] = @ + 1] ELSE opened
  BY StoreIs DEF ConfirmEnds, Store, ChainTypeOK, OpenedOK
<1>1. PICK c : SameChain(c) /\ chain' = Tail(c)
  BY DialogConfirmEnds
<1>2. /\ c \in Seq(EntryType) /\ DOMAIN c = DOMAIN chain /\ c # <<>> /\ 1 \in DOMAIN chain
      /\ \A k \in DOMAIN chain : SameEntry(c[k], chain[k])
  BY <1>0, <1>1 DEF SameChain
<1>3. /\ i \in Imports /\ i <= arrived /\ arrived \in 0..MaxImports
  <2>1. chain[1] \in EntryType /\ EntryOK(chain[1], arrived)
    BY <1>0, <1>2 DEF Store, ChainOK
  <2> QED
    BY <1>0, <2>1 DEF EntryType, EntryOK, Store, QueueTypeOK
<1>4. /\ Without(i) \in Seq(QueueType)
      /\ ToSet(Without(i)) = {p \in ToSet(queue) : p.id # i}
  BY <1>0, WithoutIs DEF Store
<1>5. /\ chain' \in Seq(EntryType)
      /\ \A k \in DOMAIN chain' : k + 1 \in DOMAIN c /\ chain'[k] = c[k + 1]
  BY <1>1, <1>2, TailIs
<1>6. opened' \in [Imports -> Nat] /\ \A j \in Imports \ {i} : opened'[j] = opened[j]
  BY <1>0, <1>3
<1>7. opened'[i] \in {0, 1}
  BY <1>0, <1>3
<1>8. QueueTypeOK' /\ ChainTypeOK'
  BY <1>0, <1>4, <1>5, <1>6 DEF Store, QueueTypeOK, ChainTypeOK
<1>9. ChainOK'
  <2>1. ASSUME NEW k \in DOMAIN chain'
        PROVE  EntryOK(chain'[k], arrived')
    <3>1. /\ k + 1 \in DOMAIN chain /\ SameEntry(chain'[k], chain[k + 1])
          /\ EntryOK(chain[k + 1], arrived)
      BY <1>0, <1>2, <1>5 DEF Store, ChainOK
    <3> QED
      BY <1>0, <3>1 DEF EntryOK, SameEntry
  <2> QED
    BY <2>1 DEF ChainOK
<1>10. OpenedOK'
  <2> HIDE DEF i
  <2>1. \A p \in ToSet(queue') : p.id <= arrived' /\ opened'[p.id] = 0
    <3>1. \A p \in ToSet(queue) : p.id \in Imports /\ p.id <= arrived /\ opened[p.id] = 0
      <4>1. ToSet(queue) \in SUBSET QueueType
        BY <1>0, SetOfSeq DEF Store, QueueTypeOK
      <4> QED
        BY <1>0, <4>1 DEF Store, OpenedOK, QueueType
    <3>2. CASE ok
      BY <1>0, <1>4, <1>6, <3>1, <3>2
    <3>3. CASE ~ ok
      BY <1>0, <3>1, <3>3
    <3> QED
      BY <3>2, <3>3
  <2>2. \A j \in Imports : opened'[j] \in {0, 1} /\ (opened'[j] = 1 => j <= arrived')
    BY <1>0, <1>3, <1>6, <1>7 DEF Store, OpenedOK
  <2> QED
    BY <1>0, <2>1, <2>2 DEF OpenedOK
<1> QED
  BY <1>8, <1>9, <1>10 DEF Store
LEMMA StoreSame ==
  ASSUME IInv, UNCHANGED <<queue, arrived, chain, opening, opened>>
  PROVE  Store'
<1>1. Store /\ SameChain(chain') /\ queue' \in Seq(QueueType)
  BY StoreIs, ChainIsSame DEF Store, QueueTypeOK
<1> QED
  BY <1>1, StoreKept

LEMMA StoreIngested ==
  ASSUME IInv, NEW t \in Tasks, NEW ok \in BOOLEAN, Ingested(t, ok)
  PROVE  Store'
<1>1. /\ queue' = IF ok THEN Without(tasks[t].imp) ELSE queue
      /\ UNCHANGED <<arrived, opening, opened>>
  BY DEF Ingested
<1>2. queue' \in Seq(QueueType) /\ ToSet(queue') \subseteq ToSet(queue)
  BY <1>1, StoreIs, WithoutIs DEF Store, QueueTypeOK
<1> QED
  BY <1>1, <1>2, DialogIngested, StoreKept

LEMMA StoreNext ==
  ASSUME IInv, [Next]_vars
  PROVE  Store'
<1>1. CASE \E re \in Names \cup {None} : Arrive(re)
  BY <1>1, StoreArrives DEF SomeName
<1>2. CASE \E tab \in {"manual", "byok"} : SetTab(tab)
  <2>1. SameChain(chain') /\ UNCHANGED <<queue, arrived, opening, opened>>
    BY <1>2, DialogSetTab DEF SetTab
  <2>2. queue' \in Seq(QueueType)
    BY <2>1, StoreIs DEF Store, QueueTypeOK
  <2> QED
    BY <2>1, <2>2, StoreKept
<1>3. CASE Cancel
  BY <1>3, DialogCancels, StoreKept DEF Cancel
<1>4. CASE GoToConsent \/ Back \/ Retry \/ Abort
  BY <1>4, StoreSame DEF GoToConsent, Back, Retry, Step, Abort
<1>5. CASE \E t \in Tasks :
             \/ StartRun(t) \/ Replied(t) \/ Caught(t) \/ Convert(t)
             \/ \E ok \in BOOLEAN :
                  \/ Uploaded(t, ok) \/ Checked(t, ok) \/ Rechecked(t, ok) \/ Converted(t, ok)
  <2>1. UNCHANGED <<queue, arrived, chain, opening, opened>>
    BY <1>5 DEF StartRun, Replied, Caught, Convert, Uploaded, Checked, Rechecked, Converted,
                Becomes, Shows
  <2> QED
    BY <2>1, StoreSame
<1>6. CASE \E t \in Tasks : \E ok \in BOOLEAN : Ingested(t, ok)
  BY <1>6, StoreIngested
<1>7. CASE (\E rec \in Offers : Open(rec)) \/ ConfirmSuccess \/ SaveDraftAndOpen
  BY <1>7, StoreConfirms
<1>8. CASE ConfirmStarts
  BY <1>8, StoreConfirmStarts
<1>9. CASE \E ok \in BOOLEAN : ConfirmEnds(ok)
  BY <1>9, StoreConfirmEnds
<1>10. CASE ClearSession
  <2>1. /\ SameChain(chain') /\ queue' = <<>> /\ UNCHANGED <<arrived, opening, opened>>
    BY <1>10, DialogClears DEF ClearSession
  <2>2. queue' \in Seq(QueueType) /\ ToSet(queue') = {}
    BY <2>1 DEF ToSet
  <2> QED
    BY <2>1, <2>2, StoreKept
<1>11. CASE \/ \E n \in Names : RemoveRecipe(n) \/ PromoteDraft(n) \/ RemoveDraft(n)
            \/ \E n, to \in Names : RenameRecipe(n, to)
            \/ RefineWithClaude \/ Refined \/ DismissLayout
            \/ UNCHANGED vars
  <2>1. UNCHANGED <<queue, arrived, chain, opening, opened>>
    BY <1>11 DEF RemoveRecipe, PromoteDraft, RemoveDraft, RenameRecipe, Drawer,
                 RefineWithClaude, Refined, DismissLayout, Layout, vars
  <2> QED
    BY <2>1, StoreSame
<1> QED
  BY <1>1, <1>2, <1>3, <1>4, <1>5, <1>6, <1>7, <1>8, <1>9, <1>10, <1>11 DEF Next

-----------------------------------------------------------------------------
(* The registry and the layout proposed.                                   *)

Registries == RegistryTypeOK /\ VerifiedOnly

LEMMA ActIs ==
  ASSUME RestTypeOK, Act
  PROVE  acts' \in 0..MaxActs
  BY Constants DEF RestTypeOK, Act

(* What a confirmation registers of the agent is what passed.              *)
LEMMA RegistryConfirmEnds ==
  ASSUME IInv, NEW ok \in BOOLEAN, ConfirmEnds(ok)
  PROVE  Registries' /\ RestTypeOK'
<1> DEFINE e == chain[1]
<1>0. /\ RegistryTypeOK /\ VerifiedOnly /\ RestTypeOK /\ chain # <<>>
      /\ chain \in Seq(EntryType) /\ ChainOK
      /\ registry' = IF ok THEN Registered(e) ELSE registry
      /\ proposal' = IF ok THEN [imp |-> e.imp, refine |-> "idle"] ELSE proposal
      /\ UNCHANGED <<drafts, acts>>
  BY InvIs DEF ConfirmEnds, ChainTypeOK, OpenedOK
<1>1. e \in EntryType /\ EntryOK(e, arrived)
  BY <1>0 DEF ChainOK
<1> HIDE DEF e
<1>2. RestTypeOK'
  BY <1>0, <1>1 DEF RestTypeOK, EntryType
<1>3. ASSUME NEW n \in Names, ~ e.draft
      PROVE  /\ Registered(e)[n] \in Registration \cup {NoRecipe}
             /\ \/ Registered(e)[n] \in {registry[n], NoRecipe}
                \/ Registered(e)[n].by = "agent" => Registered(e)[n].good
  <2>1. Registered(e)[n] = IF n = e.rec.name THEN [good |-> e.rec.good, by |-> e.by]
                           ELSE IF n = e.re THEN NoRecipe ELSE registry[n]
    BY <1>3 DEF Registered
  <2>2. [good |-> e.rec.good, by |-> e.by] \in Registration
    BY <1>1 DEF EntryType, Recipes, Registration
  <2>3. registry[n] \in Registration \cup {NoRecipe}
    BY <1>0 DEF RegistryTypeOK
  <2>4. e.by = "agent" => e.rec.good
    BY <1>1, <1>3 DEF EntryOK
  <2> QED
    BY <2>1, <2>2, <2>3, <2>4
<1>4. Registered(e) = IF e.draft THEN registry ELSE [n \in Names |-> Registered(e)[n]]
  BY DEF Registered
<1>5. RegistryTypeOK'
  <2>1. CASE registry' = registry
    BY <1>0, <2>1 DEF RegistryTypeOK
  <2>2. CASE registry' = [n \in Names |-> Registered(e)[n]] /\ ~ e.draft
    BY <1>0, <1>3, <2>2 DEF RegistryTypeOK
  <2> QED
    BY <1>0, <1>4, <2>1, <2>2
<1>6. VerifiedOnly'
  <2>1. CASE registry' = registry
    BY <1>0, <2>1 DEF VerifiedOnly
  <2>2. CASE registry' = Registered(e) /\ ~ e.draft
    BY <1>0, <1>3, <2>2 DEF VerifiedOnly
  <2> QED
    BY <1>0, <1>4, <2>1, <2>2
<1> QED
  BY <1>2, <1>5, <1>6 DEF Registries

LEMMA RegistryNext ==
  ASSUME IInv, [Next]_vars
  PROVE  Registries' /\ RestTypeOK'
<1>0. RegistryTypeOK /\ VerifiedOnly /\ RestTypeOK
  BY InvIs
<1>1. ASSUME UNCHANGED <<registry, drafts>>
      PROVE  Registries'
  BY <1>0, <1>1 DEF Registries, RegistryTypeOK, VerifiedOnly
<1>2. ASSUME UNCHANGED proposal, Act \/ acts' = acts
      PROVE  RestTypeOK'
  BY <1>0, <1>2, ActIs DEF RestTypeOK
<1>3. CASE \/ \E re \in Names \cup {None} : Arrive(re)
           \/ Cancel \/ GoToConsent \/ Back \/ Retry \/ Abort \/ ConfirmStarts
           \/ UNCHANGED vars
  BY <1>1, <1>2, <1>3 DEF Arrive, Cancel, GoToConsent, Back, Retry, Step, Abort, ConfirmStarts,
                          vars
<1>4. CASE \E t \in Tasks :
             \/ StartRun(t) \/ Replied(t) \/ Caught(t) \/ Convert(t)
             \/ \E ok \in BOOLEAN :
                  \/ Uploaded(t, ok) \/ Checked(t, ok) \/ Rechecked(t, ok)
                  \/ Converted(t, ok) \/ Ingested(t, ok)
  <2>1. ASSUME NEW t \in Tasks,
               StartRun(t) \/ Convert(t)
                 \/ \E ok \in BOOLEAN : Converted(t, ok) \/ Ingested(t, ok)
        PROVE  UNCHANGED <<registry, drafts, proposal, acts>>
    BY <2>1 DEF StartRun, Convert, Converted, Ingested
  <2>2. ASSUME NEW t \in Tasks,
               Replied(t) \/ Caught(t)
                 \/ \E ok \in BOOLEAN : Uploaded(t, ok) \/ Checked(t, ok) \/ Rechecked(t, ok)
        PROVE  UNCHANGED <<registry, drafts, proposal, acts>>
    BY <2>2 DEF Replied, Caught, Uploaded, Checked, Rechecked, Becomes, Shows
  <2>3. UNCHANGED <<registry, drafts, proposal, acts>>
    BY <1>4, <2>1, <2>2
  <2> QED
    BY <1>1, <1>2, <2>3
<1>5. CASE \/ \E tab \in {"manual", "byok"} : SetTab(tab)
           \/ \E rec \in Offers : Open(rec)
           \/ ConfirmSuccess
  <2>1. UNCHANGED <<registry, drafts, proposal>> /\ Act
    BY <1>5 DEF SetTab, Open, ConfirmSuccess, Confirm
  <2> QED
    BY <1>1, <1>2, <2>1
<1>6. CASE SaveDraftAndOpen
  <2> DEFINE r == tasks[form.flow.shown]
  <2>1. /\ UNCHANGED <<registry, proposal>> /\ Act
        /\ drafts' = [drafts EXCEPT ![r.best.name] = r.best] /\ form.flow.step = "failed"
    BY <1>6 DEF SaveDraftAndOpen, Confirm
  <2>2. form.flow.shown \in Tasks /\ TasksTypeOK
    BY <2>1, InvIs DEF Dialog, FormOK, FormTypeOK, FormType, FlowType, SomeTask
  <2>3. r.best \in SomeRecipe
    BY <2>2 DEF TasksTypeOK, TaskType
  <2>4. RegistryTypeOK' /\ VerifiedOnly'
    BY <1>0, <2>1, <2>3 DEF RegistryTypeOK, VerifiedOnly
  <2> QED
    BY <1>2, <2>1, <2>4 DEF Registries
<1>7. CASE \E ok \in BOOLEAN : ConfirmEnds(ok)
  BY <1>7, RegistryConfirmEnds
<1>8. CASE ClearSession
  <2>1. UNCHANGED <<registry, drafts>> /\ Act /\ proposal' = NoProposal
    BY <1>8 DEF ClearSession
  <2> QED
    BY <1>0, <1>1, <2>1, ActIs DEF RestTypeOK, NoProposal
<1>9. CASE \E n \in Names : RemoveRecipe(n) \/ RemoveDraft(n)
  <2>1. PICK n \in Names : RemoveRecipe(n) \/ RemoveDraft(n)
    BY <1>9
  <2>2. Act /\ UNCHANGED proposal
    BY <2>1 DEF RemoveRecipe, RemoveDraft, Drawer
  <2>3. CASE RemoveRecipe(n)
    BY <1>0, <1>2, <2>2, <2>3 DEF RemoveRecipe, Registries, RegistryTypeOK, VerifiedOnly
  <2>4. CASE RemoveDraft(n)
    BY <1>0, <1>2, <2>2, <2>4
       DEF RemoveDraft, Registries, RegistryTypeOK, VerifiedOnly, SomeRecipe
  <2> QED
    BY <2>1, <2>3, <2>4
<1>10. CASE \E n \in Names : PromoteDraft(n)
  <2>1. PICK n \in Names : PromoteDraft(n)
    BY <1>10
  <2> DEFINE r == [good |-> drafts[n].good, by |-> "user"]
  <2>2. /\ Act /\ UNCHANGED proposal
        /\ registry' = [registry EXCEPT ![n] = r]
        /\ drafts' = [drafts EXCEPT ![n] = NoRecipe]
    BY <2>1 DEF PromoteDraft, Drawer
  <2>3. drafts[n].good \in BOOLEAN
    BY <1>0, Constants DEF RegistryTypeOK
  <2>4. r \in Registration /\ r.by = "user"
    BY <2>3 DEF Registration
  <2> HIDE DEF r
  <2>5. RegistryTypeOK' /\ VerifiedOnly'
    BY <1>0, <2>2, <2>4 DEF RegistryTypeOK, VerifiedOnly, SomeRecipe
  <2> QED
    BY <1>2, <2>2, <2>5 DEF Registries
<1>11. CASE \E n, to \in Names : RenameRecipe(n, to)
  <2>1. PICK n \in Names, to \in Names : RenameRecipe(n, to)
    BY <1>11
  <2>2. /\ Act /\ UNCHANGED <<proposal, drafts>>
        /\ registry' = [registry EXCEPT ![to] = registry[n], ![n] = NoRecipe]
    BY <2>1 DEF RenameRecipe, Drawer
  <2>3. \A m \in Names : registry'[m] \in {registry[m], registry[n], NoRecipe}
    BY <1>0, <2>2 DEF RegistryTypeOK
  <2>4. RegistryTypeOK'
    BY <1>0, <2>2 DEF RegistryTypeOK
  <2>5. VerifiedOnly'
    BY <1>0, <2>3 DEF VerifiedOnly
  <2> QED
    BY <1>2, <2>2, <2>4, <2>5 DEF Registries
<1>12. CASE RefineWithClaude \/ Refined \/ DismissLayout
  <2>1. UNCHANGED <<registry, drafts, acts>>
    BY <1>12 DEF RefineWithClaude, Refined, DismissLayout, Layout
  <2>2. RestTypeOK'
    BY <1>0, <1>12, <2>1 DEF RefineWithClaude, Refined, DismissLayout, RestTypeOK, NoProposal
  <2> QED
    BY <1>1, <2>1, <2>2
<1> QED
  BY <1>3, <1>4, <1>5, <1>6, <1>7, <1>8, <1>9, <1>10, <1>11, <1>12 DEF Next

-----------------------------------------------------------------------------
(* The theorems.                                                           *)

LEMMA InitOK == Init => IInv
<1> SUFFICES ASSUME Init PROVE IInv
  OBVIOUS
<1>1. QueueTypeOK /\ RestTypeOK
  BY Constants DEF Init, QueueTypeOK, RestTypeOK, NoProposal
<1>2. FormTypeOK /\ TasksTypeOK
  BY IdleIs DEF Init, FormTypeOK, TasksTypeOK
<1>3. ChainTypeOK
  <2>1. <<>> \in Seq(EntryType) /\ [i \in Imports |-> 0] \in [Imports -> Nat]
    OBVIOUS
  <2> QED
    BY <2>1 DEF Init, ChainTypeOK
<1>4. RegistryTypeOK /\ VerifiedOnly
  BY DEF Init, RegistryTypeOK, VerifiedOnly, Registration, SomeRecipe
<1>5. FormOK /\ HeldOK
  BY DEF Init, FormOK, HeldOK, NoForm, Flow
<1>6. TasksOK
  BY DEF Init, TasksOK, TaskOK, Idle, None, NoForm, Flow
<1>7. ChainOK /\ OpenedOK
  BY DEF Init, ChainOK, OpenedOK, ToSet
<1> QED
  BY <1>1, <1>2, <1>3, <1>4, <1>5, <1>6, <1>7, InvIs DEF IInv

LEMMA StepOK == IInv /\ [Next]_vars => IInv'
<1> SUFFICES ASSUME IInv, [Next]_vars PROVE IInv'
  OBVIOUS
<1>1. Dialog' /\ Store' /\ Registries' /\ RestTypeOK'
  BY DialogNext, StoreNext, RegistryNext
<1> QED
  BY <1>1 DEF Dialog, Store, Registries, IInv, TypeOK

(* The conjuncts of IInv, which the theorems below rest on, hold in every  *)
(* state of every session.                                                 *)
THEOREM AgentInductive == Spec => []IInv
  BY InitOK, StepOK, PTL DEF Spec

(* The dialog, its runs, the chain and the registry keep to their types.   *)
THEOREM AgentTypeOK == Spec => []TypeOK
<1>1. IInv => TypeOK
  BY DEF IInv
<1> QED
  BY <1>1, AgentInductive, PTL

(* confirmRecipeImport: however often the two tabs confirm an import, with *)
(* openings that fail and others that are cancelled under way, it becomes  *)
(* a recipe source once.                                                   *)
THEOREM ImportsOpenOnce == Spec => []OpensOnce
<1>1. IInv => OpensOnce
  BY DEF IInv, OpenedOK, OpensOnce
<1> QED
  BY <1>1, AgentInductive, PTL

(* applyAcceptanceGate, confirmRecipeImport: whatever a run was offered,   *)
(* and whoever aborted, retried or superseded it, what is registered in    *)
(* the agent's name is a recipe whose own report passed.                   *)
THEOREM RegisteredAreVerified == Spec => []VerifiedOnly
<1>1. IInv => VerifiedOnly
  BY DEF IInv
<1> QED
  BY <1>1, AgentInductive, PTL

(* UnknownFormatDialog: a screen that waits for a run has one that will    *)
(* answer it, and a button that is held an entry of the chain.             *)
THEOREM WaitsAreAnswered == Spec => []WaitsForSomething
<1>1. ASSUME IInv
      PROVE  WaitsForSomething
  <2>1. FormOK /\ TasksOK /\ HeldOK
    BY <1>1 DEF IInv
  <2>2. form.flow.step = "run" => Shown(tasks[form.flow.shown], form)
    BY <2>1 DEF FormOK, TasksOK
  <2> QED
    BY <2>1, <2>2 DEF WaitsForSomething, HeldOK, Shown
<1> QED
  BY <1>1, AgentInductive, PTL

-----------------------------------------------------------------------------
(* The model was built from the JSON that `built` remembers, or reported   *)
(* it, unless it has changed unheard; nothing that is stored, saved or     *)
(* shared is the marker of a missing view.                                 *)
DockModels  == [tabs : SUBSET DockPanels, arr : {0, 1}]
DockLayouts == DockModels \cup {Dock!Default}
DockViews   == [layout : DockLayouts, bind : Dock!BindingType]

DockTypeOK ==
  /\ layout \in DockLayouts /\ built \in DockLayouts /\ model \in DockModels
  /\ bind \in Dock!BindingType
  /\ saved \in [DockSaved -> DockViews \cup {Dock!NoView}] 
  /\ active \in DockSaved \cup {Dock!NoneActive}
  /\ hash \in DockViews \cup {Dock!NoView}
  /\ dockActs \in 0..DockActs
  /\ ignore \in BOOLEAN /\ missed \in BOOLEAN
  /\ timer \in BOOLEAN /\ playing \in BOOLEAN /\ noted \in BOOLEAN

DockBuiltOK == ~ missed => Dock!Build(built) = model

DockInv == DockTypeOK /\ DockBuiltOK /\ Dock!ActiveIsStored /\ Dock!LinkIsCurrent

LEMMA DockConstantsAre ==
  /\ DockTabs \in SUBSET DockPanels /\ DockActs \in Nat /\ DockLinks \subseteq DockViews
  /\ Dock!Default \in DockLayouts /\ Dock!Default.arr = 2 /\ Dock!Default \notin DockModels
  /\ Dock!Unbound \in Dock!BindingType
  BY DockConstants DEF Dock!DockAssumption, DockViews, DockLayouts, DockModels, Dock!Default,
     Dock!Unbound, Dock!BindingType

LEMMA DockBuildIs ==
  ASSUME NEW j \in DockLayouts
  PROVE  Dock!Build(j) \in DockModels /\ (j \in DockModels => Dock!Build(j) = j)
  BY DockConstantsAre DEF Dock!Build, DockLayouts, DockModels, Dock!Default

(* What a panel shows is never the marker.                                 *)
LEMMA DockViewIs ==
  ASSUME DockTypeOK
  PROVE  /\ Dock!View \in DockViews /\ Dock!View # Dock!NoView
         /\ Dock!View.layout = layout /\ Dock!View.bind = bind
<1>1. Dock!View \in DockViews /\ Dock!View.layout = layout /\ Dock!View.bind = bind
  BY DEF Dock!View, DockViews, DockTypeOK
<1>2. layout.arr \in {0, 1, 2}
  BY DEF DockTypeOK, DockLayouts, DockModels, Dock!Default
<1>3. Dock!NoView.layout.arr = 3
  BY DEF Dock!NoView
<1> QED
  BY <1>1, <1>2, <1>3

(* An operation that notes its change leaves a write due, or plays.        *)
LEMMA NotedLink ==
  ASSUME Dock!Noted, timer \in BOOLEAN, playing \in BOOLEAN, hash \in DockViews \cup {Dock!NoView}
  PROVE  /\ timer' \/ playing'
         /\ timer' \in BOOLEAN /\ playing' \in BOOLEAN /\ noted' \in BOOLEAN
         /\ hash' \in DockViews \cup {Dock!NoView}
  BY DEF Dock!Noted

LEMMA DockInitInv == Dock!Init => DockInv
<1> SUFFICES ASSUME Dock!Init PROVE DockInv
  OBVIOUS
<1>1. DockTypeOK
  <2>1. model \in DockModels /\ layout \in DockLayouts /\ built \in DockLayouts
    BY DockConstantsAre, DockBuildIs DEF Dock!Init
  <2>2. /\ saved \in [DockSaved -> DockViews \cup {Dock!NoView}]
        /\ hash \in DockViews \cup {Dock!NoView}
    BY DEF Dock!Init
  <2>3. dockActs \in 0..DockActs /\ bind \in Dock!BindingType
    BY DockConstantsAre DEF Dock!Init
  <2> QED
    BY <2>1, <2>2, <2>3 DEF Dock!Init, DockTypeOK
<1>2. DockBuiltOK /\ Dock!ActiveIsStored /\ Dock!LinkIsCurrent
  BY DEF Dock!Init, DockBuiltOK, Dock!ActiveIsStored, Dock!LinkIsCurrent
<1> QED
  BY <1>1, <1>2 DEF DockInv

(* The model changes: reported, stored whatever was marked, or unheard.    *)
LEMMA ModelChanges ==
  ASSUME DockInv, NEW m \in DockModels,
         (Dock!Changed(m) /\ bind' = bind /\ (IF ignore THEN UNCHANGED Dock!link ELSE Dock!Noted))
           \/ (Dock!Pushed(m) /\ bind' \in Dock!BindingType /\ Dock!Noted),
         saved' = saved, dockActs' \in 0..DockActs
  PROVE  DockInv'
<1>1. DockTypeOK /\ Dock!Build(m) = m /\ m \in DockLayouts
  BY DockBuildIs DEF DockInv, DockLayouts
<1>2. CASE Dock!Changed(m) /\ bind' = bind /\ ignore /\ UNCHANGED Dock!link
  <2>1. /\ model' = m /\ ignore' = FALSE /\ missed' = TRUE
        /\ UNCHANGED <<layout, active, built, Dock!link, bind, saved>>
    BY <1>2 DEF Dock!Changed
  <2>2. Dock!ActiveIsStored' /\ Dock!LinkIsCurrent' /\ DockBuiltOK'
    BY <2>1 DEF DockInv, Dock!ActiveIsStored, Dock!LinkIsCurrent, DockBuiltOK, Dock!link,
       Dock!Meaningful, Dock!View
  <2>3. DockTypeOK'
    BY <1>1, <2>1 DEF DockTypeOK, Dock!link
  <2> QED
    BY <2>2, <2>3 DEF DockInv
<1>3. CASE (Dock!Changed(m) /\ ~ ignore /\ Dock!Noted /\ bind' = bind)
             \/ (Dock!Pushed(m) /\ bind' \in Dock!BindingType /\ Dock!Noted)
  <2>1. /\ model' = m /\ layout' = m /\ active' = Dock!NoneActive
        /\ ignore' \in BOOLEAN /\ missed' \in BOOLEAN
        /\ missed' \/ built' = m
        /\ built' \in DockLayouts
    BY <1>1, <1>3 DEF Dock!Changed, Dock!Pushed, Dock!Stored, DockTypeOK
  <2>2. timer' \/ playing'
    BY <1>1, <1>3, NotedLink DEF DockTypeOK
  <2>3. Dock!ActiveIsStored' /\ Dock!LinkIsCurrent' /\ DockBuiltOK'
    BY <1>1, <2>1, <2>2 DEF Dock!ActiveIsStored, Dock!LinkIsCurrent, DockBuiltOK, Dock!Build
  <2>4. timer' \in BOOLEAN /\ playing' \in BOOLEAN /\ noted' \in BOOLEAN
        /\ hash' \in DockViews \cup {Dock!NoView}
    BY <1>1, <1>3, NotedLink DEF DockTypeOK
  <2>5. DockTypeOK'
    BY <1>1, <1>3, <2>1, <2>4 DEF DockTypeOK
  <2> QED
    BY <2>3, <2>5 DEF DockInv
<1> QED
  BY <1>2, <1>3 DEF DockInv, DockTypeOK

(* The store changes and the model does not.                               *)
LEMMA StoreChanges ==
  ASSUME DockInv, UNCHANGED Dock!dock, timer' \/ playing', Dock!ActiveIsStored',
         layout' \in DockLayouts, bind' \in Dock!BindingType,
         saved' \in [DockSaved -> DockViews \cup {Dock!NoView}],
         active' \in DockSaved \cup {Dock!NoneActive},
         hash' = hash, timer' \in BOOLEAN, playing' \in BOOLEAN, noted' \in BOOLEAN,
         dockActs' \in 0..DockActs
  PROVE  DockInv'
<1>1. DockBuiltOK'
  BY DEF DockInv, DockBuiltOK, Dock!dock, Dock!Build
<1>2. Dock!LinkIsCurrent'
  BY DEF Dock!LinkIsCurrent
<1> QED
  BY <1>1, <1>2 DEF DockInv, DockTypeOK, Dock!dock

LEMMA DockActIs == ASSUME DockInv, Dock!Act PROVE dockActs' \in 0..DockActs
  BY DockConstantsAre DEF DockInv, DockTypeOK, Dock!Act

LEMMA MergedIs ==
  ASSUME NEW own \in Dock!BindingType, NEW theirs \in Dock!BindingType
  PROVE  Dock!Merged(own, theirs) \in Dock!BindingType
  BY DEF Dock!Merged, Dock!BindingType

LEMMA ReloadInv ==
  ASSUME DockInv, NEW v \in DockLinks \cup {hash}, Dock!Reload(v)
  PROVE  DockInv'
<1>1. /\ DockTypeOK /\ v \in DockViews \cup {Dock!NoView} /\ hash' = v /\ saved' = saved
      /\ dockActs' \in 0..DockActs
  BY DockConstantsAre, DockActIs DEF DockInv, DockTypeOK, Dock!Reload
<1>2. /\ model' = Dock!Build(layout) /\ built' = layout
      /\ ignore' = FALSE /\ missed' = FALSE
      /\ timer' = FALSE /\ playing' = FALSE /\ noted' = FALSE
  BY DEF Dock!Reload, Dock!Opened
<1>3. DockBuiltOK' /\ Dock!LinkIsCurrent' /\ model' \in DockModels
  BY <1>1, <1>2, DockBuildIs DEF DockBuiltOK, Dock!LinkIsCurrent, DockTypeOK, Dock!Build
<1>4. CASE v = Dock!NoView
  <2>1. UNCHANGED <<layout, bind, active, saved>>
    BY <1>1, <1>4 DEF Dock!Reload, Dock!Opened
  <2>2. Dock!ActiveIsStored'
    BY <2>1 DEF Dock!ActiveIsStored, DockInv
  <2> QED
    BY <1>1, <1>2, <1>3, <2>1, <2>2 DEF DockInv, DockTypeOK
<1>5. CASE v # Dock!NoView
  <2>1. layout' = v.layout /\ active' = Dock!NoneActive /\ bind' = Dock!Merged(bind, v.bind)
    BY <1>1, <1>5 DEF Dock!Reload, Dock!Opened
  <2>2. v.layout \in DockLayouts /\ v.bind \in Dock!BindingType
    BY <1>1, <1>5 DEF DockViews
  <2>3. layout' \in DockLayouts /\ bind' \in Dock!BindingType /\ Dock!ActiveIsStored'
    BY <1>1, <2>1, <2>2, MergedIs DEF Dock!ActiveIsStored, DockTypeOK
  <2> QED
    BY <1>1, <1>2, <1>3, <2>1, <2>3 DEF DockInv, DockTypeOK
<1> QED
  BY <1>4, <1>5

LEMMA DockNextInv == DockInv /\ [Dock!Next]_(Dock!vars) => DockInv'
<1> SUFFICES ASSUME DockInv, [Dock!Next]_(Dock!vars) PROVE DockInv'
  OBVIOUS
<1>0. /\ DockTypeOK /\ DockBuiltOK /\ Dock!ActiveIsStored /\ Dock!LinkIsCurrent
      /\ timer \in BOOLEAN /\ playing \in BOOLEAN /\ hash \in DockViews \cup {Dock!NoView}
  BY DEF DockInv, DockTypeOK
<1>n. ASSUME Dock!Noted
      PROVE  /\ timer' \/ playing'
             /\ timer' \in BOOLEAN /\ playing' \in BOOLEAN /\ noted' \in BOOLEAN /\ hash' = hash
  BY <1>0, <1>n, NotedLink DEF Dock!Noted
<1>1. CASE Dock!Rearrange
  <2>1. [model EXCEPT !.arr = 1 - @] \in DockModels
    <3>1. model.arr \in {0, 1} /\ 1 - model.arr \in {0, 1}
      BY <1>0 DEF DockTypeOK, DockModels
    <3> QED
      BY <1>0, <3>1 DEF DockTypeOK, DockModels
  <2> QED
    BY <1>1, <2>1, DockActIs, ModelChanges DEF Dock!Rearrange
<1>2. CASE Dock!ResetLayout
  <2>1. layout' = Dock!Default /\ active' = Dock!NoneActive /\ Dock!ActiveIsStored'
    BY <1>2 DEF Dock!ResetLayout, Dock!Stored, Dock!ActiveIsStored
  <2> QED
    BY <1>0, <1>2, <1>n, <2>1, DockActIs, StoreChanges, DockConstantsAre DEF Dock!ResetLayout,
       DockTypeOK
<1>3. CASE Dock!Rebuild
  <2>1. /\ built' = layout /\ model' = Dock!Build(layout) /\ ignore' = TRUE /\ missed' = FALSE
        /\ UNCHANGED <<layout, bind, saved, active, Dock!link, dockActs>>
    BY <1>3 DEF Dock!Rebuild
  <2>2. DockBuiltOK' /\ Dock!ActiveIsStored' /\ Dock!LinkIsCurrent'
    BY <1>0, <2>1 DEF DockBuiltOK, Dock!Build, Dock!ActiveIsStored, Dock!LinkIsCurrent,
       Dock!link, Dock!Meaningful, Dock!View
  <2>3. DockTypeOK'
    BY <1>0, <2>1, DockBuildIs DEF DockTypeOK, Dock!link
  <2> QED
    BY <2>2, <2>3 DEF DockInv
<1>4. ASSUME NEW p \in DockPanels, Dock!CloseTab(p) \/ Dock!ClosePanel(p) PROVE DockInv'
  <2>1. [model EXCEPT !.tabs = @ \ {p}] \in DockModels
    BY <1>0 DEF DockTypeOK, DockModels
  <2>2. CASE Dock!CloseTab(p)
    BY <2>1, <2>2, DockActIs, ModelChanges DEF Dock!CloseTab
  <2>3. CASE Dock!ClosePanel(p)
    BY <1>0, <2>1, <2>3, DockActIs, ModelChanges DEF Dock!ClosePanel, DockTypeOK
  <2> QED
    BY <1>4, <2>2, <2>3
<1>5. ASSUME NEW c \in DockChannels \cup {Dock!Absent}, Dock!CreatePanel(c) PROVE DockInv'
  <2>1. PICK p \in DockPanels :
          /\ Dock!Pushed([model EXCEPT !.tabs = @ \cup {p}])
          /\ bind' = IF c = Dock!Absent THEN bind ELSE [bind EXCEPT ![p] = c]
    BY <1>5 DEF Dock!CreatePanel, Dock!Fresh
  <2>2. [model EXCEPT !.tabs = @ \cup {p}] \in DockModels
    BY <1>0 DEF DockTypeOK, DockModels
  <2>3. bind' \in Dock!BindingType
    BY <1>0, <2>1 DEF DockTypeOK, Dock!BindingType
  <2> QED
    BY <1>5, <2>1, <2>2, <2>3, DockActIs, ModelChanges DEF Dock!CreatePanel
<1>6. ASSUME NEW p \in DockPanels, NEW c \in DockChannels \cup {Dock!Empty},
             Dock!SetBinding(p, c)
      PROVE  DockInv'
  <2>1. bind' \in Dock!BindingType
    BY <1>0, <1>6 DEF Dock!SetBinding, DockTypeOK, Dock!BindingType
  <2>2. Dock!ActiveIsStored'
    BY <1>0, <1>6 DEF Dock!SetBinding, Dock!ActiveIsStored
  <2> QED
    BY <1>0, <1>6, <1>n, <2>1, <2>2, DockActIs, StoreChanges DEF Dock!SetBinding, DockTypeOK
<1>7. ASSUME NEW c \in DockChannels, Dock!PruneBindings(c) PROVE DockInv'
  <2>1. bind' \in Dock!BindingType
    BY <1>0, <1>7 DEF Dock!PruneBindings, DockTypeOK, Dock!BindingType
  <2>2. Dock!ActiveIsStored'
    BY <1>0, <1>7 DEF Dock!PruneBindings, Dock!ActiveIsStored
  <2> QED
    BY <1>0, <1>7, <1>n, <2>1, <2>2, DockActIs, StoreChanges DEF Dock!PruneBindings, DockTypeOK
<1>8. ASSUME NEW s \in DockSaved, Dock!SaveCurrentLayoutAs(s) PROVE DockInv'
  <2>1. /\ saved' \in [DockSaved -> DockViews \cup {Dock!NoView}]
        /\ saved'[s] = Dock!View /\ active' = s
    BY <1>0, <1>8, DockViewIs DEF Dock!SaveCurrentLayoutAs, DockTypeOK
  <2>2. Dock!ActiveIsStored'
    BY <1>0, <1>8, <2>1, DockViewIs DEF Dock!SaveCurrentLayoutAs, Dock!ActiveIsStored
  <2> QED
    BY <1>0, <1>8, <1>n, <2>1, <2>2, DockActIs, StoreChanges DEF Dock!SaveCurrentLayoutAs,
       DockTypeOK
<1>9. ASSUME NEW s \in DockSaved, Dock!RestoreNamedLayout(s) PROVE DockInv'
  <2>1. saved[s] \in DockViews
    BY <1>0, <1>9 DEF Dock!RestoreNamedLayout, DockTypeOK
  <2>2. layout' \in DockLayouts /\ bind' \in Dock!BindingType /\ Dock!ActiveIsStored'
    BY <1>9, <2>1 DEF Dock!RestoreNamedLayout, DockViews, Dock!ActiveIsStored
  <2> QED
    BY <1>0, <1>9, <1>n, <2>2, DockActIs, StoreChanges DEF Dock!RestoreNamedLayout, DockTypeOK
<1>10. ASSUME NEW s \in DockSaved, Dock!RemoveNamedLayout(s) PROVE DockInv'
  <2>1. /\ saved' \in [DockSaved -> DockViews \cup {Dock!NoView}]
        /\ active' \in DockSaved \cup {Dock!NoneActive}
    BY <1>0, <1>10 DEF Dock!RemoveNamedLayout, DockTypeOK
  <2>2. Dock!ActiveIsStored'
    BY <1>0, <1>10 DEF Dock!RemoveNamedLayout, Dock!ActiveIsStored, DockTypeOK
  <2> QED
    BY <1>0, <1>10, <1>n, <2>1, <2>2, DockActIs, StoreChanges DEF Dock!RemoveNamedLayout, DockTypeOK
<1>11. ASSUME NEW v \in DockLinks, Dock!ApplyDemo(v) PROVE DockInv'
  <2>1. v.layout \in DockLayouts /\ v.bind \in Dock!BindingType
    BY DockConstantsAre DEF DockViews
  <2>2. Dock!ActiveIsStored'
    BY <1>11 DEF Dock!ApplyDemo, Dock!ActiveIsStored
  <2> QED
    BY <1>0, <1>11, <1>n, <2>1, <2>2, DockActIs, StoreChanges DEF Dock!ApplyDemo, DockTypeOK
<1>12. ASSUME NEW v \in DockLinks \cup {hash}, Dock!Reload(v) PROVE DockInv'
  BY <1>12, ReloadInv
<1>13. CASE Dock!ClearSession
  <2>1. Dock!ActiveIsStored'
    BY <1>0, <1>13 DEF Dock!ClearSession, Dock!ActiveIsStored
  <2> QED
    BY <1>0, <1>13, <2>1, DockActIs, StoreChanges, DockConstantsAre DEF Dock!ClearSession,
       DockTypeOK
<1>14. CASE Dock!WriteHash
  <2>1. /\ UNCHANGED <<layout, bind, saved, active, Dock!dock, playing, noted, dockActs>>
        /\ timer' = FALSE
        /\ hash' = IF Dock!Meaningful(Dock!View) THEN Dock!View ELSE hash
    BY <1>14 DEF Dock!WriteHash, Dock!Written
  <2>2. Dock!View' = Dock!View
    BY <2>1 DEF Dock!View
  <2>3. Dock!LinkIsCurrent' /\ Dock!ActiveIsStored' /\ DockBuiltOK'
    BY <1>0, <2>1, <2>2 DEF Dock!LinkIsCurrent, Dock!Meaningful, Dock!ActiveIsStored,
       DockBuiltOK, Dock!Build, Dock!dock
  <2> QED
    BY <1>0, <2>1, <2>3, DockViewIs DEF DockInv, DockTypeOK, Dock!dock
<1>15. CASE Dock!Play \/ Dock!Pause
  <2>1. UNCHANGED <<layout, bind, saved, active, Dock!dock, hash, dockActs>>
        /\ timer' \in BOOLEAN /\ playing' \in BOOLEAN /\ noted' = TRUE /\ (timer' \/ playing')
    BY <1>0, <1>15 DEF Dock!Play, Dock!Pause, Dock!Paused
  <2>2. Dock!ActiveIsStored'
    BY <1>0, <2>1 DEF Dock!ActiveIsStored
  <2> QED
    BY <1>0, <2>1, <2>2, StoreChanges DEF DockTypeOK
<1>16. CASE UNCHANGED Dock!vars
  BY <1>0, <1>16 DEF Dock!vars, Dock!dock, Dock!link, DockInv, DockTypeOK, DockBuiltOK,
     Dock!ActiveIsStored, Dock!LinkIsCurrent,
     Dock!Build, Dock!Meaningful, Dock!View
<1> QED
  BY <1>1, <1>2, <1>3, <1>4, <1>5, <1>6, <1>7, <1>8, <1>9, <1>10, <1>11, <1>12, <1>13, <1>14,
     <1>15, <1>16 DEF Dock!Next

(* The model the dock shows was built from what was last built, unless it  *)
(* changed unheard, and what is stored, saved and linked are views.        *)
THEOREM DockInductive == Dock!Spec => []DockInv
<1> QED
  BY DockInitInv, DockNextInv, PTL DEF Dock!Spec

(* Once the effect has run the dock shows the stored layout, unless a      *)
(* change of the model was ignored (Workspace.tsx:146-200, 229-237).       *)
THEOREM DockFollowsStore == Dock!Spec => []DockIsStored
<1>1. DockInv => DockIsStored
  BY DEF DockInv, DockBuiltOK, DockIsStored, Dock!DockIsStored
<1> QED
  BY <1>1, DockInductive, PTL

(* The saved layout that is marked active is the stored one                *)
(* (store.ts:669-685, 1019-1089).                                          *)
THEOREM ActiveFollowsStore == Dock!Spec => []ActiveIsStored
<1>1. DockInv => ActiveIsStored
  BY DEF DockInv, ActiveIsStored
<1> QED
  BY <1>1, DockInductive, PTL

(* Whatever was edited, restored, played or reloaded, once no write is due *)
(* the link in the address bar is the view, unless that has nothing to     *)
(* share (urlState.ts:233-302).                                            *)
THEOREM LinkFollowsView == Dock!Spec => []LinkIsCurrent
<1>1. DockInv => LinkIsCurrent
  BY DEF DockInv, LinkIsCurrent
<1> QED
  BY <1>1, DockInductive, PTL
===============================================================================
