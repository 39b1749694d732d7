------------------------------ MODULE FormatAgent ------------------------------
(***************************************************************************)
(* Files of unknown formats: the queue of them (store.ts), the dialog that *)
(* resolves the first, by hand or with the agent                           *)
(* (UnknownFormatDialog.tsx), the agent's runs (llm/engine.ts) and         *)
(* conversions, the registry of recipes (formatRegistry.ts, FormatsDrawer) *)
(* and the layout proposed for what was opened (LayoutProposalDialog.tsx). *)
(*                                                                         *)
(* A recipe is good if its report on the whole file passes the gate.  What *)
(* the agent says is any answer at any time.  Preparing the sample, the    *)
(* key and the verdict on a recipe by hand change nothing else.            *)
(***************************************************************************)
EXTENDS Naturals, Sequences, FiniteSets, SequencesExt

CONSTANTS
  Names,       \* of recipes
  MaxImports,
  MaxTasks,    \* runs and conversions
  MaxTries,    \* MAX_ITERATIONS
  Offers,      \* recipes that the agent or the user may come up with
  MaxActs      \* tabs, openings and edits of the registry

None == "none"
Recipes == [name : Names, good : BOOLEAN]
NoRecipe == [name |-> None, good |-> FALSE]

ASSUME FormatAssumption ==
  /\ {MaxImports, MaxTasks, MaxTries, MaxActs} \subseteq Nat \ {0}
  /\ Offers \subseteq Recipes

VARIABLES
  queue,     \* pendingUnknownImports: ids, with the recipe to re-derive
  arrived,   \* ids given out
  form,      \* the dialog for the first of them
  tasks,     \* runs and conversions
  chain,     \* confirmRecipeImport calls
  opening,   \* the first of chain has found its import
  opened,    \* recipe sources opened from each import
  registry, drafts,
  proposal,  \* pendingLayoutProposal: the import it is for; refine
  acts

vars == <<queue, arrived, form, tasks, chain, opening, opened, registry, drafts,
          proposal, acts>>

Imports == 1..MaxImports
Tasks   == 1..MaxTasks
NoTask  == 0

Idle == [kind |-> None, imp |-> 0, phase |-> "idle", aborted |-> FALSE,
         mine |-> FALSE, tries |-> 0, last |-> NoRecipe, best |-> NoRecipe, err |-> None]

Flow == [step |-> "key", ctl |-> NoTask, shown |-> NoTask, conv |-> NoTask, busy |-> FALSE]
NoForm == [tab |-> None, manual |-> FALSE, flow |-> Flow]

(* UnknownFormatForm, mounted for an import.                               *)
FormFor(q) ==
  IF q = <<>> THEN NoForm
  ELSE [tab |-> IF q[1].re = None THEN "manual" ELSE "byok", manual |-> FALSE, flow |-> Flow]

NoProposal == [imp |-> 0, refine |-> "idle"]

Init ==
  /\ queue = <<>> /\ arrived = 0 /\ form = NoForm
  /\ tasks = [t \in Tasks |-> Idle]
  /\ chain = <<>> /\ opening = FALSE /\ opened = [i \in Imports |-> 0]
  /\ registry = [n \in Names |-> [good |-> TRUE, by |-> "user"]]
  /\ drafts = [n \in Names |-> NoRecipe]
  /\ proposal = NoProposal /\ acts = 0

-----------------------------------------------------------------------------
(* The dialog and its unmounting.                                          *)

Act == acts < MaxActs /\ acts' = acts + 1

Ctl == form.flow.ctl

(* The effect's clean-up: the controller at hand is aborted, and nothing   *)
(* that is still going on reaches the state of the flow.                   *)
LeftTasks ==
  [t \in Tasks |->
     IF tasks[t].phase = "over" THEN Idle
     ELSE [tasks[t] EXCEPT !.mine = FALSE, !.aborted = @ \/ t = Ctl]]
LeftChain(mine(_)) ==
  [i \in DOMAIN chain |-> IF mine(chain[i]) THEN [chain[i] EXCEPT !.mine = FALSE] ELSE chain[i]]

(* The queue is q: another first import has another form.                  *)
Requeued(q) ==
  /\ queue' = q
  /\ IF q # <<>> /\ queue # <<>> /\ q[1] = queue[1]
     THEN UNCHANGED <<form, tasks, chain>>
     ELSE /\ form' = FormFor(q) /\ tasks' = LeftTasks
          /\ chain' = LeftChain(LAMBDA e : TRUE)

Of(i)      == {p \in ToSet(queue) : p.id = i}
Queued(i)  == Of(i) # {}
Without(i) == FoldLeft(LAMBDA rest, p : IF p \in Of(i) THEN rest ELSE Append(rest, p), <<>>, queue)

(* A dropped file that no recipe matches, or whose recipe no longer fits   *)
(* it; reDeriveRecipe with a file.                                         *)
Arrive(re) ==
  /\ arrived < MaxImports
  /\ re \in {None} \cup {n \in Names : registry[n] # NoRecipe}
  /\ arrived' = arrived + 1
  /\ Requeued(Append(queue, [id |-> arrived', re |-> re]))
  /\ UNCHANGED <<opening, opened, registry, drafts, proposal, acts>>

SetTab(tab) ==
  /\ form.tab \notin {None, tab}
  /\ Act
  /\ form' = [form EXCEPT !.tab = tab, !.flow = Flow]
  /\ IF tab = "manual"
     THEN tasks' = LeftTasks /\ chain' = LeftChain(LAMBDA e : e.from = "byok")
     ELSE UNCHANGED <<tasks, chain>>
  /\ UNCHANGED <<queue, arrived, opening, opened, registry, drafts, proposal>>

(* Escape or the manual tab's Cancel, or a Cancel of the agent's tab, which *)
(* does not know of the other: none during a run.                          *)
Cancel ==
  /\ form.tab # None
  /\ \/ ~ form.manual /\ form.flow.step # "run"
     \/ form.tab = "byok" /\ form.flow.step \in {"key", "success"} /\ ~ form.flow.busy
     \/ form.flow.step = "failed"
  /\ Requeued(Tail(queue))
  /\ UNCHANGED <<arrived, opening, opened, registry, drafts, proposal, acts>>

Step(from, to) ==
  /\ form.tab = "byok" /\ form.flow.step = from
  /\ form' = [form EXCEPT !.flow.step = to, !.flow.conv = NoTask]
  /\ UNCHANGED <<queue, arrived, tasks, chain, opening, opened, registry, drafts,
                 proposal, acts>>

GoToConsent == ~ form.flow.busy /\ Step("key", "consent")
Back        == Step("consent", "key")
Retry       == Step("failed", "key")

-----------------------------------------------------------------------------
(* Runs.                                                                   *)

(* A place for another task: none there, or one that is over and not shown.*)
Free(kind) ==
  {t \in Tasks : /\ tasks[t].phase \in {"idle", "over"}
                 /\ kind = "run" \/ t # form.flow.shown}

Began(kind, t) ==
  /\ t \in Free(kind) /\ \A u \in Free(kind) : t <= u
  /\ tasks' = [tasks EXCEPT ![t] = [Idle EXCEPT !.kind = kind, !.imp = queue[1].id,
                                                !.mine = TRUE, !.phase = "start"]]

StartRun(t) ==
  /\ form.tab = "byok" /\ form.flow.step = "consent"
  /\ Began("run", t)
  /\ form' = [form EXCEPT !.flow.step = "run", !.flow.ctl = t, !.flow.shown = t]
  /\ UNCHANGED <<queue, arrived, chain, opening, opened, registry, drafts, proposal, acts>>

Abort ==
  /\ form.tab = "byok" /\ form.flow.step = "run" /\ Ctl # NoTask
  /\ tasks' = [tasks EXCEPT ![Ctl].aborted = TRUE]
  /\ UNCHANGED <<queue, arrived, form, chain, opening, opened, registry, drafts,
                 proposal, acts>>

Becomes(t, r) ==
  /\ tasks' = [tasks EXCEPT ![t] = r]
  /\ UNCHANGED <<queue, arrived, form, chain, opening, opened, registry, drafts,
                 proposal, acts>>

(* The end of run, with an error or a recipe (None).  The sample is being  *)
(* deleted, which may fail unnoticed.                                      *)
Ended(r, err) == [r EXCEPT !.phase = "end", !.err = err, !.tries = 0]

(* The next message is asked for, unless the run is aborted or was long.   *)
AsksNext(r) ==
  IF r.tries = MaxTries THEN Ended(r, "iteration-cap")
  ELSE IF r.aborted THEN Ended(r, "aborted")
  ELSE [r EXCEPT !.phase = "ask"]

Running(t, phase) == tasks[t].kind = "run" /\ tasks[t].phase = phase

(* The client is built and the sample uploaded, which heeds no signal once *)
(* it has begun.                                                           *)
Uploaded(t, ok) ==
  /\ Running(t, "start")
  /\ Becomes(t, IF ok THEN AsksNext(tasks[t])
                ELSE Ended(tasks[t], IF tasks[t].aborted THEN "aborted" ELSE "api"))

\* Mutant: the gate is given the best report, not that of the last recipe.
PassesBest(r) == r.best.good

(* applyAcceptanceGate.                                                    *)
Passes(r) == r.last.good

(* A message without a tool call ends the run.                             *)
Reported(r) ==
  Ended(r, IF r.last = NoRecipe THEN "api" ELSE IF Passes(r) THEN None ELSE "acceptance-gate")

Tried(r) == [r EXCEPT !.tries = @ + 1]

(* What a message may bring: an error of its own or of the abort, a        *)
(* refusal, no tool call, or one.                                          *)
Replied(t) ==
  LET r == tasks[t] IN
  /\ Running(t, "ask")
  /\ \/ Becomes(t, Ended(r, IF r.aborted THEN "aborted" ELSE "api"))
     \/ Becomes(t, Ended(r, "refusal"))
     \/ Becomes(t, Reported(r))
     \/ Becomes(t, AsksNext(Tried(r)))
     \/ Becomes(t, Ended(r, IF r.aborted THEN "aborted" ELSE "unsupported"))
     \/ \E rec \in Offers :
          Becomes(t, IF r.aborted THEN Ended(r, "aborted")
                     ELSE [r EXCEPT !.phase = "check", !.last = rec])

(* Of equal coverage the later counts.                                     *)
Better(r) == [r EXCEPT !.best = IF r.last.good \/ ~ @.good THEN r.last ELSE @]

(* validateLocally: dryRunRecipe of the import, if it is still queued.     *)
Checked(t, ok) ==
  /\ Running(t, "check")
  /\ Becomes(t, IF ok /\ Queued(tasks[t].imp) THEN AsksNext(Tried(Better(tasks[t])))
                ELSE Ended(tasks[t], "api"))

\* Mutant: an abort is taken for the dialog's own going away.
ShowsUnlessAborted(t, step, err) ==
  /\ IF tasks[t].mine /\ ~ tasks[t].aborted
     THEN /\ form' = [form EXCEPT !.flow.step = step, !.flow.ctl = NoTask]
          /\ tasks' = [tasks EXCEPT ![t].phase = "over", ![t].err = err, ![t].aborted = FALSE]
     ELSE tasks' = [tasks EXCEPT ![t] = Idle] /\ UNCHANGED form
  /\ UNCHANGED <<queue, arrived, chain, opening, opened, registry, drafts, proposal, acts>>

(* startRun's result, or what it caught, and its finally.                  *)
Shows(t, step, err) ==
  /\ IF tasks[t].mine
     THEN /\ form' = [form EXCEPT !.flow.step = step, !.flow.ctl = NoTask]
          /\ tasks' = [tasks EXCEPT ![t].phase = "over", ![t].err = err, ![t].aborted = FALSE]
     ELSE tasks' = [tasks EXCEPT ![t] = Idle] /\ UNCHANGED form
  /\ UNCHANGED <<queue, arrived, chain, opening, opened, registry, drafts, proposal, acts>>

(* A recipe is tried once more for the screen.                             *)
Caught(t) ==
  /\ Running(t, "end")
  /\ IF tasks[t].err = None THEN Becomes(t, [tasks[t] EXCEPT !.phase = "recheck"])
     ELSE Shows(t, "failed", tasks[t].err)

Rechecked(t, ok) ==
  /\ Running(t, "recheck")
  /\ IF ok /\ Queued(tasks[t].imp) THEN Shows(t, "success", None) ELSE Shows(t, "failed", "api")

-----------------------------------------------------------------------------
(* Conversions.                                                            *)

Convert(t) ==
  /\ form.tab = "byok" /\ form.flow.step = "failed" /\ form.flow.conv = NoTask
  /\ tasks[form.flow.shown].err = "unsupported"
  /\ Began("convert", t)
  /\ form' = [form EXCEPT !.flow.ctl = t, !.flow.conv = t]
  /\ UNCHANGED <<queue, arrived, chain, opening, opened, registry, drafts, proposal, acts>>

(* convertAndIngest's finally: the ref is cleared, whatever it holds.      *)
ConvertOver(t, f) ==
  IF tasks[t].mine
  THEN [f EXCEPT !.flow.ctl = NoTask, !.flow.conv = IF @ = t THEN NoTask ELSE @]
  ELSE f

Converted(t, ok) ==
  /\ tasks[t].kind = "convert" /\ tasks[t].phase = "start"
  /\ IF ok /\ ~ tasks[t].aborted
     THEN tasks' = [tasks EXCEPT ![t].phase = "ingest"] /\ UNCHANGED form
     ELSE tasks' = [tasks EXCEPT ![t] = Idle] /\ form' = ConvertOver(t, form)
  /\ UNCHANGED <<queue, arrived, chain, opening, opened, registry, drafts, proposal, acts>>

(* ingestConvertedMcap: what opens takes its import out of the queue, also *)
(* under another opening of it.                                            *)
Ingested(t, ok) ==
  /\ tasks[t].kind = "convert" /\ tasks[t].phase = "ingest"
  /\ LET q == IF ok THEN Without(tasks[t].imp) ELSE queue
         same == q # <<>> /\ queue # <<>> /\ q[1] = queue[1] IN
       /\ queue' = q
       /\ form' = IF same THEN ConvertOver(t, form) ELSE FormFor(q)
       /\ tasks' = [IF same THEN tasks ELSE LeftTasks EXCEPT ![t] = Idle]
       /\ chain' = IF same THEN chain ELSE LeftChain(LAMBDA e : TRUE)
  /\ UNCHANGED <<arrived, opening, opened, registry, drafts, proposal, acts>>

-----------------------------------------------------------------------------
(* Opening.                                                                *)

Confirm(from, rec, by, draft) ==
  /\ Act
  /\ chain' = Append(chain, [imp |-> queue[1].id, rec |-> rec, by |-> by, draft |-> draft,
                             re |-> IF from = "byok" /\ ~ draft THEN queue[1].re ELSE None,
                             from |-> from, mine |-> TRUE])
  /\ UNCHANGED <<queue, arrived, tasks, opening, opened, registry, proposal>>

Open(rec) ==
  /\ form.tab = "manual" /\ ~ form.manual
  /\ form' = [form EXCEPT !.manual = TRUE]
  /\ Confirm("manual", rec, "user", FALSE) /\ UNCHANGED drafts

ConfirmSuccess ==
  /\ form.tab = "byok" /\ form.flow.step = "success" /\ ~ form.flow.busy
  /\ form' = [form EXCEPT !.flow.busy = TRUE]
  /\ Confirm("byok", tasks[form.flow.shown].last, "agent", FALSE) /\ UNCHANGED drafts

SaveDraftAndOpen ==
  LET r == tasks[form.flow.shown] IN
  /\ form.tab = "byok" /\ form.flow.step = "failed" /\ ~ form.flow.busy
  /\ r.err \in {"iteration-cap", "acceptance-gate"} /\ r.best # NoRecipe
  /\ form' = [form EXCEPT !.flow.busy = TRUE]
  /\ drafts' = [drafts EXCEPT ![r.best.name] = r.best]
  /\ Confirm("byok", r.best, "agent", TRUE)

\* Mutant: the import is there when its turn comes because it was.
FoundOnce(e) == TRUE

Found(e) == Queued(e.imp)

(* setBusy(false) of the button that was clicked.                          *)
Freed(e, f) ==
  IF ~ e.mine THEN f
  ELSE IF e.from = "manual" THEN [f EXCEPT !.manual = FALSE]
  ELSE [f EXCEPT !.flow.busy = FALSE]

(* confirmRecipeImport, when what came before it is done.                  *)
ConfirmStarts ==
  /\ chain # <<>> /\ ~ opening
  /\ IF Found(chain[1]) THEN opening' = TRUE /\ UNCHANGED <<chain, form>>
     ELSE chain' = Tail(chain) /\ form' = Freed(chain[1], form) /\ UNCHANGED opening
  /\ UNCHANGED <<queue, arrived, tasks, opened, registry, drafts, proposal, acts>>

(* removeRecipe of what was replaced, then saveRecipe.                     *)
Registered(e) ==
  IF e.draft THEN registry
  ELSE [n \in Names |-> IF n = e.rec.name THEN [good |-> e.rec.good, by |-> e.by]
                        ELSE IF n = e.re THEN NoRecipe ELSE registry[n]]

ConfirmEnds(ok) ==
  LET e == chain[1]
      q == IF ok THEN Without(e.imp) ELSE queue
      same == q # <<>> /\ queue # <<>> /\ q[1] = queue[1]
  IN /\ opening
     /\ opening' = FALSE
     /\ queue' = q
     /\ form' = IF same \/ q = queue THEN Freed(e, form) ELSE FormFor(q)
     /\ tasks' = IF same \/ q = queue THEN tasks ELSE LeftTasks
     /\ chain' = Tail(IF same \/ q = queue THEN chain ELSE LeftChain(LAMBDA x : TRUE))
     /\ opened' = IF ok THEN [opened EXCEPT ![e.imp] = @ + 1] ELSE opened
     /\ registry' = IF ok THEN Registered(e) ELSE registry
     /\ proposal' = IF ok THEN [imp |-> e.imp, refine |-> "idle"] ELSE proposal
     /\ UNCHANGED <<arrived, drafts, acts>>

(* clear: the imports go with the session.                                 *)
ClearSession ==
  /\ ~ opening
  /\ Act
  /\ queue # <<>> \/ proposal # NoProposal
  /\ Requeued(<<>>)
  /\ proposal' = NoProposal
  /\ UNCHANGED <<arrived, opening, opened, registry, drafts>>

-----------------------------------------------------------------------------
(* The registry and its drafts.                                            *)

Drawer == Act /\ UNCHANGED <<queue, arrived, form, tasks, chain, opening, opened, proposal>>

RemoveRecipe(n) ==
  /\ registry[n] # NoRecipe
  /\ registry' = [registry EXCEPT ![n] = NoRecipe]
  /\ Drawer /\ UNCHANGED drafts

(* commitRename: never onto another recipe.                                *)
RenameRecipe(from, to) ==
  /\ registry[from] # NoRecipe /\ registry[to] = NoRecipe
  /\ registry' = [registry EXCEPT ![to] = registry[from], ![from] = NoRecipe]
  /\ Drawer /\ UNCHANGED drafts

PromoteDraft(n) ==
  /\ drafts[n] # NoRecipe
  /\ registry' = [registry EXCEPT ![n] = [good |-> drafts[n].good, by |-> "user"]]
  /\ drafts' = [drafts EXCEPT ![n] = NoRecipe]
  /\ Drawer

RemoveDraft(n) ==
  /\ drafts[n] # NoRecipe
  /\ drafts' = [drafts EXCEPT ![n] = NoRecipe]
  /\ Drawer /\ UNCHANGED registry

-----------------------------------------------------------------------------
(* The proposed layout.  Its buttons wait for a refinement; another source *)
(* has another form, which the refinement does not reach.                  *)

Layout ==
  UNCHANGED <<queue, arrived, form, tasks, chain, opening, opened, registry, drafts, acts>>

RefineWithClaude ==
  /\ proposal # NoProposal /\ proposal.refine # "running"
  /\ proposal' = [proposal EXCEPT !.refine = "running"]
  /\ Layout

(* With a better proposal, or none.                                        *)
Refined ==
  /\ proposal.refine = "running"
  /\ proposal' = [proposal EXCEPT !.refine = "idle"]
  /\ Layout

(* Apply or skip.                                                          *)
DismissLayout ==
  /\ proposal # NoProposal /\ proposal.refine # "running"
  /\ proposal' = NoProposal
  /\ Layout

Next ==
  \/ \E re \in Names \cup {None} : Arrive(re)
  \/ \E tab \in {"manual", "byok"} : SetTab(tab)
  \/ Cancel \/ GoToConsent \/ Back \/ Retry \/ Abort
  \/ \E t \in Tasks :
       \/ StartRun(t) \/ Replied(t) \/ Caught(t) \/ Convert(t)
       \/ \E ok \in BOOLEAN :
            \/ Uploaded(t, ok) \/ Checked(t, ok) \/ Rechecked(t, ok)
            \/ Converted(t, ok) \/ Ingested(t, ok)
  \/ \E rec \in Offers : Open(rec)
  \/ ConfirmSuccess \/ SaveDraftAndOpen \/ ConfirmStarts
  \/ \E ok \in BOOLEAN : ConfirmEnds(ok)
  \/ ClearSession
  \/ \E n \in Names : RemoveRecipe(n) \/ PromoteDraft(n) \/ RemoveDraft(n)
  \/ \E n, to \in Names : RenameRecipe(n, to)
  \/ RefineWithClaude \/ Refined \/ DismissLayout

Spec == Init /\ [][Next]_vars

-----------------------------------------------------------------------------
(* An import opens at most once as a recipe source, however its dialog's   *)
(* two tabs, which know nothing of each other, confirm it                  *)
(* (store.ts:1643-1651, UnknownFormatDialog.tsx:187-199, 566-577).         *)
OpensOnce == \A i \in Imports : opened[i] <= 1

(* What the agent put into the registry has passed the gate with its own   *)
(* report: neither a draft nor another candidate's report gets it there    *)
(* (engine.ts:222-262, 372-385, store.ts:1672-1697).                       *)
VerifiedOnly ==
  \A n \in Names : (registry[n] # NoRecipe /\ registry[n].by = "agent") => registry[n].good

(* Whatever the dialog waits for is on its way and will reach it: a run    *)
(* that is shown, a button that is held (UnknownFormatDialog.tsx:470-577). *)
WaitsForSomething ==
  /\ form.flow.step = "run" =>
       LET r == tasks[form.flow.shown] IN r.mine /\ r.phase \notin {"idle", "over"}
  /\ form.manual    => \E i \in DOMAIN chain : chain[i].mine /\ chain[i].from = "manual"
  /\ form.flow.busy => \E i \in DOMAIN chain : chain[i].mine /\ chain[i].from = "byok"

(* "hard Abort" (UnknownFormatDialog.tsx:13, 441): a run that is shown can *)
(* be aborted.  The end of a conversion started before it takes the        *)
(* button's controller away.                                               *)
AbortReaches ==
  \A t \in Tasks :
    (tasks[t].kind = "run" /\ tasks[t].mine /\ tasks[t].phase \in {"start", "ask", "check"})
      => Ctl = t
===============================================================================
