----------------------------- MODULE SessionStore -----------------------------
(***************************************************************************)
(* The sources of a session (state/store.ts): files opened, imported,      *)
(* removed and cleared on one promise chain; the readers they own in the   *)
(* data-core worker; and what happens beside the chain while one of its    *)
(* operations awaits: inline sources, bindings, time offsets, shared range *)
(* fetches and the calibration cache.                                      *)
(*                                                                         *)
(* A channel is named by its source.  The worker handles closes, fetches   *)
(* and summaries in the order of sending and answers them in that order;   *)
(* an open first reads its file, so it takes effect when it is answered.   *)
(***************************************************************************)
EXTENDS Integers, Sequences, FiniteSets, FiniteSetsExt

CONSTANTS
  Names,    \* names of files and inline sources
  Files,    \* files a user may drop, see FileType
  Panels,   \* panels that bind a channel and fetch it
  Offsets,  \* time offsets a source may be given, 0 among them
  Handles,  \* handles of a slab, 0 to the bound on readers
  Plans     \* the files dropped in a behaviour, its acts and how many

FileKinds == {"mcap", "calibration", "mp4", "tabular", "unknown", "video"}
SlabKinds == {"mcap", "calibration", "mp4", "tabular", "recipe"}
FileType  == [name : Names, kind : FileKinds, lo : Nat, hi : Nat]

AllActs == {"open", "confirm", "cancel", "remove", "clear", "inline", "scrub",
            "bind", "offset", "fetch", "load", "fault"}

ASSUME StoreAssumption ==
  /\ Files \subseteq FileType /\ IsFiniteSet(Files)
  /\ 0 \in Offsets /\ Offsets \subseteq Int
  /\ Handles \subseteq Nat
  /\ Plans \subseteq [files : SUBSET Files, acts : SUBSET AllActs, most : Nat]

VARIABLES
  sources,  \* open sources, each with the one channel it is taken to have
  slab,     \* the worker's readers: the file behind each handle
  inline,   \* ids whose samples the main thread stores
  cursor,   \* cursorNs
  ops,      \* the promise chain `pending`: what runs and what waits
  run,      \* the running operation, see NoRun
  imports,  \* pendingTabularImports, -UnknownImports and -VideoBindings
  recipes,  \* unknown files for whose format the registry has a recipe
  bound,    \* channels each panel is bound to
  fetches,  \* inFlightFetches and who waits for each
  calib,    \* calibrationCache: channel and the file decoded
  loads,    \* calibrationFetch calls under way
  env       \* the plan, acts so far, ids minted, and what nobody keeps: see Init

vars == <<sources, slab, inline, cursor, ops, run, imports, recipes, bound,
          fetches, calib, loads, env>>

views == <<bound, fetches, calib, loads>>

NoFile == [name |-> "none", kind |-> "none", lo |-> 0, hi |-> 0]

Id(name, n) == [name |-> name, n |-> n]

NoId == Id("none", 0)

(* inline sources hold no handle.                                          *)
Source(id, kind, file, handle) ==
  [id |-> id, kind |-> kind, file |-> file, handle |-> handle, offset |-> 0]

IdsOf(S) == {s.id : s \in S}

\* Mutant: the counter starts at a taken id.
UniqueIdTwice(name, existing) ==
  IF Id(name, 1) \notin IdsOf(existing) THEN Id(name, 1) ELSE Id(name, 2)

(* `name`, or `name (n)` for the first n from 2 on that is not taken.      *)
UniqueId(name, existing) ==
  Id(name, CHOOSE n \in 1..(Cardinality(existing) + 1) :
             /\ Id(name, n) \notin IdsOf(existing)
             /\ \A m \in 1..(n - 1) : Id(name, m) \in IdsOf(existing))

(* mergeGlobalRange: configuration and empty spans do not count.           *)
Spanned(S) == {s \in S : s.kind # "calibration" /\ s.file.lo < s.file.hi}
StartNs(S) == Min({s.file.lo : s \in Spanned(S)})
EndNs(S)   == Max({s.file.hi : s \in Spanned(S)})

\* Mutant: the cursor is seeded by the first open only.
SeatedOnce(c, S) == IF Cardinality(S) = 1 /\ Spanned(S) # {} THEN StartNs(S) ELSE c

(* commitOpenedSources reseats a cursor left outside the range ...         *)
Seated(c, S) ==
  IF Spanned(S) # {} /\ (c < StartNs(S) \/ c > EndNs(S)) THEN StartNs(S) ELSE c

(* ... and removeSource clamps it.                                         *)
Clamped(c, S) ==
  IF Spanned(S) = {} THEN 0 ELSE Max({StartNs(S), Min({EndNs(S), c})})

-----------------------------------------------------------------------------
(* The data-core worker's slabs.                                           *)

(* The kind of reader a file gets.                                         *)
ReaderKind(f) ==
  CASE f.kind = "unknown" -> "recipe" [] f.kind = "video" -> "mp4" [] OTHER -> f.kind

Vacant(kind) == {h \in Handles : slab[kind][h] = NoFile}

\* Mutant: every kind of reader is closed as a log is.
CloseSlabAlways(kind) == "mcap"

(* CLOSE_METHOD_BY_KIND: what it does not list is closed as an mp4.        *)
CloseSlab(kind) == IF kind = "calibration" THEN "mp4" ELSE kind

Freed(s) == [slab EXCEPT ![CloseSlab(s.kind)][s.handle] = NoFile]

(* Fetches and loads sent before a close or the request for a summary are  *)
(* answered before it.                                                     *)
Ahead(calls) == {[c EXCEPT !.ahead = TRUE] : c \in calls}

EarlierAnswered ==
  /\ \A f \in fetches : ~f.ahead
  /\ \A c \in loads : ~c.ahead

-----------------------------------------------------------------------------
NoRun ==
  [pc |-> "idle",      \* what is awaited
   todo |-> <<>>,      \* files still to open, the current one first
   existing |-> {},    \* openFiles' snapshot of the sources
   new |-> {},         \* sources opened and not committed
   queued |-> {},      \* imports to queue on commit
   handle |-> 0,       \* of the reader whose summary is awaited
   closing |-> {}]     \* sources still to close, the current one included

Operation(op, files, target, valid) ==
  [op |-> op, files |-> files, target |-> target, valid |-> valid]

Init ==
  /\ sources = {} /\ inline = {} /\ cursor = 0
  /\ slab = [k \in SlabKinds |-> [h \in Handles |-> NoFile]]
  /\ ops = <<>> /\ run = NoRun
  /\ imports = {} /\ recipes = {}
  /\ bound = [p \in Panels |-> {}]
  /\ fetches = {} /\ calib = {} /\ loads = {}
  /\ \E p \in Plans :
       env = [plan |-> p, acts |-> 0, minted |-> 0,
              orphans |-> {},  \* readers that no source will ever close
              lost |-> {},     \* readers of files dropped with an inline source of their id
              twins |-> {}]    \* ids inline sources took while a batch was being opened

Act(kind) ==
  /\ kind \in env.plan.acts
  /\ env.acts < env.plan.most

Counted == env' = [env EXCEPT !.acts = @ + 1]

First == ops[1]

Settle == ops' = Tail(ops) /\ run' = NoRun

(* Eager readers first, then paired and unpaired mp4s, tables and unknowns. *)
Rank(f) ==
  CASE f.kind \in {"mcap", "calibration"} -> 1 [] f.kind = "mp4" -> 2
    [] f.kind = "video" -> 3 [] f.kind = "tabular" -> 4 [] OTHER -> 5

InOrder(S) ==
  {q \in [1..Cardinality(S) -> S] :
     /\ \A i, j \in DOMAIN q : q[i] = q[j] => i = j
     /\ \A i, j \in DOMAIN q : i < j => Rank(q[i]) <= Rank(q[j])}

\* Mutant: the sources listed are those the batch found when it began.
CommitSnapshot(new) ==
  /\ sources' = IF new = {} THEN sources ELSE run.existing \cup new
  /\ cursor' = IF new = {} THEN cursor ELSE Seated(cursor, run.existing \cup new)

(* commitOpenedSources: into the sources there are by now.                 *)
Commit(new) ==
  /\ sources' = sources \cup new
  /\ cursor' = IF new = {} THEN cursor ELSE Seated(cursor, sources \cup new)

-----------------------------------------------------------------------------
(* openFiles, and the confirmed imports, which open one file.              *)

StartOpen ==
  /\ First.op = "open"
  /\ \E order \in InOrder(First.files) :
       run' = [NoRun EXCEPT !.pc = "opening", !.todo = order, !.existing = sources]
  /\ UNCHANGED <<sources, slab, inline, cursor, ops, imports, recipes, views, env>>

File == run.todo[1]

Confirming == First.op = "confirm"

(* Tables wait for a time basis, videos for timestamps, and unknown files  *)
(* for a recipe unless the registry has one that still fits.               *)
Queues == ~Confirming /\ File.kind \in {"tabular", "video", "unknown"}
Opens  == Confirming \/ File.kind \notin {"tabular", "video"}

(* The end of an import: a table leaves its queue whatever became of it,   *)
(* the others only when they opened, and a recipe that worked is kept.     *)
Dequeued(new) ==
  {i \in imports : i.id # First.target
                   \/ (new = {} /\ File.kind # "tabular")}

\* Mutant: an operation that opens nothing leaves the chain rejected.
JobDoneRejects(r) ==
  IF Len(r.todo) > 1
  THEN /\ run' = [r EXCEPT !.todo = Tail(@), !.pc = "opening"]
       /\ UNCHANGED <<sources, cursor, ops, imports, recipes>>
  ELSE IF r.new = {} /\ r.queued = {}
  THEN /\ run' = [r EXCEPT !.pc = "rejected"]
       /\ UNCHANGED <<sources, cursor, ops, imports, recipes>>
  ELSE /\ Commit(r.new)
       /\ imports' = IF Confirming THEN Dequeued(r.new) ELSE imports \cup r.queued
       /\ UNCHANGED recipes
       /\ Settle

(* The next file, or the commit and the end of the operation.              *)
JobDone(r) ==
  IF Len(r.todo) > 1
  THEN /\ run' = [r EXCEPT !.todo = Tail(@), !.pc = "opening"]
       /\ UNCHANGED <<sources, cursor, ops, imports, recipes>>
  ELSE /\ Commit(r.new)
       /\ imports' = IF Confirming THEN Dequeued(r.new) ELSE imports \cup r.queued
       /\ recipes' = IF Confirming /\ File.kind = "unknown" /\ r.new # {} /\ First.valid
                     THEN recipes \cup {File} ELSE recipes
       /\ Settle

FileQueued ==
  /\ run.pc = "opening"
  /\ Queues
  /\ env' = [env EXCEPT !.minted = @ + 1]
  /\ JobDone([run EXCEPT !.queued = @ \cup {[id |-> env.minted + 1, file |-> File]}])
  /\ UNCHANGED <<slab, inline, views>>

(* The worker has parsed the file and put its reader into a slab, under a  *)
(* vacant handle; the slab reuses the last one freed, here the least.      *)
ReaderOpens ==
  /\ run.pc = "opening"
  /\ Opens
  /\ File.kind = "unknown" /\ ~Confirming => File \in recipes
  /\ Vacant(ReaderKind(File)) # {}
  /\ LET h == Min(Vacant(ReaderKind(File))) IN
       /\ slab' = [slab EXCEPT ![ReaderKind(File)][h] = File]
       /\ run' = [run EXCEPT !.pc = "summary", !.handle = h]
  /\ fetches' = Ahead(fetches)
  /\ loads' = Ahead(loads)
  /\ UNCHANGED <<sources, inline, cursor, ops, imports, recipes, bound, calib, env>>

Fault ==
  /\ Act("fault")
  /\ env' = [env EXCEPT !.acts = @ + 1]

OpenFails ==
  /\ run.pc = "opening"
  /\ Fault
  /\ JobDone(run)
  /\ UNCHANGED <<slab, inline, views>>

\* Mutant: the batch forgets the names it has given out.
TakenSnapshot == IF Confirming THEN sources ELSE run.existing

(* A batch keeps clear of the sources it found and of its own.             *)
Taken == IF Confirming THEN sources ELSE run.existing \cup run.new

SummaryReturns ==
  /\ run.pc = "summary"
  /\ EarlierAnswered
  /\ JobDone([run EXCEPT !.new = @ \cup
       {Source(UniqueId(File.name, Taken), ReaderKind(File), File, run.handle)}])
  /\ UNCHANGED <<slab, inline, views, env>>

(* The reader stays in its slab and no source will ever close it.          *)
SummaryFails ==
  /\ run.pc = "summary"
  /\ EarlierAnswered
  /\ Act("fault")
  /\ env' = [env EXCEPT !.acts = @ + 1,
                        !.orphans = @ \cup {<<ReaderKind(File), run.handle>>}]
  /\ JobDone(run)
  /\ UNCHANGED <<slab, inline, views>>

(* confirmTabularImport, confirmRecipeImport, confirmVideoBinding: nothing *)
(* happens for an import that is gone, an invalid time basis, or a table   *)
(* of timestamps that is not open.                                         *)
Confirmable(i) ==
  CASE i.file.kind = "tabular" -> First.valid
    [] i.file.kind = "video"   -> \E s \in sources : s.kind = "tabular"
    [] OTHER                   -> TRUE

StartConfirm ==
  /\ Confirming
  /\ LET found == {i \in imports : i.id = First.target /\ Confirmable(i)}
     IN IF found = {} THEN Settle
        ELSE /\ \E i \in found :
                  run' = [NoRun EXCEPT !.pc = "opening", !.todo = <<i.file>>]
             /\ UNCHANGED ops
  /\ UNCHANGED <<sources, slab, inline, cursor, imports, recipes, views, env>>

-----------------------------------------------------------------------------
(* removeSource and clear.                                                 *)

\* Mutant: the panels keep their bindings.
ForgetBound(ids) ==
  /\ calib' = {c \in calib : c.id \notin ids}
  /\ UNCHANGED bound

(* The prune helpers: what refers to channels that are gone.               *)
Forget(ids) ==
  /\ bound' = [p \in Panels |-> bound[p] \ ids]
  /\ calib' = {c \in calib : c.id \notin ids}

SendClose(s) ==
  /\ slab' = Freed(s)
  /\ fetches' = Ahead(fetches)
  /\ loads' = Ahead(loads)
  /\ env' = [env EXCEPT !.orphans = IF s.kind = "calibration"
                                    THEN @ \cup {<<s.kind, s.handle>>} ELSE @]

\* Mutant: the sources are those there were before the close was awaited.
DropSourceStale(id) ==
  LET left == {s \in run.closing : s.id # id}
  IN /\ sources' = left
     /\ cursor' = Clamped(cursor, left)
     /\ Forget({id})
     /\ Settle

DropSource(id) ==
  LET left == {s \in sources : s.id # id}
  IN /\ sources' = left
     /\ cursor' = Clamped(cursor, left)
     /\ Forget({id})
     /\ Settle

WithReader(S) == {s \in S : s.kind # "inline"}

ReadersNamed(id) == {<<s.kind, s.handle>> : s \in {t \in WithReader(sources) : t.id = id}}

(* An inline source goes at once, and with it whatever has its id.         *)
StartRemove ==
  /\ First.op = "remove"
  /\ LET found == {s \in sources : s.id = First.target}
     IN IF found = {}
        THEN Settle /\ UNCHANGED <<sources, slab, inline, cursor, views, env>>
        ELSE \E s \in found :
               IF s.kind = "inline"
               THEN /\ inline' = inline \ {s.id}
                    /\ DropSource(s.id)
                    /\ env' = [env EXCEPT !.lost = @ \cup ReadersNamed(s.id)]
                    /\ UNCHANGED <<slab, fetches, loads>>
               ELSE /\ SendClose(s)
                    /\ run' = [NoRun EXCEPT !.pc = "closing", !.closing = {s}]
                    /\ UNCHANGED <<sources, inline, cursor, ops, bound, calib>>
  /\ UNCHANGED <<imports, recipes>>

Removed ==
  /\ run.pc = "closing" /\ First.op = "remove"
  /\ EarlierAnswered
  /\ DropSource(First.target)
  /\ UNCHANGED <<slab, inline, imports, recipes, fetches, loads, env>>

\* Mutant: the sources go, their bindings and calibrations stay.
WipeSources ==
  /\ sources' = {} /\ cursor' = 0 /\ imports' = {}
  /\ UNCHANGED <<bound, calib>>
  /\ Settle

(* The set() that ends clear(): the registry and the layout outlive it.    *)
Wipe ==
  /\ sources' = {} /\ cursor' = 0 /\ imports' = {}
  /\ bound' = [p \in Panels |-> {}]
  /\ calib' = {}
  /\ Settle

(* clear() closes the sources it finds, one await at a time.               *)
StartClear ==
  /\ First.op = "clear"
  /\ inline' = {}
  /\ IF WithReader(sources) = {}
     THEN Wipe /\ UNCHANGED <<slab, fetches, loads, env>>
     ELSE /\ \E s \in WithReader(sources) :
               SendClose(s)
               /\ run' = [NoRun EXCEPT !.pc = "closing", !.closing = WithReader(sources) \ {s}]
          /\ UNCHANGED <<sources, cursor, ops, imports, bound, calib>>
  /\ UNCHANGED recipes

ClearCloses ==
  /\ run.pc = "closing" /\ First.op = "clear"
  /\ EarlierAnswered
  /\ IF run.closing = {}
     THEN Wipe /\ UNCHANGED <<slab, fetches, loads, env>>
     ELSE /\ \E s \in run.closing :
               SendClose(s) /\ run' = [run EXCEPT !.closing = @ \ {s}]
          /\ UNCHANGED <<sources, cursor, ops, imports, bound, calib>>
  /\ UNCHANGED <<inline, recipes>>

StartOp ==
  /\ run.pc = "idle" /\ ops # <<>>
  /\ StartOpen \/ StartConfirm \/ StartRemove \/ StartClear

ChainStep ==
  \/ StartOp \/ FileQueued \/ ReaderOpens \/ OpenFails
  \/ SummaryReturns \/ SummaryFails \/ Removed \/ ClearCloses

-----------------------------------------------------------------------------
(* What the user, the agent and the panels do, at any moment.              *)

Request(kind, op) ==
  /\ Act(kind) /\ Counted
  /\ ops' = Append(ops, op)
  /\ UNCHANGED <<sources, slab, inline, cursor, run, imports, recipes, views>>

OpenFiles ==
  \E S \in SUBSET env.plan.files :
    S # {} /\ Request("open", Operation("open", S, NoId, TRUE))

(* openUrl: a log fetched by the worker, opened like one dropped.          *)
OpenUrl ==
  \E f \in env.plan.files :
    f.kind = "mcap" /\ Request("open", Operation("open", {f}, NoId, TRUE))

(* valid: the time basis is complete, or the recipe is not a draft.        *)
ConfirmImport ==
  \E i \in imports, valid \in BOOLEAN :
    Request("confirm", Operation("confirm", {}, i.id, valid))

RemoveSource ==
  \E s \in sources : Request("remove", Operation("remove", {}, s.id, TRUE))

Clear == Request("clear", Operation("clear", {}, NoId, TRUE))

CancelImport ==
  /\ Act("cancel") /\ Counted
  /\ \E i \in imports : imports' = imports \ {i}
  /\ UNCHANGED <<sources, slab, inline, cursor, ops, run, recipes, views>>

(* A batch is being opened, with the ids of its snapshot in mind.          *)
Opening == run.pc \in {"opening", "summary"} /\ First.op = "open"

(* addInlineSource commits at once, beside the chain.                      *)
AddInlineSource ==
  /\ Act("inline")
  /\ \E name \in Names :
       LET id  == UniqueId(name, sources)
           src == Source(id, "inline", [name |-> name, kind |-> "inline", lo |-> 0, hi |-> 1], 0)
       IN /\ inline' = inline \cup {id} /\ Commit({src})
          /\ env' = [env EXCEPT !.acts = @ + 1,
                                !.twins = IF Opening THEN @ \cup {id} ELSE @]
  /\ UNCHANGED <<slab, ops, run, imports, recipes, views>>

(* setCursor clamps to the session's range.                                *)
Scrub ==
  /\ Act("scrub") /\ Counted
  /\ \E c \in 0..3 : cursor' = IF Spanned(sources) = {} THEN c ELSE Clamped(c, sources)
  /\ UNCHANGED <<sources, slab, inline, ops, run, imports, recipes, views>>

Bind ==
  /\ Act("bind") /\ Counted
  /\ \E p \in Panels, s \in sources : bound' = [bound EXCEPT ![p] = @ \cup {s.id}]
  /\ UNCHANGED <<sources, slab, inline, cursor, ops, run, imports, recipes,
                 fetches, calib, loads>>

(* moved: the offset of the channel was set while the fetch was under way. *)
SetSourceOffset ==
  /\ Act("offset") /\ Counted
  /\ \E s \in sources, o \in Offsets :
       /\ s.kind # "mp4" /\ s.offset # o
       /\ sources' = {IF t.id = s.id THEN [t EXCEPT !.offset = o] ELSE t : t \in sources}
       /\ fetches' = {[f EXCEPT !.moved = @ \/ f.id = s.id] : f \in fetches}
  /\ UNCHANGED <<slab, inline, cursor, ops, run, imports, recipes, bound, calib, loads>>

\* Mutant: fetches are shared by window alone.
SharesWindow(f, s) == TRUE

(* dedupKey: the channel and the window, of which there is one here.       *)
Shares(f, s) == f.id = s.id

(* What a caller expects; late: it joins a fetch that has been moved.      *)
Asked(s, late) == [file |-> s.file, offset |-> s.offset, late |-> late]

(* fetchChannelRange for a channel with a reader: a fetch under way is     *)
(* shared, else one is sent for the window shifted by the offset.          *)
FetchChannelRange ==
  /\ Act("fetch") /\ Counted
  /\ \E s \in sources :
       /\ s.kind \in {"mcap", "tabular", "recipe"}
       /\ LET open == {f \in fetches : Shares(f, s)}
          IN fetches' =
               IF open = {}
               THEN fetches \cup {[id |-> s.id, file |-> slab[s.kind][s.handle],
                                   offset |-> s.offset, ahead |-> FALSE,
                                   moved |-> FALSE, callers |-> {Asked(s, FALSE)}]}
               ELSE {IF f \in open THEN [f EXCEPT !.callers = @ \cup {Asked(s, f.moved)}]
                     ELSE f : f \in fetches}
  /\ UNCHANGED <<sources, slab, inline, cursor, ops, run, imports, recipes,
                 bound, calib, loads>>

FetchAnswered ==
  /\ \E f \in fetches : fetches' = fetches \ {f}
  /\ UNCHANGED <<sources, slab, inline, cursor, ops, run, imports, recipes,
                 bound, calib, loads, env>>

(* A source whose close has been sent: the one being removed, or those     *)
(* clear() is done with.                                                   *)
Closing(s) ==
  /\ run.pc = "closing"
  /\ IF First.op = "remove" THEN s.id = First.target ELSE s.id \notin IdsOf(run.closing)

Shared(s) == \E t \in sources : t.id = s.id /\ t # s

(* loadCalibration of a channel that is not cached.  late: its source is   *)
(* being closed, or an inline source has its id.                           *)
LoadCalibration ==
  /\ Act("load") /\ Counted
  /\ \E s \in sources :
       /\ s.kind = "calibration"
       /\ \A c \in calib : c.id # s.id
       /\ loads' = loads \cup {[id |-> s.id, file |-> slab[s.kind][s.handle], ahead |-> FALSE,
                                late |-> Closing(s) \/ Shared(s)]}
  /\ UNCHANGED <<sources, slab, inline, cursor, ops, run, imports, recipes,
                 bound, fetches, calib>>

Cached(load) ==
  {c \in calib : c.id # load.id} \cup {[id |-> load.id, file |-> load.file, late |-> load.late]}

(* The answer is cached, whatever has become of the channel meanwhile.     *)
CalibrationAnswered ==
  /\ \E c \in loads : loads' = loads \ {c} /\ calib' = Cached(c)
  /\ UNCHANGED <<sources, slab, inline, cursor, ops, run, imports, recipes,
                 bound, fetches, env>>

Beside ==
  \/ OpenFiles \/ OpenUrl \/ ConfirmImport \/ RemoveSource \/ Clear \/ CancelImport
  \/ AddInlineSource \/ Scrub \/ Bind \/ SetSourceOffset
  \/ FetchChannelRange \/ FetchAnswered \/ LoadCalibration \/ CalibrationAnswered

Next == ChainStep \/ Beside

Spec == Init /\ [][Next]_vars

(* The worker answers and the chain's microtasks run.                      *)
FairSpec ==
  /\ Spec
  /\ WF_vars(StartOp \/ FileQueued \/ ReaderOpens \/ SummaryReturns \/ Removed \/ ClearCloses)
  /\ WF_vars(FetchAnswered) /\ WF_vars(CalibrationAnswered)

-----------------------------------------------------------------------------
(* A source can be read as long as it is listed: its handle is that of the *)
(* reader of its own file, until its close is sent.  Known exception: an   *)
(* mp4 whose handle a removed calibration had, see CloseSlab.              *)
SourcesReadable ==
  \A s \in WithReader(sources) :
    \/ Closing(s)
    \/ slab[s.kind][s.handle] = s.file
    \/ s.kind = "mp4" /\ <<"calibration", s.handle>> \in env.orphans

Owned ==
  {<<s.kind, s.handle>> : s \in WithReader(sources \cup run.new)}
  \cup IF run.pc = "summary" THEN {<<ReaderKind(File), run.handle>>} ELSE {}

(* Every reader the worker holds belongs to a source, or to the operation  *)
(* that is opening one: nothing is left behind by a removal or a clear     *)
(* that ran beside other acts.  Known exceptions, one reader at a time:    *)
(* one whose summary failed, a calibration, which is closed as something   *)
(* else, and a file that went with the inline source of its id, since      *)
(* removing that one drops both and closes nothing.                        *)
ReadersOwned ==
  \A k \in SlabKinds, h \in Handles :
    slab[k][h] # NoFile => <<k, h>> \in Owned \cup env.orphans \cup env.lost

(* "the source's lifetime, freed by `closeCalibration`": ReadersOwned for  *)
(* calibrations too.                                                       *)
CalibrationsFreed ==
  \A h \in Handles :
    slab["calibration"][h] # NoFile => <<"calibration", h>> \in Owned

(* Two files never share an id, listed or being opened, in whatever order  *)
(* files of one name are opened, imported, removed and reopened; nor does  *)
(* a file with an inline source.  Known exception: an id that an inline    *)
(* source took while a batch, which does not know it, was being opened.    *)
IdsUnique ==
  \A s, t \in sources \cup run.new :
    s.id = t.id => s = t \/ (s.id \in env.twins /\ "inline" \in {s.kind, t.kind})

(* A panel is bound only to channels that are listed, also when it was     *)
(* bound while the channel's source was being closed.                      *)
BindingsListed == \A p \in Panels : bound[p] \subseteq IdsOf(sources)

(* A cached calibration is the one in the listed source of its channel,    *)
(* also when its source was closed while it was being loaded.  Known       *)
(* exception: one asked for after that close was sent, or while an inline  *)
(* source had the id, whose removal waits for nothing.                     *)
CalibrationCurrent ==
  \A c \in calib : c.late \/ \E s \in sources : s.id = c.id /\ s.file = c.file

(* A shared fetch answers each caller with the file of the channel it      *)
(* asked for, if at all, shifted by the offset that channel had when it    *)
(* asked, also when the offset is changed before the answer.  Known        *)
(* exception: who joins a fetch after such a change gets the old offset.   *)
AnswersExact ==
  \A f \in fetches : \A c \in f.callers :
    /\ f.file \in {c.file, NoFile}
    /\ c.late \/ f.offset = c.offset

(* The cursor lies in the range of the sources, after every open, removal, *)
(* clear and inline source.                                                *)
CursorInRange ==
  Spanned(sources) # {} => cursor \in StartNs(sources)..EndNs(sources)

(* Whatever fails, every operation on the chain comes to its end.          *)
ChainDrains == ops # <<>> ~> ops = <<>>
===============================================================================
