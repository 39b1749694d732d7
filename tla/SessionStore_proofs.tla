-------------------------- MODULE SessionStore_proofs --------------------------
(***************************************************************************)
(* Proofs about SessionStore, for any files, names, panels, offsets and    *)
(* plans, and any number of handles: who owns a reader, and that ids,      *)
(* calibrations and answers are those of the sources that are listed,      *)
(* whatever the session does while an operation of its chain awaits.  And  *)
(* about DataCore, for any files, slabs, ways to read a file and number of *)
(* calls: who owns a copy, and which reader a handle is.                   *)
(***************************************************************************)
EXTENDS MCSessionStore, FiniteFolds

-----------------------------------------------------------------------------
(* Types.                                                                  *)

Ids == [name : Names, n : Nat]

ReaderSource ==
  [id : Ids, kind : SlabKinds, file : Files, handle : Handles, offset : Int]

InlineSource ==
  [id : Ids, kind : {"inline"}, handle : {0}, offset : Int,
   file : [name : Names, kind : {"inline"}, lo : {0}, hi : {1}]]

SourceType == ReaderSource \cup InlineSource

ImportType == [id : Nat, file : Files]

OpType ==
  {o \in [op : {"open", "confirm", "remove", "clear"}, files : SUBSET Files,
          target : Ids \cup Nat \cup {NoId}, valid : BOOLEAN] :
     o.op = "open" => o.files # {}}

RunType ==
  [pc : {"idle", "opening", "summary", "closing"}, todo : Seq(Files),
   existing : SUBSET SourceType, new : SUBSET ReaderSource, queued : SUBSET ImportType,
   handle : Nat, closing : SUBSET ReaderSource]

CallType ==
  [id : Ids, file : Files \cup {NoFile}, offset : Int, ahead : BOOLEAN, moved : BOOLEAN,
   callers : SUBSET [file : Files, offset : Int, late : BOOLEAN]]

LoadType == [id : Ids, file : Files \cup {NoFile}, ahead : BOOLEAN, late : BOOLEAN]

CachedType == [id : Ids, file : Files \cup {NoFile}, late : BOOLEAN]

EnvType ==
  [plan : Plans, acts : Nat, minted : Nat, orphans : SUBSET (SlabKinds \X Handles),
   lost : SUBSET (SlabKinds \X Handles), twins : SUBSET Ids]

ListTypeOK ==
  /\ sources \in SUBSET SourceType /\ IsFiniteSet(sources)
  /\ inline \in SUBSET Ids
  /\ cursor \in Nat
  /\ bound \in [Panels -> SUBSET Ids]

ChainTypeOK ==
  /\ ops \in Seq(OpType)
  /\ run \in RunType /\ IsFiniteSet(run.existing) /\ IsFiniteSet(run.new)
  /\ imports \in SUBSET ImportType
  /\ recipes \in SUBSET Files
  /\ env \in EnvType

CallsTypeOK ==
  /\ slab \in [SlabKinds -> [Handles -> Files \cup {NoFile}]]
  /\ fetches \in SUBSET CallType
  /\ calib \in SUBSET CachedType
  /\ loads \in SUBSET LoadType

TypeOK == ListTypeOK /\ ChainTypeOK /\ CallsTypeOK

-----------------------------------------------------------------------------
(* Operators.                                                              *)

LEMMA FilesAre ==
  ASSUME NEW f \in Files
  PROVE  /\ f \in FileType /\ f # NoFile
         /\ ReaderKind(f) \in SlabKinds
         /\ f.name \in Names /\ f.lo \in Nat /\ f.hi \in Nat
<1>1. f \in FileType
  BY StoreAssumption
<1>2. f.kind \in FileKinds
  BY <1>1 DEF FileType
<1>3. NoFile.kind \notin FileKinds
  BY DEF NoFile, FileKinds
<1> QED
  BY <1>1, <1>2, <1>3 DEF FileType, FileKinds, SlabKinds, ReaderKind

LEMMA SourcesAre ==
  ASSUME NEW s \in SourceType
  PROVE  /\ s.id \in Ids /\ s.offset \in Int /\ s.file.lo \in Nat /\ s.file.hi \in Nat
         /\ s.kind # "inline" => s \in ReaderSource
         /\ s \in ReaderSource => /\ s.kind # "inline" /\ s.kind \in SlabKinds
                                  /\ s.file \in Files /\ s.handle \in Handles
<1>1. CASE s \in ReaderSource
  <2>1. s.file \in Files
    BY <1>1 DEF ReaderSource
  <2> QED
    BY <1>1, <2>1, FilesAre DEF ReaderSource, SlabKinds
<1>2. CASE s \in InlineSource
  BY <1>2 DEF InlineSource, ReaderSource, SlabKinds
<1> QED
  BY <1>1, <1>2 DEF SourceType

(* Among one name more than there are sources one is free, and the least   *)
(* of the free ones is taken.                                              *)
LEMMA UniqueIs ==
  ASSUME NEW S \in SUBSET SourceType, IsFiniteSet(S), NEW name \in Names
  PROVE  UniqueId(name, S) \in Ids \ IdsOf(S)
<1> DEFINE top == Cardinality(S) + 1
           Free == {n \in 1..top : Id(name, n) \notin IdsOf(S)}
<1>1. Cardinality(S) \in Nat /\ top \in Nat
  BY FS_CardinalityType
<1>2. Free # {}
  <2> SUFFICES ASSUME Free = {}
               PROVE  FALSE
    OBVIOUS
  <2> DEFINE g == [n \in 1..top |-> CHOOSE s \in S : s.id = Id(name, n)]
  <2>1. \A n \in 1..top : \E s \in S : s.id = Id(name, n)
    BY DEF IdsOf
  <2>2. \A n \in 1..top : g[n] \in S /\ g[n].id = Id(name, n)
    BY <2>1
  <2>3. g \in [1..top -> S]
    BY <2>2
  <2>4. Cardinality(1..top) = top /\ IsFiniteSet(1..top)
    BY <1>1, FS_Interval
  <2>5. Cardinality(S) < Cardinality(1..top)
    BY <1>1, <2>4
  <2>6. \E m, n \in 1..top : m # n /\ g[m] = g[n]
    <3> DEFINE Nums == 1..top
    <3>1. /\ IsFiniteSet(Nums) /\ Cardinality(S) < Cardinality(Nums)
          /\ g \in [Nums -> S]
      BY <2>3, <2>4, <2>5
    <3> HIDE DEF g, Nums
    <3>2. \E m, n \in Nums : m # n /\ g[m] = g[n]
      BY ONLY IsFiniteSet(S), <3>1, FS_PigeonHole
    <3> QED
      BY <3>2 DEF Nums
  <2>7. \A m, n \in 1..top : Id(name, m) = Id(name, n) => m = n
    BY DEF Id
  <2> HIDE DEF g
  <2> QED
    BY <2>2, <2>6, <2>7
<1>3. PICK n \in Free : \A m \in Free : n <= m
  <2>1. Free \in SUBSET Nat
    BY <1>1
  <2> HIDE DEF Free
  <2> QED
    BY <1>2, <2>1, LeastNat
<1>4. \A m \in 1..(n - 1) : Id(name, m) \in IdsOf(S)
  <2> TAKE m \in 1..(n - 1)
  <2>1. m \in 1..top /\ ~(n <= m)
    BY <1>1, <1>3
  <2> QED
    BY <2>1, <1>3
<1> DEFINE Chosen(k) ==
             /\ Id(name, k) \notin IdsOf(S)
             /\ \A m \in 1..(k - 1) : Id(name, m) \in IdsOf(S)
           c == CHOOSE k \in 1..top : Chosen(k)
<1>5. c \in 1..top /\ Chosen(c)
  <2>1. \E k \in 1..top : Chosen(k)
    BY <1>3, <1>4
  <2> HIDE DEF Chosen
  <2> QED
    BY <2>1
<1>6. UniqueId(name, S) = Id(name, c)
  BY DEF UniqueId
<1> HIDE DEF c
<1> QED
  BY <1>1, <1>5, <1>6 DEF Ids, Id

(* The range of a set of sources, and the cursor that is put into it.      *)
LEMMA SpanIs ==
  ASSUME NEW S \in SUBSET SourceType, IsFiniteSet(S), Spanned(S) # {}
  PROVE  /\ StartNs(S) \in Nat /\ EndNs(S) \in Nat /\ StartNs(S) <= EndNs(S)
         /\ \A s \in Spanned(S) : StartNs(S) <= s.file.lo /\ s.file.hi <= EndNs(S)
<1> DEFINE los == {s.file.lo : s \in Spanned(S)}
           his == {s.file.hi : s \in Spanned(S)}
<1>1. Spanned(S) \in SUBSET S /\ IsFiniteSet(Spanned(S))
  <2>1. Spanned(S) \in SUBSET S
    BY DEF Spanned
  <2> QED
    BY <2>1, FS_Subset
<1>2. \A s \in Spanned(S) : s.file.lo \in Nat /\ s.file.hi \in Nat /\ s.file.lo < s.file.hi
  BY <1>1, SourcesAre DEF Spanned
<1>3. los \in SUBSET Nat /\ los # {} /\ his \in SUBSET Nat /\ his # {}
  BY <1>2
<1>4. IsFiniteSet(his)
  <2> DEFINE g == [s \in Spanned(S) |-> s.file.hi]
  <2>1. his = {g[s] : s \in Spanned(S)}
    OBVIOUS
  <2> HIDE DEF g, his
  <2> QED
    BY <1>1, <2>1, ImageFinite
<1>5. Min(los) \in los /\ \A x \in los : Min(los) <= x
  <2> HIDE DEF los
  <2> QED
    BY <1>3, MinIs, MinLeast
<1>6. Max(his) \in his /\ \A x \in his : Max(his) >= x
  <2> HIDE DEF his
  <2> QED
    BY <1>3, <1>4, MaxIs
<1>7. StartNs(S) = Min(los) /\ EndNs(S) = Max(his)
  BY DEF StartNs, EndNs
<1>8. PICK s \in Spanned(S) : TRUE
  OBVIOUS
<1>9. s.file.lo \in los /\ s.file.hi \in his
  OBVIOUS
<1>10. Min(los) \in Nat /\ Max(his) \in Nat
  BY <1>3, <1>5, <1>6
<1>11. Min(los) <= s.file.lo /\ s.file.hi <= Max(his)
  BY <1>5, <1>6, <1>9, <1>10, <1>2
<1>12. \A t \in Spanned(S) : Min(los) <= t.file.lo /\ t.file.hi <= Max(his)
  BY <1>2, <1>5, <1>6, <1>10
<1> HIDE DEF los, his
<1> QED
  BY <1>2, <1>7, <1>8, <1>10, <1>11, <1>12

LEMMA CursorIs ==
  ASSUME NEW S \in SUBSET SourceType, IsFiniteSet(S), NEW c \in Nat
  PROVE  /\ Seated(c, S) \in Nat /\ Clamped(c, S) \in Nat
         /\ Spanned(S) # {} => /\ Seated(c, S) \in StartNs(S)..EndNs(S)
                               /\ Clamped(c, S) \in StartNs(S)..EndNs(S)
<1>1. CASE Spanned(S) = {}
  BY <1>1 DEF Seated, Clamped
<1>2. CASE Spanned(S) # {}
  <2> DEFINE a == StartNs(S)
             b == EndNs(S)
  <2>1. a \in Nat /\ b \in Nat /\ a <= b
    BY <1>2, SpanIs
  <2> HIDE DEF a, b
  <2>2. Min({b, c}) \in {b, c} /\ Min({b, c}) <= b
    <3>1. {b, c} \in SUBSET Nat /\ {b, c} # {}
      BY <2>1
    <3> QED
      BY <3>1, MinIs, MinLeast
  <2> DEFINE m == Min({b, c})
  <2>3. m \in Nat /\ m <= b
    BY <2>1, <2>2
  <2> HIDE DEF m
  <2>4. Max({a, m}) \in {a, m} /\ Max({a, m}) >= a
    <3>1. {a, m} \in SUBSET Nat /\ {a, m} # {}
      BY <2>1, <2>3
    <3>2. IsFiniteSet({a, m})
      <4>1. IsFiniteSet({a} \cup {m})
        BY FS_Singleton, FS_AddElement
      <4>2. {a} \cup {m} = {a, m}
        OBVIOUS
      <4> QED
        BY <4>1, <4>2
    <3> QED
      BY <3>1, <3>2, MaxIs
  <2>5. Clamped(c, S) = Max({a, m})
    BY <1>2 DEF Clamped, a, b, m
  <2>6. Clamped(c, S) \in a..b
    BY <2>1, <2>3, <2>4, <2>5
  <2>7. Seated(c, S) \in a..b
    <3>1. Seated(c, S) = IF c < a \/ c > b THEN a ELSE c
      BY <1>2 DEF Seated, a, b
    <3> QED
      BY <2>1, <3>1
  <2> QED
    BY <2>1, <2>6, <2>7 DEF a, b
<1> QED
  BY <1>1, <1>2
-----------------------------------------------------------------------------
(* What runs, and for which operation.                                     *)
PhaseOK ==
  /\ run.pc = "idle" => run = NoRun
  /\ run.pc # "idle" => ops # <<>>
  /\ run.pc \in {"opening", "summary"} =>
       /\ First.op \in {"open", "confirm"} /\ run.todo # <<>> /\ run.closing = {}
       /\ First.op = "confirm" => Len(run.todo) = 1 /\ run.new = {}
  /\ run.pc = "summary" => run.handle \in Handles
  /\ run.pc = "closing" => First.op \in {"remove", "clear"} /\ run.new = {}

LEMMA FirstIs ==
  ASSUME TypeOK, ops # <<>>
  PROVE  First \in OpType /\ Tail(ops) \in Seq(OpType)
BY DEF TypeOK, ChainTypeOK, First

LEMMA FileIs ==
  ASSUME TypeOK, PhaseOK, run.pc \in {"opening", "summary"}
  PROVE  /\ File \in Files /\ ops # <<>> /\ First.op \in {"open", "confirm"}
         /\ run.todo \in Seq(Files) /\ Len(run.todo) \in Nat \ {0}
<1>1. run.todo \in Seq(Files) /\ run.todo # <<>>
  BY DEF TypeOK, ChainTypeOK, RunType, PhaseOK
<1> QED
  BY <1>1 DEF PhaseOK, File

LEMMA NoRunIs ==
  /\ NoRun \in RunType /\ IsFiniteSet(NoRun.existing) /\ IsFiniteSet(NoRun.new)
  /\ NoRun.pc = "idle" /\ NoRun.new = {}
BY FS_EmptySet DEF NoRun, RunType

(* The end of a file's turn: the next one, or the end of the operation.    *)
LEMMA JobDoneIs ==
  ASSUME TypeOK, PhaseOK, run.pc \in {"opening", "summary"},
         NEW r \in RunType, r.todo = run.todo, IsFiniteSet(r.new), JobDone(r)
  PROVE  \/ /\ Len(run.todo) > 1 /\ First.op = "open"
            /\ run' = [r EXCEPT !.todo = Tail(run.todo), !.pc = "opening"]
            /\ run' \in RunType /\ run'.todo # <<>>
            /\ UNCHANGED <<sources, cursor, ops, imports, recipes>>
         \/ /\ run' = NoRun /\ ops' = Tail(ops)
            /\ sources' = sources \cup r.new
            /\ cursor' = IF r.new = {} THEN cursor ELSE Seated(cursor, sources \cup r.new)
            /\ sources' \in SUBSET SourceType /\ IsFiniteSet(sources') /\ cursor' \in Nat
            /\ imports' \in SUBSET ImportType /\ recipes' \in SUBSET Files
<1>1. /\ File \in Files /\ run.todo \in Seq(Files) /\ Len(run.todo) \in Nat \ {0}
      /\ First.op \in {"open", "confirm"}
  BY FileIs
<1>2. CASE Len(run.todo) > 1
  <2>1. First.op = "open"
    <3>1. First.op = "confirm" => Len(run.todo) = 1
      BY DEF PhaseOK
    <3>2. PICK n \in Nat : n = Len(run.todo)
      BY <1>1
    <3>3. n > 1
      BY <1>2, <3>2
    <3>4. n # 1
      BY <3>3
    <3> QED
      BY <1>1, <3>1, <3>2, <3>4
  <2>2. Tail(run.todo) \in Seq(Files) /\ Tail(run.todo) # <<>>
    <3>1. ASSUME NEW q \in Seq(Files), Len(q) > 1
          PROVE  Tail(q) \in Seq(Files) /\ Tail(q) # <<>>
      <4>1. q # <<>>
        BY <3>1
      <4>2. PICK n \in Nat : n = Len(q)
        OBVIOUS
      <4>3. Tail(q) \in Seq(Files) /\ Len(Tail(q)) = n - 1
        BY <4>1, <4>2
      <4>4. n > 1
        BY <3>1, <4>2
      <4>5. n - 1 # 0
        BY <4>4
      <4> QED
        BY <4>3, <4>5
    <3> QED
      BY <1>1, <1>2, <3>1
  <2>3. /\ run' = [r EXCEPT !.todo = Tail(run.todo), !.pc = "opening"]
        /\ UNCHANGED <<sources, cursor, ops, imports, recipes>>
    BY <1>2 DEF JobDone
  <2>4. run' \in RunType /\ run'.todo # <<>>
    BY <2>2, <2>3 DEF RunType
  <2> QED
    BY <1>2, <2>1, <2>3, <2>4
<1>3. CASE ~(Len(run.todo) > 1)
  <2>1. /\ Commit(r.new) /\ Settle
        /\ imports' = IF Confirming THEN Dequeued(r.new) ELSE imports \cup r.queued
        /\ recipes' \in {recipes, recipes \cup {File}}
    BY <1>3 DEF JobDone
  <2>2. sources \cup r.new \in SUBSET SourceType /\ IsFiniteSet(sources \cup r.new)
    BY FS_Union DEF TypeOK, ListTypeOK, RunType, SourceType
  <2>3. cursor' \in Nat
    BY <2>1, <2>2, CursorIs DEF Commit, TypeOK, ListTypeOK
  <2>4. imports' \in SUBSET ImportType
    BY <2>1 DEF Dequeued, TypeOK, ChainTypeOK, RunType
  <2>5. recipes' \in SUBSET Files
    BY <1>1, <2>1 DEF TypeOK, ChainTypeOK
  <2> QED
    BY <2>1, <2>2, <2>3, <2>4, <2>5 DEF Commit, Settle
<1> QED
  BY <1>2, <1>3
(* The three ways a file's turn ends, as turns of r.                       *)
QueuedRun == [run EXCEPT !.queued = @ \cup {[id |-> env.minted + 1, file |-> File]}]

Opened == Source(UniqueId(File.name, Taken), ReaderKind(File), File, run.handle)

OpenedRun == [run EXCEPT !.new = @ \cup {Opened}]

LEMMA QueuedIs ==
  ASSUME TypeOK, PhaseOK, run.pc \in {"opening", "summary"}
  PROVE  /\ QueuedRun \in RunType /\ QueuedRun.todo = run.todo /\ QueuedRun.new = run.new
         /\ QueuedRun.existing = run.existing /\ QueuedRun.closing = run.closing
         /\ IsFiniteSet(run.new)
<1>1. File \in Files /\ env.minted + 1 \in Nat /\ run \in RunType /\ IsFiniteSet(run.new)
  BY FileIs DEF TypeOK, ChainTypeOK, EnvType
<1>2. [id |-> env.minted + 1, file |-> File] \in ImportType
  BY <1>1 DEF ImportType
<1> QED
  BY <1>1, <1>2 DEF QueuedRun, RunType

LEMMA TakenIs ==
  ASSUME TypeOK
  PROVE  Taken \in SUBSET SourceType /\ IsFiniteSet(Taken)
<1>1. run.existing \cup run.new \in SUBSET SourceType
  BY DEF TypeOK, ChainTypeOK, RunType, SourceType
<1>2. IsFiniteSet(run.existing \cup run.new)
  BY FS_Union DEF TypeOK, ChainTypeOK
<1> QED
  BY <1>1, <1>2 DEF Taken, TypeOK, ListTypeOK

LEMMA OpenedIs ==
  ASSUME TypeOK, PhaseOK, run.pc = "summary"
  PROVE  /\ Opened \in ReaderSource /\ Opened.id \notin IdsOf(Taken)
         /\ Opened.kind = ReaderKind(File) /\ Opened.file = File
         /\ Opened.handle = run.handle
         /\ OpenedRun \in RunType /\ OpenedRun.todo = run.todo
         /\ OpenedRun.new = run.new \cup {Opened}
         /\ OpenedRun.existing = run.existing /\ OpenedRun.closing = run.closing
         /\ IsFiniteSet(run.new \cup {Opened})
<1>1. File \in Files /\ run \in RunType /\ IsFiniteSet(run.new) /\ run.handle \in Handles
  BY FileIs DEF TypeOK, ChainTypeOK, PhaseOK
<1>2. ReaderKind(File) \in SlabKinds /\ File.name \in Names
  BY <1>1, FilesAre
<1>3. UniqueId(File.name, Taken) \in Ids \ IdsOf(Taken)
  BY <1>2, TakenIs, UniqueIs
<1>4. Opened \in ReaderSource
  BY <1>1, <1>2, <1>3 DEF Opened, Source, ReaderSource
<1>5. IsFiniteSet(run.new \cup {Opened})
  BY <1>1, FS_AddElement
<1>6. /\ Opened.id \notin IdsOf(Taken) /\ Opened.kind = ReaderKind(File)
      /\ Opened.file = File /\ Opened.handle = run.handle
  BY <1>3 DEF Opened, Source
<1>7. /\ OpenedRun \in RunType /\ OpenedRun.todo = run.todo
      /\ OpenedRun.new = run.new \cup {Opened}
      /\ OpenedRun.existing = run.existing /\ OpenedRun.closing = run.closing
  <2> HIDE DEF Opened
  <2> QED
    BY <1>1, <1>4 DEF OpenedRun, RunType
<1> QED
  BY <1>4, <1>5, <1>6, <1>7

LEMMA SummaryReturnsIs ==
  ASSUME SummaryReturns
  PROVE  /\ run.pc = "summary" /\ EarlierAnswered /\ JobDone(OpenedRun)
         /\ UNCHANGED <<slab, inline, views, env>>
BY DEF SummaryReturns, OpenedRun, Opened

LEMMA FileQueuedIs ==
  ASSUME FileQueued
  PROVE  /\ run.pc = "opening" /\ JobDone(QueuedRun)
         /\ env' = [env EXCEPT !.minted = @ + 1] /\ UNCHANGED <<slab, inline, views>>
BY DEF FileQueued, QueuedRun

(* A call that is to be answered first is else the call it was.            *)
LEMMA FetchesAhead ==
  ASSUME NEW S \in SUBSET CallType
  PROVE  /\ Ahead(S) \in SUBSET CallType
         /\ \A g \in Ahead(S) :
              /\ g.ahead = TRUE
              /\ \E f \in S : /\ g.id = f.id /\ g.file = f.file
                             /\ g.offset = f.offset /\ g.callers = f.callers
                             /\ g.moved = f.moved
<1>1. ASSUME NEW f \in S
      PROVE  LET g == [f EXCEPT !.ahead = TRUE]
             IN  /\ g \in CallType /\ g.ahead = TRUE /\ g.id = f.id /\ g.file = f.file
                 /\ g.offset = f.offset /\ g.callers = f.callers /\ g.moved = f.moved
  <2>1. f \in CallType
    OBVIOUS
  <2> QED
    BY <2>1 DEF CallType
<1> QED
  BY <1>1 DEF Ahead

LEMMA LoadsAhead ==
  ASSUME NEW S \in SUBSET LoadType
  PROVE  /\ Ahead(S) \in SUBSET LoadType
         /\ \A g \in Ahead(S) :
              /\ g.ahead = TRUE
              /\ \E f \in S : g.id = f.id /\ g.file = f.file /\ g.late = f.late
<1>1. ASSUME NEW f \in S
      PROVE  LET g == [f EXCEPT !.ahead = TRUE]
             IN  /\ g \in LoadType /\ g.ahead = TRUE /\ g.id = f.id /\ g.file = f.file
                 /\ g.late = f.late
  <2>1. f \in LoadType
    OBVIOUS
  <2> QED
    BY <2>1 DEF LoadType
<1> QED
  BY <1>1 DEF Ahead

(* What closing a source sets.                                             *)
LEMMA CloseIs ==
  ASSUME TypeOK, NEW s \in ReaderSource, SendClose(s)
  PROVE  /\ slab' \in [SlabKinds -> [Handles -> Files \cup {NoFile}]]
         /\ \A k \in SlabKinds, h \in Handles :
              slab'[k][h] = IF k = CloseSlab(s.kind) /\ h = s.handle
                            THEN NoFile ELSE slab[k][h]
         /\ env' \in EnvType
         /\ env'.orphans = IF s.kind = "calibration"
                           THEN env.orphans \cup {<<s.kind, s.handle>>} ELSE env.orphans
         /\ env'.lost = env.lost /\ env'.twins = env.twins
         /\ fetches' \in SUBSET CallType /\ loads' \in SUBSET LoadType
<1>1. s.kind \in SlabKinds /\ s.handle \in Handles /\ CloseSlab(s.kind) \in SlabKinds
  BY DEF ReaderSource, SlabKinds, CloseSlab
<1>2. slab \in [SlabKinds -> [Handles -> Files \cup {NoFile}]]
  BY DEF TypeOK, CallsTypeOK
<1>3. slab' = [slab EXCEPT ![CloseSlab(s.kind)][s.handle] = NoFile]
  BY DEF SendClose, Freed
<1> DEFINE O == IF s.kind = "calibration"
                THEN env.orphans \cup {<<s.kind, s.handle>>} ELSE env.orphans
<1>4. O \in SUBSET (SlabKinds \X Handles) /\ env' = [env EXCEPT !.orphans = O]
  <2>1. env.orphans \in SUBSET (SlabKinds \X Handles)
    BY DEF TypeOK, ChainTypeOK, EnvType
  <2>2. O \in SUBSET (SlabKinds \X Handles)
    BY <1>1, <2>1
  <2>3. env' = [env EXCEPT !.orphans = O]
    BY DEF SendClose
  <2> QED
    BY <2>2, <2>3
<1> HIDE DEF O
<1>5. /\ env' \in EnvType /\ env'.orphans = O
      /\ env'.lost = env.lost /\ env'.twins = env.twins
  BY <1>4 DEF TypeOK, ChainTypeOK, EnvType
<1>6. fetches' \in SUBSET CallType
  BY FetchesAhead DEF SendClose, TypeOK, CallsTypeOK
<1>7. loads' \in SUBSET LoadType
  BY LoadsAhead DEF SendClose, TypeOK, CallsTypeOK
<1>8. \A k \in SlabKinds, h \in Handles :
        slab'[k][h] = IF k = CloseSlab(s.kind) /\ h = s.handle THEN NoFile ELSE slab[k][h]
  BY <1>1, <1>2, <1>3
<1>9. slab' \in [SlabKinds -> [Handles -> Files \cup {NoFile}]]
  BY <1>1, <1>2, <1>3
<1> QED
  BY <1>4, <1>5, <1>6, <1>7, <1>8, <1>9 DEF O

LEMMA OpensIs ==
  ASSUME TypeOK, PhaseOK, ReaderOpens
  PROVE  /\ run'.handle \in Handles /\ ReaderKind(File) \in SlabKinds /\ File \in Files
         /\ slab[ReaderKind(File)][run'.handle] = NoFile
         /\ run.pc = "opening" /\ run' = [run EXCEPT !.pc = "summary", !.handle = run'.handle]
         /\ slab' = [slab EXCEPT ![ReaderKind(File)][run'.handle] = File]
         /\ fetches' = Ahead(fetches) /\ loads' = Ahead(loads)
         /\ UNCHANGED <<sources, inline, cursor, ops, imports, recipes, bound, calib, env>>
<1> DEFINE V == Vacant(ReaderKind(File))
           h == Min(V)
<1>0. run.pc = "opening" /\ V # {}
  BY DEF ReaderOpens
<1>1. File \in Files /\ ReaderKind(File) \in SlabKinds
  <2>1. File \in Files
    BY <1>0, FileIs
  <2> QED
    BY <2>1, FilesAre
<1>2. h \in V
  <2>1. V \in SUBSET Nat
    BY StoreAssumption DEF Vacant
  <2> HIDE DEF V
  <2> QED
    BY <1>0, <2>1, MinIs
<1>3. h \in Handles /\ slab[ReaderKind(File)][h] = NoFile
  BY <1>2 DEF Vacant
<1>4. run' = [run EXCEPT !.pc = "summary", !.handle = h]
  BY DEF ReaderOpens
<1>5. slab' = [slab EXCEPT ![ReaderKind(File)][h] = File]
  BY DEF ReaderOpens
<1>6. run'.handle = h
  BY <1>4 DEF TypeOK, ChainTypeOK, RunType
<1> HIDE DEF h
<1> QED
  BY <1>0, <1>1, <1>3, <1>4, <1>5, <1>6 DEF ReaderOpens
LEMMA DropIs ==
  ASSUME TypeOK, ops # <<>>, NEW id, DropSource(id)
  PROVE  /\ sources' = {s \in sources : s.id # id} /\ IsFiniteSet(sources')
         /\ sources' \in SUBSET SourceType /\ cursor' \in Nat
         /\ bound' = [p \in Panels |-> bound[p] \ {id}]
         /\ calib' = {c \in calib : c.id # id}
         /\ run' = NoRun /\ ops' = Tail(ops) /\ ops' \in Seq(OpType)
<1>1. sources' = {s \in sources : s.id # id} /\ cursor' = Clamped(cursor, sources')
  BY DEF DropSource
<1>2. sources' \in SUBSET sources /\ IsFiniteSet(sources')
  <2>1. sources' \in SUBSET sources
    BY <1>1
  <2> QED
    BY <2>1, FS_Subset DEF TypeOK, ListTypeOK
<1>3. sources' \in SUBSET SourceType /\ cursor \in Nat
  BY <1>2 DEF TypeOK, ListTypeOK
<1>4. cursor' \in Nat
  BY <1>1, <1>2, <1>3, CursorIs
<1>5. calib' = {c \in calib : c.id # id} /\ bound' = [p \in Panels |-> bound[p] \ {id}]
  BY DEF DropSource, Forget
<1>6. run' = NoRun /\ ops' = Tail(ops) /\ ops' \in Seq(OpType)
  BY FirstIs DEF DropSource, Settle
<1> QED
  BY <1>1, <1>2, <1>3, <1>4, <1>5, <1>6

LEMMA WipeIs ==
  ASSUME TypeOK, ops # <<>>, Wipe
  PROVE  /\ sources' = {} /\ IsFiniteSet(sources') /\ cursor' = 0 /\ imports' = {}
         /\ bound' = [p \in Panels |-> {}] /\ calib' = {}
         /\ run' = NoRun /\ ops' = Tail(ops) /\ ops' \in Seq(OpType)
BY FirstIs, FS_EmptySet DEF Wipe, Settle

(* What goes with an inline source of its id is lost.                      *)
LEMMA LostIs ==
  ASSUME TypeOK, NEW id, env' = [env EXCEPT !.lost = @ \cup ReadersNamed(id)]
  PROVE  /\ env' \in EnvType /\ env'.lost = env.lost \cup ReadersNamed(id)
         /\ env'.orphans = env.orphans /\ env'.twins = env.twins
<1> DEFINE L == env.lost \cup ReadersNamed(id)
<1>1. ReadersNamed(id) \in SUBSET (SlabKinds \X Handles)
  BY SourcesAre DEF ReadersNamed, WithReader, TypeOK, ListTypeOK
<1>2. L \in SUBSET (SlabKinds \X Handles)
  BY <1>1 DEF TypeOK, ChainTypeOK, EnvType
<1>3. env' = [env EXCEPT !.lost = L]
  OBVIOUS
<1> HIDE DEF L
<1>4. env' \in EnvType /\ env'.lost = L /\ env'.orphans = env.orphans /\ env'.twins = env.twins
  BY <1>2, <1>3 DEF TypeOK, ChainTypeOK, EnvType
<1> QED
  BY <1>4 DEF L

LEMMA ActedIs ==
  ASSUME TypeOK, Counted
  PROVE  /\ env' \in EnvType /\ env'.orphans = env.orphans
         /\ env'.lost = env.lost /\ env'.twins = env.twins
<1>1. env' = [env EXCEPT !.acts = @ + 1] /\ env \in EnvType
  BY DEF TypeOK, ChainTypeOK, Counted
<1>2. env' \in EnvType
  BY <1>1 DEF EnvType
<1> QED
  BY <1>1, <1>2 DEF EnvType

LEMMA RequestIs ==
  ASSUME TypeOK, NEW kind, NEW op \in OpType, Request(kind, op)
  PROVE  /\ TypeOK' /\ ops' = Append(ops, op)
         /\ UNCHANGED <<sources, slab, inline, cursor, run, imports, recipes, views>>
         /\ Counted
<1>1. /\ ops' = Append(ops, op) /\ Counted
      /\ UNCHANGED <<sources, slab, inline, cursor, run, imports, recipes, views>>
  BY DEF Request
<1>2. ops' \in Seq(OpType)
  BY <1>1 DEF TypeOK, ChainTypeOK
<1>3. ListTypeOK' /\ CallsTypeOK'
  BY <1>1 DEF TypeOK, ListTypeOK, CallsTypeOK, views
<1>4. ChainTypeOK'
  BY <1>1, <1>2, ActedIs DEF TypeOK, ChainTypeOK
<1> QED
  BY <1>1, <1>3, <1>4 DEF TypeOK

(* Every request appends an operation; no more needs to be known of it.    *)
Requests ==
  \E op \in OpType :
    /\ ops' = Append(ops, op) /\ Counted
    /\ UNCHANGED <<sources, slab, inline, cursor, run, imports, recipes, views>>

LEMMA RequestsAre ==
  ASSUME TypeOK, OpenFiles \/ OpenUrl \/ ConfirmImport \/ RemoveSource \/ Clear
  PROVE  TypeOK' /\ Requests
<1> USE RequestIs DEF Requests
<1>1. env.plan.files \in SUBSET Files
  BY StoreAssumption DEF TypeOK, ChainTypeOK, EnvType
<1>2. CASE OpenFiles
  <2>1. PICK S \in SUBSET env.plan.files :
          S # {} /\ Request("open", Operation("open", S, NoId, TRUE))
    BY <1>2 DEF OpenFiles
  <2>2. Operation("open", S, NoId, TRUE) \in OpType
    BY <1>1, <2>1 DEF Operation, OpType
  <2> QED
    BY <2>1, <2>2
<1>3. CASE OpenUrl
  <2>1. PICK f \in env.plan.files : Request("open", Operation("open", {f}, NoId, TRUE))
    BY <1>3 DEF OpenUrl
  <2>2. Operation("open", {f}, NoId, TRUE) \in OpType
    BY <1>1, <2>1 DEF Operation, OpType
  <2> QED
    BY <2>1, <2>2
<1>4. CASE ConfirmImport
  <2>1. PICK i \in imports, valid \in BOOLEAN :
          Request("confirm", Operation("confirm", {}, i.id, valid))
    BY <1>4 DEF ConfirmImport
  <2>2. i.id \in Nat
    BY <2>1 DEF TypeOK, ChainTypeOK, ImportType
  <2>3. Operation("confirm", {}, i.id, valid) \in OpType
    BY <2>1, <2>2 DEF Operation, OpType
  <2> QED
    BY <2>1, <2>3
<1>5. CASE RemoveSource
  <2>1. PICK s \in sources : Request("remove", Operation("remove", {}, s.id, TRUE))
    BY <1>5 DEF RemoveSource
  <2>2. s.id \in Ids
    BY <2>1, SourcesAre DEF TypeOK, ListTypeOK
  <2>3. Operation("remove", {}, s.id, TRUE) \in OpType
    BY <2>1, <2>2 DEF Operation, OpType
  <2> QED
    BY <2>1, <2>3
<1>6. CASE Clear
  <2>1. Operation("clear", {}, NoId, TRUE) \in OpType
    BY DEF Operation, OpType
  <2> QED
    BY <1>6, <2>1 DEF Clear
<1> QED
  BY <1>2, <1>3, <1>4, <1>5, <1>6
(* addInlineSource adds a source without a reader under a free id.         *)
LEMMA InlineIs ==
  ASSUME TypeOK, AddInlineSource
  PROVE  /\ TypeOK'
         /\ \E s \in InlineSource :
              /\ s.id \notin IdsOf(sources) /\ s.kind = "inline"
              /\ sources' = sources \cup {s} /\ cursor' = Seated(cursor, sources \cup {s})
              /\ env'.twins = IF Opening THEN env.twins \cup {s.id} ELSE env.twins
         /\ env'.orphans = env.orphans /\ env'.lost = env.lost
         /\ UNCHANGED <<slab, ops, run, imports, recipes, bound, fetches, calib, loads>>
<1> DEFINE Src(name) ==
      Source(UniqueId(name, sources), "inline",
             [name |-> name, kind |-> "inline", lo |-> 0, hi |-> 1], 0)
<1>1. PICK name \in Names :
        /\ inline' = inline \cup {UniqueId(name, sources)} /\ Commit({Src(name)})
        /\ env' = [env EXCEPT !.acts = @ + 1,
                              !.twins = IF Opening THEN @ \cup {UniqueId(name, sources)} ELSE @]
  BY DEF AddInlineSource
<1>2. UniqueId(name, sources) \in Ids \ IdsOf(sources)
  BY UniqueIs DEF TypeOK, ListTypeOK
<1> DEFINE s == Src(name)
<1>3. s \in InlineSource /\ s.id \notin IdsOf(sources) /\ s.kind = "inline"
  BY <1>2 DEF Source, InlineSource
<1> HIDE DEF s
<1>4. sources' = sources \cup {s} /\ cursor' = Seated(cursor, sources \cup {s})
  BY <1>1 DEF Commit, s
<1>5. sources' \in SUBSET SourceType /\ IsFiniteSet(sources')
  BY <1>3, <1>4, FS_AddElement DEF TypeOK, ListTypeOK, SourceType
<1>6. cursor' \in Nat
  BY <1>4, <1>5, CursorIs DEF TypeOK, ListTypeOK
<1> DEFINE T == IF Opening THEN env.twins \cup {UniqueId(name, sources)} ELSE env.twins
<1>7. T \in SUBSET Ids /\ env' = [env EXCEPT !.acts = @ + 1, !.twins = T]
  <2>1. env.twins \in SUBSET Ids
    BY DEF TypeOK, ChainTypeOK, EnvType
  <2>2. T \in SUBSET Ids
    BY <1>2, <2>1
  <2>3. CASE Opening
    BY <1>1, <2>2, <2>3
  <2>4. CASE ~Opening
    <3>1. env' = [env EXCEPT !.acts = @ + 1, !.twins = @]
      BY <1>1, <2>4
    <3> QED
      BY <2>2, <2>4, <3>1
  <2> QED
    BY <2>3, <2>4
<1>12. s.id = UniqueId(name, sources)
  BY DEF s, Source
<1>13. T = IF Opening THEN env.twins \cup {s.id} ELSE env.twins
  BY <1>12
<1> HIDE DEF T
<1>8. /\ env' \in EnvType /\ env'.twins = T /\ env'.orphans = env.orphans
      /\ env'.lost = env.lost
  <2> DEFINE e == [env EXCEPT !.acts = @ + 1]
  <2>1. e \in EnvType
    BY DEF TypeOK, ChainTypeOK, EnvType
  <2>2. env' = [e EXCEPT !.twins = T]
    BY <1>7
  <2>3. env' \in EnvType
    <3> HIDE DEF e
    <3> QED
      BY <1>7, <2>1, <2>2 DEF EnvType
  <2> QED
    BY <1>7, <2>3 DEF TypeOK, ChainTypeOK, EnvType
<1>9. UNCHANGED <<slab, ops, run, imports, recipes, bound, fetches, calib, loads>>
  BY DEF AddInlineSource, views
<1>10. ListTypeOK'
  BY <1>1, <1>2, <1>5, <1>6, <1>9 DEF TypeOK, ListTypeOK
<1>11. ChainTypeOK' /\ CallsTypeOK'
  BY <1>8, <1>9 DEF TypeOK, ChainTypeOK, CallsTypeOK
<1> QED
  BY <1>3, <1>4, <1>8, <1>9, <1>10, <1>11, <1>13 DEF TypeOK

(* setSourceOffset leaves all of a source but its offset.                  *)
Like(t, s) ==
  /\ t.id = s.id /\ t.kind = s.kind /\ t.file = s.file /\ t.handle = s.handle

Moved(s, t) == \E o \in Int : t = [s EXCEPT !.offset = o]

LEMMA MovedIs ==
  ASSUME NEW s \in SourceType, NEW o \in Int
  PROVE  LET t == [s EXCEPT !.offset = o]
         IN  /\ t \in SourceType /\ Like(t, s) /\ t.offset = o
             /\ t \in ReaderSource <=> s \in ReaderSource
<1>1. CASE s \in ReaderSource
  BY <1>1 DEF ReaderSource, SourceType, Like
<1>2. CASE s \in InlineSource
  BY <1>2 DEF InlineSource, ReaderSource, SlabKinds, SourceType, Like
<1> QED
  BY <1>1, <1>2 DEF SourceType

LEMMA OffsetIs ==
  ASSUME TypeOK, SetSourceOffset
  PROVE  /\ TypeOK'
         /\ \E id \in Ids, o \in Int :
              /\ sources' = {IF t.id = id THEN [t EXCEPT !.offset = o] ELSE t : t \in sources}
              /\ fetches' = {[f EXCEPT !.moved = @ \/ f.id = id] : f \in fetches}
         /\ env'.orphans = env.orphans /\ env'.lost = env.lost /\ env'.twins = env.twins
         /\ UNCHANGED <<slab, inline, cursor, ops, run, imports, recipes, bound, calib, loads>>
<1>1. PICK s \in sources, o \in Offsets :
        /\ sources' = {IF t.id = s.id THEN [t EXCEPT !.offset = o] ELSE t : t \in sources}
        /\ fetches' = {[f EXCEPT !.moved = @ \/ f.id = s.id] : f \in fetches}
  BY DEF SetSourceOffset
<1>2. s.id \in Ids /\ o \in Int
  BY SourcesAre, StoreAssumption DEF TypeOK, ListTypeOK
<1>3. \A t \in sources' : t \in SourceType
  <2>1. \A t \in sources : t \in SourceType /\ [t EXCEPT !.offset = o] \in SourceType
    BY <1>2, MovedIs DEF TypeOK, ListTypeOK
  <2> QED
    BY <1>1, <2>1
<1>4. IsFiniteSet(sources')
  <2> DEFINE g == [t \in sources |-> IF t.id = s.id THEN [t EXCEPT !.offset = o] ELSE t]
  <2>1. sources' = {g[t] : t \in sources}
    BY <1>1
  <2> HIDE DEF g
  <2> QED
    BY <2>1, ImageFinite DEF TypeOK, ListTypeOK
<1>5. fetches' \in SUBSET CallType
  <2>1. \A f \in fetches : [f EXCEPT !.moved = @ \/ f.id = s.id] \in CallType
    BY DEF TypeOK, CallsTypeOK, CallType
  <2> QED
    BY <1>1, <2>1
<1>6. /\ UNCHANGED <<slab, inline, cursor, ops, run, imports, recipes, bound, calib, loads>>
      /\ Counted
  BY DEF SetSourceOffset
<1>7. ListTypeOK' /\ ChainTypeOK' /\ CallsTypeOK'
  BY <1>3, <1>4, <1>5, <1>6, ActedIs DEF TypeOK, ListTypeOK, ChainTypeOK, CallsTypeOK
<1> QED
  BY <1>1, <1>2, <1>6, <1>7, ActedIs DEF TypeOK

(* fetchChannelRange asks the reader of a listed source, or joins who did. *)
Sends(s) ==
  fetches' = fetches \cup {[id |-> s.id, file |-> slab[s.kind][s.handle],
                            offset |-> s.offset, ahead |-> FALSE, moved |-> FALSE,
                            callers |-> {Asked(s, FALSE)}]}

Joins(s) ==
  fetches' = {IF f \in {e \in fetches : e.id = s.id}
              THEN [f EXCEPT !.callers = @ \cup {Asked(s, f.moved)}] ELSE f : f \in fetches}

LEMMA FetchIs ==
  ASSUME TypeOK, FetchChannelRange
  PROVE  /\ TypeOK'
         /\ \E s \in sources :
              /\ s.kind \in {"mcap", "tabular", "recipe"} /\ s \in ReaderSource
              /\ Sends(s) \/ Joins(s)
         /\ env'.orphans = env.orphans /\ env'.lost = env.lost /\ env'.twins = env.twins
         /\ UNCHANGED <<sources, slab, inline, cursor, ops, run, imports, recipes,
                        bound, calib, loads>>
<1>1. PICK s \in sources : /\ s.kind \in {"mcap", "tabular", "recipe"}
                           /\ Sends(s) \/ Joins(s)
  BY DEF FetchChannelRange, Sends, Joins, Shares
<1>2. /\ s \in ReaderSource /\ s.id \in Ids /\ s.offset \in Int
      /\ s.file \in Files /\ s.kind \in SlabKinds /\ s.handle \in Handles
  BY <1>1, SourcesAre DEF TypeOK, ListTypeOK
<1>3. \A b \in BOOLEAN : Asked(s, b) \in [file : Files, offset : Int, late : BOOLEAN]
  BY <1>2 DEF Asked
<1>4. slab[s.kind][s.handle] \in Files \cup {NoFile}
  BY <1>2 DEF TypeOK, CallsTypeOK
<1>5. fetches \in SUBSET CallType
  BY DEF TypeOK, CallsTypeOK
<1>6. ASSUME Sends(s)
      PROVE  fetches' \in SUBSET CallType
  <2>1. [id |-> s.id, file |-> slab[s.kind][s.handle], offset |-> s.offset, ahead |-> FALSE,
         moved |-> FALSE, callers |-> {Asked(s, FALSE)}] \in CallType
    BY <1>2, <1>3, <1>4 DEF CallType
  <2> QED
    BY <1>5, <1>6, <2>1 DEF Sends
<1>7. ASSUME Joins(s)
      PROVE  fetches' \in SUBSET CallType
  <2>1. \A f \in fetches : [f EXCEPT !.callers = @ \cup {Asked(s, f.moved)}] \in CallType
    BY <1>3, <1>5 DEF CallType
  <2> QED
    BY <1>5, <1>7, <2>1 DEF Joins
<1>8. fetches' \in SUBSET CallType
  BY <1>1, <1>6, <1>7
<1>9. UNCHANGED <<sources, slab, inline, cursor, ops, run, imports, recipes,
                 bound, calib, loads>> /\ Counted
  BY DEF FetchChannelRange
<1>10. ListTypeOK' /\ ChainTypeOK' /\ CallsTypeOK'
  BY <1>8, <1>9, ActedIs DEF TypeOK, ListTypeOK, ChainTypeOK, CallsTypeOK
<1> QED
  BY <1>1, <1>2, <1>9, <1>10, ActedIs DEF TypeOK

(* loadCalibration asks the reader of a listed calibration.                *)
LEMMA LoadIs ==
  ASSUME TypeOK, LoadCalibration
  PROVE  /\ TypeOK'
         /\ \E s \in sources, b \in BOOLEAN :
              /\ s.kind = "calibration" /\ s \in ReaderSource
              /\ ~b => ~Closing(s) /\ ~Shared(s)
              /\ loads' = loads \cup {[id |-> s.id, file |-> slab[s.kind][s.handle],
                                       ahead |-> FALSE, late |-> b]}
         /\ env'.orphans = env.orphans /\ env'.lost = env.lost /\ env'.twins = env.twins
         /\ UNCHANGED <<sources, slab, inline, cursor, ops, run, imports, recipes,
                        bound, fetches, calib>>
<1>1. PICK s \in sources :
        /\ s.kind = "calibration"
        /\ loads' = loads \cup {[id |-> s.id, file |-> slab[s.kind][s.handle], ahead |-> FALSE,
                                 late |-> Closing(s) \/ Shared(s)]}
  BY DEF LoadCalibration
<1>2. PICK b \in BOOLEAN : b = (Closing(s) \/ Shared(s))
  OBVIOUS
<1>3. s \in ReaderSource /\ s.id \in Ids /\ s.kind \in SlabKinds /\ s.handle \in Handles
  BY <1>1, SourcesAre DEF TypeOK, ListTypeOK
<1>4. slab[s.kind][s.handle] \in Files \cup {NoFile}
  BY <1>3 DEF TypeOK, CallsTypeOK
<1>5. loads' = loads \cup {[id |-> s.id, file |-> slab[s.kind][s.handle], ahead |-> FALSE,
                            late |-> b]}
  BY <1>1, <1>2
<1>6. loads' \in SUBSET LoadType
  <2>1. [id |-> s.id, file |-> slab[s.kind][s.handle], ahead |-> FALSE, late |-> b] \in LoadType
    BY <1>3, <1>4 DEF LoadType
  <2> QED
    BY <1>5, <2>1 DEF TypeOK, CallsTypeOK
<1>7. /\ UNCHANGED <<sources, slab, inline, cursor, ops, run, imports, recipes,
                    bound, fetches, calib>>
      /\ Counted
  BY DEF LoadCalibration
<1>8. ListTypeOK' /\ ChainTypeOK' /\ CallsTypeOK'
  BY <1>6, <1>7, ActedIs DEF TypeOK, ListTypeOK, ChainTypeOK, CallsTypeOK
<1> QED
  BY <1>1, <1>2, <1>3, <1>5, <1>7, <1>8, ActedIs DEF TypeOK

(* What a step may do to the rest: these keep the types.                   *)
LEMMA OpeningTypes ==
  ASSUME TypeOK, PhaseOK, FileQueued \/ OpenFails \/ SummaryReturns \/ SummaryFails
  PROVE  TypeOK'
<1>1. /\ run.pc \in {"opening", "summary"} /\ UNCHANGED <<slab, inline, views>>
      /\ \E r \in RunType : r.todo = run.todo /\ IsFiniteSet(r.new) /\ IsFiniteSet(r.existing)
                            /\ JobDone(r)
  <2>1. run \in RunType /\ IsFiniteSet(run.new) /\ IsFiniteSet(run.existing)
    BY DEF TypeOK, ChainTypeOK
  <2>2. CASE FileQueued
    BY <2>1, <2>2, FileQueuedIs, QueuedIs
  <2>3. CASE OpenFails
    BY <2>1, <2>3 DEF OpenFails
  <2>4. CASE SummaryReturns
    BY <2>1, <2>4, SummaryReturnsIs, OpenedIs
  <2>5. CASE SummaryFails
    BY <2>1, <2>5 DEF SummaryFails
  <2> QED
    BY <2>2, <2>3, <2>4, <2>5
<1>2. PICK r \in RunType : /\ r.todo = run.todo /\ IsFiniteSet(r.new) /\ IsFiniteSet(r.existing)
                           /\ JobDone(r)
  BY <1>1
<1>3. env' \in EnvType
  <2>1. env \in EnvType
    BY DEF TypeOK, ChainTypeOK
  <2>2. CASE FileQueued
    BY <2>1, <2>2 DEF FileQueued, EnvType
  <2>3. CASE OpenFails
    BY <2>1, <2>3 DEF OpenFails, Fault, EnvType
  <2>4. CASE SummaryReturns
    BY <2>1, <2>4 DEF SummaryReturns
  <2>5. CASE SummaryFails
    <3> DEFINE O == env.orphans \cup {<<ReaderKind(File), run.handle>>}
               e == [env EXCEPT !.acts = @ + 1]
    <3>1. O \in SUBSET (SlabKinds \X Handles)
      <4>1. File \in Files /\ run.handle \in Handles
        BY <2>5, FileIs DEF SummaryFails, PhaseOK
      <4> QED
        BY <2>1, <4>1, FilesAre DEF EnvType
    <3>2. e \in EnvType
      BY <2>1 DEF EnvType
    <3>3. env' = [e EXCEPT !.orphans = O]
      BY <2>5 DEF SummaryFails
    <3> HIDE DEF O, e
    <3> QED
      BY <3>1, <3>2, <3>3 DEF EnvType
  <2> QED
    BY <2>2, <2>3, <2>4, <2>5
<1>4. ListTypeOK' /\ run' \in RunType /\ ops' \in Seq(OpType) /\ imports' \in SUBSET ImportType
      /\ recipes' \in SUBSET Files
  <2>1. Tail(ops) \in Seq(OpType)
    BY <1>1, FileIs, FirstIs
  <2> QED
    BY <1>1, <1>2, <2>1, JobDoneIs, NoRunIs
    DEF TypeOK, ListTypeOK, ChainTypeOK, views
<1>5. IsFiniteSet(run'.existing) /\ IsFiniteSet(run'.new)
  <2>1. run' = NoRun \/ run' = [r EXCEPT !.todo = Tail(run.todo), !.pc = "opening"]
    BY <1>1, <1>2, JobDoneIs
  <2>2. [r EXCEPT !.todo = Tail(run.todo), !.pc = "opening"].existing = r.existing
        /\ [r EXCEPT !.todo = Tail(run.todo), !.pc = "opening"].new = r.new
    BY DEF RunType
  <2> QED
    BY <1>2, <2>1, <2>2, NoRunIs
<1>6. CallsTypeOK'
  BY <1>1 DEF TypeOK, CallsTypeOK, views
<1> QED
  BY <1>3, <1>4, <1>5, <1>6 DEF TypeOK, ChainTypeOK

LEMMA StartTypes ==
  ASSUME TypeOK, PhaseOK, run.pc = "idle", ops # <<>>, StartOpen \/ StartConfirm
  PROVE  TypeOK'
<1>1. UNCHANGED <<sources, slab, inline, cursor, imports, recipes, views, env>>
  BY DEF StartOpen, StartConfirm
<1>2. ops' \in Seq(OpType)
  BY FirstIs DEF StartOpen, StartConfirm, Settle, TypeOK, ChainTypeOK
<1>3. run' \in RunType /\ IsFiniteSet(run'.existing) /\ IsFiniteSet(run'.new)
  <2>1. CASE StartOpen
    <3>1. PICK order \in InOrder(First.files) :
            run' = [NoRun EXCEPT !.pc = "opening", !.todo = order, !.existing = sources]
      BY <2>1 DEF StartOpen
    <3>2. First.files \in SUBSET Files
      BY FirstIs DEF OpType
    <3>3. order \in Seq(Files)
      <4>1. Cardinality(First.files) \in Nat
        <5>1. IsFiniteSet(First.files)
          BY <3>2, FS_Subset, StoreAssumption
        <5> QED
          BY <5>1, FS_CardinalityType
      <4>2. order \in [1..Cardinality(First.files) -> First.files]
        BY <3>1 DEF InOrder
      <4>3. order \in [1..Cardinality(First.files) -> Files]
        BY <3>2, <4>2
      <4> QED
        BY <4>1, <4>3
    <3> QED
      BY <3>1, <3>3, NoRunIs DEF NoRun, RunType, TypeOK, ListTypeOK
  <2>2. CASE StartConfirm
    <3>1. run' = NoRun \/ \E i \in imports :
                            run' = [NoRun EXCEPT !.pc = "opening", !.todo = <<i.file>>]
      BY <2>2 DEF StartConfirm, Settle
    <3>2. \A i \in imports : <<i.file>> \in Seq(Files)
      BY DEF TypeOK, ChainTypeOK, ImportType
    <3>3. ASSUME NEW q \in Seq(Files), run' = [NoRun EXCEPT !.pc = "opening", !.todo = q]
          PROVE  run' \in RunType /\ IsFiniteSet(run'.existing) /\ IsFiniteSet(run'.new)
      BY <3>3, NoRunIs DEF NoRun, RunType
    <3> QED
      BY <3>1, <3>2, <3>3, NoRunIs
  <2> QED
    BY <2>1, <2>2
<1> QED
  BY <1>1, <1>2, <1>3 DEF TypeOK, ListTypeOK, ChainTypeOK, CallsTypeOK, views

LEMMA RemoveTypes ==
  ASSUME TypeOK, PhaseOK, ops # <<>>, StartRemove \/ Removed
  PROVE  TypeOK'
<1>1. \/ /\ run' = NoRun /\ ops' = Tail(ops)
         /\ UNCHANGED <<sources, slab, inline, cursor, views, env>>
      \/ /\ \E id : DropSource(id)
         /\ inline' \in SUBSET inline /\ UNCHANGED <<slab, fetches, loads>>
         /\ env' \in EnvType
      \/ \E s \in ReaderSource :
           /\ SendClose(s) /\ run' = [NoRun EXCEPT !.pc = "closing", !.closing = {s}]
           /\ UNCHANGED <<sources, inline, cursor, ops, bound, calib>>
  <2>1. CASE StartRemove
    <3>1. CASE {s \in sources : s.id = First.target} = {}
      BY <2>1, <3>1 DEF StartRemove, Settle
    <3>2. CASE {s \in sources : s.id = First.target} # {}
      <4>1. PICK s \in sources :
              IF s.kind = "inline"
              THEN /\ inline' = inline \ {s.id}
                   /\ DropSource(s.id)
                   /\ env' = [env EXCEPT !.lost = @ \cup ReadersNamed(s.id)]
                   /\ UNCHANGED <<slab, fetches, loads>>
              ELSE /\ SendClose(s)
                   /\ run' = [NoRun EXCEPT !.pc = "closing", !.closing = {s}]
                   /\ UNCHANGED <<sources, inline, cursor, ops, bound, calib>>
        BY <2>1, <3>2 DEF StartRemove
      <4>2. s.kind # "inline" => s \in ReaderSource
        BY SourcesAre DEF TypeOK, ListTypeOK
      <4>3. s.kind = "inline" => env' \in EnvType
        BY <4>1, LostIs
      <4> QED
        BY <4>1, <4>2, <4>3
    <3> QED
      BY <3>1, <3>2
  <2>2. CASE Removed
    BY <2>2 DEF Removed, TypeOK, ChainTypeOK
  <2> QED
    BY <2>1, <2>2
<1>2. imports' = imports /\ recipes' = recipes
  BY DEF StartRemove, Removed
<1>3. CASE run' = NoRun /\ ops' = Tail(ops)
           /\ UNCHANGED <<sources, slab, inline, cursor, views, env>>
  BY <1>2, <1>3, FirstIs, NoRunIs
  DEF TypeOK, ListTypeOK, ChainTypeOK, CallsTypeOK, views
<1>4. CASE /\ \E id : DropSource(id)
           /\ inline' \in SUBSET inline /\ UNCHANGED <<slab, fetches, loads>>
           /\ env' \in EnvType
  <2>1. PICK id : DropSource(id)
    BY <1>4
  <2>2. /\ IsFiniteSet(sources') /\ sources' \in SUBSET SourceType /\ cursor' \in Nat
        /\ bound' = [p \in Panels |-> bound[p] \ {id}] /\ calib' \in SUBSET calib
        /\ run' = NoRun /\ ops' \in Seq(OpType)
    BY <2>1, DropIs
  <2> QED
    BY <1>2, <1>4, <2>2, NoRunIs DEF TypeOK, ListTypeOK, ChainTypeOK, CallsTypeOK
<1>5. CASE \E s \in ReaderSource :
             /\ SendClose(s) /\ run' = [NoRun EXCEPT !.pc = "closing", !.closing = {s}]
             /\ UNCHANGED <<sources, inline, cursor, ops, bound, calib>>
  <2>1. PICK s \in ReaderSource :
          /\ SendClose(s) /\ run' = [NoRun EXCEPT !.pc = "closing", !.closing = {s}]
          /\ UNCHANGED <<sources, inline, cursor, ops, bound, calib>>
    BY <1>5
  <2>2. run' \in RunType /\ IsFiniteSet(run'.existing) /\ IsFiniteSet(run'.new)
    BY <2>1, NoRunIs DEF RunType, NoRun
  <2> QED
    BY <1>2, <2>1, <2>2, CloseIs DEF TypeOK, ListTypeOK, ChainTypeOK, CallsTypeOK
<1> QED
  BY <1>1, <1>3, <1>4, <1>5

LEMMA ClearTypes ==
  ASSUME TypeOK, PhaseOK, ops # <<>>, StartClear \/ ClearCloses
  PROVE  TypeOK'
<1>1. \/ Wipe /\ UNCHANGED <<slab, fetches, loads, env>>
      \/ \E s \in ReaderSource, C \in SUBSET ReaderSource :
           /\ SendClose(s)
           /\ \/ run' = [NoRun EXCEPT !.pc = "closing", !.closing = C]
              \/ run' = [run EXCEPT !.closing = C]
           /\ UNCHANGED <<sources, cursor, ops, imports, bound, calib>>
  <2>1. WithReader(sources) \in SUBSET ReaderSource
    BY SourcesAre DEF WithReader, TypeOK, ListTypeOK
  <2>2. run.closing \in SUBSET ReaderSource
    BY DEF TypeOK, ChainTypeOK, RunType
  <2>3. CASE StartClear
    <3>1. CASE WithReader(sources) = {}
      BY <2>3, <3>1 DEF StartClear
    <3>2. CASE WithReader(sources) # {}
      <4>1. PICK s \in WithReader(sources) :
              /\ SendClose(s)
              /\ run' = [NoRun EXCEPT !.pc = "closing", !.closing = WithReader(sources) \ {s}]
              /\ UNCHANGED <<sources, cursor, ops, imports, bound, calib>>
        BY <2>3, <3>2 DEF StartClear
      <4>2. s \in ReaderSource /\ WithReader(sources) \ {s} \in SUBSET ReaderSource
        BY <2>1
      <4> QED
        BY <4>1, <4>2
    <3> QED
      BY <3>1, <3>2
  <2>4. CASE ClearCloses
    <3>1. CASE run.closing = {}
      BY <2>4, <3>1 DEF ClearCloses
    <3>2. CASE run.closing # {}
      <4>1. PICK s \in run.closing :
              /\ SendClose(s) /\ run' = [run EXCEPT !.closing = run.closing \ {s}]
              /\ UNCHANGED <<sources, cursor, ops, imports, bound, calib>>
        BY <2>4, <3>2 DEF ClearCloses
      <4>2. s \in ReaderSource /\ run.closing \ {s} \in SUBSET ReaderSource
        BY <2>2
      <4> QED
        BY <4>1, <4>2
    <3> QED
      BY <3>1, <3>2
  <2> QED
    BY <2>3, <2>4
<1>2. inline' \in SUBSET inline /\ recipes' = recipes
  BY DEF StartClear, ClearCloses
<1>3. CASE Wipe /\ UNCHANGED <<slab, fetches, loads, env>>
  <2>1. /\ sources' = {} /\ IsFiniteSet(sources') /\ cursor' = 0 /\ imports' = {}
        /\ bound' = [p \in Panels |-> {}] /\ calib' = {}
        /\ run' = NoRun /\ ops' \in Seq(OpType)
    BY <1>3, WipeIs
  <2> QED
    BY <1>2, <1>3, <2>1, NoRunIs DEF TypeOK, ListTypeOK, ChainTypeOK, CallsTypeOK
<1>4. CASE \E s \in ReaderSource, C \in SUBSET ReaderSource :
             /\ SendClose(s)
             /\ \/ run' = [NoRun EXCEPT !.pc = "closing", !.closing = C]
                \/ run' = [run EXCEPT !.closing = C]
             /\ UNCHANGED <<sources, cursor, ops, imports, bound, calib>>
  <2>1. PICK s \in ReaderSource, C \in SUBSET ReaderSource :
          /\ SendClose(s)
          /\ \/ run' = [NoRun EXCEPT !.pc = "closing", !.closing = C]
             \/ run' = [run EXCEPT !.closing = C]
          /\ UNCHANGED <<sources, cursor, ops, imports, bound, calib>>
    BY <1>4
  <2>2. run' \in RunType /\ IsFiniteSet(run'.existing) /\ IsFiniteSet(run'.new)
    <3>1. CASE run' = [NoRun EXCEPT !.pc = "closing", !.closing = C]
      BY <3>1, NoRunIs DEF RunType, NoRun
    <3>2. CASE run' = [run EXCEPT !.closing = C]
      BY <3>2 DEF RunType, TypeOK, ChainTypeOK
    <3> QED
      BY <2>1, <3>1, <3>2
  <2> QED
    BY <1>2, <2>1, <2>2, CloseIs DEF TypeOK, ListTypeOK, ChainTypeOK, CallsTypeOK
<1> QED
  BY <1>1, <1>3, <1>4

LEMMA OpensTypes ==
  ASSUME TypeOK, PhaseOK, ReaderOpens
  PROVE  TypeOK'
<1>1. PICK h \in Handles :
        /\ run' = [run EXCEPT !.pc = "summary", !.handle = h] /\ File \in Files
        /\ ReaderKind(File) \in SlabKinds
        /\ slab' = [slab EXCEPT ![ReaderKind(File)][h] = File]
        /\ fetches' = Ahead(fetches) /\ loads' = Ahead(loads)
        /\ UNCHANGED <<sources, inline, cursor, ops, imports, recipes, bound, calib, env>>
  BY OpensIs
<1>2. run' \in RunType /\ IsFiniteSet(run'.existing) /\ IsFiniteSet(run'.new)
  <2>1. h \in Nat
    BY StoreAssumption
  <2> QED
    BY <1>1, <2>1 DEF RunType, TypeOK, ChainTypeOK
<1>3. slab' \in [SlabKinds -> [Handles -> Files \cup {NoFile}]]
  BY <1>1 DEF TypeOK, CallsTypeOK
<1>4. fetches' \in SUBSET CallType /\ loads' \in SUBSET LoadType
  BY <1>1, FetchesAhead, LoadsAhead DEF TypeOK, CallsTypeOK
<1> QED
  BY <1>1, <1>2, <1>3, <1>4 DEF TypeOK, ListTypeOK, ChainTypeOK, CallsTypeOK

LEMMA BesideTypes ==
  ASSUME TypeOK, CancelImport \/ Scrub \/ Bind \/ FetchAnswered \/ CalibrationAnswered
  PROVE  TypeOK'
<1>1. CASE CancelImport
  BY <1>1, ActedIs
  DEF CancelImport, TypeOK, ListTypeOK, ChainTypeOK, CallsTypeOK, views
<1>2. CASE Scrub
  <2>1. cursor' \in Nat
    <3>1. PICK c \in 0..3 : cursor' = IF Spanned(sources) = {} THEN c ELSE Clamped(c, sources)
      BY <1>2 DEF Scrub
    <3>2. c \in Nat
      OBVIOUS
    <3> QED
      BY <3>1, <3>2, CursorIs DEF TypeOK, ListTypeOK
  <2> QED
    BY <1>2, <2>1, ActedIs
    DEF Scrub, TypeOK, ListTypeOK, ChainTypeOK, CallsTypeOK, views
<1>3. CASE Bind
  <2>1. bound' \in [Panels -> SUBSET Ids]
    <3>1. PICK p \in Panels, s \in sources : bound' = [bound EXCEPT ![p] = @ \cup {s.id}]
      BY <1>3 DEF Bind
    <3>2. s.id \in Ids
      BY SourcesAre DEF TypeOK, ListTypeOK
    <3> QED
      BY <3>1, <3>2 DEF TypeOK, ListTypeOK
  <2> QED
    BY <1>3, <2>1, ActedIs DEF Bind, TypeOK, ListTypeOK, ChainTypeOK, CallsTypeOK
<1>4. CASE FetchAnswered
  BY <1>4 DEF FetchAnswered, TypeOK, ListTypeOK, ChainTypeOK, CallsTypeOK
<1>5. CASE CalibrationAnswered
  <2>1. calib' \in SUBSET CachedType /\ loads' \in SUBSET LoadType
    BY <1>5 DEF CalibrationAnswered, Cached, TypeOK, CallsTypeOK, LoadType, CachedType
  <2> QED
    BY <1>5, <2>1 DEF CalibrationAnswered, TypeOK, ListTypeOK, ChainTypeOK, CallsTypeOK
<1> QED
  BY <1>1, <1>2, <1>3, <1>4, <1>5

LEMMA TypeStep ==
  ASSUME TypeOK, PhaseOK, [Next]_vars
  PROVE  TypeOK'
<1>1. CASE StartOp
  BY <1>1, StartTypes, RemoveTypes, ClearTypes DEF StartOp
<1>2. CASE FileQueued \/ OpenFails \/ SummaryReturns \/ SummaryFails
  BY <1>2, OpeningTypes
<1>3. CASE ReaderOpens
  BY <1>3, OpensTypes
<1>4. CASE Removed \/ ClearCloses
  <2>1. ops # <<>>
    BY <1>4 DEF Removed, ClearCloses, PhaseOK
  <2> QED
    BY <1>4, <2>1, RemoveTypes, ClearTypes
<1>5. CASE Beside
  BY <1>5, RequestsAre, BesideTypes, InlineIs, OffsetIs, FetchIs, LoadIs DEF Beside
<1>6. CASE UNCHANGED vars
  BY <1>6 DEF vars, views, TypeOK, ListTypeOK, ChainTypeOK, CallsTypeOK
<1> QED
  BY <1>1, <1>2, <1>3, <1>4, <1>5, <1>6 DEF Next, ChainStep
-----------------------------------------------------------------------------
(* The inductive invariant.  What it says of the sources being opened it   *)
(* says of any set N of them and any orphans O, since the turn of a file   *)
(* that ends an operation adds to both before it lists them.               *)

Readers == WithReader(sources)

(* Where a removed calibration had an mp4's handle, see CloseSlab.         *)
Excused(O, s) == s.kind = "mp4" /\ <<"calibration", s.handle>> \in O

Behind(s) == slab[s.kind][s.handle]

Reads(O, s) == Behind(s) = s.file \/ Excused(O, s)

Shut(s) == Behind(s) = NoFile \/ <<s.kind, s.handle>> \in env.orphans

SameReader(s, t) == s.kind = t.kind /\ s.handle = t.handle

SameSource(s, t) == SameReader(s, t) /\ s.file = t.file

Distinct(O, S) == \A s, t \in S : SameReader(s, t) => s = t \/ Excused(O, s)

(* Listed sources read their own files until their close is sent, then     *)
(* none, and have readers and ids of their own.                            *)
ListedOK ==
  /\ \A s \in Readers : Closing(s) \/ Reads(env.orphans, s)
  /\ \A s \in Readers : s.kind # "mp4" => Behind(s) \in {s.file, NoFile}
  /\ Distinct(env.orphans, Readers)
  /\ \A s, t \in Readers : s.id = t.id => s = t
  /\ \A s, t \in sources : s.id = t.id => s = t \/ s.id \in env.twins

(* An inline source that a batch under way does not know of.               *)
Twin(s) == s.kind = "inline" /\ s.id \in env.twins

(* So do those that are opened and not listed, apart from the listed ones; *)
(* nobody has asked for their channels.                                    *)
NewOK(N, O) ==
  /\ \A s \in N : Reads(O, s)
  /\ Distinct(O, N)
  /\ \A s \in Readers, t \in N : SameReader(s, t) => Excused(O, s)
  /\ \A s, t \in N : s.id = t.id => s = t
  /\ \A s \in sources, t \in N : s.id = t.id => Twin(s)
  /\ \A f \in fetches, s \in N : s.id # f.id

(* The reader whose summary is awaited, and its source to be.              *)
Pending == [kind |-> ReaderKind(File), handle |-> run.handle, file |-> File]

PendingOK ==
  run.pc = "summary" =>
    /\ Behind(Pending) = File
    /\ \A s \in Readers \cup run.new :
         SameReader(s, Pending) => Excused(env.orphans, Pending)
    /\ \A f \in fetches : f.ahead \/ f.id \in IdsOf(Readers)

(* Readers that are held belong to someone.                                *)
HeldOK(N, O, P) ==
  \A k \in SlabKinds, h \in Handles :
    slab[k][h] # NoFile =>
      \/ <<k, h>> \in O \cup P \cup env.lost
      \/ \E s \in Readers \cup N : s.kind = k /\ s.handle = h

Awaited == IF run.pc = "summary" THEN {<<Pending.kind, Pending.handle>>} ELSE {}

(* A batch knows the ids of all sources but the inline ones that have come *)
(* in between.                                                             *)
BatchOK ==
  Opening => \A s \in sources : s.id \in IdsOf(run.existing) \/ Twin(s)

(* The readers of the sources that an operation is about to drop are       *)
(* closed, or will be.                                                     *)
ClosingOK ==
  /\ run.pc = "closing" /\ First.op = "remove" =>
       \A s \in Readers : s.id = First.target => Shut(s)
  /\ run.pc = "closing" /\ First.op = "clear" =>
       /\ \A s \in run.closing : Reads(env.orphans, s)
       /\ Distinct(env.orphans, run.closing)
       /\ \A s \in Readers : Shut(s) \/ \E t \in run.closing : SameReader(s, t)
       /\ \A s \in Readers, t \in run.closing : s.id = t.id => SameSource(s, t)

(* A calibration is loaded of a listed source, which keeps its id to       *)
(* itself, and answered before its close is, unless that was sent before.  *)
Loaded(l) ==
  \E s \in sources :
    /\ s.kind = "calibration" /\ s.id = l.id /\ s.file = l.file /\ ~Shared(s)
    /\ run.pc = "closing" => l.ahead \/ ~Closing(s)

LoadsOK ==
  /\ CalibrationCurrent
  /\ \A l \in loads : l.late \/ Loaded(l)

(* A fetch under way is for the source that has its id now, if any.        *)
FetchesOK ==
  /\ AnswersExact
  /\ \A f \in fetches, s \in Readers :
       s.id = f.id => /\ f.file \in {s.file, NoFile}
                      /\ f.moved \/ f.offset = s.offset

StoreOK ==
  /\ ListedOK /\ NewOK(run.new, env.orphans) /\ PendingOK
  /\ HeldOK(run.new, env.orphans, Awaited)
  /\ BatchOK /\ ClosingOK /\ LoadsOK /\ FetchesOK

IInv == TypeOK /\ PhaseOK /\ StoreOK /\ CursorInRange /\ BindingsListed
-----------------------------------------------------------------------------
(* The phase of the running operation.                                     *)

LEMMA RestIs ==
  ASSUME run' = NoRun
  PROVE  PhaseOK'
BY DEF PhaseOK, NoRun

LEMMA FirstKept ==
  ASSUME TypeOK, ops # <<>>, NEW op \in OpType, ops' = Append(ops, op)
  PROVE  ops' # <<>> /\ First' = First
BY DEF TypeOK, ChainTypeOK, First

LEMMA PhaseKept ==
  ASSUME TypeOK, PhaseOK, UNCHANGED run, UNCHANGED ops \/ Requests
  PROVE  PhaseOK' /\ (run.pc # "idle" => First' = First /\ ops' # <<>>)
<1>1. CASE UNCHANGED ops
  BY <1>1 DEF PhaseOK, First
<1>2. CASE Requests
  <2>1. run.pc # "idle" => First' = First /\ ops' # <<>>
    BY <1>2, FirstKept DEF Requests, PhaseOK
  <2> QED
    BY <2>1 DEF PhaseOK
<1> QED
  BY <1>1, <1>2

LEMMA PhaseStep ==
  ASSUME TypeOK, PhaseOK, [Next]_vars
  PROVE  PhaseOK'
<1>1. CASE StartOp
  <2>1. run.pc = "idle" /\ ops # <<>>
    BY <1>1 DEF StartOp
  <2>2. CASE StartOpen
    <3>1. PICK order \in InOrder(First.files) :
            run' = [NoRun EXCEPT !.pc = "opening", !.todo = order, !.existing = sources]
      BY <2>2 DEF StartOpen
    <3>2. First \in OpType /\ First.op = "open" /\ ops' = ops
      BY <2>1, <2>2, FirstIs DEF StartOpen
    <3>3. order # <<>>
      <4>1. First.files # {} /\ IsFiniteSet(First.files)
        BY <3>2, FS_Subset, StoreAssumption DEF OpType
      <4>2. Cardinality(First.files) \in Nat \ {0}
        BY <4>1, FS_EmptySet, FS_CardinalityType
      <4>3. order \in [1..Cardinality(First.files) -> First.files]
        BY <3>1 DEF InOrder
      <4>4. 1 \in DOMAIN order
        BY <4>2, <4>3
      <4> QED
        BY <4>4
    <3>4. /\ run'.pc = "opening" /\ run'.todo = order /\ run'.closing = {}
      BY <3>1 DEF NoRun
    <3> QED
      BY <2>1, <3>2, <3>3, <3>4 DEF PhaseOK, First
  <2>3. CASE StartConfirm
    <3>1. CASE run' = NoRun
      BY <3>1, RestIs
    <3>2. CASE run' # NoRun
      <4>1. PICK i \in imports : run' = [NoRun EXCEPT !.pc = "opening", !.todo = <<i.file>>]
        BY <2>3, <3>2 DEF StartConfirm, Settle
      <4>2. ops' = ops /\ First.op = "confirm"
        BY <2>3, <3>2 DEF StartConfirm, Settle, Confirming
      <4>3. /\ run'.pc = "opening" /\ run'.todo = <<i.file>> /\ run'.closing = {}
            /\ run'.new = {}
        BY <4>1 DEF NoRun
      <4>4. Len(run'.todo) = 1 /\ run'.todo # <<>>
        BY <4>3
      <4> QED
        BY <2>1, <4>2, <4>3, <4>4 DEF PhaseOK, First
    <3> QED
      BY <3>1, <3>2
  <2>4. CASE StartRemove
    <3>1. run' = NoRun \/ /\ ops' = ops /\ First.op = "remove"
                          /\ \E s : run' = [NoRun EXCEPT !.pc = "closing", !.closing = {s}]
      BY <2>4 DEF StartRemove, Settle, DropSource
    <3>2. CASE run' # NoRun
      <4>1. run'.pc = "closing" /\ run'.new = {}
        BY <3>1, <3>2 DEF NoRun
      <4> QED
        BY <2>1, <3>1, <3>2, <4>1 DEF PhaseOK, First
    <3> QED
      BY <3>2, RestIs
  <2>5. CASE StartClear
    <3>1. run' = NoRun \/ /\ ops' = ops /\ First.op = "clear"
                          /\ \E C : run' = [NoRun EXCEPT !.pc = "closing", !.closing = C]
      BY <2>5 DEF StartClear, Settle, Wipe
    <3>2. CASE run' # NoRun
      <4>1. run'.pc = "closing" /\ run'.new = {}
        BY <3>1, <3>2 DEF NoRun
      <4> QED
        BY <2>1, <3>1, <3>2, <4>1 DEF PhaseOK, First
    <3> QED
      BY <3>2, RestIs
  <2> QED
    BY <1>1, <2>2, <2>3, <2>4, <2>5 DEF StartOp
<1>2. ASSUME run.pc \in {"opening", "summary"}, NEW r \in RunType, r.todo = run.todo,
             r.closing = run.closing, IsFiniteSet(r.new), JobDone(r)
      PROVE  PhaseOK'
  <2>1. CASE run' = NoRun
    BY <2>1, RestIs
  <2>2. CASE run' # NoRun
    <3>1. /\ First.op = "open" /\ run' = [r EXCEPT !.todo = Tail(run.todo), !.pc = "opening"]
          /\ run'.todo # <<>> /\ ops' = ops
      BY <1>2, <2>2, JobDoneIs
    <3>2. run'.pc = "opening" /\ run'.closing = {}
      BY <1>2, <3>1 DEF RunType, PhaseOK
    <3>3. ops # <<>>
      BY <1>2, FileIs
    <3> QED
      BY <3>1, <3>2, <3>3 DEF PhaseOK, First
  <2> QED
    BY <2>1, <2>2
<1>3. CASE FileQueued
  BY <1>2, <1>3, FileQueuedIs, QueuedIs
<1>4. CASE OpenFails \/ SummaryFails
  <2>1. run \in RunType /\ IsFiniteSet(run.new)
    BY DEF TypeOK, ChainTypeOK
  <2> QED
    BY <1>2, <1>4, <2>1 DEF OpenFails, SummaryFails
<1>5. CASE SummaryReturns
  BY <1>2, <1>5, SummaryReturnsIs, OpenedIs
<1>6. CASE ReaderOpens
  <2>1. PICK h \in Handles : /\ run.pc = "opening" /\ ops' = ops
                             /\ run' = [run EXCEPT !.pc = "summary", !.handle = h]
    BY <1>6, OpensIs
  <2>2. /\ run'.pc = "summary" /\ run'.handle = h /\ run'.todo = run.todo
        /\ run'.closing = run.closing /\ run'.new = run.new
    BY <2>1 DEF TypeOK, ChainTypeOK, RunType
  <2>3. First' = First
    BY <2>1 DEF First
  <2> QED
    BY <2>1, <2>2, <2>3 DEF PhaseOK
<1>7. CASE Removed
  BY <1>7, RestIs DEF Removed, DropSource, Settle
<1>8. CASE ClearCloses
  <2>1. \/ run' = NoRun
        \/ ops' = ops /\ \E C : run' = [run EXCEPT !.closing = C]
    BY <1>8 DEF ClearCloses, Wipe, Settle
  <2>2. CASE run' # NoRun
    <3>1. run'.pc = run.pc /\ run'.new = run.new /\ First' = First
      BY <2>1, <2>2 DEF First, TypeOK, ChainTypeOK, RunType
    <3>2. run.pc = "closing"
      BY <1>8 DEF ClearCloses
    <3> QED
      BY <2>1, <2>2, <3>1, <3>2 DEF PhaseOK
  <2> QED
    BY <2>2, RestIs
<1>9. CASE Beside
  <2>1. UNCHANGED run /\ (UNCHANGED ops \/ Requests)
    BY <1>9, RequestsAre
    DEF Beside, CancelImport, AddInlineSource, Scrub, Bind, SetSourceOffset,
        FetchChannelRange, FetchAnswered, LoadCalibration, CalibrationAnswered, Requests
  <2> QED
    BY <2>1, PhaseKept
<1>10. CASE UNCHANGED vars
  <2>1. UNCHANGED run /\ UNCHANGED ops
    BY <1>10 DEF vars
  <2> QED
    BY <2>1, PhaseKept
<1> QED
  BY <1>1, <1>3, <1>4, <1>5, <1>6, <1>7, <1>8, <1>9, <1>10 DEF Next, ChainStep
-----------------------------------------------------------------------------
(* Steps that touch nothing the invariant speaks of.                       *)

SameStrays ==
  env'.orphans = env.orphans /\ env'.lost = env.lost /\ env'.twins = env.twins

LEMMA QuietStep ==
  ASSUME StoreOK, UNCHANGED <<sources, slab, run, fetches, calib, loads>>, SameStrays,
         run.pc # "idle" => First' = First
  PROVE  StoreOK'
<1> USE DEF SameStrays
<1>1. Readers' = Readers
  BY DEF Readers, WithReader
<1>2. /\ \A s : Closing(s)' = Closing(s) /\ Twin(s)' = Twin(s) /\ Shared(s)' = Shared(s)
      /\ Opening' = Opening
  BY DEF Closing, Twin, Shared, Opening
<1>3. ListedOK'
  BY <1>1, <1>2 DEF StoreOK, ListedOK, Reads, Behind, Excused, Distinct, SameReader
<1>4. NewOK(run.new, env.orphans)'
  BY <1>1, <1>2 DEF StoreOK, NewOK, Reads, Behind, Excused, Distinct, SameReader
<1>5. Pending' = Pending /\ Awaited' = Awaited /\ File' = File
  BY DEF Pending, Awaited, File, ReaderKind
<1>6. PendingOK'
  BY <1>1, <1>5 DEF StoreOK, PendingOK, Behind, Excused, SameReader
<1>7. HeldOK(run.new, env.orphans, Awaited)'
  BY <1>1, <1>5 DEF StoreOK, HeldOK
<1>8. BatchOK'
  BY <1>2 DEF StoreOK, BatchOK
<1>9. ClosingOK'
  BY <1>1 DEF StoreOK, ClosingOK, Shut, Behind, Reads, Excused, Distinct, SameReader, SameSource
<1>10. LoadsOK'
  BY <1>2 DEF StoreOK, LoadsOK, Loaded, CalibrationCurrent
<1>11. FetchesOK'
  BY <1>1 DEF StoreOK, FetchesOK, AnswersExact
<1> QED
  BY <1>3, <1>4, <1>6, <1>7, <1>8, <1>9, <1>10, <1>11 DEF StoreOK

(* addInlineSource: the new source has no reader, and an id of its own,    *)
(* but a batch under way does not know it.                                 *)
LEMMA InlineStep ==
  ASSUME TypeOK, PhaseOK, StoreOK, AddInlineSource
  PROVE  StoreOK'
<1>1. PICK i \in InlineSource :
        /\ i.id \notin IdsOf(sources) /\ i.kind = "inline" /\ sources' = sources \cup {i}
        /\ env'.twins = IF Opening THEN env.twins \cup {i.id} ELSE env.twins
  BY InlineIs
<1>2. /\ UNCHANGED <<slab, ops, run, fetches, calib, loads>>
      /\ env'.orphans = env.orphans /\ env'.lost = env.lost
  BY InlineIs
<1>3. Readers' = Readers /\ First' = First
  BY <1>1, <1>2 DEF Readers, WithReader, First
<1>4. \A s : Closing(s)' = Closing(s)
  BY <1>2, <1>3 DEF Closing
<1>5. env.twins \subseteq env'.twins /\ (Opening => i.id \in env'.twins) /\ Opening' = Opening
  BY <1>1, <1>2, <1>3 DEF Opening
<1>6. \A s, t \in sources' : s.id = t.id => s = t \/ s.id \in env'.twins
  BY <1>1, <1>5 DEF StoreOK, ListedOK, IdsOf
<1>7. ListedOK'
  BY <1>2, <1>3, <1>4, <1>6 DEF StoreOK, ListedOK, Reads, Behind, Excused, Distinct, SameReader
<1>8. ~Opening => run.new = {}
  BY NoRunIs DEF PhaseOK, Opening, TypeOK, ChainTypeOK, RunType
<1>9. \A s \in sources', t \in run.new : s.id = t.id => Twin(s)'
  <2>1. \A t \in run.new : Twin(i)'
    BY <1>1, <1>5, <1>8 DEF Twin
  <2>2. \A s : Twin(s) => Twin(s)'
    BY <1>5 DEF Twin
  <2> QED
    BY <1>1, <2>1, <2>2 DEF StoreOK, NewOK
<1>10. NewOK(run.new, env.orphans)'
  BY <1>2, <1>3, <1>9 DEF StoreOK, NewOK, Reads, Behind, Excused, Distinct, SameReader
<1>11. Pending' = Pending /\ Awaited' = Awaited /\ File' = File
  BY <1>2 DEF Pending, Awaited, File, ReaderKind
<1>12. PendingOK'
  BY <1>2, <1>3, <1>11 DEF StoreOK, PendingOK, Behind, Excused, SameReader
<1>13. HeldOK(run.new, env.orphans, Awaited)'
  BY <1>2, <1>3, <1>11 DEF StoreOK, HeldOK
<1>14. BatchOK'
  BY <1>1, <1>2, <1>5 DEF StoreOK, BatchOK, Twin
<1>15. ClosingOK'
  BY <1>2, <1>3
  DEF StoreOK, ClosingOK, Shut, Behind, Reads, Excused, Distinct, SameReader, SameSource
<1>16. LoadsOK'
  <2>1. \A s \in sources : Shared(s)' = Shared(s)
    BY <1>1 DEF Shared, IdsOf
  <2>2. \A l \in loads : Loaded(l) => Loaded(l)'
    BY <1>1, <1>2, <1>4, <2>1 DEF Loaded
  <2> QED
    BY <1>1, <1>2, <2>2 DEF StoreOK, LoadsOK, CalibrationCurrent
<1>17. FetchesOK'
  BY <1>2, <1>3 DEF StoreOK, FetchesOK, AnswersExact
<1> QED
  BY <1>2, <1>7, <1>10, <1>12, <1>13, <1>14, <1>15, <1>16, <1>17 DEF StoreOK
(* setSourceOffset: every source stays what it is but for its offset, and  *)
(* a fetch for the one that moves knows it.                                *)
LEMMA OffsetStep ==
  ASSUME TypeOK, PhaseOK, StoreOK, SetSourceOffset
  PROVE  StoreOK'
<1>1. PICK id \in Ids, o \in Int :
        /\ sources' = {IF t.id = id THEN [t EXCEPT !.offset = o] ELSE t : t \in sources}
        /\ fetches' = {[f EXCEPT !.moved = @ \/ f.id = id] : f \in fetches}
  BY OffsetIs
<1>2. UNCHANGED <<slab, ops, run, calib, loads>> /\ SameStrays
  BY OffsetIs DEF SameStrays
<1>0. PICK m : m = [t \in sources |-> IF t.id = id THEN [t EXCEPT !.offset = o] ELSE t]
  OBVIOUS
<1>3. \A t \in sources : /\ Like(m[t], t) /\ m[t] \in sources'
                         /\ t.id # id => m[t].offset = t.offset
  <2>1. \A t \in sources : Like([t EXCEPT !.offset = o], t)
    BY MovedIs DEF TypeOK, ListTypeOK
  <2>2. \A t \in sources : Like(t, t)
    BY DEF Like
  <2> QED
    BY <1>0, <1>1, <2>1, <2>2
<1>4. \A u \in sources' : \E t \in sources : u = m[t]
  BY <1>0, <1>1
<1>5. /\ \A u \in Readers' : \E t \in Readers : u = m[t]
      /\ \A t \in Readers : m[t] \in Readers'
  BY <1>3, <1>4 DEF Readers, WithReader, Like
<1>6. \A t \in Readers : t \in sources
  BY DEF Readers, WithReader
<1>7. \A t \in Readers : Reads(env.orphans, m[t])' <=> Reads(env.orphans, t)
  BY <1>2, <1>3, <1>6 DEF Reads, Behind, Excused, Like, SameStrays
<1>8. First' = First /\ Opening' = Opening /\ \A t \in sources : Closing(m[t])' <=> Closing(t)
  BY <1>2, <1>3 DEF First, Opening, Closing, Like
<1>20. env.orphans' = env.orphans /\ env.lost' = env.lost /\ env.twins' = env.twins
  BY <1>2 DEF SameStrays
<1> DEFINE Told(g) == [g EXCEPT !.moved = @ \/ g.id = id]
<1>21. \A f \in fetches' : \E g \in fetches :
         /\ f.id = g.id /\ f.file = g.file /\ f.offset = g.offset /\ f.callers = g.callers
         /\ f.ahead = g.ahead /\ (~f.moved => ~g.moved /\ g.id # id)
  <2>1. fetches' = {Told(g) : g \in fetches}
    BY <1>1
  <2>2. ASSUME NEW g \in fetches
        PROVE  /\ Told(g).id = g.id /\ Told(g).file = g.file /\ Told(g).offset = g.offset
               /\ Told(g).callers = g.callers /\ Told(g).ahead = g.ahead
               /\ ~Told(g).moved => ~g.moved /\ g.id # id
    <3>1. g \in CallType
      BY DEF TypeOK, CallsTypeOK
    <3> QED
      BY <3>1 DEF CallType
  <2> HIDE DEF Told
  <2> QED
    BY <2>1, <2>2
<1>9. \A s, t \in Readers :
        /\ SameReader(m[s], m[t]) => SameReader(s, t)
        /\ Excused(env.orphans, s) => Excused(env.orphans, m[s])'
        /\ m[s].id = m[t].id => s.id = t.id
  BY <1>3, <1>6, <1>20 DEF SameReader, Excused, Like
<1>10. ListedOK'
  <2>1. \A s \in Readers' : s.kind # "mp4" => Behind(s)' \in {s.file, NoFile}
    BY <1>2, <1>3, <1>5, <1>6 DEF StoreOK, ListedOK, Behind, Like
  <2>2. Distinct(env.orphans, Readers)'
    <3>1. \A s, t \in Readers : SameReader(m[s], m[t]) => m[s] = m[t] \/ Excused(env.orphans, m[s])'
      BY <1>9 DEF StoreOK, ListedOK, Distinct
    <3>2. \A s, t \in Readers' : SameReader(s, t) => s = t \/ Excused(env.orphans, s)'
      BY <1>5, <3>1
    <3> QED
      BY <3>2 DEF Distinct, SameReader
  <2>3. \A s, t \in Readers' : s.id = t.id => s = t
    BY <1>5, <1>9 DEF StoreOK, ListedOK
  <2>4. \A s, t \in sources' : s.id = t.id => s = t \/ s.id \in env'.twins
    BY <1>3, <1>4, <1>20 DEF StoreOK, ListedOK, Like
  <2>5. \A s \in Readers' : Closing(s)' \/ Reads(env.orphans, s)'
    BY <1>5, <1>6, <1>7, <1>8 DEF StoreOK, ListedOK
  <2> QED
    BY <2>1, <2>2, <2>3, <2>4, <2>5 DEF ListedOK
<1>11. NewOK(run.new, env.orphans)'
  <2>1. \A s \in Readers', t \in run.new : SameReader(s, t) => Excused(env.orphans, s)'
    <3>1. \A s \in Readers, t \in run.new : SameReader(m[s], t) => SameReader(s, t)
      BY <1>3, <1>6 DEF SameReader, Like
    <3> QED
      BY <1>5, <1>9, <3>1 DEF StoreOK, NewOK
  <2>2. \A s \in sources', t \in run.new : s.id = t.id => Twin(s)'
    BY <1>3, <1>4, <1>20 DEF StoreOK, NewOK, Like, Twin
  <2>3. \A f \in fetches', s \in run.new : s.id # f.id
    BY <1>21 DEF StoreOK, NewOK
  <2> QED
    BY <1>2, <1>20, <2>1, <2>2, <2>3 DEF StoreOK, NewOK, Reads, Behind, Excused, Distinct, SameReader
<1>12. Pending' = Pending /\ Awaited' = Awaited /\ File' = File
  BY <1>2 DEF Pending, Awaited, File, ReaderKind
<1>13. IdsOf(Readers') = IdsOf(Readers)
  BY <1>3, <1>5, <1>6 DEF IdsOf, Like
<1>14. PendingOK'
  <2> SUFFICES ASSUME run.pc = "summary"
               PROVE  /\ Behind(Pending) = File
                      /\ \A s \in Readers' \cup run.new :
                           SameReader(s, Pending) => Excused(env.orphans, Pending)
                      /\ \A f \in fetches' : f.ahead \/ f.id \in IdsOf(Readers')
    BY <1>2, <1>12, <1>20 DEF PendingOK, Behind, Excused, SameReader, IdsOf
  <2>1. \A s \in Readers : SameReader(m[s], Pending) => SameReader(s, Pending)
    BY <1>3, <1>6 DEF SameReader, Like
  <2> QED
    BY <1>5, <1>13, <1>21, <2>1 DEF StoreOK, PendingOK
<1>15. HeldOK(run.new, env.orphans, Awaited)'
  <2>1. \A k, h : (\E s \in Readers \cup run.new : s.kind = k /\ s.handle = h)
                    => \E s \in Readers' \cup run.new : s.kind = k /\ s.handle = h
    BY <1>3, <1>5, <1>6 DEF Like
  <2> QED
    BY <1>2, <1>12, <1>20, <2>1 DEF StoreOK, HeldOK
<1>16. BatchOK'
  <2>1. \A t \in sources : Twin(t) => Twin(m[t])'
    BY <1>3, <1>20 DEF Twin, Like
  <2> QED
    BY <1>2, <1>3, <1>4, <1>8, <2>1 DEF StoreOK, BatchOK, Like
<1>17. ClosingOK'
  <2>1. \A t \in Readers : Shut(t) => Shut(m[t])'
    BY <1>2, <1>3, <1>6, <1>20 DEF Shut, Behind, Like
  <2>2. \A s \in Readers, t \in run.closing : SameReader(s, t) => SameReader(m[s], t)
    BY <1>3, <1>6 DEF SameReader, Like
  <2>3. run.pc = "closing" /\ First.op = "clear" =>
          \A s \in Readers', t \in run.closing : s.id = t.id => SameSource(s, t)
    BY <1>3, <1>5, <1>6 DEF StoreOK, ClosingOK, Like, SameSource, SameReader
  <2>4. run.pc = "closing" /\ First.op = "remove" =>
          \A s \in Readers' : s.id = First.target => Shut(s)'
    BY <1>3, <1>5, <1>6, <2>1 DEF StoreOK, ClosingOK, Like
  <2>5. run.pc = "closing" /\ First.op = "clear" =>
          \A s \in Readers' : Shut(s)' \/ \E t \in run.closing : SameReader(s, t)
    BY <1>5, <2>1, <2>2 DEF StoreOK, ClosingOK
  <2>6. run.pc = "closing" /\ First.op = "clear" =>
          (\A s \in run.closing : Reads(env.orphans, s)') /\ Distinct(env.orphans, run.closing)'
    BY <1>2, <1>20 DEF StoreOK, ClosingOK, Reads, Behind, Excused, Distinct, SameReader
  <2> QED
    BY <1>2, <1>8, <2>3, <2>4, <2>5, <2>6 DEF ClosingOK, SameReader, SameSource
<1>18. LoadsOK'
  <2>1. \A i, f : (\E s \in sources : s.id = i /\ s.file = f)
                    => \E s \in sources' : s.id = i /\ s.file = f
    BY <1>3 DEF Like
  <2>2. \A s \in sources : ~Shared(s) => ~Shared(m[s])'
    BY <1>3, <1>4 DEF Shared, Like
  <2>3. ASSUME NEW l \in loads, Loaded(l)
        PROVE  Loaded(l)'
    <3>1. PICK s \in sources :
            /\ s.kind = "calibration" /\ s.id = l.id /\ s.file = l.file /\ ~Shared(s)
            /\ run.pc = "closing" => l.ahead \/ ~Closing(s)
      BY <2>3 DEF Loaded
    <3> QED
      BY <1>2, <1>3, <1>8, <2>2, <3>1 DEF Loaded, Like
  <2>4. CalibrationCurrent'
    BY <1>2, <2>1 DEF StoreOK, LoadsOK, CalibrationCurrent
  <2> QED
    BY <1>2, <2>3, <2>4 DEF StoreOK, LoadsOK
<1>19. FetchesOK'
  <2>1. AnswersExact'
    BY <1>21 DEF StoreOK, FetchesOK, AnswersExact
  <2>2. \A f \in fetches', s \in Readers :
          m[s].id = f.id => /\ f.file \in {m[s].file, NoFile}
                            /\ f.moved \/ f.offset = m[s].offset
    <3> TAKE f \in fetches', s \in Readers
    <3>1. m[s].id = s.id /\ m[s].file = s.file /\ (s.id # id => m[s].offset = s.offset)
      BY <1>3, <1>6 DEF Like
    <3>2. PICK g \in fetches : /\ f.id = g.id /\ f.file = g.file /\ f.offset = g.offset
                               /\ ~f.moved => ~g.moved /\ g.id # id
      BY <1>21
    <3>3. s.id = g.id => g.file \in {s.file, NoFile} /\ (g.moved \/ g.offset = s.offset)
      BY DEF StoreOK, FetchesOK
    <3> QED
      BY <3>1, <3>2, <3>3
  <2> QED
    BY <1>5, <2>1, <2>2 DEF FetchesOK
<1> QED
  BY <1>2, <1>10, <1>11, <1>14, <1>15, <1>16, <1>17, <1>18, <1>19 DEF StoreOK
(* Steps of the calls to the worker alone.                                 *)
LEMMA CallsStep ==
  ASSUME StoreOK, UNCHANGED <<sources, slab, ops, run>>,
         SameStrays,
         \A f \in fetches', s \in run.new : s.id # f.id,
         run.pc = "summary" => \A f \in fetches' : f.ahead \/ f.id \in IdsOf(Readers),
         LoadsOK', FetchesOK'
  PROVE  StoreOK'
<1> USE DEF SameStrays
<1>1. Readers' = Readers /\ First' = First
  BY DEF Readers, WithReader, First
<1>2. /\ \A s : Closing(s)' = Closing(s) /\ Twin(s)' = Twin(s)
      /\ Opening' = Opening
  BY <1>1 DEF Closing, Twin, Opening, SameStrays
<1>3. ListedOK'
  BY <1>1, <1>2 DEF StoreOK, ListedOK, Reads, Behind, Excused, Distinct, SameReader
<1>4. NewOK(run.new, env.orphans)'
  BY <1>1, <1>2 DEF StoreOK, NewOK, Reads, Behind, Excused, Distinct, SameReader
<1>5. Pending' = Pending /\ Awaited' = Awaited /\ File' = File
  BY DEF Pending, Awaited, File, ReaderKind
<1>6. PendingOK'
  BY <1>1, <1>5 DEF StoreOK, PendingOK, Behind, Excused, SameReader
<1>7. HeldOK(run.new, env.orphans, Awaited)'
  BY <1>1, <1>5 DEF StoreOK, HeldOK
<1>8. BatchOK'
  BY <1>2 DEF StoreOK, BatchOK
<1>9. ClosingOK'
  BY <1>1 DEF StoreOK, ClosingOK, Shut, Behind, Reads, Excused, Distinct, SameReader, SameSource
<1> QED
  BY <1>3, <1>4, <1>6, <1>7, <1>8, <1>9 DEF StoreOK

(* What keeps the sources and the loads keeps what is said of them.        *)
LEMMA KeptLoads ==
  ASSUME LoadsOK, UNCHANGED <<sources, run, calib, loads>>, First' = First
  PROVE  LoadsOK'
<1>1. \A s : Closing(s)' = Closing(s) /\ Shared(s)' = Shared(s)
  BY DEF Closing, Shared
<1>2. \A l \in loads : Loaded(l) => Loaded(l)'
  BY <1>1 DEF Loaded
<1> QED
  BY <1>2 DEF LoadsOK, CalibrationCurrent

(* fetchChannelRange: whoever joins a fetch asks for the source it is for. *)
LEMMA FetchStep ==
  ASSUME TypeOK, PhaseOK, StoreOK, FetchChannelRange
  PROVE  StoreOK'
<1>1. PICK s \in sources :
        /\ s.kind \in {"mcap", "tabular", "recipe"} /\ s \in ReaderSource
        /\ Sends(s) \/ Joins(s)
  BY FetchIs
<1>2. /\ UNCHANGED <<sources, slab, ops, run, calib, loads>> /\ SameStrays
  BY FetchIs DEF SameStrays
<1>3. s \in Readers /\ s.kind # "mp4" /\ s.kind # "inline"
  BY <1>1 DEF Readers, WithReader
<1>4. fetches \in SUBSET CallType
  BY DEF TypeOK, CallsTypeOK
<1> DEFINE sent == [id |-> s.id, file |-> Behind(s), offset |-> s.offset, ahead |-> FALSE,
                    moved |-> FALSE, callers |-> {Asked(s, FALSE)}]
           joined(f) == [f EXCEPT !.callers = @ \cup {Asked(s, f.moved)}]
<1>5. ASSUME NEW f \in fetches
      PROVE  /\ joined(f).id = f.id /\ joined(f).file = f.file /\ joined(f).offset = f.offset
             /\ joined(f).ahead = f.ahead /\ joined(f).moved = f.moved
             /\ joined(f).callers = f.callers \cup {Asked(s, f.moved)}
  <2>1. f \in CallType
    BY <1>4
  <2> QED
    BY <2>1 DEF CallType
<1> HIDE DEF joined
(* Of a fetch that is under way afterwards: it is the new one, or has the  *)
(* id, file and offset of one before, and its callers or one more.         *)
<1>6. \A g \in fetches' :
        \/ g = sent
        \/ \E f \in fetches :
             /\ g.id = f.id /\ g.file = f.file /\ g.offset = f.offset /\ g.ahead = f.ahead
             /\ g.moved = f.moved
             /\ \/ g.callers = f.callers
                \/ f.id = s.id /\ g.callers = f.callers \cup {Asked(s, f.moved)}
  <2>1. CASE Sends(s)
    BY <2>1 DEF Sends, Behind
  <2>2. CASE Joins(s)
    <3>1. \A g \in fetches' : \E f \in fetches : g = f \/ (f.id = s.id /\ g = joined(f))
      BY <2>2 DEF Joins, joined
    <3> QED
      BY <1>5, <3>1
  <2> QED
    BY <1>1, <2>1, <2>2
<1>7. Behind(s) \in {s.file, NoFile}
  BY <1>3 DEF StoreOK, ListedOK
<1>8. /\ sent.id = s.id /\ sent.file = Behind(s) /\ sent.offset = s.offset
      /\ sent.callers = {Asked(s, FALSE)}
      /\ \A b : /\ Asked(s, b).file = s.file /\ Asked(s, b).offset = s.offset
                /\ Asked(s, b).late = b
  BY DEF Asked
<1> HIDE DEF sent
<1>9. \A f \in fetches', t \in run.new : t.id # f.id
  <2>1. \A t \in run.new : t.id # s.id
    BY <1>1, <1>3 DEF StoreOK, NewOK, Twin
  <2> QED
    BY <1>6, <1>8, <2>1 DEF StoreOK, NewOK
<1>10. run.pc = "summary" => \A f \in fetches' : f.ahead \/ f.id \in IdsOf(Readers)
  <2>1. s.id \in IdsOf(Readers)
    BY <1>3 DEF IdsOf
  <2> QED
    BY <1>6, <1>8, <2>1 DEF StoreOK, PendingOK
<1>11. LoadsOK'
  BY <1>2, KeptLoads DEF StoreOK, First
<1>12. AnswersExact'
  <2> SUFFICES ASSUME NEW g \in fetches', NEW c \in g.callers
               PROVE  g.file \in {c.file, NoFile} /\ (c.late \/ g.offset = c.offset)
    BY DEF AnswersExact
  <2>1. CASE g = sent
    BY <1>7, <1>8, <2>1
  <2>2. CASE g # sent
    <3>1. PICK f \in fetches :
            /\ g.file = f.file /\ g.offset = f.offset
            /\ \/ g.callers = f.callers
               \/ f.id = s.id /\ g.callers = f.callers \cup {Asked(s, f.moved)}
      BY <1>6, <2>2
    <3>2. CASE c \in f.callers
      BY <3>1, <3>2 DEF StoreOK, FetchesOK, AnswersExact
    <3>3. CASE c \notin f.callers
      <4>1. f.id = s.id /\ c = Asked(s, f.moved)
        BY <3>1, <3>3
      <4> QED
        BY <1>3, <1>8, <3>1, <4>1 DEF StoreOK, FetchesOK
    <3> QED
      BY <3>2, <3>3
  <2> QED
    BY <2>1, <2>2
<1>13. \A g \in fetches', t \in Readers :
         t.id = g.id => /\ g.file \in {t.file, NoFile}
                        /\ g.moved \/ g.offset = t.offset
  <2> TAKE g \in fetches', t \in Readers
  <2>1. CASE g = sent
    <3>1. t.id = s.id => t = s
      BY <1>3 DEF StoreOK, ListedOK
    <3> QED
      BY <1>7, <1>8, <2>1, <3>1
  <2>2. CASE g # sent
    BY <1>6, <2>2 DEF StoreOK, FetchesOK
  <2> QED
    BY <2>1, <2>2
<1>14. FetchesOK'
  <2>1. Readers' = Readers
    BY <1>2 DEF Readers, WithReader
  <2> QED
    BY <1>12, <1>13, <2>1 DEF FetchesOK
<1> QED
  BY <1>2, <1>9, <1>10, <1>11, <1>14, CallsStep

LEMMA AnswerStep ==
  ASSUME StoreOK, FetchAnswered
  PROVE  StoreOK'
<1>1. /\ UNCHANGED <<sources, slab, ops, run, calib, loads, env>>
      /\ \A f \in fetches' : f \in fetches
  BY DEF FetchAnswered
<1>2. Readers' = Readers
  BY <1>1 DEF Readers, WithReader
<1>3. LoadsOK'
  BY <1>1, KeptLoads DEF StoreOK, First
<1>4. FetchesOK'
  BY <1>1, <1>2 DEF StoreOK, FetchesOK, AnswersExact
<1>5. \A f \in fetches', s \in run.new : s.id # f.id
  BY <1>1 DEF StoreOK, NewOK
<1>6. run.pc = "summary" => \A f \in fetches' : f.ahead \/ f.id \in IdsOf(Readers)
  BY <1>1 DEF StoreOK, PendingOK
<1> QED
  BY <1>1, <1>3, <1>4, <1>5, <1>6, CallsStep DEF SameStrays

(* loadCalibration: until its close is sent the source reads its file.     *)
LEMMA LoadStep ==
  ASSUME TypeOK, StoreOK, LoadCalibration
  PROVE  StoreOK'
<1>1. PICK s \in sources, b \in BOOLEAN :
        /\ s.kind = "calibration" /\ s \in ReaderSource
        /\ ~b => ~Closing(s) /\ ~Shared(s)
        /\ loads' = loads \cup {[id |-> s.id, file |-> Behind(s), ahead |-> FALSE, late |-> b]}
  BY LoadIs DEF Behind
<1>2. UNCHANGED <<sources, slab, ops, run, fetches, calib>> /\ SameStrays
  BY LoadIs DEF SameStrays
<1>3. Readers' = Readers /\ First' = First
  BY <1>2 DEF Readers, WithReader, First
<1>4. \A t : Closing(t)' = Closing(t) /\ Shared(t)' = Shared(t)
  BY <1>2, <1>3 DEF Closing, Shared
<1>5. s \in Readers
  BY <1>1 DEF Readers, WithReader
<1>6. ~b => Behind(s) = s.file
  BY <1>1, <1>5 DEF StoreOK, ListedOK, Reads, Excused
<1>7. LoadsOK'
  <2>1. \A l \in loads : Loaded(l) => Loaded(l)'
    BY <1>2, <1>4 DEF Loaded
  <2>2. PICK l : l = [id |-> s.id, file |-> Behind(s), ahead |-> FALSE, late |-> b]
    OBVIOUS
  <2>3. ~b => Loaded(l)'
    BY <1>1, <1>2, <1>4, <1>6, <2>2 DEF Loaded
  <2>4. l.late = b /\ loads' = loads \cup {l}
    BY <1>1, <2>2
  <2>5. CalibrationCurrent'
    BY <1>2 DEF StoreOK, LoadsOK, CalibrationCurrent
  <2>6. \A k \in loads : k.late \/ Loaded(k)
    BY DEF StoreOK, LoadsOK
  <2> QED
    BY <2>1, <2>3, <2>4, <2>5, <2>6 DEF LoadsOK
<1>8. FetchesOK'
  BY <1>2, <1>3 DEF StoreOK, FetchesOK, AnswersExact
<1>9. \A f \in fetches', t \in run.new : t.id # f.id
  BY <1>2 DEF StoreOK, NewOK
<1>10. run.pc = "summary" => \A f \in fetches' : f.ahead \/ f.id \in IdsOf(Readers)
  BY <1>2 DEF StoreOK, PendingOK
<1> QED
  BY <1>2, <1>7, <1>8, <1>9, <1>10, CallsStep

LEMMA CachedStep ==
  ASSUME StoreOK, CalibrationAnswered
  PROVE  StoreOK'
<1>1. PICK l \in loads : loads' = loads \ {l} /\ calib' = Cached(l)
  BY DEF CalibrationAnswered
<1>2. UNCHANGED <<sources, slab, ops, run, fetches, env>>
  BY DEF CalibrationAnswered
<1>3. Readers' = Readers
  BY <1>2 DEF Readers, WithReader
<1>4. LoadsOK'
  <2>1. First' = First
    BY <1>2 DEF First
  <2>2. \A t : Closing(t)' = Closing(t) /\ Shared(t)' = Shared(t)
    BY <1>2, <2>1 DEF Closing, Shared
  <2>3. \A k \in loads : Loaded(k) => Loaded(k)'
    BY <1>2, <2>2 DEF Loaded
  <2>4. CalibrationCurrent'
    BY <1>1, <1>2 DEF StoreOK, LoadsOK, Loaded, CalibrationCurrent, Cached
  <2> QED
    BY <1>1, <2>3, <2>4 DEF StoreOK, LoadsOK
<1>5. FetchesOK'
  BY <1>2, <1>3 DEF StoreOK, FetchesOK, AnswersExact
<1>6. \A f \in fetches', s \in run.new : s.id # f.id
  BY <1>2 DEF StoreOK, NewOK
<1>7. run.pc = "summary" => \A f \in fetches' : f.ahead \/ f.id \in IdsOf(Readers)
  BY <1>2 DEF StoreOK, PendingOK
<1> QED
  BY <1>2, <1>4, <1>5, <1>6, <1>7, CallsStep DEF SameStrays
-----------------------------------------------------------------------------
(* Steps of the chain.                                                     *)

(* An operation that begins to open, or has nothing to do.                 *)
LEMMA BeginStep ==
  ASSUME StoreOK, run = NoRun, run'.new = {}, run'.pc \in {"idle", "opening"}, BatchOK',
         UNCHANGED <<sources, slab, fetches, calib, loads, env>>
  PROVE  StoreOK'
<1>1. Readers' = Readers /\ run.pc = "idle" /\ run.new = {} /\ run'.pc \notin {"closing", "summary"}
  BY NoRunIs DEF Readers, WithReader
<1>2. \A s \in Readers : ~Closing(s) /\ ~Closing(s)'
  BY <1>1 DEF Closing
<1>3. ListedOK'
  BY <1>1, <1>2 DEF StoreOK, ListedOK, Reads, Behind, Excused, Distinct, SameReader
<1>4. NewOK(run.new, env.orphans)'
  BY DEF NewOK, Distinct
<1>5. PendingOK' /\ ClosingOK'
  BY <1>1 DEF PendingOK, ClosingOK
<1>6. Awaited' = {} /\ Awaited = {}
  BY <1>1 DEF Awaited
<1>7. HeldOK(run.new, env.orphans, Awaited)'
  BY <1>1, <1>6 DEF StoreOK, HeldOK
<1>8. LoadsOK'
  BY <1>1 DEF StoreOK, LoadsOK, Loaded, Shared, CalibrationCurrent
<1>9. FetchesOK'
  BY <1>1 DEF StoreOK, FetchesOK, AnswersExact
<1> QED
  BY <1>3, <1>4, <1>5, <1>7, <1>8, <1>9 DEF StoreOK

LEMMA StartStep ==
  ASSUME TypeOK, PhaseOK, StoreOK, run.pc = "idle", ops # <<>>, StartOpen \/ StartConfirm
  PROVE  StoreOK'
<1>1. UNCHANGED <<sources, slab, fetches, calib, loads, env>> /\ run = NoRun
  BY DEF StartOpen, StartConfirm, views, PhaseOK
<1>2. CASE StartOpen
  <2>1. run'.pc = "opening" /\ run'.new = {} /\ run'.existing = sources
    BY <1>2 DEF StartOpen, NoRun
  <2>2. BatchOK'
    BY <1>1, <2>1 DEF BatchOK, IdsOf
  <2> QED
    BY <1>1, <2>1, <2>2, BeginStep
<1>3. CASE StartConfirm
  <2>1. CASE run' = NoRun
    <3>1. run'.pc = "idle" /\ run'.new = {}
      BY <2>1, NoRunIs
    <3> QED
      BY <1>1, <3>1, BeginStep DEF BatchOK, Opening
  <2>2. CASE run' # NoRun
    <3>1. run'.pc = "opening" /\ run'.new = {} /\ ops' = ops /\ First.op = "confirm"
      BY <1>3, <2>2 DEF StartConfirm, Settle, NoRun, Confirming
    <3>2. BatchOK'
      BY <3>1 DEF BatchOK, Opening, First
    <3> QED
      BY <1>1, <3>1, <3>2, BeginStep
  <2> QED
    BY <2>1, <2>2
<1> QED
  BY <1>2, <1>3

(* A reader is put under a handle that is vacant: whoever has that handle  *)
(* is excused already.                                                     *)
LEMMA OpensStep ==
  ASSUME TypeOK, PhaseOK, StoreOK, ReaderOpens
  PROVE  StoreOK'
<1>1. PICK h \in Handles, kind \in SlabKinds, f \in Files :
        /\ kind = ReaderKind(File) /\ f = File /\ slab[kind][h] = NoFile
        /\ run.pc = "opening" /\ run' = [run EXCEPT !.pc = "summary", !.handle = h]
        /\ slab' = [slab EXCEPT ![kind][h] = f]
        /\ fetches' = Ahead(fetches) /\ loads' = Ahead(loads)
        /\ UNCHANGED <<sources, ops, calib, env>>
  BY OpensIs
<1>2. /\ run'.pc = "summary" /\ run'.handle = h /\ run'.todo = run.todo /\ run'.new = run.new
      /\ run'.existing = run.existing /\ run'.closing = run.closing
  BY <1>1 DEF TypeOK, ChainTypeOK, RunType
<1>3. Readers' = Readers /\ First' = First /\ File' = f /\ ReaderKind(File)' = kind
  BY <1>1, <1>2 DEF Readers, WithReader, First, File, ReaderKind
<1>4. /\ slab \in [SlabKinds -> [Handles -> Files \cup {NoFile}]]
      /\ Readers \in SUBSET ReaderSource /\ run.new \in SUBSET ReaderSource
      /\ fetches \in SUBSET CallType /\ loads \in SUBSET LoadType
  BY SourcesAre DEF TypeOK, ListTypeOK, ChainTypeOK, CallsTypeOK, RunType, Readers, WithReader
<1>5. \A k \in SlabKinds, g \in Handles :
        slab'[k][g] = IF k = kind /\ g = h THEN f ELSE slab[k][g]
  BY <1>1, <1>4
<1>6. \A s \in ReaderSource : s.kind \in SlabKinds /\ s.handle \in Handles
                              /\ s.file # NoFile /\ s.file \in Files
  BY FilesAre DEF ReaderSource
(* Of a reader that was read before: it has another handle, or is excused. *)
<1>7. ASSUME NEW s \in ReaderSource, Reads(env.orphans, s)
      PROVE  /\ Reads(env.orphans, s)'
             /\ s.kind = kind /\ s.handle = h => Excused(env.orphans, s)
  <2>1. s.kind = kind /\ s.handle = h => Excused(env.orphans, s)
    BY <1>1, <1>6, <1>7 DEF Reads, Behind
  <2>2. Excused(env.orphans, s) => Reads(env.orphans, s)'
    BY <1>1 DEF Reads, Excused
  <2>3. ~(s.kind = kind /\ s.handle = h) => Behind(s)' = Behind(s)
    BY <1>5, <1>6 DEF Behind
  <2> QED
    BY <1>1, <1>7, <2>1, <2>2, <2>3 DEF Reads, Excused
<1>8. /\ \A s \in Readers : Reads(env.orphans, s)
      /\ \A s \in run.new : Reads(env.orphans, s)
  BY <1>1 DEF StoreOK, ListedOK, NewOK, Closing
<1>9. \A s \in Readers : s.kind # "mp4" => Behind(s)' \in {s.file, NoFile}
  <2>1. \A s \in Readers : s.kind # "mp4" => ~(s.kind = kind /\ s.handle = h)
    BY <1>4, <1>7, <1>8 DEF Excused
  <2> QED
    BY <1>4, <1>5, <1>6, <2>1 DEF StoreOK, ListedOK, Behind
<1>10. ListedOK'
  BY <1>1, <1>3, <1>4, <1>7, <1>8, <1>9 DEF StoreOK, ListedOK, Distinct, Excused, SameReader
<1>11. \A g \in fetches' : /\ g.ahead = TRUE
                           /\ \E e \in fetches : /\ g.id = e.id /\ g.file = e.file
                                                 /\ g.offset = e.offset /\ g.callers = e.callers
                                                 /\ g.moved = e.moved
  BY <1>1, <1>4, FetchesAhead
<1>12. NewOK(run.new, env.orphans)'
  <2>1. \A s \in run.new : Reads(env.orphans, s)'
    BY <1>4, <1>7, <1>8
  <2>2. \A g \in fetches', s \in run.new : s.id # g.id
    BY <1>11 DEF StoreOK, NewOK
  <2> QED
    BY <1>1, <1>2, <1>3, <2>1, <2>2 DEF StoreOK, NewOK, Distinct, Excused, SameReader, Twin
<1>13. Pending'.kind = kind /\ Pending'.handle = h /\ Pending'.file = f
  BY <1>2, <1>3 DEF Pending
<1>14. PendingOK'
  <2>1. Behind(Pending)' = f
    BY <1>1, <1>5, <1>13 DEF Behind
  <2>2. \A s \in Readers \cup run.new :
          s.kind = kind /\ s.handle = h => kind = "mp4" /\ <<"calibration", h>> \in env.orphans
    BY <1>4, <1>7, <1>8 DEF Excused
  <2> QED
    BY <1>1, <1>2, <1>3, <1>11, <1>13, <2>1, <2>2 DEF PendingOK, SameReader, Excused
<1>15. HeldOK(run.new, env.orphans, Awaited)'
  <2>1. Awaited' = {<<kind, h>>} /\ Awaited = {}
    BY <1>1, <1>2, <1>13 DEF Awaited
  <2> QED
    BY <1>1, <1>2, <1>3, <1>5, <2>1 DEF StoreOK, HeldOK
<1>16. BatchOK'
  BY <1>1, <1>2, <1>3 DEF StoreOK, BatchOK, Opening, Twin
<1>17. ClosingOK'
  BY <1>2 DEF ClosingOK
<1>18. LoadsOK'
  <2>1. \A g \in loads' : \E e \in loads : g.id = e.id /\ g.file = e.file /\ g.late = e.late
    BY <1>1, <1>4, LoadsAhead
  <2>2. \A e \in loads, g \in loads' : g.id = e.id /\ g.file = e.file /\ Loaded(e) => Loaded(g)'
    BY <1>1, <1>2 DEF Loaded, Shared
  <2> QED
    BY <1>1, <2>1, <2>2 DEF StoreOK, LoadsOK, CalibrationCurrent
<1>19. FetchesOK'
  <2>1. AnswersExact'
    BY <1>1, <1>11 DEF StoreOK, FetchesOK, AnswersExact
  <2> QED
    BY <1>1, <1>3, <1>11, <2>1 DEF StoreOK, FetchesOK
<1> QED
  BY <1>10, <1>12, <1>14, <1>15, <1>16, <1>17, <1>18, <1>19 DEF StoreOK
(* The end of a file's turn, with what has been opened by then: it is kept *)
(* apart from the sources, or joins them at the end of the operation.      *)
LEMMA TurnStep ==
  ASSUME TypeOK, PhaseOK, StoreOK, run.pc \in {"opening", "summary"},
         NEW r \in RunType, r.todo = run.todo, r.existing = run.existing,
         r.closing = run.closing, IsFiniteSet(r.new), JobDone(r),
         UNCHANGED <<slab, fetches, calib, loads>>,
         env'.lost = env.lost, env'.twins = env.twins, env.orphans \subseteq env'.orphans,
         NewOK(r.new, env'.orphans), HeldOK(r.new, env'.orphans, {})
  PROVE  StoreOK'
<1>1. \A s \in Readers : Reads(env.orphans, s)
  BY DEF StoreOK, ListedOK, Closing
<1>2. \A s : Excused(env.orphans, s) => Excused(env'.orphans, s)
  BY DEF Excused
<1>3. \A s : Behind(s)' = Behind(s) /\ Twin(s)' = Twin(s)
  BY DEF Behind, Twin
<1>4. r.new \in SUBSET ReaderSource
  BY DEF RunType
<1>5. \/ /\ run' = [r EXCEPT !.todo = Tail(run.todo), !.pc = "opening"]
         /\ First.op = "open" /\ UNCHANGED <<sources, ops>>
      \/ run' = NoRun /\ sources' = sources \cup r.new
  BY JobDoneIs
<1>6. CASE /\ run' = [r EXCEPT !.todo = Tail(run.todo), !.pc = "opening"]
           /\ First.op = "open" /\ UNCHANGED <<sources, ops>>
  <2>1. /\ run'.pc = "opening" /\ run'.new = r.new /\ run'.existing = run.existing
    BY <1>6 DEF RunType
  <2>2. Readers' = Readers /\ First' = First
    BY <1>6 DEF Readers, WithReader, First
  <2>3. ListedOK'
    BY <1>1, <1>2, <1>3, <1>6, <2>2 DEF StoreOK, ListedOK, Reads, Excused, Distinct, SameReader
  <2>4. NewOK(run.new, env.orphans)'
    BY <1>3, <1>6, <2>1, <2>2 DEF NewOK, Reads, Excused, Distinct, SameReader
  <2>5. PendingOK' /\ ClosingOK' /\ Awaited' = {}
    BY <2>1 DEF PendingOK, ClosingOK, Awaited
  <2>6. HeldOK(run.new, env.orphans, Awaited)'
    BY <2>1, <2>2, <2>5 DEF HeldOK
  <2>7. BatchOK'
    BY <1>3, <1>6, <2>1, <2>2 DEF StoreOK, BatchOK, Opening
  <2>8. LoadsOK'
    <3>1. \A l \in loads : Loaded(l) => Loaded(l)'
      BY <1>6, <2>1 DEF Loaded, Shared
    <3> QED
      BY <1>6, <3>1 DEF StoreOK, LoadsOK, CalibrationCurrent
  <2>9. FetchesOK'
    BY <2>2 DEF StoreOK, FetchesOK, AnswersExact
  <2> QED
    BY <2>3, <2>4, <2>5, <2>6, <2>7, <2>8, <2>9 DEF StoreOK
<1>7. CASE run' = NoRun /\ sources' = sources \cup r.new
  <2>1. run'.pc = "idle" /\ run'.new = {}
    BY <1>7, NoRunIs
  <2>2. Readers' = Readers \cup r.new
    <3>1. \A s \in r.new : s.kind # "inline"
      BY <1>4 DEF ReaderSource, SlabKinds
    <3> QED
      BY <1>7, <3>1 DEF Readers, WithReader
  <2>3. ListedOK'
    <3>1. \A s \in Readers' : Reads(env.orphans, s)'
      BY <1>1, <1>2, <1>3, <2>2 DEF NewOK, Reads, Excused
    <3>2. \A s \in Readers' : s.kind # "mp4" => Behind(s)' \in {s.file, NoFile}
      BY <1>3, <2>2 DEF StoreOK, ListedOK, NewOK, Reads, Excused
    <3>3. Distinct(env.orphans, Readers)'
      <4>1. \A s \in Readers, t \in r.new :
              SameReader(s, t) => Excused(env'.orphans, s) /\ Excused(env'.orphans, t)
        BY DEF NewOK, SameReader, Excused
      <4>2. \A s, t \in Readers : SameReader(s, t) => s = t \/ Excused(env'.orphans, s)
        BY <1>2 DEF StoreOK, ListedOK, Distinct
      <4>3. \A s, t \in r.new : SameReader(s, t) => s = t \/ Excused(env'.orphans, s)
        BY DEF NewOK, Distinct
      <4>4. \A s, t : SameReader(s, t) <=> SameReader(t, s)
        BY DEF SameReader
      <4>5. \A s, t \in Readers \cup r.new :
              SameReader(s, t) => s = t \/ Excused(env'.orphans, s)
        BY <4>1, <4>2, <4>3, <4>4
      <4> QED
        BY <2>2, <4>5 DEF Distinct, Excused, SameReader
    <3>4. \A s, t \in Readers' : s.id = t.id => s = t
      <4>1. \A s \in Readers, t \in r.new : s.id # t.id
        BY DEF NewOK, Readers, WithReader, Twin
      <4> QED
        BY <2>2, <4>1 DEF StoreOK, ListedOK, NewOK
    <3>5. \A s, t \in sources' : s.id = t.id => s = t \/ s.id \in env'.twins
      BY <1>7 DEF StoreOK, ListedOK, NewOK, Twin
    <3> QED
      BY <3>1, <3>2, <3>3, <3>4, <3>5 DEF ListedOK
  <2>4. NewOK(run.new, env.orphans)'
    BY <2>1 DEF NewOK, Distinct
  <2>5. PendingOK' /\ ClosingOK' /\ BatchOK' /\ Awaited' = {}
    BY <2>1 DEF PendingOK, ClosingOK, BatchOK, Opening, Awaited
  <2>6. HeldOK(run.new, env.orphans, Awaited)'
    BY <2>1, <2>2, <2>5 DEF HeldOK
  <2>7. LoadsOK'
    <3>1. ASSUME NEW l \in loads, Loaded(l)
          PROVE  Loaded(l)'
      <4>1. PICK s \in sources : s.kind = "calibration" /\ s.id = l.id /\ s.file = l.file
                                /\ ~Shared(s)
        BY <3>1 DEF Loaded
      <4>2. \A t \in r.new : t.id # s.id
        BY <4>1 DEF NewOK, Twin
      <4>3. ~Shared(s)'
        BY <1>7, <4>1, <4>2 DEF Shared
      <4> QED
        BY <1>7, <2>1, <4>1, <4>3 DEF Loaded
    <3> QED
      BY <1>7, <3>1 DEF StoreOK, LoadsOK, CalibrationCurrent
  <2>8. FetchesOK'
    BY <2>2 DEF StoreOK, NewOK, FetchesOK, AnswersExact
  <2> QED
    BY <2>3, <2>4, <2>5, <2>6, <2>7, <2>8 DEF StoreOK
<1> QED
  BY <1>5, <1>6, <1>7

(* Turns in which nothing is opened: an orphan, if any, is what was.       *)
LEMMA SkipStep ==
  ASSUME TypeOK, PhaseOK, StoreOK, FileQueued \/ OpenFails \/ SummaryFails
  PROVE  StoreOK'
<1>1. PICK r \in RunType :
        /\ r.todo = run.todo /\ r.existing = run.existing /\ r.closing = run.closing
        /\ r.new = run.new /\ JobDone(r)
  <2>1. run \in RunType
    BY DEF TypeOK, ChainTypeOK
  <2>2. CASE FileQueued
    BY <2>2, FileQueuedIs, QueuedIs
  <2>3. CASE OpenFails \/ SummaryFails
    BY <2>1, <2>3 DEF OpenFails, SummaryFails
  <2> QED
    BY <2>2, <2>3
<1>2. /\ UNCHANGED <<slab, fetches, calib, loads>> /\ run.pc \in {"opening", "summary"}
      /\ IsFiniteSet(run.new)
  BY DEF FileQueued, OpenFails, SummaryFails, views, TypeOK, ChainTypeOK
<1>3. /\ env'.lost = env.lost /\ env'.twins = env.twins
      /\ env.orphans \cup Awaited \subseteq env'.orphans
  <2>1. CASE FileQueued
    BY <2>1, FileQueuedIs DEF Awaited, TypeOK, ChainTypeOK, EnvType
  <2>2. CASE OpenFails
    BY <2>2 DEF OpenFails, Fault, Awaited, TypeOK, ChainTypeOK, EnvType
  <2>3. CASE SummaryFails
    <3>1. Awaited = {<<ReaderKind(File), run.handle>>}
      BY <2>3 DEF SummaryFails, Awaited, Pending
    <3> DEFINE O == env.orphans \cup Awaited
    <3>2. env' = [env EXCEPT !.acts = @ + 1, !.orphans = O]
      BY <2>3, <3>1 DEF SummaryFails
    <3> HIDE DEF O
    <3>3. env'.lost = env.lost /\ env'.twins = env.twins /\ env'.orphans = O
      BY <3>2 DEF TypeOK, ChainTypeOK, EnvType
    <3> QED
      BY <3>3 DEF O
  <2> QED
    BY <2>1, <2>2, <2>3
<1>4. NewOK(run.new, env'.orphans)
  BY <1>3 DEF StoreOK, NewOK, Reads, Excused, Distinct
<1>5. HeldOK(run.new, env'.orphans, {})
  BY <1>3 DEF StoreOK, HeldOK
<1> QED
  BY <1>1, <1>2, <1>3, <1>4, <1>5, TurnStep

(* The summary makes a source of the reader that waited for it.            *)
LEMMA ReturnStep ==
  ASSUME TypeOK, PhaseOK, StoreOK, SummaryReturns
  PROVE  StoreOK'
<1>1. /\ run.pc = "summary" /\ EarlierAnswered /\ JobDone(OpenedRun)
      /\ UNCHANGED <<slab, fetches, calib, loads, env>>
  BY SummaryReturnsIs DEF views
<1>2. PICK s \in ReaderSource :
        /\ s = Opened /\ s.id \notin IdsOf(Taken) /\ SameReader(s, Pending) /\ s.file = File
        /\ s.kind = Pending.kind /\ s.handle = Pending.handle
  BY <1>1, OpenedIs DEF SameReader, Pending
<1>3. /\ OpenedRun \in RunType /\ OpenedRun.todo = run.todo
      /\ OpenedRun.new = run.new \cup {s} /\ IsFiniteSet(OpenedRun.new)
      /\ OpenedRun.existing = run.existing /\ OpenedRun.closing = run.closing
  BY <1>1, <1>2, OpenedIs
<1>4. First.op \in {"open", "confirm"} /\ (First.op = "confirm" => run.new = {})
  BY <1>1 DEF PhaseOK
<1>5. \A t \in run.new : t.id # s.id
  <2>1. CASE First.op = "open"
    BY <1>2, <2>1 DEF Taken, Confirming, IdsOf
  <2> QED
    BY <1>4, <2>1
<1>6. \A t \in sources : t.id = s.id => Twin(t)
  <2>1. CASE First.op = "confirm"
    BY <1>2, <2>1 DEF Taken, Confirming, IdsOf
  <2>2. CASE First.op = "open"
    BY <1>1, <1>2, <2>2 DEF StoreOK, BatchOK, Opening, Taken, Confirming, IdsOf
  <2> QED
    BY <1>4, <2>1, <2>2
<1>7. \A f \in fetches : f.id # s.id
  <2>1. \A f \in fetches : f.id \in IdsOf(Readers)
    BY <1>1 DEF StoreOK, PendingOK, EarlierAnswered
  <2>2. \A t \in Readers : t.id # s.id
    BY <1>6 DEF Readers, WithReader, Twin
  <2> QED
    BY <2>1, <2>2 DEF IdsOf
<1>8. Behind(s) = s.file
  BY <1>1, <1>2 DEF StoreOK, PendingOK, Behind
<1>9. \A t \in Readers \cup run.new :
        SameReader(t, s) => Excused(env.orphans, t) /\ Excused(env.orphans, s)
  <2> SUFFICES ASSUME NEW t \in Readers \cup run.new, SameReader(t, s)
               PROVE  Excused(env.orphans, t) /\ Excused(env.orphans, s)
    OBVIOUS
  <2>1. SameReader(t, Pending)
    BY <1>2 DEF SameReader
  <2>2. Excused(env.orphans, Pending)
    BY <1>1, <2>1 DEF StoreOK, PendingOK
  <2> QED
    BY <1>2, <2>2 DEF Excused, SameReader
<1>10. NewOK(OpenedRun.new, env'.orphans)
  <2>1. \A t \in run.new \cup {s} : Reads(env.orphans, t)
    BY <1>8 DEF StoreOK, NewOK, Reads
  <2>2. Distinct(env.orphans, run.new \cup {s})
    <3>1. \A t, u \in run.new : SameReader(t, u) => t = u \/ Excused(env.orphans, t)
      BY DEF StoreOK, NewOK, Distinct
    <3>2. \A t : SameReader(s, t) => SameReader(t, s)
      BY DEF SameReader
    <3> QED
      BY <1>9, <3>1, <3>2 DEF Distinct
  <2>3. \A t \in Readers, u \in run.new \cup {s} : SameReader(t, u) => Excused(env.orphans, t)
    BY <1>9 DEF StoreOK, NewOK
  <2>4. \A t, u \in run.new \cup {s} : t.id = u.id => t = u
    BY <1>5 DEF StoreOK, NewOK
  <2>5. \A t \in sources, u \in run.new \cup {s} : t.id = u.id => Twin(t)
    BY <1>6 DEF StoreOK, NewOK
  <2>6. \A f \in fetches, u \in run.new \cup {s} : u.id # f.id
    BY <1>7 DEF StoreOK, NewOK
  <2> QED
    BY <1>1, <1>3, <2>1, <2>2, <2>3, <2>4, <2>5, <2>6 DEF NewOK
<1>11. HeldOK(OpenedRun.new, env'.orphans, {})
  <2>1. Awaited = {<<s.kind, s.handle>>}
    BY <1>1, <1>2 DEF Awaited
  <2> QED
    BY <1>1, <1>3, <2>1 DEF StoreOK, HeldOK
<1> QED
  BY <1>1, <1>3, <1>10, <1>11, TurnStep
-----------------------------------------------------------------------------
(* Steps that close readers, and that drop their sources.                  *)

(* Of a reader behind which something changes when s is closed: it is the  *)
(* one of s, or s is a calibration and has the handle of an mp4.           *)
LEMMA ClosedIs ==
  ASSUME TypeOK, NEW s \in ReaderSource, SendClose(s), NEW t \in ReaderSource
  PROVE  /\ Behind(t)' \in {Behind(t), NoFile}
         /\ Shut(t) \/ SameReader(t, s) => Shut(t)'
         /\ Excused(env.orphans, t) => Excused(env.orphans, t)'
         /\ Reads(env.orphans, t) /\ (SameReader(t, s) => Excused(env.orphans, t))
              => Reads(env.orphans, t)'
<1>1. /\ t.kind \in SlabKinds /\ t.handle \in Handles
      /\ s.kind \in SlabKinds /\ s.handle \in Handles
  BY DEF ReaderSource
<1>2. Behind(t)' = IF t.kind = CloseSlab(s.kind) /\ t.handle = s.handle
                   THEN NoFile ELSE Behind(t)
  BY <1>1, CloseIs DEF Behind
<1>3. env'.orphans = IF s.kind = "calibration"
                     THEN env.orphans \cup {<<s.kind, s.handle>>} ELSE env.orphans
  BY CloseIs
<1>4. s.kind # "calibration" => CloseSlab(s.kind) = s.kind
  BY DEF CloseSlab
<1>5. Excused(env.orphans, t) => Excused(env.orphans, t)'
  BY <1>3 DEF Excused
<1>6. Shut(t) \/ SameReader(t, s) => Shut(t)'
  BY <1>2, <1>3, <1>4 DEF Shut, SameReader
<1>7. ASSUME Reads(env.orphans, t), SameReader(t, s) => Excused(env.orphans, t)
      PROVE  Reads(env.orphans, t)'
  <2>1. CASE Excused(env.orphans, t)
    BY <1>5, <2>1 DEF Reads, Excused
  <2>2. CASE ~SameReader(t, s) /\ s.kind = "calibration"
    BY <1>2, <1>3, <1>7, <2>2 DEF Reads, Excused, CloseSlab
  <2>3. CASE ~SameReader(t, s) /\ s.kind # "calibration"
    BY <1>2, <1>4, <1>5, <1>7, <2>3 DEF Reads, Excused, SameReader
  <2> QED
    BY <1>7, <2>1, <2>2, <2>3
<1> QED
  BY <1>2, <1>5, <1>6, <1>7

(* W: the sources left to close before this one.                           *)
LEMMA CloseStep ==
  ASSUME TypeOK, PhaseOK, StoreOK, run.pc \in {"idle", "closing"},
         NEW s \in ReaderSource, SendClose(s), UNCHANGED <<sources, ops, calib>>,
         run'.pc = "closing", run'.new = {},
         NEW W \in SUBSET ReaderSource,
         \/ /\ First.op = "remove" /\ s \in Readers /\ s.id = First.target
            /\ run.pc = "idle"
         \/ /\ First.op = "clear" /\ s \in W /\ run'.closing = W \ {s}
            /\ \A t \in W : Reads(env.orphans, t)
            /\ Distinct(env.orphans, W)
            /\ \A t \in Readers : Shut(t) \/ \E u \in W : SameReader(t, u)
            /\ \A t \in Readers, u \in W : t.id = u.id => SameSource(t, u)
  PROVE  StoreOK'
<1>1. Readers' = Readers /\ First' = First /\ Readers \in SUBSET ReaderSource
  BY SourcesAre DEF Readers, WithReader, First, TypeOK, ListTypeOK
<1>2. /\ env'.lost = env.lost /\ env'.twins = env.twins /\ env.orphans \subseteq env'.orphans
  BY CloseIs
<1>3. \A t \in ReaderSource :
        /\ Behind(t)' \in {Behind(t), NoFile}
        /\ Shut(t) \/ SameReader(t, s) => Shut(t)'
        /\ Excused(env.orphans, t) => Excused(env'.orphans, t)
        /\ Reads(env.orphans, t) /\ (SameReader(t, s) => Excused(env.orphans, t))
             => Reads(env.orphans, t)'
  BY ClosedIs DEF Excused
<1>4. \A t, u : SameReader(t, u)' <=> SameReader(t, u)
  BY DEF SameReader
<1>5. run.new = {} /\ Awaited = {} /\ Awaited' = {}
  BY NoRunIs DEF PhaseOK, Awaited
<1>6. First.op = "remove" => \A t \in Readers : t.id = First.target <=> t = s
  BY DEF StoreOK, ListedOK
<1>7. ASSUME NEW S \in SUBSET ReaderSource, Distinct(env.orphans, S)
      PROVE  Distinct(env'.orphans, S)
  BY <1>3, <1>7 DEF Distinct
<1>8. ListedOK'
  <2>1. \A t \in Readers : Closing(t)' \/ Reads(env.orphans, t)'
    <3> SUFFICES ASSUME NEW t \in Readers, ~Closing(t)'
                 PROVE  Reads(env.orphans, t)'
      OBVIOUS
    <3>1. CASE First.op = "remove"
      <4>1. t # s /\ Reads(env.orphans, t)
        BY <1>1, <1>6, <3>1 DEF Closing, StoreOK, ListedOK
      <4>2. SameReader(t, s) => Excused(env.orphans, t)
        BY <3>1, <4>1 DEF StoreOK, ListedOK, Distinct
      <4> QED
        BY <1>1, <1>3, <4>1, <4>2
    <3>2. CASE First.op = "clear"
      <4>1. PICK u \in W : u # s /\ u.id = t.id /\ SameSource(t, u)
        BY <1>1, <3>2 DEF Closing, IdsOf
      <4>2. SameReader(u, s) => Excused(env.orphans, u)
        BY <3>2, <4>1 DEF Distinct
      <4>3. SameReader(t, s) => Excused(env.orphans, t)
        BY <4>1, <4>2 DEF SameSource, SameReader, Excused
      <4>4. Reads(env.orphans, t)
        BY <3>2, <4>1 DEF SameSource, SameReader, Excused, Reads, Behind
      <4> QED
        BY <1>1, <1>3, <4>3, <4>4
    <3> QED
      BY <3>1, <3>2
  <2>2. \A t \in Readers : t.kind # "mp4" => Behind(t)' \in {t.file, NoFile}
    BY <1>1, <1>3 DEF StoreOK, ListedOK
  <2>3. Distinct(env'.orphans, Readers)
    BY <1>1, <1>7 DEF StoreOK, ListedOK
  <2> QED
    BY <1>1, <1>2, <1>4, <2>1, <2>2, <2>3 DEF StoreOK, ListedOK, Distinct, Excused
<1>9. NewOK(run.new, env.orphans)'
  BY DEF NewOK, Distinct
<1>10. PendingOK' /\ BatchOK'
  BY DEF PendingOK, BatchOK, Opening
<1>11. HeldOK(run.new, env.orphans, Awaited)'
  <2>1. \A k \in SlabKinds, h \in Handles : slab'[k][h] # NoFile => slab[k][h] # NoFile
    BY CloseIs
  <2> QED
    BY <1>1, <1>2, <1>5, <2>1 DEF StoreOK, HeldOK
<1>12. ClosingOK'
  <2>1. First.op = "remove" => \A t \in Readers : t.id = First.target => Shut(t)'
    BY <1>1, <1>3, <1>6 DEF SameReader
  <2>2. ASSUME First.op = "clear"
        PROVE  /\ \A t \in W \ {s} : Reads(env.orphans, t)'
               /\ Distinct(env'.orphans, W \ {s})
               /\ \A t \in Readers : Shut(t)' \/ \E u \in W \ {s} : SameReader(t, u)
               /\ \A t \in Readers, u \in W \ {s} : t.id = u.id => SameSource(t, u)
    <3>1. \A t \in W \ {s} : SameReader(t, s) => Excused(env.orphans, t)
      BY <2>2 DEF Distinct
    <3>2. \A t \in W \ {s} : Reads(env.orphans, t)'
      BY <1>3, <2>2, <3>1
    <3>3. Distinct(env'.orphans, W \ {s})
      BY <1>7, <2>2 DEF Distinct
    <3>4. \A t \in Readers : Shut(t)' \/ \E u \in W \ {s} : SameReader(t, u)
      BY <1>1, <1>3, <2>2
    <3> QED
      BY <2>2, <3>2, <3>3, <3>4
  <2> QED
    BY <1>1, <1>4, <2>1, <2>2 DEF ClosingOK, Distinct, Excused, SameSource
<1>13. LoadsOK'
  <2>1. \A g \in loads' :
          /\ g.ahead = TRUE
          /\ \E e \in loads : g.id = e.id /\ g.file = e.file /\ g.late = e.late
    BY LoadsAhead DEF SendClose, TypeOK, CallsTypeOK
  <2>2. \A e \in loads, g \in loads' : g.id = e.id /\ g.file = e.file /\ Loaded(e) => Loaded(g)'
    BY <2>1 DEF Loaded, Shared
  <2> QED
    BY <2>1, <2>2 DEF StoreOK, LoadsOK, CalibrationCurrent
<1>14. FetchesOK'
  <2>1. \A g \in fetches' : \E e \in fetches : /\ g.id = e.id /\ g.file = e.file
                                               /\ g.offset = e.offset /\ g.callers = e.callers
                                               /\ g.moved = e.moved
    <3>1. fetches' = Ahead(fetches) /\ fetches \in SUBSET CallType
      BY DEF SendClose, TypeOK, CallsTypeOK
    <3>2. \A g \in Ahead(fetches) :
            \E e \in fetches : /\ g.id = e.id /\ g.file = e.file
                               /\ g.offset = e.offset /\ g.callers = e.callers
                               /\ g.moved = e.moved
      BY ONLY <3>1, FetchesAhead
    <3> QED
      BY <3>1, <3>2
  <2>2. AnswersExact'
    BY <1>2, <2>1 DEF StoreOK, FetchesOK, AnswersExact
  <2> QED
    BY <1>1, <1>2, <2>1, <2>2 DEF StoreOK, FetchesOK
<1> QED
  BY <1>8, <1>9, <1>10, <1>11, <1>12, <1>13, <1>14 DEF StoreOK
(* The source of an id goes: its reader is closed by then, and nothing     *)
(* that was loaded of it is still to come.                                 *)
LEMMA DropStep ==
  ASSUME TypeOK, StoreOK, ops # <<>>, NEW id, DropSource(id),
         UNCHANGED <<slab, fetches, loads>>, run.new = {}, Awaited = {},
         env'.orphans = env.orphans, env'.twins = env.twins, env.lost \subseteq env'.lost,
         \A s \in Readers : s.id # id => Reads(env.orphans, s),
         \A s \in Readers : s.id = id => Shut(s) \/ <<s.kind, s.handle>> \in env'.lost,
         \A l \in loads : l.late \/ l.id # id
  PROVE  StoreOK'
<1>1. /\ sources' = {s \in sources : s.id # id} /\ calib' = {c \in calib : c.id # id}
      /\ run'.pc = "idle" /\ run'.new = {}
  BY DropIs, NoRunIs
<1>2. Readers' = {s \in Readers : s.id # id} /\ Readers \in SUBSET ReaderSource
  BY <1>1, SourcesAre DEF Readers, WithReader, TypeOK, ListTypeOK
<1>3. ListedOK'
  <2>1. \A s \in Readers' : Reads(env.orphans, s)'
    BY <1>2 DEF Reads, Behind, Excused
  <2> QED
    BY <1>1, <1>2, <2>1
    DEF StoreOK, ListedOK, Behind, Distinct, Excused, SameReader
<1>4. NewOK(run.new, env.orphans)'
  BY <1>1 DEF NewOK, Distinct
<1>5. PendingOK' /\ BatchOK' /\ ClosingOK' /\ Awaited' = {}
  BY <1>1 DEF PendingOK, BatchOK, Opening, ClosingOK, Awaited
<1>6. HeldOK(run.new, env.orphans, Awaited)'
  <2> SUFFICES ASSUME NEW k \in SlabKinds, NEW h \in Handles,
                      slab[k][h] # NoFile, <<k, h>> \notin env.orphans \cup env'.lost
               PROVE  \E s \in Readers' : s.kind = k /\ s.handle = h
    BY <1>1, <1>5 DEF HeldOK
  <2>1. PICK s \in Readers : s.kind = k /\ s.handle = h
    BY DEF StoreOK, HeldOK
  <2>2. ~Shut(s) /\ <<s.kind, s.handle>> \notin env'.lost
    BY <2>1 DEF Shut, Behind
  <2> QED
    BY <1>2, <2>1, <2>2
<1>7. LoadsOK'
  <2>1. CalibrationCurrent'
    BY <1>1 DEF StoreOK, LoadsOK, CalibrationCurrent
  <2>2. \A l \in loads : l.id # id /\ Loaded(l) => Loaded(l)'
    BY <1>1 DEF Loaded, Shared
  <2> QED
    BY <2>1, <2>2 DEF StoreOK, LoadsOK
<1>8. FetchesOK'
  BY <1>2 DEF StoreOK, FetchesOK, AnswersExact
<1> QED
  BY <1>3, <1>4, <1>5, <1>6, <1>7, <1>8 DEF StoreOK

LEMMA WipeStep ==
  ASSUME TypeOK, StoreOK, ops # <<>>, Wipe,
         UNCHANGED <<slab, fetches, loads, env>>, run.new = {}, Awaited = {},
         \A s \in Readers : Shut(s),
         \A l \in loads : l.late
  PROVE  StoreOK'
<1>1. sources' = {} /\ calib' = {} /\ run'.pc = "idle" /\ run'.new = {} /\ Readers' = {}
  BY WipeIs, NoRunIs DEF Readers, WithReader
<1>2. ListedOK'
  BY <1>1 DEF ListedOK, Distinct
<1>3. NewOK(run.new, env.orphans)'
  BY <1>1 DEF NewOK, Distinct
<1>4. PendingOK' /\ BatchOK' /\ ClosingOK' /\ Awaited' = {}
  BY <1>1 DEF PendingOK, BatchOK, Opening, ClosingOK, Awaited
<1>5. HeldOK(run.new, env.orphans, Awaited)'
  <2> SUFFICES ASSUME NEW k \in SlabKinds, NEW h \in Handles, slab[k][h] # NoFile
               PROVE  <<k, h>> \in env.orphans \cup env.lost
    BY <1>4 DEF HeldOK
  <2> QED
    BY DEF StoreOK, HeldOK, Shut, Behind
<1>6. LoadsOK'
  BY <1>1 DEF LoadsOK, CalibrationCurrent
<1>7. FetchesOK'
  BY <1>1 DEF StoreOK, FetchesOK, AnswersExact
<1> QED
  BY <1>2, <1>3, <1>4, <1>5, <1>6, <1>7 DEF StoreOK

LEMMA RemoveStep ==
  ASSUME TypeOK, PhaseOK, StoreOK, run.pc = "idle", ops # <<>>, StartRemove
  PROVE  StoreOK'
<1>1. run = NoRun /\ run.new = {} /\ Awaited = {}
  BY NoRunIs DEF PhaseOK, Awaited
<1>2. \A s \in Readers : Reads(env.orphans, s)
  BY DEF StoreOK, ListedOK, Closing
<1>3. First.op = "remove"
  BY DEF StartRemove
<1>4. CASE {s \in sources : s.id = First.target} = {}
  <2>1. run' = NoRun /\ UNCHANGED <<sources, slab, fetches, calib, loads, env>>
    BY <1>4 DEF StartRemove, Settle, views
  <2>2. run'.pc = "idle" /\ run'.new = {}
    BY <2>1, NoRunIs
  <2>3. BatchOK'
    BY <2>2 DEF BatchOK, Opening
  <2> QED
    BY <1>1, <2>1, <2>2, <2>3, BeginStep
<1>5. CASE {s \in sources : s.id = First.target} # {}
  <2>1. PICK s \in sources :
          /\ s.id = First.target
          /\ IF s.kind = "inline"
             THEN /\ DropSource(s.id)
                  /\ env' = [env EXCEPT !.lost = @ \cup ReadersNamed(s.id)]
                  /\ UNCHANGED <<slab, fetches, loads>>
             ELSE /\ SendClose(s)
                  /\ run' = [NoRun EXCEPT !.pc = "closing", !.closing = {s}]
                  /\ UNCHANGED <<sources, ops, calib>>
    BY <1>5 DEF StartRemove
  <2>2. s \in SourceType
    BY DEF TypeOK, ListTypeOK
  <2>3. CASE s.kind = "inline"
    <3>1. /\ env'.orphans = env.orphans /\ env'.twins = env.twins
          /\ env'.lost = env.lost \cup ReadersNamed(s.id)
      BY <2>1, <2>3, LostIs
    <3>2. \A t \in Readers : t.id = s.id => <<t.kind, t.handle>> \in env'.lost
      BY <3>1 DEF ReadersNamed, Readers
    <3>3. \A l \in loads : l.late \/ l.id # s.id
      BY <2>3 DEF StoreOK, LoadsOK, Loaded, Shared
    <3> QED
      BY <1>1, <1>2, <2>1, <2>3, <3>1, <3>2, <3>3, DropStep
  <2>4. CASE s.kind # "inline"
    <3>1. s \in ReaderSource /\ s \in Readers
      BY <2>2, <2>4, SourcesAre DEF Readers, WithReader
    <3>2. run'.pc = "closing" /\ run'.new = {}
      BY <2>1, <2>4 DEF NoRun
    <3> QED
      BY <1>3, <2>1, <2>4, <3>1, <3>2, CloseStep
  <2> QED
    BY <2>3, <2>4
<1> QED
  BY <1>4, <1>5

LEMMA RemovedStep ==
  ASSUME TypeOK, PhaseOK, StoreOK, Removed
  PROVE  StoreOK'
<1>1. /\ run.pc = "closing" /\ First.op = "remove" /\ EarlierAnswered
      /\ DropSource(First.target) /\ UNCHANGED <<slab, fetches, loads, env>>
  BY DEF Removed
<1>2. ops # <<>> /\ run.new = {} /\ Awaited = {}
  BY <1>1 DEF PhaseOK, Awaited
<1>3. \A s \in Readers : s.id # First.target => Reads(env.orphans, s)
  BY <1>1 DEF StoreOK, ListedOK, Closing
<1>4. \A s \in Readers : s.id = First.target => Shut(s)
  BY <1>1 DEF StoreOK, ClosingOK
<1>5. \A l \in loads : l.late \/ l.id # First.target
  BY <1>1 DEF StoreOK, LoadsOK, Loaded, Closing, EarlierAnswered
<1> QED
  BY <1>1, <1>2, <1>3, <1>4, <1>5, DropStep

LEMMA ClearStep ==
  ASSUME TypeOK, PhaseOK, StoreOK, run.pc = "idle", ops # <<>>, StartClear
  PROVE  StoreOK'
<1>1. run = NoRun /\ run.new = {} /\ Awaited = {}
  BY NoRunIs DEF PhaseOK, Awaited
<1>2. \A s \in Readers : Reads(env.orphans, s)
  BY DEF StoreOK, ListedOK, Closing
<1>3. First.op = "clear" /\ Readers \in SUBSET ReaderSource
  BY SourcesAre DEF StartClear, Readers, WithReader, TypeOK, ListTypeOK
<1>4. CASE Readers = {}
  <2>1. Wipe /\ UNCHANGED <<slab, fetches, loads, env>>
    BY <1>4 DEF StartClear, Readers
  <2>2. \A l \in loads : l.late
    <3>1. \A s \in sources : s.kind # "calibration"
      BY <1>4 DEF Readers, WithReader
    <3> QED
      BY <3>1 DEF StoreOK, LoadsOK, Loaded
  <2> QED
    BY <1>1, <1>4, <2>1, <2>2, WipeStep
<1>5. CASE Readers # {}
  <2>1. PICK s \in Readers :
          /\ SendClose(s)
          /\ run' = [NoRun EXCEPT !.pc = "closing", !.closing = Readers \ {s}]
          /\ UNCHANGED <<sources, ops, calib>>
    BY <1>5 DEF StartClear, Readers
  <2>2. run'.pc = "closing" /\ run'.new = {} /\ run'.closing = Readers \ {s}
    BY <2>1 DEF NoRun
  <2>3. \A t \in Readers : SameReader(t, t)
    BY DEF SameReader
  <2>4. Distinct(env.orphans, Readers)
    BY DEF StoreOK, ListedOK
  <2>5. \A t, u \in Readers : t.id = u.id => SameSource(t, u)
    BY DEF StoreOK, ListedOK, SameSource, SameReader
  <2> QED
    BY <1>2, <1>3, <2>1, <2>2, <2>3, <2>4, <2>5, CloseStep
<1> QED
  BY <1>4, <1>5

LEMMA ClearClosesStep ==
  ASSUME TypeOK, PhaseOK, StoreOK, ClearCloses
  PROVE  StoreOK'
<1>1. run.pc = "closing" /\ First.op = "clear" /\ EarlierAnswered
  BY DEF ClearCloses
<1>2. ops # <<>> /\ run.new = {} /\ Awaited = {}
  BY <1>1 DEF PhaseOK, Awaited
<1>3. /\ \A s \in run.closing : Reads(env.orphans, s)
      /\ Distinct(env.orphans, run.closing)
      /\ \A s \in Readers : Shut(s) \/ \E t \in run.closing : SameReader(s, t)
      /\ \A s \in Readers, t \in run.closing : s.id = t.id => SameSource(s, t)
  BY <1>1 DEF StoreOK, ClosingOK
<1>4. run \in RunType /\ run.closing \in SUBSET ReaderSource
  BY DEF TypeOK, ChainTypeOK, RunType
<1>5. CASE run.closing = {}
  <2>1. Wipe /\ UNCHANGED <<slab, fetches, loads, env>>
    BY <1>5 DEF ClearCloses
  <2>2. \A s \in Readers : Shut(s)
    BY <1>3, <1>5
  <2>3. \A l \in loads : l.late
    BY <1>1, <1>5 DEF StoreOK, LoadsOK, Loaded, Closing, IdsOf, EarlierAnswered
  <2> QED
    BY <1>2, <2>1, <2>2, <2>3, WipeStep
<1>6. CASE run.closing # {}
  <2>1. PICK s \in run.closing :
          /\ SendClose(s) /\ run' = [run EXCEPT !.closing = run.closing \ {s}]
          /\ UNCHANGED <<sources, ops, calib>>
    BY <1>6 DEF ClearCloses
  <2>2. run'.pc = "closing" /\ run'.new = {} /\ run'.closing = run.closing \ {s}
    BY <1>1, <1>2, <1>4, <2>1 DEF RunType
  <2> QED
    BY <1>1, <1>3, <1>4, <2>1, <2>2, CloseStep
<1> QED
  BY <1>5, <1>6
LEMMA StoreStep ==
  ASSUME TypeOK, PhaseOK, StoreOK, [Next]_vars
  PROVE  StoreOK'
<1>1. CASE StartOp
  BY <1>1, StartStep, RemoveStep, ClearStep DEF StartOp
<1>2. CASE FileQueued \/ OpenFails \/ SummaryFails
  BY <1>2, SkipStep
<1>3. CASE ReaderOpens
  BY <1>3, OpensStep
<1>4. CASE SummaryReturns
  BY <1>4, ReturnStep
<1>5. CASE Removed
  BY <1>5, RemovedStep
<1>6. CASE ClearCloses
  BY <1>6, ClearClosesStep
<1>7. CASE OpenFiles \/ OpenUrl \/ ConfirmImport \/ RemoveSource \/ Clear
  <2>1. Requests
    BY <1>7, RequestsAre
  <2>2. UNCHANGED <<sources, slab, run, fetches, calib, loads>> /\ SameStrays
    BY <2>1, ActedIs DEF Requests, SameStrays, views
  <2>3. run.pc # "idle" => First' = First
    BY <2>1, PhaseKept DEF Requests
  <2> QED
    BY <2>2, <2>3, QuietStep
<1>8. CASE CancelImport \/ Scrub \/ Bind
  <2>1. UNCHANGED <<sources, slab, run, fetches, calib, loads>> /\ First' = First /\ Counted
    BY <1>8 DEF CancelImport, Scrub, Bind, First, views
  <2> QED
    BY <2>1, ActedIs, QuietStep DEF SameStrays
<1>9. CASE AddInlineSource
  BY <1>9, InlineStep
<1>10. CASE SetSourceOffset
  BY <1>10, OffsetStep
<1>11. CASE FetchChannelRange \/ FetchAnswered
  BY <1>11, FetchStep, AnswerStep
<1>12. CASE LoadCalibration \/ CalibrationAnswered
  BY <1>12, LoadStep, CachedStep
<1>13. CASE UNCHANGED vars
  BY <1>13, QuietStep DEF vars, SameStrays, First
<1> QED
  BY <1>1, <1>2, <1>3, <1>4, <1>5, <1>6, <1>7, <1>8, <1>9, <1>10, <1>11, <1>12, <1>13
  DEF Next, ChainStep, Beside
-----------------------------------------------------------------------------
(* The cursor and the bindings, which follow the sources that are listed.  *)

Keeps == UNCHANGED <<sources, cursor, bound>>

Lists(N) ==
  /\ sources' = sources \cup N /\ UNCHANGED bound
  /\ cursor' = IF N = {} THEN cursor ELSE Seated(cursor, sources')

LEMMA ListingIs ==
  ASSUME TypeOK, PhaseOK, [Next]_vars
  PROVE  \/ Keeps
         \/ \E N : Lists(N)
         \/ ops # <<>> /\ \E id : DropSource(id)
         \/ ops # <<>> /\ Wipe
         \/ Scrub
         \/ Bind
         \/ SetSourceOffset
<1> USE DEF Keeps, Lists
<1>1. CASE StartOp
  <2>1. ops # <<>>
    BY <1>1 DEF StartOp
  <2>2. CASE StartOpen \/ StartConfirm
    BY <2>2 DEF StartOpen, StartConfirm, views
  <2>3. CASE StartRemove
    BY <2>1, <2>3 DEF StartRemove, views
  <2>4. CASE StartClear
    BY <2>1, <2>4 DEF StartClear
  <2> QED
    BY <1>1, <2>2, <2>3, <2>4 DEF StartOp
<1>2. CASE FileQueued \/ OpenFails \/ SummaryReturns \/ SummaryFails
  <2>1. UNCHANGED bound /\ run.pc \in {"opening", "summary"}
    BY <1>2 DEF FileQueued, OpenFails, SummaryReturns, SummaryFails, views
  <2>2. PICK r \in RunType : r.todo = run.todo /\ IsFiniteSet(r.new) /\ JobDone(r)
    <3>1. run \in RunType /\ IsFiniteSet(run.new)
      BY DEF TypeOK, ChainTypeOK
    <3>2. CASE FileQueued
      BY <3>1, <3>2, FileQueuedIs, QueuedIs
    <3>3. CASE OpenFails \/ SummaryFails
      BY <3>1, <3>3 DEF OpenFails, SummaryFails
    <3>4. CASE SummaryReturns
      BY <3>4, SummaryReturnsIs, OpenedIs
    <3> QED
      BY <1>2, <3>2, <3>3, <3>4
  <2>3. \/ UNCHANGED <<sources, cursor>>
        \/ /\ sources' = sources \cup r.new
           /\ cursor' = IF r.new = {} THEN cursor ELSE Seated(cursor, sources \cup r.new)
    BY <2>1, <2>2, JobDoneIs
  <2> QED
    BY <2>1, <2>3
<1>3. CASE ReaderOpens
  BY <1>3 DEF ReaderOpens
<1>4. CASE Removed \/ ClearCloses
  <2>1. ops # <<>>
    BY <1>4 DEF Removed, ClearCloses, PhaseOK
  <2> QED
    BY <1>4, <2>1 DEF Removed, ClearCloses
<1>5. CASE OpenFiles \/ OpenUrl \/ ConfirmImport \/ RemoveSource \/ Clear
  BY <1>5, RequestsAre DEF Requests, views
<1>6. CASE AddInlineSource
  <2>1. PICK s \in InlineSource :
          sources' = sources \cup {s} /\ cursor' = Seated(cursor, sources \cup {s})
    BY <1>6, InlineIs
  <2>2. UNCHANGED bound
    BY <1>6, InlineIs
  <2>3. Lists({s})
    BY <2>1, <2>2
  <2> QED
    BY <2>3
<1>7. CASE CancelImport \/ FetchChannelRange \/ FetchAnswered \/ LoadCalibration
           \/ CalibrationAnswered \/ UNCHANGED vars
  BY <1>7 DEF CancelImport, FetchChannelRange, FetchAnswered, LoadCalibration,
              CalibrationAnswered, vars, views
<1> QED
  BY <1>1, <1>2, <1>3, <1>4, <1>5, <1>6, <1>7 DEF Next, ChainStep, Beside

(* An offset moves no source's span.                                       *)
LEMMA OffsetSpan ==
  ASSUME TypeOK, SetSourceOffset
  PROVE  /\ Spanned(sources') # {} => Spanned(sources) # {}
         /\ StartNs(sources') = StartNs(sources) /\ EndNs(sources') = EndNs(sources)
         /\ IdsOf(sources') = IdsOf(sources)
<1>1. PICK id \in Ids, o \in Int :
        sources' = {IF t.id = id THEN [t EXCEPT !.offset = o] ELSE t : t \in sources}
  BY OffsetIs
<1> DEFINE Off(t) == IF t.id = id THEN [t EXCEPT !.offset = o] ELSE t
<1>2. \A t \in sources : /\ Off(t).id = t.id /\ Off(t).file = t.file /\ Off(t).kind = t.kind
  <2>1. sources \in SUBSET SourceType
    BY DEF TypeOK, ListTypeOK
  <2> QED
    BY <2>1 DEF SourceType, ReaderSource, InlineSource
<1>3. sources' = {Off(t) : t \in sources}
  BY <1>1
<1> HIDE DEF Off
<1>4. \A t \in Spanned(sources) : Off(t) \in Spanned(sources')
  BY <1>2, <1>3 DEF Spanned
<1>5. \A u \in Spanned(sources') : \E t \in Spanned(sources) : u.file = t.file
  BY <1>2, <1>3 DEF Spanned
<1>6. {s.file.lo : s \in Spanned(sources')} = {s.file.lo : s \in Spanned(sources)}
  BY <1>2, <1>4, <1>5 DEF Spanned
<1>7. {s.file.hi : s \in Spanned(sources')} = {s.file.hi : s \in Spanned(sources)}
  BY <1>2, <1>4, <1>5 DEF Spanned
<1>8. IdsOf(sources') = IdsOf(sources)
  BY <1>2, <1>3 DEF IdsOf
<1> QED
  BY <1>5, <1>6, <1>7, <1>8 DEF StartNs, EndNs

LEMMA CursorStep ==
  ASSUME TypeOK, PhaseOK, CursorInRange, [Next]_vars
  PROVE  CursorInRange'
<1>1. /\ sources' \in SUBSET SourceType /\ IsFiniteSet(sources') /\ cursor \in Nat
  BY TypeStep DEF TypeOK, ListTypeOK
<1>2. CASE Keeps
  BY <1>2 DEF Keeps, CursorInRange
<1>3. CASE \E N : Lists(N)
  <2>1. PICK N : Lists(N)
    BY <1>3
  <2>2. CASE N = {}
    BY <2>1, <2>2 DEF Lists, CursorInRange
  <2>3. CASE N # {}
    BY <1>1, <2>1, <2>3, CursorIs DEF Lists, CursorInRange
  <2> QED
    BY <2>2, <2>3
<1>4. CASE \E id : DropSource(id)
  BY <1>1, <1>4, CursorIs DEF DropSource, CursorInRange
<1>5. CASE Wipe
  BY <1>5 DEF Wipe, CursorInRange, Spanned
<1>6. CASE Scrub
  <2>1. PICK c \in 0..3 : cursor' = IF Spanned(sources) = {} THEN c ELSE Clamped(c, sources)
    BY <1>6 DEF Scrub
  <2>2. c \in Nat /\ sources' = sources
    BY <1>6 DEF Scrub
  <2> QED
    BY <1>1, <2>1, <2>2, CursorIs DEF CursorInRange
<1>7. CASE Bind
  BY <1>7 DEF Bind, CursorInRange
<1>8. CASE SetSourceOffset
  BY <1>8, OffsetSpan DEF SetSourceOffset, CursorInRange
<1> QED
  BY <1>2, <1>3, <1>4, <1>5, <1>6, <1>7, <1>8, ListingIs

LEMMA BindingsStep ==
  ASSUME TypeOK, PhaseOK, BindingsListed, [Next]_vars
  PROVE  BindingsListed'
<1>1. ASSUME UNCHANGED bound, IdsOf(sources) \subseteq IdsOf(sources')
      PROVE  BindingsListed'
  BY <1>1 DEF BindingsListed
<1>2. CASE Keeps
  BY <1>1, <1>2 DEF Keeps
<1>3. CASE \E N : Lists(N)
  BY <1>1, <1>3 DEF Lists, IdsOf
<1>4. CASE ops # <<>> /\ \E id : DropSource(id)
  <2>1. PICK id : DropSource(id)
    BY <1>4
  <2>2. sources' = {s \in sources : s.id # id} /\ bound' = [p \in Panels |-> bound[p] \ {id}]
    BY <1>4, <2>1, DropIs
  <2> QED
    BY <2>2 DEF BindingsListed, IdsOf
<1>5. CASE Wipe
  BY <1>5 DEF Wipe, BindingsListed
<1>6. CASE Scrub
  BY <1>1, <1>6 DEF Scrub, views
<1>7. CASE Bind
  BY <1>7 DEF Bind, BindingsListed, IdsOf, TypeOK, ListTypeOK
<1>8. CASE SetSourceOffset
  BY <1>1, <1>8, OffsetSpan DEF SetSourceOffset, views
<1> QED
  BY <1>2, <1>3, <1>4, <1>5, <1>6, <1>7, <1>8, ListingIs
-----------------------------------------------------------------------------
LEMMA InitOK ==
  ASSUME Init
  PROVE  IInv
<1>1. /\ sources = {} /\ inline = {} /\ cursor = 0 /\ ops = <<>> /\ run = NoRun
      /\ slab = [k \in SlabKinds |-> [h \in Handles |-> NoFile]]
      /\ imports = {} /\ recipes = {} /\ bound = [p \in Panels |-> {}]
      /\ fetches = {} /\ calib = {} /\ loads = {}
  BY DEF Init
<1>2. env \in EnvType
  BY DEF Init, EnvType
<1>3. Readers = {} /\ run.pc = "idle" /\ run.new = {}
  BY <1>1, NoRunIs DEF Readers, WithReader
<1>4. TypeOK
  BY <1>1, <1>2, NoRunIs, FS_EmptySet DEF TypeOK, ListTypeOK, ChainTypeOK, CallsTypeOK
<1>5. PhaseOK
  BY <1>1, <1>3 DEF PhaseOK
<1>6. ListedOK /\ NewOK(run.new, env.orphans)
  BY <1>1, <1>3 DEF ListedOK, NewOK, Distinct
<1>7. PendingOK /\ BatchOK /\ ClosingOK
  BY <1>3 DEF PendingOK, BatchOK, Opening, ClosingOK
<1>8. HeldOK(run.new, env.orphans, Awaited)
  BY <1>1 DEF HeldOK
<1>9. LoadsOK /\ FetchesOK
  BY <1>1 DEF LoadsOK, CalibrationCurrent, FetchesOK, AnswersExact
<1>10. CursorInRange
  BY <1>1 DEF CursorInRange, Spanned
<1>11. BindingsListed
  BY <1>1 DEF BindingsListed
<1> QED
  BY <1>4, <1>5, <1>6, <1>7, <1>8, <1>9, <1>10, <1>11 DEF IInv, StoreOK

LEMMA StepOK ==
  ASSUME IInv, [Next]_vars
  PROVE  IInv'
<1>1. TypeOK /\ PhaseOK /\ StoreOK /\ CursorInRange /\ BindingsListed
  BY DEF IInv
<1>2. TypeOK' /\ PhaseOK'
  BY <1>1, TypeStep, PhaseStep
<1>3. StoreOK'
  BY <1>1, StoreStep
<1>4. CursorInRange' /\ BindingsListed'
  BY <1>1, CursorStep, BindingsStep
<1> QED
  BY <1>2, <1>3, <1>4 DEF IInv

(* The strengthening that the theorems below rest on holds in every state  *)
(* of every session.                                                       *)
THEOREM StoreInductive ==
  Spec => []IInv
<1>1. Init => IInv
  BY InitOK
<1>2. IInv /\ [Next]_vars => IInv'
  BY StepOK
<1> QED
  BY <1>1, <1>2, PTL DEF Spec

(* The state of the store keeps its types: readers sit in the slabs, what  *)
(* is listed has a file and a handle, and what waits is an operation.      *)
THEOREM StoreTypeOK ==
  Spec => []TypeOK
<1>1. IInv => TypeOK
  BY DEF IInv
<1> QED
  BY <1>1, StoreInductive, PTL

(* A listed source can be read until its close is sent: whatever is opened *)
(* and closed in between, its handle is still that of its own file.        *)
THEOREM ListedAreReadable ==
  Spec => []SourcesReadable
<1>1. IInv => SourcesReadable
  BY DEF IInv, StoreOK, ListedOK, SourcesReadable, Readers, Reads, Behind, Excused
<1> QED
  BY <1>1, StoreInductive, PTL

(* No reader is left behind in the worker: each one it holds belongs to a  *)
(* source that is listed or being opened, but for the orphans the code     *)
(* makes itself.                                                           *)
THEOREM HeldAreOwned ==
  Spec => []ReadersOwned
<1>1. ASSUME IInv
      PROVE  ReadersOwned
  <2> SUFFICES ASSUME NEW k \in SlabKinds, NEW h \in Handles,
                      slab[k][h] # NoFile, <<k, h>> \notin env.orphans \cup env.lost
               PROVE  <<k, h>> \in Owned
    BY DEF ReadersOwned
  <2>1. \/ <<k, h>> \in Awaited
        \/ \E s \in Readers \cup run.new : s.kind = k /\ s.handle = h
    BY <1>1 DEF IInv, StoreOK, HeldOK
  <2>2. CASE <<k, h>> \in Awaited
    BY <2>2 DEF Awaited, Owned, Pending
  <2>3. CASE \E s \in Readers \cup run.new : s.kind = k /\ s.handle = h
    <3>1. Readers \cup run.new = WithReader(sources \cup run.new)
      <4>1. \A s \in run.new : s.kind # "inline"
        <5>1. run.new \in SUBSET ReaderSource
          BY <1>1 DEF IInv, TypeOK, ChainTypeOK, RunType
        <5> QED
          BY <5>1 DEF ReaderSource, SlabKinds
      <4> QED
        BY <4>1 DEF Readers, WithReader
    <3> QED
      BY <2>3, <3>1 DEF Owned
  <2> QED
    BY <2>1, <2>2, <2>3
<1> QED
  BY <1>1, StoreInductive, PTL

(* Two files never have one id, in whatever order they are opened,         *)
(* imported, removed and opened again, and no file has that of an inline   *)
(* source but one that was taken while a batch was being opened.           *)
THEOREM IdsAreUnique ==
  Spec => []IdsUnique
<1>1. ASSUME IInv
      PROVE  IdsUnique
  <2> SUFFICES ASSUME NEW s \in sources \cup run.new, NEW t \in sources \cup run.new,
                      s.id = t.id, s # t
               PROVE  s.id \in env.twins /\ "inline" \in {s.kind, t.kind}
    BY DEF IdsUnique
  <2>1. \A u \in sources, v \in run.new : u.id = v.id => Twin(u)
    BY <1>1 DEF IInv, StoreOK, NewOK
  <2>2. CASE s \in sources /\ t \in sources
    BY <1>1, <2>2 DEF IInv, StoreOK, ListedOK, Readers, WithReader
  <2>3. CASE s \in run.new /\ t \in run.new
    BY <1>1, <2>3 DEF IInv, StoreOK, NewOK
  <2> QED
    BY <2>1, <2>2, <2>3 DEF Twin
<1> QED
  BY <1>1, StoreInductive, PTL

(* A calibration loaded of a listed source that nobody shares an id with   *)
(* and whose close has not been sent is cached for as long as that source  *)
(* is listed and no longer, whatever is closed before it is answered.      *)
THEOREM CachedAreCurrent ==
  Spec => []CalibrationCurrent
<1>1. IInv => CalibrationCurrent
  BY DEF IInv, StoreOK, LoadsOK
<1> QED
  BY <1>1, StoreInductive, PTL

(* A fetch answers with the file and the offset its channel had for each   *)
(* caller when it asked, also if the offset is set anew before the answer; *)
(* only who joins the fetch after that gets the offset of before.          *)
THEOREM AnswersAreExact ==
  Spec => []AnswersExact
<1>1. IInv => AnswersExact
  BY DEF IInv, StoreOK, FetchesOK
<1> QED
  BY <1>1, StoreInductive, PTL

(* The cursor stays in the range of the sources.                           *)
THEOREM CursorStaysInRange ==
  Spec => []CursorInRange
<1>1. IInv => CursorInRange
  BY DEF IInv
<1> QED
  BY <1>1, StoreInductive, PTL

(* Panels are bound to nothing but channels of sources that are listed.    *)
THEOREM BoundAreListed ==
  Spec => []BindingsListed
<1>1. IInv => BindingsListed
  BY DEF IInv
<1> QED
  BY <1>1, StoreInductive, PTL

-----------------------------------------------------------------------------
-----------------------------------------------------------------------------
(* A handle is a reader of its file from the answer to the open until the  *)
(* close is handled.  So whatever refers to one, a handle the main thread  *)
(* has or a message on the port, finds the file it was made for; what is   *)
(* free is in no list twice, and no two readers or calls have one copy.    *)
CopyNumbers == 1..CoreCalls

ReaderType  == [file : CoreFiles \cup {Core!Nobody.file}, copy : CopyNumbers \cup {0}]
MessageType == [op : {"open", "inspect", "fetch", "close"}, file : CoreFiles, handle : Nat]
ReadType    == [op : {"open", "inspect", "remove"}, file : CoreFiles, copy : CopyNumbers \cup {0},
                n : Int]
BackingType == [handle : Nat, copy : CopyNumbers]
HandleType  == [file : CoreFiles, handle : Nat]

SlabsType ==
  /\ readers \in [Core!Kinds -> Seq(ReaderType)]
  /\ vacant \in [Core!Kinds -> Seq(Nat)]

CoreTypeOK ==
  /\ port \in Seq(MessageType) /\ made \in 0..CoreCalls
  /\ calls \subseteq ReadType
  /\ SlabsType
  /\ backings \in [Core!Kinds -> SUBSET BackingType]
  /\ disk \subseteq CopyNumbers /\ access \subseteq CopyNumbers
  /\ held \subseteq HandleType

SlotsOK ==
  \A k \in Core!Kinds, h \in Nat :
    Core!At(k, h) # Core!Nobody =>
      Core!At(k, h).file \in CoreFiles /\ CoreKind[Core!At(k, h).file] = k

VacantOK ==
  \A k \in Core!Kinds : \A i \in 1..Len(vacant[k]) :
    /\ vacant[k][i] < Len(readers[k]) /\ Core!At(k, vacant[k][i]) = Core!Nobody
    /\ \A j \in 1..Len(vacant[k]) : vacant[k][i] = vacant[k][j] => i = j

Refers(m) == m.op \in {"fetch", "close"}

ReaderOf(m) == Core!At(CoreKind[m.file], m.handle)

OneReader(x, y) == CoreKind[x.file] = CoreKind[y.file] /\ x.handle = y.handle

(* A close is the last message about its reader.                           *)
PortOK ==
  /\ \A i \in 1..Len(port) : Refers(port[i]) => ReaderOf(port[i]).file = port[i].file
  /\ \A i, j \in 1..Len(port) :
       Refers(port[i]) /\ port[j].op = "close" /\ OneReader(port[i], port[j]) => i <= j

HandlesOK ==
  \A e \in held :
    /\ ReaderOf(e).file = e.file
    /\ \A j \in 1..Len(port) : port[j].op = "close" => ~ OneReader(e, port[j])

BackingsOK ==
  /\ \A k \in Core!Kinds : \A b \in backings[k] : Core!At(k, b.handle).copy = b.copy
  /\ \A k \in Core!Kinds, h \in Nat :
       Core!At(k, h).copy # 0 => [handle |-> h, copy |-> Core!At(k, h).copy] \in backings[k]

Owns(c) == \E k \in Core!Kinds, h \in Nat : Core!At(k, h).copy = c

CopyOK ==
  /\ \A k, l \in Core!Kinds, h, g \in Nat :
       Core!At(k, h).copy # 0 /\ Core!At(k, h).copy = Core!At(l, g).copy => k = l /\ h = g
  /\ \A c, d \in calls : c.copy # 0 /\ c.copy = d.copy => c = d
  /\ \A c \in calls : c.copy # 0 => ~ Owns(c.copy)

DiskOK ==
  /\ access = {c \in CopyNumbers : Owns(c)}
  /\ \A c \in calls : c.copy # 0 => c.copy \in disk
  /\ \A c \in CopyNumbers : Owns(c) => c \in disk
  /\ \A c \in disk : Owns(c) \/ c \in Core!Busy \/ c \in lost

(* A copy is made by a message of its own.                                 *)
CountOK == IsFiniteSet(disk) /\ Cardinality(disk) + Len(port) <= made

CoreInv ==
  /\ CoreTypeOK /\ SlotsOK /\ VacantOK /\ PortOK /\ HandlesOK /\ BackingsOK
  /\ CopyOK /\ DiskOK /\ CountOK /\ answer.read = answer.asked

-----------------------------------------------------------------------------
LEMMA CoreConstantsAre ==
  /\ CoreCalls \in Nat /\ \A f \in CoreFiles : CoreKind[f] \in Core!Kinds /\ f # Core!Nobody.file
  /\ Core!Nobody \in ReaderType /\ Core!Nobody.copy = 0
  BY CoreConstants DEF Core!CoreAssumption, Core!Kinds, ReaderType, Core!Nobody

LEMMA SlotType ==
  ASSUME SlabsType, NEW k \in Core!Kinds, NEW h \in Nat
  PROVE  /\ Core!At(k, h) \in ReaderType
         /\ h >= Len(readers[k]) => Core!At(k, h) = Core!Nobody
<1>1. readers[k] \in Seq(ReaderType) /\ Core!Nobody \in ReaderType
  BY CoreConstantsAre DEF SlabsType
<1>2. h < Len(readers[k]) => readers[k][h + 1] \in ReaderType
  BY <1>1
<1> QED
  BY <1>1, <1>2 DEF Core!At

LEMMA FrontIs ==
  ASSUME NEW s \in Seq(Nat), s # <<>>
  PROVE  /\ Core!Front(s) \in Seq(Nat) /\ Len(Core!Front(s)) = Len(s) - 1
         /\ \A i \in 1..(Len(s) - 1) : Core!Front(s)[i] = s[i]
<1>1. Core!Front(s) = SubSeq(s, 1, Len(s) - 1)
  BY DEF Core!Front
<1>2. PICK n \in Nat : n = Len(s) - 1
  OBVIOUS
<1>3. n \in 0..Len(s) /\ \A i \in 1..Len(s) : s[i] \in Nat
  BY <1>2
<1>4. /\ SubSeq(s, 1, n) \in Seq(Nat) /\ Len(SubSeq(s, 1, n)) = n
      /\ \A i \in 1..n : SubSeq(s, 1, n)[i] = s[i]
  BY <1>3
<1> QED
  BY <1>1, <1>2, <1>4

(* One slot of one slab changes.                                           *)
Puts(k, h, r) ==
  \A l \in Core!Kinds, g \in Nat : Core!At(l, g)' = IF l = k /\ g = h THEN r ELSE Core!At(l, g)

LEMMA InsertIs ==
  ASSUME CoreInv, NEW f \in CoreFiles, NEW copy \in CopyNumbers \cup {0}, Core!Insert(f, copy)
  PROVE  \E h \in Nat :
           /\ Core!At(CoreKind[f], h) = Core!Nobody /\ Puts(CoreKind[f], h, [file |-> f, copy |-> copy])
           /\ SlabsType' /\ VacantOK'
           /\ held' = held \cup {[file |-> f, handle |-> h]}
           /\ backings' = IF copy = 0 THEN backings
                          ELSE [backings EXCEPT ![CoreKind[f]] = @ \cup {[handle |-> h, copy |-> copy]}]
<1> DEFINE k == CoreKind[f]
           h == IF vacant[k] = <<>> THEN Len(readers[k]) ELSE Core!Last(vacant[k])
           r == [file |-> f, copy |-> copy]
           new == IF h = Len(readers[k]) THEN Append(readers[k], r) ELSE [readers[k] EXCEPT ![h + 1] = r]
           left == IF vacant[k] = <<>> THEN <<>> ELSE Core!Front(vacant[k])
<1>1. k \in Core!Kinds /\ SlabsType /\ VacantOK /\ readers[k] \in Seq(ReaderType) /\ vacant[k] \in Seq(Nat)
  BY CoreConstantsAre DEF CoreInv, CoreTypeOK, SlabsType
<1>2. r \in ReaderType
  BY DEF ReaderType
<1>3. /\ readers' = [readers EXCEPT ![k] = new] /\ vacant' = [vacant EXCEPT ![k] = left]
      /\ held' = held \cup {[file |-> f, handle |-> h]}
      /\ backings' = IF copy = 0 THEN backings
                     ELSE [backings EXCEPT ![k] = @ \cup {[handle |-> h, copy |-> copy]}]
  BY <1>1 DEF Core!Insert, SlabsType
<1>4. /\ left \in Seq(Nat) /\ Len(left) <= Len(vacant[k])
      /\ \A i \in 1..Len(left) : left[i] = vacant[k][i] /\ left[i] # h
      /\ h \in Nat /\ h <= Len(readers[k]) /\ Core!At(k, h) = Core!Nobody
  <2>1. CASE vacant[k] = <<>>
    <3>1. h = Len(readers[k]) /\ h \in Nat
      BY <1>1, <2>1
    <3>2. left \in Seq(Nat) /\ Len(left) = 0
      BY <2>1
    <3>3. Len(vacant[k]) \in Nat
      BY <1>1
    <3> HIDE DEF h, left
    <3>4. Core!At(k, h) = Core!Nobody
      BY <1>1, <3>1, SlotType
    <3> QED
      BY <3>1, <3>2, <3>3, <3>4
  <2>2. CASE vacant[k] # <<>>
    <3> DEFINE n == Len(vacant[k])
    <3>1. n \in Nat \ {0} /\ h = vacant[k][n] /\ h \in Nat
      BY <1>1, <2>2 DEF Core!Last
    <3>2. left \in Seq(Nat) /\ Len(left) = n - 1 /\ \A i \in 1..(n - 1) : left[i] = vacant[k][i]
      <4>1. left = Core!Front(vacant[k])
        BY <2>2
      <4> QED
        BY <1>1, <2>2, <4>1, FrontIs
    <3> HIDE DEF h, left
    <3>3. h < Len(readers[k]) /\ Core!At(k, h) = Core!Nobody
      BY <1>1, <3>1 DEF VacantOK
    <3>4. \A i \in 1..(n - 1) : vacant[k][i] # vacant[k][n]
      BY <1>1, <3>1 DEF VacantOK
    <3> HIDE DEF n
    <3>5. n = Len(vacant[k])
      BY DEF n
    <3>6. Len(left) <= Len(vacant[k]) /\ \A i \in 1..Len(left) : left[i] = vacant[k][i] /\ left[i] # h
      BY <3>1, <3>2, <3>4, <3>5
    <3>7. h \in Nat /\ h <= Len(readers[k])
      BY <1>1, <3>1, <3>3
    <3> QED
      BY <3>2, <3>3, <3>6, <3>7
  <2> QED
    BY <2>1, <2>2
<1> HIDE DEF h, left
<1>5. /\ new \in Seq(ReaderType) /\ Len(readers[k]) <= Len(new) /\ h < Len(new)
      /\ \A g \in Nat : g < Len(new) => new[g + 1] = IF g = h THEN r ELSE readers[k][g + 1]
      /\ \A g \in Nat : g # h => (g < Len(new) <=> g < Len(readers[k]))
  <2>1. CASE h = Len(readers[k])
    <3>1. new = Append(readers[k], r)
      BY <2>1
    <3>2. new \in Seq(ReaderType) /\ Len(new) = Len(readers[k]) + 1
      BY <1>1, <1>2, <3>1
    <3>3. \A i \in 1..(Len(readers[k]) + 1) :
            Append(readers[k], r)[i] = IF i = Len(readers[k]) + 1 THEN r ELSE readers[k][i]
      BY <1>1, <1>2
    <3> HIDE DEF new, r
    <3>4. \A g \in Nat : g < Len(new) => new[g + 1] = IF g = h THEN r ELSE readers[k][g + 1]
      BY <1>1, <2>1, <3>1, <3>2, <3>3
    <3> QED
      BY <1>1, <1>4, <2>1, <3>2, <3>4
  <2>2. CASE h # Len(readers[k])
    <3>1. new = [readers[k] EXCEPT ![h + 1] = r] /\ h + 1 \in 1..Len(readers[k])
      BY <1>1, <1>4, <2>2
    <3>2. new \in Seq(ReaderType) /\ Len(new) = Len(readers[k])
      BY <1>1, <1>2, <3>1
    <3>3. \A i \in 1..Len(readers[k]) :
            [readers[k] EXCEPT ![h + 1] = r][i] = IF i = h + 1 THEN r ELSE readers[k][i]
      BY <1>1
    <3> HIDE DEF new, r
    <3>4. \A g \in Nat : g < Len(new) => new[g + 1] = IF g = h THEN r ELSE readers[k][g + 1]
      BY <1>1, <1>4, <3>1, <3>2, <3>3
    <3> QED
      BY <1>1, <1>4, <3>1, <3>2, <3>4
  <2> QED
    BY <2>1, <2>2
<1> HIDE DEF new
<1>6. SlabsType' /\ readers'[k] = new /\ vacant'[k] = left
      /\ \A l \in Core!Kinds : l # k => readers'[l] = readers[l] /\ vacant'[l] = vacant[l]
  BY <1>1, <1>3, <1>4, <1>5 DEF SlabsType
<1>7. Puts(k, h, r)
  <2> SUFFICES ASSUME NEW l \in Core!Kinds, NEW g \in Nat
               PROVE  Core!At(l, g)' = IF l = k /\ g = h THEN r ELSE Core!At(l, g)
    BY DEF Puts
  <2>1. CASE l # k
    BY <1>6, <2>1 DEF Core!At
  <2>2. CASE l = k /\ g = h
    BY <1>5, <1>6, <2>2 DEF Core!At
  <2>3. CASE l = k /\ g # h
    BY <1>5, <1>6, <2>3 DEF Core!At
  <2> QED
    BY <2>1, <2>2, <2>3
<1>8. VacantOK'
  <2> SUFFICES ASSUME NEW l \in Core!Kinds, NEW i \in 1..Len(vacant'[l]),
                      NEW g \in Nat, g = vacant'[l][i]
               PROVE  /\ g < Len(readers'[l]) /\ Core!At(l, g)' = Core!Nobody
                      /\ \A j \in 1..Len(vacant'[l]) : g = vacant'[l][j] => i = j
    <3>1. \A n \in Core!Kinds : vacant'[n] \in Seq(Nat)
      BY <1>6 DEF SlabsType
    <3>2. \A n \in Core!Kinds : \A j \in 1..Len(vacant'[n]) : vacant'[n][j] \in Nat
      BY <3>1
    <3> QED
      BY <3>2 DEF VacantOK, Core!At
  <2>1. CASE l # k
    <3>1. vacant'[l] = vacant[l] /\ readers'[l] = readers[l]
      BY <1>6, <2>1
    <3>2. Core!At(l, g)' = Core!At(l, g)
      BY <1>7, <2>1 DEF Puts
    <3> QED
      BY <1>1, <3>1, <3>2 DEF VacantOK
  <2>2. CASE l = k
    <3>1. vacant'[l] = left /\ i \in 1..Len(left) /\ i \in 1..Len(vacant[k]) /\ g = vacant[k][i] /\ g # h
      BY <1>1, <1>4, <1>6, <2>2
    <3>2. Core!At(l, g)' = Core!At(l, g)
      BY <1>7, <2>2, <3>1 DEF Puts
    <3>3. g < Len(readers[k]) /\ Core!At(k, g) = Core!Nobody
          /\ \A j \in 1..Len(vacant[k]) : g = vacant[k][j] => i = j
      BY <1>1, <3>1 DEF VacantOK
    <3>4. \A j \in 1..Len(left) : j \in 1..Len(vacant[k]) /\ left[j] = vacant[k][j]
      BY <1>1, <1>4
    <3>5. Len(readers[k]) \in Nat /\ Len(readers'[k]) \in Nat /\ Len(readers[k]) <= Len(readers'[k])
      BY <1>1, <1>5, <1>6
    <3> QED
      BY <2>2, <3>1, <3>2, <3>3, <3>4, <3>5
  <2> QED
    BY <2>1, <2>2
<1> QED
  BY <1>3, <1>4, <1>6, <1>7, <1>8

-----------------------------------------------------------------------------
(* What a message or a handle refers to is not free, so it stays when a    *)
(* free slot is filled.                                                    *)
LEMMA ReferredStay ==
  ASSUME CoreInv, NEW k \in Core!Kinds, NEW h \in Nat, NEW r, Core!At(k, h) = Core!Nobody, Puts(k, h,
         r),
         NEW f \in CoreFiles, NEW g \in Nat, Core!At(CoreKind[f], g).file = f
  PROVE  Core!At(CoreKind[f], g)' = Core!At(CoreKind[f], g) /\ ~ (CoreKind[f] = k /\ g = h)
<1>1. CoreKind[f] \in Core!Kinds /\ f # Core!Nobody.file
  BY CoreConstantsAre
<1>2. ~ (CoreKind[f] = k /\ g = h)
  BY <1>1
<1> QED
  BY <1>1, <1>2 DEF Puts

(* Messages are handled from the head of the port.                         *)
Drains == port' = port \/ (port # <<>> /\ port' = Tail(port))

LEMMA PortDrains ==
  ASSUME port \in Seq(MessageType), Drains
  PROVE  \E d \in {0, 1} :
           /\ port' \in Seq(MessageType) /\ Len(port') + d = Len(port)
           /\ \A i \in 1..Len(port') : i + d \in 1..Len(port) /\ port'[i] = port[i + d]
           /\ d = 1 => port # <<>> /\ port' = Tail(port) /\ port[1] = Head(port)
<1>1. CASE port' = port
  <2>1. \A i \in 1..Len(port) : i + 0 = i
    OBVIOUS
  <2> QED
    BY <1>1, <2>1
<1>2. CASE port # <<>> /\ port' = Tail(port)
  <2>1. /\ Tail(port) \in Seq(MessageType) /\ Len(Tail(port)) + 1 = Len(port)
        /\ \A i \in 1..Len(Tail(port)) : i + 1 \in 1..Len(port) /\ Tail(port)[i] = port[i + 1]
        /\ port[1] = Head(port)
    BY <1>2
  <2> QED
    BY <1>2, <2>1
<1> QED
  BY <1>1, <1>2 DEF Drains

LEMMA DrainedPort ==
  ASSUME CoreInv, Drains,
         \A m \in MessageType : Refers(m) /\ ReaderOf(m).file = m.file => ReaderOf(m)' = ReaderOf(m)
  PROVE  PortOK'
<1>1. port \in Seq(MessageType) /\ PortOK
  BY DEF CoreInv, CoreTypeOK
<1>2. PICK d \in {0, 1} :
        /\ port' \in Seq(MessageType) /\ Len(port') + d = Len(port)
        /\ \A i \in 1..Len(port') : i + d \in 1..Len(port) /\ port'[i] = port[i + d]
  BY <1>1, PortDrains
<1>3. ASSUME NEW i \in 1..Len(port'), NEW m \in MessageType, m = port'[i], Refers(m)
      PROVE  ReaderOf(m)'.file = m.file
  <2>1. m = port[i + d] /\ ReaderOf(m).file = m.file
    BY <1>1, <1>2, <1>3 DEF PortOK
  <2> QED
    BY <1>3, <2>1
<1>4. \A i \in 1..Len(port') : port'[i] \in MessageType
  BY <1>2
<1>5. \A i \in 1..Len(port') : Refers(port'[i]) => (ReaderOf(port[i]).file = port[i].file)'
  BY <1>3, <1>4 DEF ReaderOf, Core!At
<1>6. \A i, j \in 1..Len(port') :
        Refers(port'[i]) /\ port'[j].op = "close" /\ OneReader(port'[i], port'[j]) => i <= j
  <2> SUFFICES ASSUME NEW i \in 1..Len(port'), NEW j \in 1..Len(port'),
                      Refers(port'[i]), port'[j].op = "close", OneReader(port'[i], port'[j])
               PROVE  i <= j
    OBVIOUS
  <2>1. /\ i + d \in 1..Len(port) /\ j + d \in 1..Len(port)
        /\ port'[i] = port[i + d] /\ port'[j] = port[j + d]
    BY <1>2
  <2>2. i + d <= j + d
    BY <1>1, <2>1 DEF PortOK
  <2> QED
    BY <2>2
<1> QED
  BY <1>5, <1>6 DEF PortOK, Refers, OneReader

(* A free slot is filled: with a reader that has a copy nobody else has,   *)
(* or none.                                                                *)
LEMMA InsertInv ==
  ASSUME CoreInv, NEW f \in CoreFiles, NEW copy \in CopyNumbers \cup {0}, Core!Insert(f, copy),
         Drains,
         calls' \subseteq calls,
         \A c \in calls' : c.copy # 0 => c.copy # copy,
         \A c \in calls \ calls' : c.copy \in {0, copy},
         copy # 0 => copy \in disk /\ ~ Owns(copy),
         access' = access \cup ({copy} \ {0}),
         UNCHANGED <<disk, lost, answer, made>>
  PROVE  CoreInv'
<1> DEFINE k == CoreKind[f]
           r == [file |-> f, copy |-> copy]
<1>1. PICK h \in Nat :
        /\ Core!At(k, h) = Core!Nobody /\ Puts(k, h, r)
        /\ SlabsType' /\ VacantOK'
        /\ held' = held \cup {[file |-> f, handle |-> h]}
        /\ backings' = IF copy = 0 THEN backings
                       ELSE [backings EXCEPT ![k] = @ \cup {[handle |-> h, copy |-> copy]}]
  BY InsertIs
<1>2. /\ k \in Core!Kinds /\ f # Core!Nobody.file /\ Core!Nobody.copy = 0 /\ CoreCalls \in Nat
      /\ r.file = f /\ r.copy = copy /\ r # Core!Nobody
      /\ Core!At(k, h)' = r
      /\ \A l \in Core!Kinds, g \in Nat :
           ~ (l = k /\ g = h) => Core!At(l, g)' = Core!At(l, g)
  <2>1. k \in Core!Kinds /\ f # Core!Nobody.file /\ Core!Nobody.copy = 0 /\ CoreCalls \in Nat
    BY CoreConstantsAre
  <2>2. r.file = f /\ r.copy = copy
    OBVIOUS
  <2> QED
    BY <1>1, <2>1, <2>2 DEF Puts
<1> HIDE DEF k, r
<1>3. \A c \in CopyNumbers : Owns(c)' <=> Owns(c) \/ c = copy
  <2> SUFFICES ASSUME NEW c \in CopyNumbers
               PROVE  Owns(c)' <=> Owns(c) \/ c = copy
    OBVIOUS
  <2>1. ASSUME NEW l \in Core!Kinds, NEW g \in Nat, Core!At(l, g).copy = c
        PROVE Core!At(l, g)'.copy = c
    BY <1>1, <1>2, <2>1 DEF CopyNumbers
  <2>2. ASSUME NEW l \in Core!Kinds, NEW g \in Nat, Core!At(l, g)'.copy = c
        PROVE Core!At(l, g).copy = c \/ c = copy
    BY <1>2, <2>2
  <2> QED
    BY <1>2, <2>1, <2>2 DEF Owns
<1>4. CoreTypeOK'
  <2>1. port' \in Seq(MessageType)
    BY PortDrains DEF CoreInv, CoreTypeOK
  <2>2. held' \subseteq HandleType
    BY <1>1 DEF HandleType, CoreInv, CoreTypeOK
  <2>3. backings' \in [Core!Kinds -> SUBSET BackingType]
    <3>1. copy # 0 => [handle |-> h, copy |-> copy] \in BackingType
      BY DEF BackingType
    <3> QED
      BY <1>1, <3>1 DEF CoreInv, CoreTypeOK
  <2>4. access' \subseteq CopyNumbers
    BY DEF CoreInv, CoreTypeOK
  <2> QED
    BY <1>1, <2>1, <2>2, <2>3, <2>4 DEF CoreInv, CoreTypeOK
<1>5. SlotsOK'
  BY <1>2 DEF CoreInv, SlotsOK, k
<1>6. PortOK'
  <2>1. ASSUME NEW m \in MessageType, ReaderOf(m).file = m.file PROVE ReaderOf(m)' = ReaderOf(m)
    <3>1. m.file \in CoreFiles /\ m.handle \in Nat
      BY DEF MessageType
    <3> QED
      BY <1>1, <1>2, <2>1, <3>1, ReferredStay DEF ReaderOf
  <2> QED
    BY <2>1, DrainedPort
<1>7. HandlesOK'
  <2> SUFFICES ASSUME NEW e \in held'
               PROVE  /\ ReaderOf(e)'.file = e.file
                      /\ \A j \in 1..Len(port') : port'[j].op = "close" => ~ OneReader(e, port'[j])
    BY DEF HandlesOK, ReaderOf, Core!At, OneReader
  <2>1. PICK d \in {0, 1} :
          /\ port' \in Seq(MessageType) /\ Len(port') + d = Len(port)
          /\ \A i \in 1..Len(port') : i + d \in 1..Len(port) /\ port'[i] = port[i + d]
    BY PortDrains DEF CoreInv, CoreTypeOK
  <2>2. CASE e \in held
    <3>1. e.file \in CoreFiles /\ e.handle \in Nat /\ ReaderOf(e).file = e.file
      BY <2>2 DEF CoreInv, CoreTypeOK, HandleType, HandlesOK
    <3>2. ReaderOf(e)' = ReaderOf(e)
      BY <1>1, <1>2, <3>1, ReferredStay DEF ReaderOf
    <3>3. \A j \in 1..Len(port) : port[j].op = "close" => ~ OneReader(e, port[j])
      BY <2>2 DEF CoreInv, HandlesOK
    <3> QED
      BY <2>1, <3>1, <3>2, <3>3
  <2>3. CASE e = [file |-> f, handle |-> h]
    <3>1. e.file = f /\ e.handle = h
      BY <2>3
    <3>2. ReaderOf(e)'.file = e.file
      BY <1>2, <3>1 DEF ReaderOf, k
    <3>3. ASSUME NEW j \in 1..Len(port), port[j].op = "close" PROVE ~ OneReader(e, port[j])
      <4>1. port[j] \in MessageType /\ ReaderOf(port[j]).file = port[j].file
        BY <3>3 DEF CoreInv, CoreTypeOK, PortOK, Refers
      <4>2. port[j].file \in CoreFiles /\ port[j].handle \in Nat
        BY <4>1 DEF MessageType
      <4>3. ~ (CoreKind[port[j].file] = k /\ port[j].handle = h)
        BY <1>1, <1>2, <4>1, <4>2, ReferredStay DEF ReaderOf
      <4> QED
        BY <3>1, <4>3 DEF OneReader, k
    <3> QED
      BY <2>1, <3>2, <3>3
  <2> QED
    BY <1>1, <2>2, <2>3
<1>8. BackingsOK'
  <2> USE DEF CoreInv, BackingsOK
  <2>1. ASSUME NEW l \in Core!Kinds, NEW b \in backings'[l]
        PROVE Core!At(l, b.handle)'.copy = b.copy
    <3>1. CASE b \in backings[l]
      <4>1. b.handle \in Nat /\ b.copy \in CopyNumbers /\ Core!At(l, b.handle).copy = b.copy
        BY <3>1 DEF CoreTypeOK, BackingType
      <4>2. ~ (l = k /\ b.handle = h)
        BY <1>1, <1>2, <4>1 DEF CopyNumbers
      <4> QED
        BY <1>2, <4>1, <4>2
    <3>2. CASE b \notin backings[l]
      <4>1. l = k /\ b = [handle |-> h, copy |-> copy]
        BY <1>1, <1>2, <2>1, <3>2 DEF CoreTypeOK
      <4>2. b.handle = h /\ b.copy = copy
        BY <4>1
      <4> QED
        BY <1>2, <4>1, <4>2
    <3> QED
      BY <3>1, <3>2
  <2>2. ASSUME NEW l \in Core!Kinds, NEW g \in Nat, NEW c, c = Core!At(l, g)'.copy, c # 0
        PROVE  [handle |-> g, copy |-> c] \in backings'[l]
    <3>1. CASE l = k /\ g = h
      BY <1>1, <1>2, <2>2, <3>1 DEF CoreTypeOK
    <3>2. CASE ~ (l = k /\ g = h)
      <4>1. [handle |-> g, copy |-> c] \in backings[l]
        BY <1>2, <2>2, <3>2
      <4> QED
        BY <1>1, <1>2, <4>1 DEF CoreTypeOK
    <3> QED
      BY <3>1, <3>2
  <2> QED
    BY <2>1, <2>2 DEF Core!At
<1>9. CopyOK'
  <2> USE DEF CoreInv, CopyOK
  <2>1. ASSUME NEW l \in Core!Kinds, NEW m \in Core!Kinds, NEW g \in Nat, NEW i \in Nat,
               Core!At(l, g)'.copy # 0, Core!At(l, g)'.copy = Core!At(m, i)'.copy
        PROVE  l = m /\ g = i
    <3>1. ~ (l = k /\ g = h) /\ ~ (m = k /\ i = h) => l = m /\ g = i
      BY <1>2, <2>1
    <3>2. copy # 0 => \A n \in Core!Kinds, j \in Nat : Core!At(n, j).copy # copy
      BY DEF Owns
    <3> QED
      BY <1>2, <2>1, <3>1, <3>2
  <2>2. \A c, d \in calls' : c.copy # 0 /\ c.copy = d.copy => c = d
    OBVIOUS
  <2>3. ASSUME NEW c \in calls', c.copy # 0 PROVE ~ Owns(c.copy)'
    <3>1. c \in calls /\ c.copy \in CopyNumbers /\ ~ Owns(c.copy) /\ c.copy # copy
      BY <2>3 DEF CoreTypeOK, ReadType
    <3> QED
      BY <1>3, <3>1
  <2> QED
    BY <2>1, <2>2, <2>3
<1>10. DiskOK'
  <2> USE DEF CoreInv, DiskOK
  <2>1. access' = {c \in CopyNumbers : Owns(c)'}
    <3>1. access' = access \cup ({copy} \ {0}) /\ 0 \notin CopyNumbers
      BY DEF CopyNumbers
    <3>2. \A c : c \in access' <=> c \in CopyNumbers /\ (Owns(c) \/ c = copy)
      BY <3>1, Zenon
    <3> HIDE DEF DiskOK
    <3>3. \A c : c \in access' <=> c \in CopyNumbers /\ Owns(c)'
      BY <1>3, <3>2, Zenon
    <3> QED
      BY <3>3, Zenon
  <2>2. \A c \in calls' : c.copy # 0 => c.copy \in disk'
    OBVIOUS
  <2>3. \A c \in CopyNumbers : Owns(c)' => c \in disk'
    BY <1>3 DEF CopyNumbers
  <2>4. ASSUME NEW c \in disk' PROVE Owns(c)' \/ c \in Core!Busy' \/ c \in lost'
    <3>1. c \in CopyNumbers /\ c # 0
      BY <2>4 DEF CoreTypeOK, CopyNumbers
    <3>2. c \in Core!Busy => c \in Core!Busy' \/ c = copy
      BY <3>1 DEF Core!Busy
    <3> QED
      BY <1>3, <2>4, <3>1, <3>2
  <2> QED
    BY <2>1, <2>2, <2>3, <2>4
<1>11. CountOK'
  <2>1. PICK d \in {0, 1} : port' \in Seq(MessageType) /\ Len(port') + d = Len(port)
    BY PortDrains DEF CoreInv, CoreTypeOK
  <2>2. Cardinality(disk) \in Nat /\ Len(port) \in Nat /\ Len(port') \in Nat /\ made \in Int
    BY <2>1, FS_CardinalityType DEF CoreInv, CoreTypeOK, CountOK
  <2> QED
    BY <2>1, <2>2 DEF CoreInv, CountOK
<1> QED
  BY <1>1, <1>4, <1>5, <1>6, <1>7, <1>8, <1>9, <1>10, <1>11 DEF CoreInv

-----------------------------------------------------------------------------
(* Steps that leave the readers alone.                                     *)
LEMMA ReadersStay ==
  ASSUME CoreInv, Drains, UNCHANGED <<readers, vacant, backings, held>>
  PROVE  /\ port' \in Seq(MessageType) /\ SlabsType'
         /\ SlotsOK' /\ VacantOK' /\ PortOK' /\ HandlesOK' /\ BackingsOK'
         /\ \A k \in Core!Kinds, h \in Nat : Core!At(k, h)' = Core!At(k, h)
         /\ \A c : Owns(c)' <=> Owns(c)
<1>1. \A k, h : Core!At(k, h)' = Core!At(k, h)
  BY DEF Core!At
<1>2. SlotsOK' /\ VacantOK' /\ BackingsOK' /\ SlabsType' /\ \A c : Owns(c)' <=> Owns(c)
  BY <1>1 DEF CoreInv, CoreTypeOK, SlotsOK, VacantOK, BackingsOK, Owns, SlabsType, Core!At
<1>3. PortOK'
  BY <1>1, DrainedPort DEF ReaderOf
<1>4. PICK d \in {0, 1} :
        /\ port' \in Seq(MessageType) /\ Len(port') + d = Len(port)
        /\ \A i \in 1..Len(port') : i + d \in 1..Len(port) /\ port'[i] = port[i + d]
  BY PortDrains DEF CoreInv, CoreTypeOK
<1>5. HandlesOK'
  <2> SUFFICES ASSUME NEW e \in held
               PROVE  /\ ReaderOf(e)'.file = e.file
                      /\ \A j \in 1..Len(port') : port'[j].op = "close" => ~ OneReader(e, port'[j])
    BY DEF HandlesOK, ReaderOf, Core!At, OneReader
  <2>1. /\ ReaderOf(e).file = e.file
        /\ \A j \in 1..Len(port) : port[j].op = "close" => ~ OneReader(e, port[j])
    BY DEF CoreInv, HandlesOK
  <2> QED
    BY <1>1, <1>4, <2>1 DEF ReaderOf
<1> QED
  BY <1>1, <1>2, <1>3, <1>4, <1>5

LEMMA AsideInv ==
  ASSUME CoreInv, Drains, UNCHANGED <<readers, vacant, backings, held, access, made>>,
         calls' \subseteq ReadType,
         \A c, d \in calls' : c.copy # 0 /\ c.copy = d.copy => c = d,
         \A c \in calls' : c.copy # 0 => ~ Owns(c.copy) /\ c.copy \in disk',
         disk' \subseteq CopyNumbers,
         \A c \in CopyNumbers : Owns(c) => c \in disk',
         \A c \in disk' : Owns(c) \/ c \in Core!Busy' \/ c \in lost',
         CountOK', answer'.read = answer'.asked
  PROVE  CoreInv'
<1>1. /\ port' \in Seq(MessageType) /\ SlabsType'
      /\ SlotsOK' /\ VacantOK' /\ PortOK' /\ HandlesOK' /\ BackingsOK'
      /\ \A k \in Core!Kinds, h \in Nat : Core!At(k, h)' = Core!At(k, h)
      /\ \A c : Owns(c)' <=> Owns(c)
  BY ReadersStay
<1>2. CoreTypeOK'
  BY <1>1 DEF CoreInv, CoreTypeOK
<1>3. CopyOK'
  BY <1>1 DEF CoreInv, CopyOK
<1>4. DiskOK'
  <2>1. access' = {c \in CopyNumbers : Owns(c)'}
    BY <1>1 DEF CoreInv, DiskOK
  <2> QED
    BY <1>1, <2>1 DEF DiskOK
<1> QED
  BY <1>1, <1>2, <1>3, <1>4 DEF CoreInv

(* Nothing is read or copied: a message is handled, or not even that.      *)
LEMMA QuietInv ==
  ASSUME CoreInv, Drains,
         UNCHANGED <<readers, vacant, backings, held, access, made, calls, disk, lost>>,
         answer'.read = answer'.asked
  PROVE  CoreInv'
<1>1. PICK d \in {0, 1} : port' \in Seq(MessageType) /\ Len(port') + d = Len(port)
  BY PortDrains DEF CoreInv, CoreTypeOK
<1>2. Cardinality(disk) \in Nat /\ Len(port) \in Nat /\ Len(port') \in Nat /\ made \in Int
  BY <1>1, FS_CardinalityType DEF CoreInv, CoreTypeOK, CountOK
<1>3. CountOK'
  BY <1>1, <1>2 DEF CoreInv, CountOK
<1>4. \A c \in disk' : Owns(c) \/ c \in Core!Busy' \/ c \in lost'
  BY DEF CoreInv, DiskOK, Core!Busy
<1> QED
  BY <1>3, <1>4, AsideInv DEF CoreInv, CoreTypeOK, CopyOK, DiskOK

(* A message is sent: about a reader only by who has its handle.           *)
LEMMA PostInv ==
  ASSUME CoreInv, NEW m \in MessageType, Core!Post(m), held' \subseteq held,
         Refers(m) =>
           /\ ReaderOf(m).file = m.file
           /\ \A j \in 1..Len(port) : port[j].op = "close" => ~ OneReader(m, port[j]),
         m.op = "close" => \A e \in held' : ~ OneReader(e, m),
         UNCHANGED <<calls, readers, vacant, backings, disk, access, lost, answer>>
  PROVE  CoreInv'
<1>1. /\ made' = made + 1 /\ made' \in 0..CoreCalls /\ port \in Seq(MessageType)
      /\ port' = Append(port, m)
  BY CoreConstantsAre DEF CoreInv, CoreTypeOK, Core!Post
<1>2. /\ port' \in Seq(MessageType) /\ Len(port) \in Nat /\ Len(port') = Len(port) + 1
      /\ \A i \in 1..Len(port) : port'[i] = port[i]
      /\ port'[Len(port) + 1] = m
  BY <1>1
<1>3. \A i \in 1..Len(port') : i \in 1..Len(port) \/ (i = Len(port) + 1 /\ port'[i] = m)
  BY <1>2
<1>4. \A k, h : Core!At(k, h)' = Core!At(k, h)
  BY DEF Core!At
<1>5. CoreTypeOK'
  BY <1>1, <1>2 DEF CoreInv, CoreTypeOK, SlabsType
<1>6. /\ SlotsOK' /\ VacantOK' /\ BackingsOK' /\ CopyOK' /\ DiskOK'
      /\ answer'.read = answer'.asked
  BY <1>4 DEF CoreInv, SlotsOK, VacantOK, BackingsOK, CopyOK, DiskOK, Owns, Core!At, Core!Busy
<1>7. PortOK'
  <2>1. ASSUME NEW i \in 1..Len(port'), NEW x, x = port'[i], Refers(x)
        PROVE  ReaderOf(x)'.file = x.file
    <3>1. ReaderOf(x).file = x.file
      BY <1>2, <1>3, <2>1 DEF CoreInv, PortOK
    <3> QED
      BY <1>4, <3>1 DEF ReaderOf
  <2>2. ASSUME NEW i \in 1..Len(port'), NEW j \in 1..Len(port'),
               Refers(port'[i]), port'[j].op = "close", OneReader(port'[i], port'[j])
        PROVE  i <= j
    <3>1. CASE i \in 1..Len(port) /\ j \in 1..Len(port)
      BY <1>2, <2>2, <3>1 DEF CoreInv, PortOK
    <3>2. CASE j = Len(port) + 1
      BY <1>2, <3>2
    <3>3. CASE i = Len(port) + 1 /\ j \in 1..Len(port)
      BY <1>2, <2>2, <3>3
    <3> QED
      BY <1>3, <3>1, <3>2, <3>3
  <2> QED
    BY <2>1, <2>2 DEF PortOK, Refers, OneReader, ReaderOf, Core!At
<1>8. HandlesOK'
  <2> SUFFICES ASSUME NEW e \in held'
               PROVE  /\ ReaderOf(e)'.file = e.file
                      /\ \A j \in 1..Len(port') : port'[j].op = "close" => ~ OneReader(e, port'[j])
    BY DEF HandlesOK, ReaderOf, Core!At, OneReader
  <2>1. /\ ReaderOf(e).file = e.file
        /\ \A j \in 1..Len(port) : port[j].op = "close" => ~ OneReader(e, port[j])
    BY DEF CoreInv, HandlesOK
  <2> QED
    BY <1>2, <1>3, <1>4, <2>1 DEF ReaderOf
<1>9. CountOK'
  <2>1. Cardinality(disk) \in Nat /\ made \in Int
    BY FS_CardinalityType DEF CoreInv, CoreTypeOK, CountOK
  <2> QED
    BY <1>1, <1>2, <2>1 DEF CoreInv, CountOK
<1> QED
  BY <1>5, <1>6, <1>7, <1>8, <1>9 DEF CoreInv

-----------------------------------------------------------------------------
(* The actions.                                                            *)
LEMMA HeadIs ==
  ASSUME CoreInv, NEW op, Core!Handle(op)
  PROVE  /\ Drains /\ Head(port) \in MessageType /\ Head(port).op = op
         /\ 1 \in 1..Len(port) /\ Head(port) = port[1] /\ Len(port) \in Nat
         /\ Len(port') = Len(port) - 1
         /\ Head(port).file \in CoreFiles /\ Head(port).handle \in Nat
<1>1. port \in Seq(MessageType) /\ port # <<>> /\ port' = Tail(port)
  BY DEF CoreInv, CoreTypeOK, Core!Handle
<1>2. /\ 1 \in 1..Len(port) /\ Head(port) = port[1] /\ Len(port) \in Nat
      /\ Head(port) \in MessageType /\ Len(Tail(port)) = Len(port) - 1
  BY <1>1
<1> QED
  BY <1>1, <1>2 DEF Drains, Core!Handle, MessageType

LEMMA CoreInitInv == Core!Init => CoreInv
<1> SUFFICES ASSUME Core!Init PROVE CoreInv
  OBVIOUS
<1>1. \A k \in Core!Kinds, h \in Nat : Core!At(k, h) = Core!Nobody
  BY DEF Core!Init, Core!At
<1>2. CoreTypeOK
  BY CoreConstantsAre DEF Core!Init, CoreTypeOK, SlabsType
<1>3. SlotsOK /\ BackingsOK /\ \A c \in CopyNumbers : ~ Owns(c)
  BY <1>1, CoreConstantsAre DEF Core!Init, SlotsOK, BackingsOK, Owns, CopyNumbers
<1>4. VacantOK /\ PortOK /\ HandlesOK
  BY DEF Core!Init, VacantOK, PortOK, HandlesOK
<1>5. CopyOK
  BY <1>1, CoreConstantsAre DEF Core!Init, CopyOK
<1>6. DiskOK
  BY <1>3 DEF Core!Init, DiskOK
<1>7. CountOK
  BY FS_EmptySet DEF Core!Init, CountOK
<1> QED
  BY <1>2, <1>3, <1>4, <1>5, <1>6, <1>7 DEF Core!Init, CoreInv

LEMMA AskInv ==
  ASSUME CoreInv, NEW f \in CoreFiles, NEW op \in {"open", "inspect"}, Core!Ask(op, f)
  PROVE  CoreInv'
<1> DEFINE m == [op |-> op, file |-> f, handle |-> 0]
<1>1. m \in MessageType /\ ~ Refers(m) /\ m.op # "close"
  BY DEF MessageType, Refers
<1>2. Core!Post(m) /\ held' = held /\ UNCHANGED <<calls, readers, vacant, backings, disk, access, lost, answer>>
  BY DEF Core!Ask
<1> HIDE DEF m
<1> QED
  BY <1>1, <1>2, PostInv

LEMMA AskOfInv ==
  ASSUME CoreInv, NEW e \in held, NEW op \in {"fetch", "close"}, Core!AskOf(op, e)
  PROVE  CoreInv'
<1> DEFINE m == [op |-> op, file |-> e.file, handle |-> e.handle]
<1>1. held \subseteq HandleType /\ e \in HandleType /\ HandlesOK
  BY DEF CoreInv, CoreTypeOK
<1>2. m \in MessageType /\ m.op = op /\ m.file = e.file /\ m.handle = e.handle
  BY <1>1 DEF MessageType, HandleType
<1>3. /\ Core!Post(m) /\ UNCHANGED <<calls, readers, vacant, backings, disk, access, lost, answer>>
      /\ held' = IF op = "close" THEN held \ {e} ELSE held
  BY DEF Core!AskOf
<1> HIDE DEF m
<1>4. /\ ReaderOf(m).file = m.file
      /\ \A j \in 1..Len(port) : port[j].op = "close" => ~ OneReader(m, port[j])
  BY <1>1, <1>2 DEF HandlesOK, ReaderOf, OneReader
<1>5. ASSUME m.op = "close", NEW d \in held' PROVE ~ OneReader(d, m)
  <2>1. d \in held /\ d # e /\ d \in HandleType
    BY <1>1, <1>2, <1>3, <1>5
  <2>2. OneReader(d, m) => d.file = e.file /\ d.handle = e.handle
    BY <1>1, <1>2, <2>1 DEF HandlesOK, ReaderOf, OneReader
  <2> QED
    BY <1>1, <2>1, <2>2 DEF HandleType
<1>6. held' \subseteq held
  BY <1>3
<1> QED
  BY <1>2, <1>3, <1>4, <1>5, <1>6, PostInv

LEMMA OpenUrlInv ==
  ASSUME CoreInv, Core!OpenUrl
  PROVE  CoreInv'
<1>1. /\ Drains /\ Head(port).file \in CoreFiles
      /\ UNCHANGED <<calls, disk, access, lost, answer, made>>
  BY HeadIs DEF Core!OpenUrl
<1>2. CASE Core!Insert(Head(port).file, 0)
  <2>1. 0 \in CopyNumbers \cup {0} /\ access' = access \cup ({0} \ {0})
    BY <1>1
  <2> QED
    BY <1>1, <1>2, <2>1, InsertInv
<1>3. CASE UNCHANGED <<readers, vacant, backings, held>>
  BY <1>1, <1>3, QuietInv DEF CoreInv
<1> QED
  BY <1>2, <1>3 DEF Core!OpenUrl

LEMMA FreshIs ==
  ASSUME CoreInv, port # <<>>
  PROVE  Core!Fresh \in CopyNumbers /\ Core!Fresh \notin disk
<1>1. /\ IsFiniteSet(disk) /\ disk \subseteq CopyNumbers /\ Cardinality(disk) + Len(port) <= made
      /\ made \in 0..CoreCalls /\ Len(port) \in Nat \ {0} /\ CoreCalls \in Nat
  BY CoreConstantsAre DEF CoreInv, CoreTypeOK, CountOK
<1>2. \E c \in CopyNumbers : c \notin disk
  <2> SUFFICES ASSUME CopyNumbers \subseteq disk PROVE FALSE
    OBVIOUS
  <2>1. Cardinality(CopyNumbers) = CoreCalls
    BY <1>1, FS_Interval DEF CopyNumbers
  <2>2. disk = CopyNumbers
    BY <1>1
  <2> QED
    BY <1>1, <2>1, <2>2
<1> QED
  BY <1>2 DEF Core!Fresh, CopyNumbers

LEMMA ReadFileInv ==
  ASSUME CoreInv, Core!ReadFile
  PROVE  CoreInv'
<1>1. PICK op \in {"open", "inspect"} :
        LET f    == Head(port).file
            copy == IF op = "open" /\ CoreWay[f] = "copy" THEN Core!Fresh ELSE 0
        IN  /\ Core!Handle(op)
            /\ calls' = calls \cup {[op |-> op, file |-> f, copy |-> copy, n |-> Core!Number]}
            /\ disk' = disk \cup ({copy} \ {0})
  BY DEF Core!ReadFile
<1> DEFINE f == Head(port).file
           copy == IF op = "open" /\ CoreWay[f] = "copy" THEN Core!Fresh ELSE 0
           new == [op |-> op, file |-> f, copy |-> copy, n |-> Core!Number]
<1>2. /\ Drains /\ f \in CoreFiles /\ Len(port') = Len(port) - 1 /\ Len(port) \in Nat
      /\ port # <<>>
  BY <1>1, HeadIs DEF Core!Handle
<1>3. copy \in CopyNumbers \cup {0} /\ copy \notin disk
  BY <1>2, FreshIs DEF CoreInv, CoreTypeOK, CopyNumbers
<1>4. new \in ReadType /\ new.copy = copy /\ new.op = op
  <2>1. Core!Number \in Int
    BY <1>2 DEF Core!Number, CoreInv, CoreTypeOK
  <2> QED
    BY <1>2, <1>3, <2>1 DEF ReadType
<1>5. calls' = calls \cup {new} /\ disk' = disk \cup ({copy} \ {0})
  BY <1>1
<1> HIDE DEF copy, new
<1>6. /\ CopyOK /\ DiskOK /\ calls \subseteq ReadType /\ disk \subseteq CopyNumbers
      /\ \A c \in calls : c.copy # 0 => c.copy # copy
      /\ copy # 0 => ~ Owns(copy)
  BY <1>3 DEF CoreInv, CoreTypeOK, DiskOK
<1>7. \A c, d \in calls' : c.copy # 0 /\ c.copy = d.copy => c = d
  BY <1>4, <1>5, <1>6 DEF CopyOK
<1>8. \A c \in calls' : c.copy # 0 => ~ Owns(c.copy) /\ c.copy \in disk'
  BY <1>4, <1>5, <1>6 DEF CopyOK, DiskOK
<1>9. \A c \in disk' : Owns(c) \/ c \in Core!Busy' \/ c \in lost'
  <2>1. lost' = lost
    BY DEF Core!ReadFile
  <2>2. Core!Busy \subseteq Core!Busy' /\ (copy # 0 => copy \in Core!Busy')
    BY <1>4, <1>5 DEF Core!Busy
  <2> QED
    BY <1>5, <1>6, <2>1, <2>2 DEF DiskOK
<1>10. CountOK'
  <2>1. IsFiniteSet(disk) /\ Cardinality(disk) \in Nat /\ Cardinality(disk) + Len(port) <= made
    BY FS_CardinalityType DEF CoreInv, CountOK
  <2>2. IsFiniteSet(disk') /\ Cardinality(disk') <= Cardinality(disk) + 1 /\ Cardinality(disk') \in Nat
    <3>1. CASE copy = 0
      <4>1. disk' = disk
        BY <1>5, <3>1
      <4> QED
        BY <2>1, <4>1
    <3>2. CASE copy # 0
      <4>1. disk' = disk \cup {copy}
        BY <1>5, <3>2
      <4>2. IsFiniteSet(disk') /\ Cardinality(disk') = Cardinality(disk) + 1
        BY <1>3, <2>1, <4>1, FS_AddElement
      <4> QED
        BY <2>1, <4>2
    <3> QED
      BY <3>1, <3>2
  <2>3. made' = made /\ made \in Int /\ Len(port') \in Int
    BY <1>2 DEF Core!ReadFile, CoreInv, CoreTypeOK
  <2> QED
    BY <1>2, <2>1, <2>2, <2>3 DEF CountOK
<1>11. /\ UNCHANGED <<readers, vacant, backings, access, held, made>> /\ answer'.read = answer'.asked
       /\ calls' \subseteq ReadType /\ disk' \subseteq CopyNumbers
       /\ \A c \in CopyNumbers : Owns(c) => c \in disk'
  BY <1>3, <1>4, <1>5, <1>6 DEF Core!ReadFile, CoreInv, DiskOK
<1> QED
  BY <1>2, <1>7, <1>8, <1>9, <1>10, <1>11, AsideInv

LEMMA OpenedInv ==
  ASSUME CoreInv, NEW c \in calls, Core!Opened(c)
  PROVE  CoreInv'
<1>1. /\ c \in ReadType /\ c.copy \in CopyNumbers \cup {0} /\ c.file \in CoreFiles
      /\ CopyOK /\ DiskOK /\ calls \subseteq ReadType /\ Drains
      /\ UNCHANGED <<port, disk, lost, answer, made>>
  BY DEF Core!Opened, CoreInv, CoreTypeOK, ReadType, Drains
<1>2. CASE c.op = "open" /\ c.file \in CoreGood
  <2>1. /\ Core!Insert(c.file, c.copy) /\ calls' = calls \ {c}
        /\ access' = access \cup ({c.copy} \ {0})
    BY <1>2 DEF Core!Opened
  <2>2. \A d \in calls' : d.copy # 0 => d.copy # c.copy
    BY <1>1, <2>1 DEF CopyOK
  <2>3. \A d \in calls \ calls' : d.copy \in {0, c.copy}
    BY <2>1
  <2>4. c.copy # 0 => c.copy \in disk /\ ~ Owns(c.copy)
    BY <1>1 DEF CopyOK, DiskOK
  <2> QED
    BY <1>1, <2>1, <2>2, <2>3, <2>4, InsertInv
<1>3. CASE ~ (c.op = "open" /\ c.file \in CoreGood)
  <2> DEFINE r == [c EXCEPT !.op = "remove"]
             left == IF c.copy = 0 THEN {} ELSE {r}
  <2>1. /\ calls' = (calls \ {c}) \cup left
        /\ UNCHANGED <<readers, vacant, backings, access, held>>
    BY <1>3 DEF Core!Opened
  <2>2. r \in ReadType /\ r.copy = c.copy
    BY <1>1 DEF ReadType
  <2> HIDE DEF r
  <2>3. \A d \in calls' : d \in ReadType /\ ((d \in calls /\ d # c) \/ (d = r /\ c.copy # 0))
    BY <1>1, <2>1, <2>2
  <2> HIDE DEF left
  <2>4. \A d, e \in calls' : d.copy # 0 /\ d.copy = e.copy => d = e
    BY <1>1, <2>2, <2>3 DEF CopyOK
  <2>5. \A d \in calls' : d.copy # 0 => ~ Owns(d.copy) /\ d.copy \in disk'
    BY <1>1, <2>2, <2>3 DEF CopyOK, DiskOK
  <2>6. Core!Busy \subseteq Core!Busy'
    <3>1. ASSUME NEW d \in calls, d.copy # 0 PROVE \E e \in calls' : e.copy = d.copy
      BY <2>1, <2>2, <3>1 DEF left
    <3> QED
      BY <3>1 DEF Core!Busy
  <2>7. CountOK' /\ answer'.read = answer'.asked
    BY <1>1 DEF CoreInv, CountOK
  <2>8. \A d \in disk' : Owns(d) \/ d \in Core!Busy' \/ d \in lost'
    BY <1>1, <2>6 DEF DiskOK
  <2>9. /\ calls' \subseteq ReadType /\ disk' \subseteq CopyNumbers
        /\ \A d \in CopyNumbers : Owns(d) => d \in disk'
    BY <1>1, <2>3 DEF CoreInv, CoreTypeOK, DiskOK
  <2> QED
    BY <1>1, <2>1, <2>4, <2>5, <2>7, <2>8, <2>9, AsideInv
<1> QED
  BY <1>2, <1>3

(* A call ends, and what is left of its copy is lost, or gone.             *)
LEMMA EndedInv ==
  ASSUME CoreInv, NEW c \in calls, calls' = calls \ {c},
         \/ disk' = disk /\ lost' \in {lost \cup {c.copy}, lost \cup ({c.copy} \ {0})}
         \/ disk' = disk \ {c.copy} /\ lost' = lost,
         UNCHANGED <<port, readers, vacant, backings, access, held, answer, made>>
  PROVE  CoreInv'
<1>1. /\ CopyOK /\ DiskOK /\ calls \subseteq ReadType /\ Drains /\ disk \subseteq CopyNumbers
      /\ c.copy \in CopyNumbers \cup {0}
  BY DEF CoreInv, CoreTypeOK, Drains, ReadType
<1>2. \A d, e \in calls' : d.copy # 0 /\ d.copy = e.copy => d = e
  BY <1>1 DEF CopyOK
<1>3. \A d \in calls' : d.copy # 0 => ~ Owns(d.copy) /\ d.copy \in disk'
  BY <1>1 DEF CopyOK, DiskOK
<1>4. \A d \in CopyNumbers : Owns(d) => d \in disk'
  <2>1. \A d \in CopyNumbers : Owns(d) => d \in disk /\ d # 0 /\ d # c.copy
    BY <1>1 DEF CopyOK, DiskOK, CopyNumbers
  <2> QED
    BY <2>1
<1>5. ASSUME NEW d \in disk' PROVE Owns(d) \/ d \in Core!Busy' \/ d \in lost'
  <2>1. d # 0 /\ d \in disk /\ lost \subseteq lost'
    BY <1>1, <1>5 DEF CopyNumbers
  <2>2. d \in Core!Busy => d \in Core!Busy' \/ d = c.copy
    BY <2>1 DEF Core!Busy
  <2>3. d = c.copy => d \in lost'
    BY <1>5, <2>1
  <2> QED
    BY <1>1, <2>1, <2>2, <2>3 DEF DiskOK
<1>6. CountOK'
  <2>1. IsFiniteSet(disk) /\ disk' \subseteq disk
    BY DEF CoreInv, CountOK
  <2>2. /\ IsFiniteSet(disk') /\ Cardinality(disk') <= Cardinality(disk)
        /\ Cardinality(disk') \in Nat /\ Cardinality(disk) \in Nat
    BY <2>1, FS_Subset, FS_CardinalityType
  <2>3. made \in Int /\ Len(port) \in Nat
    BY DEF CoreInv, CoreTypeOK
  <2> QED
    BY <2>2, <2>3 DEF CoreInv, CountOK
<1>7. calls' \subseteq ReadType /\ disk' \subseteq CopyNumbers /\ answer'.read = answer'.asked
  BY <1>1 DEF CoreInv
<1> QED
  BY <1>1, <1>2, <1>3, <1>4, <1>5, <1>6, <1>7, AsideInv

LEMMA FetchInv ==
  ASSUME CoreInv, Core!Fetch
  PROVE  CoreInv'
<1>1. /\ Drains /\ Head(port) = port[1] /\ 1 \in 1..Len(port) /\ Refers(port[1])
      /\ UNCHANGED <<calls, readers, vacant, backings, disk, access, lost, held, made>>
  BY HeadIs DEF Core!Fetch, Refers
<1>2. ReaderOf(port[1]).file = port[1].file
  BY <1>1 DEF CoreInv, PortOK
<1>3. answer'.read = answer'.asked
  BY <1>1, <1>2 DEF Core!Fetch, ReaderOf
<1> QED
  BY <1>1, <1>3, QuietInv

(* The slot of a reader that is closed becomes the one freed last.         *)
LEMMA Vacates ==
  ASSUME CoreInv, NEW k \in Core!Kinds, NEW h \in Nat, Core!At(k, h) # Core!Nobody,
         readers' = [readers EXCEPT ![k][h + 1] = Core!Nobody],
         vacant' = [vacant EXCEPT ![k] = Append(@, h)]
  PROVE  SlabsType' /\ VacantOK' /\ Puts(k, h, Core!Nobody)
<1> DEFINE new  == [readers[k] EXCEPT ![h + 1] = Core!Nobody]
           more == Append(vacant[k], h)
<1>1. /\ SlabsType /\ VacantOK /\ readers[k] \in Seq(ReaderType) /\ vacant[k] \in Seq(Nat)
      /\ Core!Nobody \in ReaderType
  BY CoreConstantsAre DEF CoreInv, CoreTypeOK, SlabsType
<1>2. h < Len(readers[k]) /\ h + 1 \in 1..Len(readers[k]) /\ Len(readers[k]) \in Nat
  BY <1>1, SlotType
<1>3. new \in Seq(ReaderType) /\ Len(new) = Len(readers[k])
      /\ \A i \in 1..Len(readers[k]) : new[i] = IF i = h + 1 THEN Core!Nobody ELSE readers[k][i]
  BY <1>1, <1>2
<1>4. /\ more \in Seq(Nat) /\ Len(more) = Len(vacant[k]) + 1 /\ Len(vacant[k]) \in Nat
      /\ more[Len(vacant[k]) + 1] = h /\ \A i \in 1..Len(vacant[k]) : more[i] = vacant[k][i]
  BY <1>1
<1>5. readers' = [readers EXCEPT ![k] = new] /\ vacant' = [vacant EXCEPT ![k] = more]
  BY <1>1 DEF SlabsType
<1> HIDE DEF new, more
<1>6. SlabsType' /\ readers'[k] = new /\ vacant'[k] = more
      /\ \A l \in Core!Kinds : l # k => readers'[l] = readers[l] /\ vacant'[l] = vacant[l]
  <2>1. readers \in [Core!Kinds -> Seq(ReaderType)] /\ vacant \in [Core!Kinds -> Seq(Nat)]
    BY <1>1 DEF SlabsType
  <2>2. /\ readers' \in [Core!Kinds -> Seq(ReaderType)] /\ readers'[k] = new
        /\ \A l \in Core!Kinds : l # k => readers'[l] = readers[l]
    BY <1>3, <1>5, <2>1
  <2>3. /\ vacant' \in [Core!Kinds -> Seq(Nat)] /\ vacant'[k] = more
        /\ \A l \in Core!Kinds : l # k => vacant'[l] = vacant[l]
    BY <1>4, <1>5, <2>1
  <2> QED
    BY <2>2, <2>3 DEF SlabsType
<1>7. Puts(k, h, Core!Nobody)
  <2> SUFFICES ASSUME NEW l \in Core!Kinds, NEW g \in Nat
               PROVE  Core!At(l, g)' = IF l = k /\ g = h THEN Core!Nobody ELSE Core!At(l, g)
    BY DEF Puts
  <2>1. CASE l # k
    BY <1>6, <2>1 DEF Core!At
  <2>2. CASE l = k
    BY <1>2, <1>3, <1>6, <2>2 DEF Core!At
  <2> QED
    BY <2>1, <2>2
<1>8. VacantOK'
  <2> SUFFICES ASSUME NEW l \in Core!Kinds, NEW i \in 1..Len(vacant'[l])
               PROVE  /\ vacant'[l][i] < Len(readers'[l]) /\ readers'[l][vacant'[l][i] + 1] = Core!Nobody
                      /\ \A j \in 1..Len(vacant'[l]) : vacant'[l][i] = vacant'[l][j] => i = j
    BY DEF VacantOK, Core!At
  <2>1. PICK g \in Nat : g = vacant'[l][i]
    <3>1. vacant'[l] \in Seq(Nat)
      BY <1>6 DEF SlabsType
    <3> QED
      BY <3>1
  <2>2. /\ g < Len(readers'[l]) /\ readers'[l][g + 1] = Core!Nobody
        /\ \A j \in 1..Len(vacant'[l]) : g = vacant'[l][j] => i = j
    <3>0. g < Len(readers'[l]) /\ Core!At(l, g)' = Core!Nobody => readers'[l][g + 1] = Core!Nobody
      BY DEF Core!At
    <3>1. CASE l # k
      <4>1. vacant'[l] = vacant[l] /\ readers'[l] = readers[l]
        BY <1>6, <3>1
      <4>2. Core!At(l, g)' = Core!At(l, g)
        BY <1>7, <3>1 DEF Puts
      <4> QED
        BY <1>1, <2>1, <3>0, <4>1, <4>2 DEF VacantOK
    <3>2. CASE l = k
      <4>1. \A j \in 1..Len(vacant[k]) : vacant[k][j] # h
        BY <1>1 DEF VacantOK
      <4>2. vacant'[l] = more /\ Len(readers'[l]) = Len(readers[k])
        BY <1>3, <1>6, <3>2
      <4>3. \A j \in 1..Len(more) : j \in 1..Len(vacant[k]) \/ j = Len(vacant[k]) + 1
        BY <1>4
      <4>4. g < Len(readers'[l]) /\ Core!At(l, g)' = Core!Nobody
        <5>1. CASE i \in 1..Len(vacant[k])
          <6>1. g = vacant[k][i] /\ g < Len(readers[k]) /\ Core!At(k, g) = Core!Nobody
            BY <1>1, <1>4, <2>1, <3>2, <4>2, <5>1 DEF VacantOK
          <6> QED
            BY <1>7, <3>2, <4>2, <6>1 DEF Puts
        <5>2. CASE i = Len(vacant[k]) + 1
          <6>1. g = h
            BY <1>4, <2>1, <4>2, <5>2
          <6> QED
            BY <1>2, <1>7, <3>2, <4>2, <6>1 DEF Puts
        <5> QED
          BY <4>2, <4>3, <5>1, <5>2
      <4>5. ASSUME NEW j \in 1..Len(more), g = more[j] PROVE i = j
        <5>1. i \in 1..Len(more) /\ more[i] = more[j]
          BY <2>1, <4>2, <4>5
        <5>2. CASE i \in 1..Len(vacant[k]) /\ j \in 1..Len(vacant[k])
          BY <1>1, <1>4, <5>1, <5>2 DEF VacantOK
        <5>3. CASE i = Len(vacant[k]) + 1 /\ j \in 1..Len(vacant[k])
          BY <1>4, <4>1, <5>1, <5>3
        <5>4. CASE j = Len(vacant[k]) + 1 /\ i \in 1..Len(vacant[k])
          BY <1>4, <4>1, <5>1, <5>4
        <5> QED
          BY <4>3, <5>1, <5>2, <5>3, <5>4
      <4> QED
        BY <3>0, <4>2, <4>4, <4>5
    <3> QED
      BY <3>1, <3>2
  <2> QED
    BY <2>1, <2>2
<1> QED
  BY <1>6, <1>7, <1>8

LEMMA CloseOf ==
  ASSUME CoreInv, Core!Close, NEW m, m = Head(port), NEW k, k = CoreKind[m.file], NEW h,
         h = m.handle,
         NEW copy, copy = Core!At(k, h).copy
  PROVE  CoreInv'
<1> DEFINE copies == {b.copy : b \in Core!Backing(k, h)}
<1>1. /\ Drains /\ m \in MessageType /\ m.op = "close" /\ Refers(m)
      /\ 1 \in 1..Len(port) /\ m = port[1] /\ Len(port) \in Nat /\ Len(port') = Len(port) - 1
      /\ m.file \in CoreFiles /\ h \in Nat /\ k \in Core!Kinds /\ Core!Nobody.copy = 0
      /\ m.file # Core!Nobody.file /\ SlabsType
      /\ port \in Seq(MessageType) /\ port' \in Seq(MessageType) /\ port # <<>> /\ port' = Tail(port)
  <2>1. Core!Handle("close")
    BY DEF Core!Close
  <2>2. port # <<>> /\ port' = Tail(port)
    BY <2>1 DEF Core!Handle
  <2>3. port \in Seq(MessageType) /\ SlabsType
    BY DEF CoreInv, CoreTypeOK
  <2> QED
    BY <2>1, <2>2, <2>3, HeadIs, CoreConstantsAre DEF Refers
<1>2. Core!At(k, h).file = m.file /\ Core!At(k, h) # Core!Nobody /\ copy \in CopyNumbers \cup {0}
  <2>1. Core!At(k, h).file = m.file
    BY <1>1 DEF CoreInv, PortOK, ReaderOf
  <2> QED
    BY <1>1, <2>1, SlotType DEF ReaderType
<1>3. copies = {copy} \ {0}
  <2>1. \A b \in Core!Backing(k, h) : b.copy = copy /\ b.copy # 0
    BY <1>1 DEF Core!Backing, CoreInv, BackingsOK, CoreTypeOK, BackingType, CopyNumbers
  <2>2. copy # 0 => [handle |-> h, copy |-> copy] \in Core!Backing(k, h)
    BY <1>1 DEF Core!Backing, CoreInv, BackingsOK
  <2>3. ASSUME copy # 0 PROVE copy \in copies
    <3> DEFINE b == [handle |-> h, copy |-> copy]
    <3>1. b \in Core!Backing(k, h) /\ b.copy = copy
      BY <2>2, <2>3
    <3> QED
      BY <3>1
  <2> QED
    BY <2>1, <2>3
<1>4. /\ readers' = [readers EXCEPT ![k][h + 1] = Core!Nobody]
      /\ vacant' = [vacant EXCEPT ![k] = Append(@, h)]
      /\ backings' = [backings EXCEPT ![k] = Core!Remaining(k, h)]
      /\ access' = access \ copies
      /\ calls' = calls \cup {[op |-> "remove", file |-> m.file, copy |-> c, n |-> Core!Number] : c \in copies}
      /\ UNCHANGED <<disk, lost, held, answer, made>>
  BY <1>2 DEF Core!Close
<1>5. SlabsType' /\ VacantOK' /\ Puts(k, h, Core!Nobody)
  BY <1>1, <1>2, <1>4, Vacates
<1>6. Core!Number \in Int
  BY <1>1 DEF Core!Number, CoreInv, CoreTypeOK
<1> DEFINE new == [op |-> "remove", file |-> m.file, copy |-> copy, n |-> Core!Number]
<1>7. /\ calls' = IF copy = 0 THEN calls ELSE calls \cup {new}
      /\ new.copy = copy /\ (copy # 0 => new \in ReadType)
  BY <1>1, <1>2, <1>3, <1>4, <1>6 DEF ReadType
<1> HIDE DEF copies, new
<1>8. /\ Core!At(k, h)' = Core!Nobody
      /\ \A l \in Core!Kinds, g \in Nat : ~ (l = k /\ g = h) => Core!At(l, g)' = Core!At(l, g)
  BY <1>1, <1>5 DEF Puts
<1>9. \A c \in CopyNumbers : Owns(c)' <=> Owns(c) /\ c # copy
  <2> SUFFICES ASSUME NEW c \in CopyNumbers
               PROVE  Owns(c)' <=> Owns(c) /\ c # copy
    OBVIOUS
  <2>1. ASSUME NEW l \in Core!Kinds, NEW g \in Nat, Core!At(l, g)'.copy = c
        PROVE  Core!At(l, g).copy = c /\ c # copy
    <3>1. ~ (l = k /\ g = h) /\ Core!At(l, g).copy = c /\ c # 0
      BY <1>1, <1>8, <2>1 DEF CopyNumbers
    <3>2. copy = c => l = k /\ g = h
      BY <1>1, <3>1 DEF CoreInv, CopyOK
    <3> QED
      BY <3>1, <3>2
  <2>2. ASSUME NEW l \in Core!Kinds, NEW g \in Nat, Core!At(l, g).copy = c, c # copy
        PROVE  Core!At(l, g)'.copy = c
    BY <1>8, <2>2
  <2> QED
    BY <2>1, <2>2 DEF Owns
<1>10. CoreTypeOK'
  <2>1. backings' \in [Core!Kinds -> SUBSET BackingType]
    BY <1>1, <1>4 DEF CoreInv, CoreTypeOK, Core!Remaining
  <2>2. calls' \subseteq ReadType
    BY <1>7 DEF CoreInv, CoreTypeOK
  <2> QED
    BY <1>1, <1>4, <1>5, <2>1, <2>2 DEF CoreInv, CoreTypeOK
<1>11. SlotsOK'
  BY <1>1, <1>8 DEF CoreInv, SlotsOK
<1>12. PortOK'
  <2>1. ASSUME NEW i \in 1..Len(port'), NEW x, x = port'[i], Refers(x)
        PROVE  ReaderOf(x)'.file = x.file
    <3>1. i + 1 \in 1..Len(port) /\ x = port[i + 1] /\ x \in MessageType
      BY <1>1, <2>1
    <3>2. ReaderOf(x).file = x.file /\ CoreKind[x.file] \in Core!Kinds /\ x.handle \in Nat
      BY <2>1, <3>1, CoreConstantsAre DEF CoreInv, PortOK, MessageType
    <3>3. ~ OneReader(x, m)
      BY <1>1, <2>1, <3>1 DEF CoreInv, PortOK
    <3> QED
      BY <1>8, <3>2, <3>3 DEF OneReader, ReaderOf
  <2>2. \A i, j \in 1..Len(port') :
          Refers(port'[i]) /\ port'[j].op = "close" /\ OneReader(port'[i], port'[j]) => i <= j
    <3> SUFFICES ASSUME NEW i \in 1..Len(port'), NEW j \in 1..Len(port'),
                        Refers(port'[i]), port'[j].op = "close", OneReader(port'[i], port'[j])
                 PROVE  i <= j
      OBVIOUS
    <3>1. /\ i + 1 \in 1..Len(port) /\ j + 1 \in 1..Len(port)
          /\ port'[i] = port[i + 1] /\ port'[j] = port[j + 1]
      BY <1>1
    <3>2. i + 1 <= j + 1
      BY <3>1 DEF CoreInv, PortOK
    <3> QED
      BY <3>2
  <2> QED
    BY <2>1, <2>2 DEF PortOK, Refers, OneReader, ReaderOf, Core!At
<1>13. HandlesOK'
  <2> SUFFICES ASSUME NEW e \in held
               PROVE  /\ ReaderOf(e)'.file = e.file
                      /\ \A j \in 1..Len(port') : port'[j].op = "close" => ~ OneReader(e, port'[j])
    BY <1>4 DEF HandlesOK, ReaderOf, Core!At, OneReader
  <2>1. /\ ReaderOf(e).file = e.file /\ e.file \in CoreFiles /\ e.handle \in Nat
        /\ \A j \in 1..Len(port) : port[j].op = "close" => ~ OneReader(e, port[j])
    BY DEF CoreInv, HandlesOK, CoreTypeOK, HandleType
  <2>2. ~ OneReader(e, m) /\ CoreKind[e.file] \in Core!Kinds
    BY <1>1, <2>1, CoreConstantsAre
  <2>3. ReaderOf(e)' = ReaderOf(e)
    BY <1>8, <2>1, <2>2 DEF ReaderOf, OneReader
  <2>4. \A j \in 1..Len(port') : j + 1 \in 1..Len(port) /\ port'[j] = port[j + 1]
    BY <1>1
  <2> QED
    BY <2>1, <2>3, <2>4
<1>14. BackingsOK'
  <2>1. /\ backings'[k] = backings[k] \ Core!Backing(k, h)
        /\ \A l \in Core!Kinds : l # k => backings'[l] = backings[l]
    BY <1>1, <1>4 DEF CoreInv, CoreTypeOK, Core!Remaining
  <2>2. ASSUME NEW l \in Core!Kinds, NEW b \in backings'[l]
        PROVE Core!At(l, b.handle)'.copy = b.copy
    <3>1. b \in backings[l] /\ ~ (l = k /\ b.handle = h) /\ b.handle \in Nat
      BY <2>1, <2>2 DEF Core!Backing, CoreInv, CoreTypeOK, BackingType
    <3> QED
      BY <1>8, <3>1 DEF CoreInv, BackingsOK
  <2>3. ASSUME NEW l \in Core!Kinds, NEW g \in Nat, NEW c, c = Core!At(l, g)'.copy, c # 0
        PROVE  [handle |-> g, copy |-> c] \in backings'[l]
    <3>1. ~ (l = k /\ g = h) /\ c = Core!At(l, g).copy
      BY <1>1, <1>8, <2>3
    <3>2. [handle |-> g, copy |-> c] \in backings[l]
      BY <2>3, <3>1 DEF CoreInv, BackingsOK
    <3> QED
      BY <2>1, <3>1, <3>2 DEF Core!Backing
  <2> QED
    BY <2>2, <2>3 DEF BackingsOK, Core!At
<1>15. CopyOK'
  <2> USE DEF CoreInv, CopyOK
  <2>1. ASSUME NEW l \in Core!Kinds, NEW n \in Core!Kinds, NEW g \in Nat, NEW i \in Nat,
               Core!At(l, g)'.copy # 0, Core!At(l, g)'.copy = Core!At(n, i)'.copy
        PROVE  l = n /\ g = i
    <3>1. ~ (l = k /\ g = h) /\ ~ (n = k /\ i = h)
      BY <1>1, <1>8, <2>1
    <3> QED
      BY <1>8, <2>1, <3>1
  <2>2. copy # 0 => Owns(copy)
    BY <1>1 DEF Owns
  <2>3. \A c \in calls : c.copy # 0 => c.copy # copy /\ c.copy \in CopyNumbers
    BY <2>2 DEF CoreTypeOK, ReadType
  <2>4. \A c, d \in calls' : c.copy # 0 /\ c.copy = d.copy => c = d
    BY <1>7, <2>3
  <2>5. ASSUME NEW c \in calls', c.copy # 0 PROVE ~ Owns(c.copy)'
    BY <1>2, <1>7, <1>9, <2>3, <2>5
  <2> QED
    BY <2>1, <2>4, <2>5
<1>16. DiskOK'
  <2> USE DEF CoreInv, DiskOK
  <2>0. copy # 0 => Owns(copy) /\ copy \in CopyNumbers
    BY <1>1, <1>2 DEF Owns
  <2>1. access' = {c \in CopyNumbers : Owns(c)'}
    <3>1. \A c : c \in access' <=> c \in CopyNumbers /\ Owns(c) /\ c # copy
      BY <1>3, <1>4 DEF CopyNumbers
    <3> HIDE DEF DiskOK
    <3>2. \A c : c \in access' <=> c \in CopyNumbers /\ Owns(c)'
      BY <1>9, <3>1, Zenon
    <3> QED
      BY <3>2, Zenon
  <2>2. \A c \in calls' : c.copy # 0 => c.copy \in disk'
    BY <1>4, <1>7, <2>0
  <2>3. \A c \in CopyNumbers : Owns(c)' => c \in disk'
    BY <1>4, <1>9
  <2>4. ASSUME NEW c \in disk' PROVE Owns(c)' \/ c \in Core!Busy' \/ c \in lost'
    <3>1. c \in CopyNumbers /\ c # 0 /\ c \in disk
      BY <1>4, <2>4 DEF CoreTypeOK, CopyNumbers
    <3>2. Core!Busy \subseteq Core!Busy' /\ (c = copy => c \in Core!Busy')
      BY <1>7, <3>1 DEF Core!Busy
    <3> QED
      BY <1>4, <1>9, <3>1, <3>2
  <2> QED
    BY <2>1, <2>2, <2>3, <2>4
<1>17. CountOK'
  <2>1. Cardinality(disk) \in Nat /\ made \in Int
    BY FS_CardinalityType DEF CoreInv, CoreTypeOK, CountOK
  <2> QED
    BY <1>1, <1>4, <2>1 DEF CoreInv, CountOK
<1> QED
  BY <1>4, <1>5, <1>10, <1>11, <1>12, <1>13, <1>14, <1>15, <1>16, <1>17 DEF CoreInv

LEMMA CloseInv ==
  ASSUME CoreInv, Core!Close
  PROVE  CoreInv'
<1>1. \E m, k, h, copy :
      m = Head(port) /\ k = CoreKind[m.file] /\ h = m.handle /\ copy = Core!At(k, h).copy
  OBVIOUS
<1>2. PICK m, k, h, copy :
      m = Head(port) /\ k = CoreKind[m.file] /\ h = m.handle /\ copy = Core!At(k, h).copy
  BY <1>1
<1> QED
  BY <1>2, CloseOf

LEMMA CoreNextInv == CoreInv /\ [Core!Next]_(Core!vars) => CoreInv'
<1> SUFFICES ASSUME CoreInv, [Core!Next]_(Core!vars) PROVE CoreInv'
  OBVIOUS
<1>1. ASSUME NEW f \in CoreFiles, NEW op \in {"open", "inspect"}, Core!Ask(op, f) PROVE CoreInv'
  BY <1>1, AskInv
<1>2. ASSUME NEW e \in held, NEW op \in {"fetch", "close"}, Core!AskOf(op, e) PROVE CoreInv'
  BY <1>2, AskOfInv
<1>3. CASE Core!OpenUrl
  BY <1>3, OpenUrlInv
<1>4. CASE Core!ReadFile
  BY <1>4, ReadFileInv
<1>5. CASE Core!Close
  BY <1>5, CloseInv
<1>6. CASE Core!Fetch
  BY <1>6, FetchInv
<1>7. ASSUME NEW c \in calls, Core!Opened(c) PROVE CoreInv'
  BY <1>7, OpenedInv
<1>8. ASSUME NEW c \in calls, Core!ReadFails(c) PROVE CoreInv'
  BY <1>8, EndedInv DEF Core!ReadFails
<1>9. ASSUME NEW c \in calls, Core!Removed(c) PROVE CoreInv'
  BY <1>9, EndedInv DEF Core!Removed
<1>10. ASSUME UNCHANGED <<port, calls, readers, vacant, backings, disk, access, lost, held, answer, made>>
       PROVE  CoreInv'
  BY <1>10, QuietInv DEF Drains, CoreInv
<1>11. ASSUME \/ \E e \in held : Core!OpenStream(e)
              \/ Core!NextBatch \/ Core!CloseStream
       PROVE  CoreInv'
  BY <1>10, <1>11 DEF Core!OpenStream, Core!NextBatch, Core!CloseStream
<1>12. CASE UNCHANGED Core!vars
  BY <1>10, <1>12 DEF Core!vars
<1> QED
  BY <1>1, <1>2, <1>3, <1>4, <1>5, <1>6, <1>7, <1>8, <1>9, <1>11, <1>12 DEF Core!Next

LEMMA CoreInvOwns == CoreInv => CopiesOwned
<1> SUFFICES ASSUME CoreInv PROVE CopiesOwned
  OBVIOUS
<1>0. Core!Nobody.copy = 0 /\ SlabsType /\ backings \in [Core!Kinds -> SUBSET BackingType]
      /\ \A f \in CoreFiles : CoreKind[f] \in Core!Kinds /\ f # Core!Nobody.file
  BY CoreConstantsAre DEF CoreInv, CoreTypeOK
<1>1. ASSUME NEW k \in Core!Kinds, NEW h \in Core!Readers(k)
      PROVE  {b.copy : b \in Core!Backing(k, h)} = {Core!At(k, h).copy} \ {0}
  <2>1. h \in Nat
    BY <1>0 DEF Core!Readers, SlabsType
  <2>2. \A b \in Core!Backing(k, h) : b.copy = Core!At(k, h).copy /\ b.copy # 0
    BY <1>0 DEF Core!Backing, CoreInv, BackingsOK, BackingType, CopyNumbers
  <2>3. Core!At(k, h).copy # 0 => [handle |-> h, copy |-> Core!At(k, h).copy] \in Core!Backing(k, h)
    BY <2>1 DEF Core!Backing, CoreInv, BackingsOK
  <2>4. ASSUME Core!At(k, h).copy # 0
        PROVE Core!At(k, h).copy \in {b.copy : b \in Core!Backing(k, h)}
    <3> DEFINE x == [handle |-> h, copy |-> Core!At(k, h).copy]
    <3>1. x \in Core!Backing(k, h) /\ x.copy = Core!At(k, h).copy
      BY <2>3, <2>4
    <3> QED
      BY <3>1
  <2> QED
    BY <2>2, <2>4
<1>2. \A c : c \in Core!Backed <=> c \in CopyNumbers /\ Owns(c)
  <2>1. ASSUME NEW k \in Core!Kinds, NEW b \in backings[k]
        PROVE  b.copy \in CopyNumbers /\ Owns(b.copy)
    <3>1. b.handle \in Nat /\ b.copy \in CopyNumbers /\ Core!At(k, b.handle).copy = b.copy
      BY <1>0 DEF BackingType, CoreInv, BackingsOK
    <3> QED
      BY <3>1 DEF Owns
  <2>2. ASSUME NEW c \in CopyNumbers, Owns(c) PROVE c \in Core!Backed
    <3>1. PICK k \in Core!Kinds, h \in Nat : Core!At(k, h).copy = c
      BY <2>2 DEF Owns
    <3> DEFINE x == [handle |-> h, copy |-> c]
    <3>2. c # 0
      BY DEF CopyNumbers
    <3>3. x \in backings[k] /\ x.copy = c
      BY <3>1, <3>2 DEF CoreInv, BackingsOK
    <3> QED
      BY <3>3 DEF Core!Backed
  <2>3. ASSUME NEW c \in Core!Backed PROVE \E k \in Core!Kinds : \E b \in backings[k] : b.copy = c
    BY <2>3 DEF Core!Backed
  <2> QED
    BY <2>1, <2>2, <2>3
<1>3. ASSUME NEW k \in Core!Kinds, NEW b \in backings[k]
      PROVE  b.handle \in Core!Readers(k) /\ b.copy \in disk \cap access
  <2>1. b.handle \in Nat /\ b.copy \in CopyNumbers /\ Core!At(k, b.handle).copy = b.copy
    BY <1>0 DEF BackingType, CoreInv, BackingsOK
  <2>2. Core!At(k, b.handle) # Core!Nobody
    BY <1>0, <2>1 DEF CopyNumbers
  <2>3. b.handle < Len(readers[k]) /\ Len(readers[k]) \in Nat
    BY <1>0, <2>1, <2>2, SlotType DEF SlabsType
  <2>4. Owns(b.copy)
    BY <2>1 DEF Owns
  <2> QED
    BY <2>1, <2>2, <2>3, <2>4 DEF Core!Readers, CoreInv, DiskOK
<1>4. access = Core!Backed /\ disk \subseteq Core!Backed \cup Core!Busy \cup lost
  <2>1. \A c : c \in access <=> c \in CopyNumbers /\ Owns(c)
    BY DEF CoreInv, DiskOK
  <2>2. access = Core!Backed
    BY <1>2, <2>1, Zenon
  <2>3. disk \subseteq CopyNumbers /\ \A c \in disk : Owns(c) \/ c \in Core!Busy \/ c \in lost
    BY DEF CoreInv, CoreTypeOK, DiskOK
  <2> QED
    BY <1>2, <2>2, <2>3
<1>5. \A e \in held : Core!At(CoreKind[e.file], e.handle).file = e.file
  BY DEF CoreInv, HandlesOK, ReaderOf
<1>6. ASSUME NEW d \in held, NEW e \in held, CoreKind[d.file] = CoreKind[e.file], d.handle = e.handle
      PROVE  d = e
  <2>1. d.file = e.file /\ d \in HandleType /\ e \in HandleType
    BY <1>5, <1>6 DEF CoreInv, CoreTypeOK
  <2> QED
    BY <1>6, <2>1 DEF HandleType
<1> QED
  BY <1>1, <1>3, <1>4, <1>5, <1>6 DEF CopiesOwned, Core!CopiesOwned, CoreInv

(* In every state of the worker a handle on the way is its file's, no slot *)
(* is free twice, no copy has two readers, and what is on disk is a        *)
(* reader's, of a call under way, or lost (dataCore.worker.ts).            *)
THEOREM CoreInductive == Core!Spec => []CoreInv
<1> QED
  BY CoreInitInv, CoreNextInv, PTL DEF Core!Spec

(* However opens, closes and fetches of any files overlap and whatever     *)
(* fails, a reader of a copy owns it, and what the main thread asks of a   *)
(* handle is answered from the file it opened (CopiesOwned).               *)
THEOREM CoreOwnsCopies == Core!Spec => []CopiesOwned
<1> QED
  BY CoreInductive, CoreInvOwns, PTL
===============================================================================
