-------------------------------- MODULE Intake --------------------------------
(***************************************************************************)
(* What becomes of the files of one drop (bucket.ts, mp4HeaderSlice.ts,    *)
(* tabularImport.ts, videoTimestampBinding.ts and the dialogs that ask for *)
(* what a file does not say): routed by name, then by content, opened,     *)
(* refused or queued for a dialog.                                         *)
(***************************************************************************)
EXTENDS Integers, Sequences, FiniteSets, SequencesExt

CONSTANTS
  Drops,    \* sequences of files, see FileType
  Offsets,  \* epoch offsets typed into the import dialog
  Ulp       \* what a double resolves where those offsets are

Exts == {"mcap", "mp4", "sidecar", "lidar", "csv", "parquet", "json", "other"}

FileType ==
  [name : STRING,      \* of a sidecar, the name of the mp4 it is for
   ext : Exts,
   marks : SUBSET {"calibration", "openlabel", "trajectory", "map", "draco"},
   boxes : Seq({"ftyp", "moov", "mdat", "bad"}),
   count : Nat]        \* frames of a video, rows of a table or lines of a sidecar

IntakeAssumption ==
  /\ Drops \subseteq Seq(FileType) \ {<<>>}
  /\ Offsets \subseteq Nat /\ Ulp \in Nat \ {0}

Routes == <<"eager", "lidar", "openlabel", "calibration", "trajectory", "map",
            "pairs", "videos", "tabular", "unknown">>

VARIABLES
  batch, stage,
  todo,      \* files not bucketed yet
  sidecars,  \* by the name of their mp4
  mp4s,
  buckets,   \* of each route, the files
  timedBy,   \* of each mp4, the file its timestamps are from, 0 if none
  sources, errors,
  pending,   \* the three queues of imports
  dropped,   \* cancelled by the user
  draft,     \* the epoch offset in the import dialog
  selected,  \* the table chosen in the timestamp dialog
  basis      \* of each table opened, the offset it was opened with

vars == <<batch, stage, todo, sidecars, mp4s, buckets, timedBy, sources, errors, pending,
          dropped, draft, selected, basis>>

InBatch == 1..Len(batch)

Init ==
  /\ batch \in Drops /\ stage = "bucket"
  /\ todo = [i \in 1..Len(batch) |-> i]
  /\ sidecars = <<>> /\ mp4s = <<>>
  /\ buckets = [r \in ToSet(Routes) |-> <<>>]
  /\ timedBy = [i \in 1..Len(batch) |-> 0] /\ basis = [i \in 1..Len(batch) |-> 0]
  /\ sources = {} /\ errors = <<>> /\ dropped = <<>>
  /\ pending = [tabular |-> <<>>, unknown |-> <<>>, videos |-> <<>>]
  /\ draft = 0 /\ selected = 0

-----------------------------------------------------------------------------
(* bucketFiles.                                                            *)

Route(ext) == CASE ext = "mcap" -> "eager"
                [] ext = "lidar" -> "lidar"
                [] ext \in {"csv", "parquet"} -> "tabular"
                [] OTHER -> "unknown"

Bucket ==
  /\ stage = "bucket" /\ todo # <<>> /\ todo' = Tail(todo)
  /\ LET i == Head(todo)
         f == batch[i]
     IN \/ /\ f.ext = "sidecar"
           /\ sidecars' = [n \in DOMAIN sidecars \cup {f.name} |->
                             IF n = f.name THEN i ELSE sidecars[n]]
           /\ UNCHANGED <<mp4s, buckets>>
        \/ /\ f.ext = "mp4" /\ mp4s' = Append(mp4s, i)
           /\ UNCHANGED <<sidecars, buckets>>
        \/ /\ f.ext \notin {"sidecar", "mp4"}
           /\ buckets' = [buckets EXCEPT ![Route(f.ext)] = Append(@, i)]
           /\ UNCHANGED <<sidecars, mp4s>>
  /\ UNCHANGED <<batch, stage, timedBy, sources, errors, pending, dropped, draft, selected, basis>>

\* Mutant: a sidecar that was paired stays among those without a video.
UsedUp(name) == sidecars

Others(name) == [n \in DOMAIN sidecars \ {name} |-> sidecars[n]]

Pair ==
  /\ stage = "bucket" /\ todo = <<>> /\ mp4s # <<>> /\ mp4s' = Tail(mp4s)
  /\ LET i == Head(mp4s)
         name == batch[i].name
     IN IF name \in DOMAIN sidecars
        THEN /\ buckets' = [buckets EXCEPT !.pairs = Append(@, i)]
             /\ timedBy' = [timedBy EXCEPT ![i] = sidecars[name]]
             /\ sidecars' = Others(name)
        ELSE /\ buckets' = [buckets EXCEPT !.videos = Append(@, i)]
             /\ UNCHANGED <<timedBy, sidecars>>
  /\ UNCHANGED <<batch, stage, todo, sources, errors, pending, dropped, draft, selected, basis>>

Orphans ==
  /\ stage = "bucket" /\ todo = <<>> /\ mp4s = <<>> /\ stage' = "sniff"
  /\ errors' = SetToSeq({sidecars[n] : n \in DOMAIN sidecars})
  /\ UNCHANGED <<batch, todo, sidecars, mp4s, buckets, timedBy, sources, pending, dropped,
                 draft, selected, basis>>

-----------------------------------------------------------------------------
(* openFiles sniffs every .json for its first marker in this order, and    *)
(* every table for the column of a Draco cloud.                            *)
Mark(i) == CASE "calibration" \in batch[i].marks -> "calibration"
             [] "openlabel" \in batch[i].marks -> "openlabel"
             [] "trajectory" \in batch[i].marks -> "trajectory"
             [] "map" \in batch[i].marks -> "map"
             [] OTHER -> "unknown"

Sniffed(r, i) == CASE r = "unknown" /\ batch[i].ext = "json" -> Mark(i)
                   [] r = "tabular" /\ batch[i].ext = "parquet" /\ "draco" \in batch[i].marks -> "lidar"
                   [] OTHER -> r

(* Of a list what a sniff does not take away.                              *)
Left(list, taken) ==
  FoldLeft(LAMBDA rest, i : IF i \in taken THEN rest ELSE Append(rest, i), <<>>, list)

Sniff ==
  /\ stage = "sniff" /\ stage' = "open"
  /\ buckets' = [r \in ToSet(Routes) |->
       LET Moved(q) == Left(buckets[q], {i \in InBatch : Sniffed(q, i) # r})
       IN CASE r \in {"unknown", "tabular"} -> Moved(r)
            [] r = "lidar" -> buckets[r] \o Moved("tabular")
            [] OTHER -> buckets[r] \o Moved("unknown")]
  /\ UNCHANGED <<batch, todo, sidecars, mp4s, timedBy, sources, errors, pending, dropped, draft,
                 selected, basis>>

(* readMp4HeaderBytes walks the boxes until it has both.                   *)
HasHeader(boxes) ==
  \E n \in 1..Len(boxes) : /\ {"ftyp", "moov"} \subseteq {boxes[i] : i \in 1..n}
                           /\ "bad" \notin {boxes[i] : i \in 1..n}

Opens(i, r) == r \in {"pairs", "videos"} => HasHeader(batch[i].boxes)

(* A video opens with exactly a timestamp for each frame.                  *)
Aligned(i, by) == batch[by].count = batch[i].count

(* openFiles goes through the routes in order; what needs a dialog is      *)
(* queued when all are through.                                            *)
OpenNext ==
  LET left == {n \in 1..Len(Routes) : buckets[Routes[n]] # <<>>}
      r == Routes[CHOOSE n \in left : \A k \in left : n <= k]
      i == Head(buckets[r])
  IN /\ stage = "open" /\ left # {}
     /\ buckets' = [buckets EXCEPT ![r] = Tail(@)]
     /\ \/ /\ errors' = Append(errors, i)
           /\ r = "videos" => ~Opens(i, r)
           /\ UNCHANGED <<sources, pending>>
        \/ /\ Opens(i, r) /\ r \notin {"videos", "tabular"}
           /\ r = "pairs" => Aligned(i, timedBy[i])
           /\ sources' = sources \cup {i} /\ UNCHANGED <<errors, pending>>
        \/ /\ Opens(i, r) /\ r \in DOMAIN pending
           /\ pending' = [pending EXCEPT ![r] = Append(@, i)]
           /\ UNCHANGED <<sources, errors>>
     /\ UNCHANGED <<batch, stage, todo, sidecars, mp4s, timedBy, dropped, draft, selected, basis>>

Queued ==
  /\ stage = "open" /\ \A r \in ToSet(Routes) : buckets[r] = <<>>
  /\ stage' = "dialogs"
  /\ UNCHANGED <<batch, todo, sidecars, mp4s, buckets, timedBy, sources, errors, pending, dropped,
                 draft, selected, basis>>

-----------------------------------------------------------------------------
(* The dialogs, each over the head of its queue.                           *)

Tables == {i \in sources : batch[i].ext \in {"csv", "parquet"} /\ "draco" \notin batch[i].marks}

Up == {q \in DOMAIN pending : /\ stage = "dialogs" /\ pending[q] # <<>>
                              /\ q = "videos" => pending.tabular = <<>>}

Without(q) == [pending EXCEPT ![q] = Tail(@)]

TypeOffset(n) ==
  /\ "tabular" \in Up /\ draft' = n
  /\ UNCHANGED <<batch, stage, todo, sidecars, mp4s, buckets, timedBy, sources, errors, pending,
                 dropped, selected, basis>>

(* draftToBasis: the offset becomes a double.                              *)
Narrowed(n) == ((2 * n + Ulp) \div (2 * Ulp)) * Ulp

ConfirmTabularImport ==
  /\ "tabular" \in Up /\ pending' = Without("tabular")
  /\ LET i == Head(pending.tabular)
     IN \/ /\ sources' = sources \cup {i} /\ errors' = errors
           /\ basis' = [basis EXCEPT ![i] = Narrowed(draft)]
        \/ errors' = Append(errors, i) /\ UNCHANGED <<sources, basis>>
  /\ draft' = 0
  /\ UNCHANGED <<batch, stage, todo, sidecars, mp4s, buckets, timedBy, dropped, selected>>

(* The first table is selected when the dialog comes up.                   *)
Selected == IF selected # 0 THEN selected
            ELSE IF Tables = {} THEN 0 ELSE CHOOSE i \in Tables : \A j \in Tables : i <= j

Select(i) ==
  /\ "videos" \in Up /\ i \in Tables /\ selected' = i
  /\ UNCHANGED <<batch, stage, todo, sidecars, mp4s, buckets, timedBy, sources, errors, pending,
                 dropped, draft, basis>>

(* What does not fit leaves the video queued, for another table.           *)
ConfirmVideoBinding ==
  /\ "videos" \in Up /\ Selected \in Tables
  /\ LET i == Head(pending.videos)
     IN IF Aligned(i, Selected)
        THEN /\ sources' = sources \cup {i} /\ pending' = Without("videos")
             /\ timedBy' = [timedBy EXCEPT ![i] = Selected]
             /\ selected' = 0
        ELSE UNCHANGED <<sources, pending, timedBy, selected>>
  /\ UNCHANGED <<batch, stage, todo, sidecars, mp4s, buckets, errors, dropped, draft, basis>>

ConfirmRecipeImport ==
  /\ "unknown" \in Up /\ pending' = Without("unknown")
  /\ sources' = sources \cup {Head(pending.unknown)}
  /\ UNCHANGED <<batch, stage, todo, sidecars, mp4s, buckets, timedBy, errors, dropped, draft,
                 selected, basis>>

Cancel(queues) ==
  /\ queues # {} /\ queues \subseteq Up
  /\ pending' = [q \in DOMAIN pending |-> IF q \in queues THEN Tail(pending[q]) ELSE pending[q]]
  /\ dropped' = dropped \o SetToSeq({Head(pending[q]) : q \in queues})
  /\ draft' = (IF "tabular" \in queues THEN 0 ELSE draft)
  /\ selected' = (IF "videos" \in queues THEN 0 ELSE selected)
  /\ UNCHANGED <<batch, stage, todo, sidecars, mp4s, buckets, timedBy, sources, errors, basis>>

(* useEscape: every dialog that is up listens on the window.               *)
Escape == Cancel(Up)

Next ==
  \/ Bucket \/ Pair \/ Orphans \/ Sniff \/ OpenNext \/ Queued
  \/ \E n \in Offsets : TypeOffset(n)
  \/ \E i \in InBatch : Select(i)
  \/ ConfirmTabularImport \/ ConfirmVideoBinding \/ ConfirmRecipeImport
  \/ \E q \in Up : Cancel({q})
  \/ Escape

Spec == Init /\ [][Next]_vars

-----------------------------------------------------------------------------
(* The places a file has come to rest in.                                  *)
Times(i, s) == Cardinality({n \in 1..Len(s) : s[n] = i})
Places(i) ==
  Times(i, errors) + Times(i, dropped)
  + (IF i \in sources THEN 1 ELSE 0)
  + Times(i, pending.tabular) + Times(i, pending.unknown) + Times(i, pending.videos)
  + Cardinality({v \in InBatch : batch[v].ext = "mp4" /\ timedBy[v] = i /\ batch[i].ext = "sidecar"})

(* A sidecar that another one of the same name came after.                 *)
Hidden(i) == /\ batch[i].ext = "sidecar"
             /\ \E j \in InBatch : j > i /\ batch[j].ext = "sidecar" /\ batch[j].name = batch[i].name

(* Whatever the order of a drop, each file is opened, refused with an      *)
(* error, given up by the user or waited for by a dialog, once; a video    *)
(* has the sidecar of its own name, or none was there for it; and what     *)
(* times an open video has a time for each frame (bucket.ts:142-146,       *)
(* "equality matching stays strict"; VideoTimestampDialog.tsx, "The row    *)
(* count must equal the video's frame count").                             *)
EachFileOnce ==
  stage = "dialogs" =>
    /\ \A i \in InBatch : Places(i) = IF Hidden(i) THEN 0 ELSE 1
    /\ \A i \in InBatch : batch[i].ext = "mp4" =>
         /\ i \in sources => timedBy[i] # 0 /\ Aligned(i, timedBy[i])
         /\ LET twins == {j \in InBatch : batch[j].ext = "mp4" /\ batch[j].name = batch[i].name}
                fits  == {j \in InBatch : batch[j].ext = "sidecar" /\ batch[j].name = batch[i].name}
            IN /\ timedBy[i] # 0 /\ batch[timedBy[i]].ext = "sidecar" => timedBy[i] \in fits
               /\ fits # {} => \E j \in twins : timedBy[j] \in fits

(* Disagreements.  "previewStartNs": "The wall-clock start epoch (ns) the  *)
(* chosen basis WILL anchor the timeline to" (tabularImport.ts:173-174);   *)
(* the offset is narrowed on its way.  A sidecar "left over ... still an   *)
(* error" (bucket.ts:201); one that was overwritten is not reported.       *)
(* "Escape closes" (Dialog.tsx:14): it cancels the imports of all dialogs  *)
(* that are up, the covered ones too.                                      *)
PreviewIsBasis   == [][ConfirmTabularImport =>
                         basis' = basis \/ \E i \in InBatch : basis'[i] = draft]_vars
NothingHidden    == stage = "dialogs" => \A i \in InBatch : Places(i) = 1
EscapeClosesOne  == [][Len(dropped') <= Len(dropped) + 1]_vars
===============================================================================
