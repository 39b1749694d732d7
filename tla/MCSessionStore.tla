---------------------------- MODULE MCSessionStore ----------------------------
(***************************************************************************)
(* The session's sources and what is before and behind them, one at a      *)
(* time: the store's operations, the way of dropped files to a source or a *)
(* dialog, and the worker that keeps the readers, over its port.           *)
(***************************************************************************)
EXTENDS SessionStore

CONSTANTS
  CoreFiles, CoreKind, CoreWay, CoreGood, CoreCalls,  \* what DataCore runs with
  IntakeDrops, IntakeOffsets, IntakeUlp               \* and Intake

VARIABLES
  part,  \* the one that runs
  batch, stage, todo, sidecars, mp4s, buckets, timedBy, opened, errors, pending,
  dropped, draft, selected, basis,
  port, calls, readers, vacant, backings, disk, access, lost, held, answer, streams, made

intakeVars == <<batch, stage, todo, sidecars, mp4s, buckets, timedBy, opened, errors, pending,
                dropped, draft, selected, basis>>
coreVars   == <<port, calls, readers, vacant, backings, disk, access, lost, held, answer, streams,
                made>>

F(name, kind, lo, hi) == [name |-> name, kind |-> kind, lo |-> lo, hi |-> hi]

Log    == F("a", "mcap", 1, 2)
Log2   == F("a", "mcap", 2, 3)
Calib  == F("a", "calibration", 0, 0)
Calib2 == F("b", "calibration", 0, 0)
Table  == F("a", "tabular", 1, 3)
Other  == F("a", "unknown", 0, 2)
Video  == F("b", "video", 1, 2)
Clip   == F("a", "mp4", 1, 2)

AllFiles == {Log, Log2, Calib, Calib2, Table, Other, Video, Clip}

Plan(files, acts, most) == [files |-> files, acts |-> acts, most |-> most]

\* Same-named logs with inline sources and scrubs; panels that fetch what is
\* moved, removed and opened again; imports of every queue; calibrations, also
\* under an id an inline source takes; and failures.
Everyday ==
  {Plan({Log, Log2}, {"open", "remove", "clear", "inline", "scrub"}, 4),
   Plan({Log}, {"open", "remove", "clear", "bind", "fetch", "offset"}, 5),
   Plan({Log}, {"open", "remove", "fetch", "offset"}, 6),
   Plan({Table, Other, Video}, {"open", "confirm", "cancel", "clear"}, 4),
   Plan({Calib}, {"open", "remove", "clear", "load", "bind"}, 5),
   Plan({Calib}, {"open", "inline", "load", "remove"}, 4),
   Plan({Calib, Clip}, {"open", "remove", "clear"}, 4),
   Plan({Log, Clip}, {"open", "remove", "fault"}, 4),
   Plan({Log, Other}, {"open", "confirm", "fault"}, 4)}

\* A calibration that is removed.
OneCalibration == {Plan({Calib}, {"open", "remove"}, 2)}

-----------------------------------------------------------------------------
D(name, ext, marks, boxes, count) ==
  [name |-> name, ext |-> ext, marks |-> marks, boxes |-> boxes, count |-> count]

Fine == <<"ftyp", "mdat", "moov">>

CsvOf2     == D("t", "csv", {}, <<>>, 2)
ParquetOf3 == D("t", "parquet", {}, <<>>, 3)
Mp4        == D("v", "mp4", {}, Fine, 2)

\* A video, a sidecar that fits, a table that fits; and what is beside them:
\* videos that do not open, a sidecar and tables that do not fit, and the rest.
Usual == {Mp4, D("v", "sidecar", {}, <<>>, 2), CsvOf2}

Odd ==
  {D("w", "mp4", {}, <<"ftyp", "bad", "moov">>, 2), D("w", "mp4", {}, <<"moov", "ftyp">>, 3),
   D("v", "sidecar", {}, <<>>, 3), ParquetOf3, D("t", "parquet", {"draco"}, <<>>, 3),
   D("j", "json", {"openlabel", "calibration"}, <<>>, 0), D("j", "json", {}, <<>>, 0),
   D("m", "mcap", {}, <<>>, 0), D("l", "lidar", {"draco"}, <<>>, 0),
   D("o", "other", {"map"}, <<>>, 0)}

TheDrops ==
  UNION {[1..3 -> Usual \cup {o}] : o \in Odd}
  \cup {<<x, Mp4, y, D("o", "other", {}, <<>>, 0)>> : x, y \in {CsvOf2, ParquetOf3}}

Intake == INSTANCE Intake WITH
  Drops <- IntakeDrops, Offsets <- IntakeOffsets, Ulp <- IntakeUlp, sources <- opened

Core == INSTANCE DataCore WITH
  Files <- CoreFiles, Kind <- CoreKind, Way <- CoreWay, Good <- CoreGood, MaxCalls <- CoreCalls,
  slab <- readers

(* Two logs that are copied, one of them not a log; a log behind a URL, a  *)
(* table that is read whole and a video that comes with its timestamps.    *)
KindOf == [a |-> "mcap", b |-> "mcap", u |-> "mcap", t |-> "tabular", v |-> "mp4"]
WayOf  == [a |-> "copy", b |-> "copy", u |-> "url", t |-> "bytes", v |-> "given"]

ASSUME IntakeConstants == Intake!IntakeAssumption
ASSUME CoreConstants == Core!CoreAssumption

(* What does not run rests in an initial state of its own.                 *)
StoreInit ==
  /\ part \in {"store", "intake", "core"}
  /\ Init /\ (part # "store" => env.plan = CHOOSE p \in Plans : TRUE)
  /\ Core!Init
  /\ Intake!Init /\ (part # "intake" => batch = CHOOSE d \in IntakeDrops : TRUE)

StoreNext ==
  \/ part = "store" /\ Next /\ UNCHANGED <<part, intakeVars, coreVars>>
  \/ part = "intake" /\ Intake!Next /\ UNCHANGED <<part, vars, coreVars>>
  \/ part = "core" /\ Core!Next /\ UNCHANGED <<part, vars, intakeVars>>

StoreSpec == StoreInit /\ [][StoreNext]_<<part, vars, intakeVars, coreVars>>

(* Each file of a drop ends in one place (Intake).                         *)
EachFileOnce == Intake!EachFileOnce

(* A reader of a copy owns it, and a handle is its file's (DataCore).      *)
CopiesOwned == Core!CopiesOwned

(* Disagreements with the code's own comments, see the modules.            *)
PreviewIsBasis  == Intake!PreviewIsBasis
NothingHidden   == Intake!NothingHidden
EscapeClosesOne == Intake!EscapeClosesOne
StreamsOwnFile  == Core!StreamsOwnFile
===============================================================================
