------------------------------- MODULE DataCore -------------------------------
(***************************************************************************)
(* The worker that owns the readers (dataCore.worker.ts): calls of the     *)
(* main thread arrive in order on its port, each runs up to its first      *)
(* await and goes on when that is done.  A dropped recording is copied     *)
(* into the private file system and read through a synchronous handle of   *)
(* the copy; the reader it backs is known by its index in a slab, and a    *)
(* slab gives the index freed last to the next reader.                     *)
(***************************************************************************)
EXTENDS Integers, Sequences, FiniteSets, SequencesExt

CONSTANTS
  Files,
  Kind,      \* of each file, the slab its reader is in
  Way,       \* how it is read, see Slab
  Good,      \* files whose reader opens
  MaxCalls

-----------------------------------------------------------------------------
(* The slabs of readers.  Of each, how its files may be read: through a    *)
(* "copy" in OPFS, by ranges of a "url", from all of their "bytes" or from *)
(* bytes "given" with the call; and whether a file may only be inspected.  *)

Slab(ways, inspects) == [ways |-> ways, inspects |-> inspects]

Mf4         == Slab({"copy", "url"}, FALSE)
Mcap        == Slab({"copy", "url"}, FALSE)
Ros1Bag     == Slab({"bytes"}, FALSE)
Ros2Db3     == Slab({"bytes"}, FALSE)
Mp4Sidecar  == Slab({"bytes", "given"}, FALSE)
Tabular     == Slab({"bytes"}, TRUE)
Recipe      == Slab({"bytes"}, TRUE)
Lidar       == Slab({"bytes"}, FALSE)
Openlabel   == Slab({"bytes"}, FALSE)
Calibration == Slab({"bytes"}, FALSE)
Trajectory  == Slab({"bytes"}, FALSE)
MapGeometry == Slab({"bytes"}, FALSE)

Slabs ==
  [mf4 |-> Mf4, mcap |-> Mcap, ros1 |-> Ros1Bag, ros2 |-> Ros2Db3, mp4 |-> Mp4Sidecar,
   tabular |-> Tabular, recipe |-> Recipe, lidar |-> Lidar, openlabel |-> Openlabel,
   calibration |-> Calibration, trajectory |-> Trajectory, map |-> MapGeometry]

(* The slot of a slab with no reader in it.                                *)
Nobody == [file |-> "none", copy |-> 0]

CoreAssumption ==
  /\ Kind \in [Files -> DOMAIN Slabs]
  /\ DOMAIN Way = Files /\ \A f \in Files : Way[f] \in Slabs[Kind[f]].ways
  /\ Nobody.file \notin Files
  /\ Good \subseteq Files /\ MaxCalls \in Nat

Kinds == {Kind[f] : f \in Files}

VARIABLES
  port,      \* messages of the main thread not handled yet
  calls,     \* what awaits: opens reading, opens and closes removing a copy
  slab,      \* of each kind, the readers by handle
  vacant,    \* the slab's list of free indices
  backings,  \* mcapBackings, mf4Backings: handle to copy
  disk,      \* OPFS entries, by the number of the call that made them
  access,    \* those with an open sync access handle
  lost,      \* entries a failed copy or removal left behind
  held,      \* handles the main thread has, with the file it opened
  answer,    \* the last one: what was asked and what was read
  streams,   \* video streams: the handle each pulls by, and its file
  made       \* calls made

vars == <<port, calls, slab, vacant, backings, disk, access, lost, held, answer, streams, made>>

Init ==
  /\ port = <<>> /\ calls = {} /\ disk = {} /\ access = {} /\ lost = {} /\ held = {}
  /\ slab = [k \in Kinds |-> <<>>] /\ vacant = [k \in Kinds |-> <<>>]
  /\ backings = [k \in Kinds |-> {}]
  /\ answer = [asked |-> "none", read |-> "none"] /\ streams = {} /\ made = 0

At(k, h) == IF h < Len(slab[k]) THEN slab[k][h + 1] ELSE Nobody

-----------------------------------------------------------------------------
(* The main thread.  It lets go of a handle when it asks for the close.    *)

Post(m) == made < MaxCalls /\ made' = made + 1 /\ port' = Append(port, m)

Ask(op, f) ==
  /\ op = "inspect" => Slabs[Kind[f]].inspects
  /\ Post([op |-> op, file |-> f, handle |-> 0])
  /\ UNCHANGED <<calls, slab, vacant, backings, disk, access, lost, held, answer, streams>>

AskOf(op, e) ==
  /\ Post([op |-> op, file |-> e.file, handle |-> e.handle])
  /\ held' = IF op = "close" THEN held \ {e} ELSE held
  /\ UNCHANGED <<calls, slab, vacant, backings, disk, access, lost, answer, streams>>

-----------------------------------------------------------------------------
(* A message is handled.                                                   *)

Handle(op) == port # <<>> /\ Head(port).op = op /\ port' = Tail(port)

(* The number of the message that is handled.                              *)
Number == made - Len(port)

(* A reader goes to the index freed last, or a new one.                    *)
Insert(f, copy) ==
  LET k == Kind[f]
      h == IF vacant[k] = <<>> THEN Len(slab[k]) ELSE Last(vacant[k])
      r == [file |-> f, copy |-> copy]
  IN /\ slab' = [slab EXCEPT ![k] = IF h = Len(@) THEN Append(@, r) ELSE [@ EXCEPT ![h + 1] = r]]
     /\ vacant' = [vacant EXCEPT ![k] = IF @ = <<>> THEN @ ELSE Front(@)]
     /\ backings' = IF copy = 0 THEN backings
                    ELSE [backings EXCEPT ![k] = @ \cup {[handle |-> h, copy |-> copy]}]
     /\ held' = held \cup {[file |-> f, handle |-> h]}

(* openMf4Url, and openMcapUrl of a server that knows ranges: the probe    *)
(* and the reads are synchronous, as is an open of bytes that are given.   *)
OpenUrl ==
  /\ Handle("open") /\ Way[Head(port).file] \in {"url", "given"}
  /\ \/ Insert(Head(port).file, 0)
     \/ UNCHANGED <<slab, vacant, backings, held>>
  /\ UNCHANGED <<calls, disk, access, lost, answer, streams, made>>

(* What reads a file first: openMcap and openMf4 make a copy of it, the     *)
(* other opens get its bytes, and tabularInspect and recipeDryRun get them *)
(* and retain nothing.                                                     *)
Fresh == CHOOSE c \in 1..MaxCalls : c \notin disk

ReadFile ==
  \E op \in {"open", "inspect"} :
    /\ Handle(op)
    /\ LET f    == Head(port).file
           copy == IF op = "open" /\ Way[f] = "copy" THEN Fresh ELSE 0
       IN /\ IF op = "open" THEN Way[f] \in {"copy", "bytes"} ELSE Slabs[Kind[f]].inspects
          /\ calls' = calls \cup {[op |-> op, file |-> f, copy |-> copy, n |-> Number]}
          /\ disk' = disk \cup ({copy} \ {0})
    /\ UNCHANGED <<slab, vacant, backings, access, lost, held, answer, streams, made>>

(* The file is read: its reader opens and is registered, or the copy is to *)
(* be removed.                                                             *)
Opened(c) ==
  /\ c \in calls /\ c.op \in {"open", "inspect"}
  /\ IF c.op = "open" /\ c.file \in Good
     THEN /\ Insert(c.file, c.copy) /\ calls' = calls \ {c}
          /\ access' = access \cup ({c.copy} \ {0})
     ELSE /\ calls' = (calls \ {c}) \cup
                        (IF c.copy = 0 THEN {} ELSE {[c EXCEPT !.op = "remove"]})
          /\ UNCHANGED <<slab, vacant, backings, access, held>>
  /\ UNCHANGED <<port, disk, lost, answer, streams, made>>

(* The copy or the read fails; nothing removes what is there of the copy.  *)
ReadFails(c) ==
  /\ c \in calls /\ c.op \in {"open", "inspect"}
  /\ calls' = calls \ {c} /\ lost' = lost \cup ({c.copy} \ {0})
  /\ UNCHANGED <<port, slab, vacant, backings, disk, access, held, answer, streams, made>>

Backing(k, h) == {b \in backings[k] : b.handle = h}

\* Mutant: the backing of a closed reader stays in the map.
Kept(k, h) == backings[k]

Remaining(k, h) == backings[k] \ Backing(k, h)

(* closeMcap, closeMf4 and the like: no operation on a stale handle; what  *)
(* is not a copy has no backing.                                           *)
Close ==
  /\ Handle("close")
  /\ LET k == Kind[Head(port).file]
         h == Head(port).handle
         copies == {b.copy : b \in Backing(k, h)}
     IN /\ IF At(k, h) = Nobody THEN UNCHANGED <<slab, vacant>>
           ELSE /\ slab' = [slab EXCEPT ![k][h + 1] = Nobody]
                /\ vacant' = [vacant EXCEPT ![k] = Append(@, h)]
        /\ backings' = [backings EXCEPT ![k] = Remaining(k, h)]
        /\ access' = access \ copies
        /\ calls' = calls \cup
             {[op |-> "remove", file |-> Head(port).file, copy |-> c, n |-> Number] : c \in copies}
  /\ UNCHANGED <<disk, lost, held, answer, streams, made>>

(* removeEntry, at best.                                                   *)
Removed(c) ==
  /\ c \in calls /\ c.op = "remove" /\ calls' = calls \ {c}
  /\ \/ disk' = disk \ {c.copy} /\ lost' = lost
     \/ disk' = disk /\ lost' = lost \cup {c.copy}
  /\ UNCHANGED <<port, slab, vacant, backings, access, held, answer, streams, made>>

(* fetch_range and the like, of the reader that has the handle.            *)
Fetch ==
  /\ Handle("fetch")
  /\ answer' = [asked |-> Head(port).file, read |-> At(Kind[Head(port).file], Head(port).handle).file]
  /\ UNCHANGED <<calls, slab, vacant, backings, disk, access, lost, held, streams, made>>

(* The bridge to the decode worker, a port of its own: a stream keeps the  *)
(* handle of its reader, not the reader.                                   *)
OpenStream(e) ==
  /\ e \in held /\ Kind[e.file] = "mcap" /\ streams = {}
  /\ streams' = {[file |-> e.file, handle |-> e.handle, read |-> e.file]}
  /\ UNCHANGED <<port, calls, slab, vacant, backings, disk, access, lost, held, answer, made>>

NextBatch ==
  \E s \in streams :
    /\ streams' = {[s EXCEPT !.read = At("mcap", s.handle).file]}
    /\ UNCHANGED <<port, calls, slab, vacant, backings, disk, access, lost, held, answer, made>>

CloseStream ==
  /\ streams # {} /\ streams' = {}
  /\ UNCHANGED <<port, calls, slab, vacant, backings, disk, access, lost, held, answer, made>>

Next ==
  \/ \E f \in Files, op \in {"open", "inspect"} : Ask(op, f)
  \/ \E e \in held, op \in {"fetch", "close"} : AskOf(op, e)
  \/ OpenUrl \/ ReadFile \/ Close \/ Fetch
  \/ \E c \in calls : Opened(c) \/ ReadFails(c) \/ Removed(c)
  \/ \E e \in held : OpenStream(e)
  \/ NextBatch \/ CloseStream

Spec == Init /\ [][Next]_vars

-----------------------------------------------------------------------------
Readers(k) == {h \in 0..Len(slab[k]) - 1 : At(k, h) # Nobody}
Backed     == UNION {{b.copy : b \in backings[k]} : k \in Kinds}
Busy       == {c.copy : c \in calls} \ {0}

(* Whatever opens and closes overlap and whatever handles are given again, *)
(* a reader of a copy has that copy, on disk and open, under its own       *)
(* handle ("Keyed by the wasm reader handle", dataCore.worker.ts:154-155); *)
(* no copy outlives its reader but one that could not be made or removed;  *)
(* and a handle of the main thread is the reader it opened, so what it     *)
(* asks is answered from that file.                                        *)
CopiesOwned ==
  /\ \A k \in Kinds : \A h \in Readers(k) :
       {b.copy : b \in Backing(k, h)} = {At(k, h).copy} \ {0}
  /\ \A k \in Kinds : \A b \in backings[k] :
       b.handle \in Readers(k) /\ b.copy \in disk \cap access
  /\ access = Backed
  /\ disk \subseteq Backed \cup Busy \cup lost
  /\ \A e \in held :
       At(Kind[e.file], e.handle).file = e.file
  /\ \A d, e \in held : Kind[d.file] = Kind[e.file] /\ d.handle = e.handle => d = e
  /\ answer.read = answer.asked

(* A stream reads the file it was opened on (lib.rs:72-74, "The reader     *)
(* stays in `MCAP_READERS` for the source's lifetime"): a stream the       *)
(* decode worker has not closed yet reads the next file of its handle.     *)
StreamsOwnFile == \A s \in streams : s.read \in {s.file, Nobody.file}
===============================================================================
