------------------------------ MODULE SampleCache ------------------------------
(***************************************************************************)
(* The lazily read samples of mp4 sources (state/mp4SampleCache.ts), the   *)
(* memory ceiling the caches share (memoryBudget.ts), the store that opens *)
(* and disposes them, and the readers in the video and capture workers     *)
(* that ask for samples through a relay on the main thread (VideoPanel.tsx,*)
(* videoCapture.ts, videoDecodeOps.ts: makeMp4LazyOps).                    *)
(*                                                                         *)
(* A cache stands for the opening of one mp4: its file and its index.  The *)
(* relay finds it by the handle of a listed source.  A request over the    *)
(* relay takes effect when it is answered.                                 *)
(***************************************************************************)
EXTENDS Integers, Sequences, FiniteSets, FiniteSetsExt, SequencesExt

CONSTANTS
  Caches,    \* openings of mp4 sources, numbered in their order
  Handles,   \* handles of the mp4 slab
  N,         \* samples in a file
  Keyframes, \* samples a stream may start at
  Size,      \* bytes of each sample
  Budget,    \* a cache's own budget
  Floor,     \* ACTIVE_HARD_FLOOR_BYTES
  Ceiling,   \* the ceiling the caches share
  Readers,   \* streams of the workers
  Capturers, \* those of the capture worker, which do not pin
  Batch,     \* most samples one `next` takes
  Ahead,     \* PREFETCH_AHEAD
  IndexCap,  \* MAX_CACHED_HANDLES
  Plans      \* how often each kind of act may happen

Samples == 1..N

ASSUME CacheAssumption ==
  /\ Caches \subseteq Nat \ {0} /\ IsFiniteSet(Caches)
  /\ Handles \subseteq Nat /\ Capturers \subseteq Readers
  /\ N \in Nat \ {0} /\ Keyframes \subseteq Samples
  /\ Size \in [Samples -> Nat \ {0}]
  /\ {Budget, Floor, Ceiling, Ahead} \subseteq Nat
  /\ {Batch, IndexCap} \subseteq Nat \ {0}

VARIABLES
  source,    \* of each cache: its place in the session and its handle
  mem,       \* what each cache keeps, see Empty
  reported,  \* bytes the coordinator has for a cache, -1: not registered
  total,     \* bytes the coordinator counts
  pressure,  \* memoryPressure() is high
  reader,    \* the streams, see NoStream
  indexes,   \* each worker's mp4IndexCache, least recently used first
  clearing,  \* the session is being cleared
  left       \* what is left of the plan

budget == <<reported, total>>
vars == <<source, mem, budget, pressure, reader, indexes, clearing, left>>

(* A cache before it is opened and after it has been disposed.             *)
Empty ==
  [lru |-> <<>>,      \* samples held, least recently used first
   active |-> {},     \* samples pinned by a decoder window
   inFlight |-> {},   \* samples whose read a later caller joins
   reads |-> [i \in Samples |-> 0],  \* file reads under way
   told |-> {},       \* loadedRanges: samples the timeline shows
   notify |-> FALSE,  \* a notification is scheduled
   lit |-> FALSE,     \* pendingFetch: the timeline shows a spinner
   lost |-> FALSE]    \* an open that lit the spinner has failed

NoStream ==
  [phase |-> "idle",
   handle |-> 0,
   index |-> 0,       \* the cache whose index the stream holds
   on |-> 0,          \* the cache whose sample is awaited
   at |-> 1,          \* cursor: the next sample
   end |-> 1,         \* where the batch ends
   began |-> 1,       \* where it began
   first |-> FALSE,   \* the first sample's bytes are kept
   closed |-> FALSE]  \* closed while a batch was being read

Init ==
  /\ source = [c \in Caches |-> [place |-> "new", handle |-> 0]]
  /\ mem = [c \in Caches |-> Empty]
  /\ reported = [c \in Caches |-> -1] /\ total = 0
  /\ pressure = FALSE
  /\ reader = [r \in Readers |-> NoStream]
  /\ indexes = [r \in Readers |-> <<>>]
  /\ clearing = FALSE
  /\ left \in Plans

May(act) == left[act] > 0 /\ left' = [left EXCEPT ![act] = @ - 1]

Weight == [S \in SUBSET Samples |-> SumFunctionOnSet(Size, S)]

Without(s, S) == FoldLeft(LAMBDA rest, i : IF i \in S THEN rest ELSE Append(rest, i), <<>>, s)

Held(m)    == ToSet(m.lru)
Bytes(m)   == Weight[Held(m)]
Listed     == {c \in Caches : source[c].place \in {"listed", "disposed"}}

(* activeHardCeiling.                                                      *)
HardCeiling == Max({Floor, 2 * Budget})

-----------------------------------------------------------------------------
(* Mp4SampleCache.                                                         *)

Touched(m, i) == [m EXCEPT !.lru = Append(Without(@, {i}), i)]

(* Samples go, the least recently used first, but never one in `keep`,     *)
(* while more than `limit` bytes are held.                                 *)
Shrunk(lru, keep, limit) ==
  LET order   == Without(lru, keep)
      gone(k) == {order[i] : i \in 1..k}
      enough  == {k \in 0..Len(order) : Weight[ToSet(lru) \ gone(k)] <= limit}
  IN Without(lru, gone(IF enough = {} THEN Len(order) ELSE Min(enough)))

\* Mutant: pinned samples go with the others.
EvictedPinned(m, over) ==
  LET hard == Shrunk(m.lru, {}, IF over THEN -1 ELSE Budget)
  IN [m EXCEPT !.lru = hard, !.active = @ \ (Held(m) \ ToSet(hard))]

\* Mutant: pinned samples stay whatever they take.
EvictedSoft(m, over) ==
  [m EXCEPT !.lru = Shrunk(@, m.active, IF over THEN -1 ELSE Budget)]

\* Mutant: a cache looks at its own budget only.
EvictedAlone(m, over) ==
  LET soft == Shrunk(m.lru, m.active, Budget)
      hard == Shrunk(soft, {}, HardCeiling)
  IN [m EXCEPT !.lru = hard, !.active = @ \ (Held(m) \ ToSet(hard))]

(* evictIfNeeded.  The coordinator's total does not move while samples go, *)
(* so a cache that finds it too high lets go of all that is not pinned.    *)
Evicted(m, over) ==
  LET soft == Shrunk(m.lru, m.active, IF over THEN -1 ELSE Budget)
      hard == Shrunk(soft, {}, HardCeiling)
  IN [m EXCEPT !.lru = hard, !.active = @ \ (Held(m) \ ToSet(hard))]

Known == [c \in Caches |-> IF reported[c] = -1 THEN 0 ELSE reported[c]]

\* Mutant: only the eviction of samples schedules a notification.
InsertedQuietly(c, m, i) ==
  LET with == [m EXCEPT !.lru = Append(@, i)]
      kept == Evicted(with, pressure \/ total + Bytes(with) - Known[c] > Ceiling)
  IN [kept EXCEPT !.notify = m.notify \/ kept.lru # with.lru]

(* fetchSample, once the bytes are there and nobody else has put them in.  *)
Inserted(c, m, i) ==
  LET with == [m EXCEPT !.lru = Append(@, i)]
      kept == Evicted(with, pressure \/ total + Bytes(with) - Known[c] > Ceiling)
  IN [kept EXCEPT !.notify = TRUE]

(* `report` counts what changed; a cache it does not know is registered.   *)
Report(c, bytes) ==
  /\ reported' = [reported EXCEPT ![c] = bytes]
  /\ total' = total + bytes - Known[c]

(* A read ends, whether it or a newer one is the one callers join.         *)
ReadEnded(m, i) == [m EXCEPT !.reads[i] = @ - 1, !.inFlight = @ \ {i}]

\* Mutant: a caller does not look for a read under way.
FetchingAgain(m, S) ==
  [m EXCEPT !.reads = [i \in Samples |-> IF i \in S \ Held(m) THEN @[i] + 1 ELSE @[i]],
            !.inFlight = @ \cup (S \ Held(m))]

(* getSample and prefetchRange of samples that are not held: a read each,  *)
(* unless one is under way.                                                *)
Fetching(m, S) ==
  [m EXCEPT !.reads = [i \in Samples |-> IF i \in S \ (Held(m) \cup m.inFlight)
                                         THEN @[i] + 1 ELSE @[i]],
            !.inFlight = @ \cup (S \ Held(m))]

(* What a stream does when the sample it waits for has come.               *)
Took(s) ==
  IF s.phase = "opening" THEN [s EXCEPT !.phase = "ready", !.first = TRUE, !.on = 0]
  ELSE [s EXCEPT !.at = @ + 1, !.first = FALSE, !.on = 0,
                 !.phase = IF s.at = s.began THEN "clear" ELSE "sample"]

(* ... and when it never will: the open or the batch rejects.              *)
Failed(s) ==
  IF s.phase = "opening" \/ s.closed THEN NoStream
  ELSE [s EXCEPT !.phase = "ready", !.on = 0]

Waiting(c, i) == {r \in Readers : reader[r].on = c /\ reader[r].at = i}

FetchLands ==
  \E c \in Caches, i \in Samples :
    /\ mem[c].reads[i] > 0
    /\ LET m == ReadEnded(mem[c], i) IN
         IF i \in Held(m)
         THEN mem' = [mem EXCEPT ![c] = Touched(m, i)] /\ UNCHANGED budget
         ELSE LET kept == Inserted(c, m, i)
              IN mem' = [mem EXCEPT ![c] = kept] /\ Report(c, Bytes(kept))
    /\ reader' = [r \in Readers |-> IF r \in Waiting(c, i) THEN Took(reader[r]) ELSE reader[r]]
    /\ UNCHANGED <<source, pressure, indexes, clearing, left>>

(* The file can no longer be read.                                         *)
FetchFails ==
  /\ May("faults")
  /\ \E c \in Caches, i \in Samples :
       /\ mem[c].reads[i] > 0
       /\ LET m == ReadEnded(mem[c], i)
              opens == {r \in Waiting(c, i) : reader[r].phase = "opening"}
          IN mem' = [mem EXCEPT ![c] = IF opens = {} THEN m ELSE [m EXCEPT !.lost = TRUE]]
       /\ reader' = [r \in Readers |-> IF r \in Waiting(c, i) THEN Failed(reader[r]) ELSE reader[r]]
  /\ UNCHANGED <<source, budget, pressure, indexes, clearing>>

(* The scheduled notification: a disposed cache has no subscribers.        *)
Notify ==
  /\ \E c \in Caches :
       /\ mem[c].notify
       /\ mem' = [mem EXCEPT ![c].notify = FALSE,
                             ![c].told = IF source[c].place = "listed" THEN Held(mem[c]) ELSE @]
  /\ UNCHANGED <<source, budget, pressure, reader, indexes, clearing, left>>

PressureChanges ==
  /\ May("pressures")
  /\ pressure' = ~pressure
  /\ UNCHANGED <<source, mem, budget, reader, indexes, clearing>>

-----------------------------------------------------------------------------
(* The store.                                                              *)

(* An open mp4 has a new cache; the slab gives the least vacant handle.    *)
OpenSource ==
  /\ ~clearing
  /\ May("opens")
  /\ LET new  == {c \in Caches : source[c].place = "new"}
         free == Handles \ {source[c].handle : c \in Listed}
     IN /\ new # {} /\ free # {}
        /\ source' = [source EXCEPT ![Min(new)] = [place |-> "listed", handle |-> Min(free)]]
        /\ reported' = [reported EXCEPT ![Min(new)] = 0]
  /\ UNCHANGED <<mem, total, pressure, reader, indexes, clearing>>

\* Mutant: dispose() leaves the bytes with the coordinator.
DisposeCounted(c) ==
  /\ mem' = [mem EXCEPT ![c] = [Empty EXCEPT !.reads = mem[c].reads, !.told = mem[c].told,
                                             !.notify = mem[c].notify, !.lit = mem[c].lit]]
  /\ reported' = [reported EXCEPT ![c] = -1]
  /\ UNCHANGED total

(* dispose(): reads under way go on, the timeline keeps what it shows.     *)
Dispose(c) ==
  /\ mem' = [mem EXCEPT ![c] = [Empty EXCEPT !.reads = mem[c].reads, !.told = mem[c].told,
                                             !.notify = mem[c].notify, !.lit = mem[c].lit]]
  /\ reported' = [reported EXCEPT ![c] = -1]
  /\ total' = total - Known[c]

(* removeSource: the source, its ranges and its spinner go with the cache. *)
RemoveSource ==
  /\ ~clearing
  /\ May("removes")
  /\ \E c \in Listed :
       /\ source' = [source EXCEPT ![c].place = "gone"]
       /\ mem' = [mem EXCEPT ![c] = [Empty EXCEPT !.reads = mem[c].reads, !.notify = mem[c].notify]]
       /\ reported' = [reported EXCEPT ![c] = -1]
       /\ total' = total - Known[c]
  /\ UNCHANGED <<pressure, reader, indexes, clearing>>

StartClear ==
  /\ ~clearing
  /\ May("clears")
  /\ clearing' = TRUE
  /\ UNCHANGED <<source, mem, budget, pressure, reader, indexes>>

(* clear() disposes a cache when its close is answered, in order ...       *)
ClearDisposes ==
  /\ clearing
  /\ LET open == {c \in Caches : source[c].place = "listed"} IN
       /\ open # {}
       /\ source' = [source EXCEPT ![Min(open)].place = "disposed"]
       /\ Dispose(Min(open))
  /\ UNCHANGED <<pressure, reader, indexes, clearing, left>>

(* ... and unlists the sources only when all have been closed.             *)
ClearEnds ==
  /\ clearing
  /\ \A c \in Caches : source[c].place # "listed"
  /\ source' = [c \in Caches |-> IF c \in Listed THEN [source[c] EXCEPT !.place = "gone"]
                                 ELSE source[c]]
  /\ mem' = [c \in Caches |-> [mem[c] EXCEPT !.told = {}, !.lit = FALSE]]
  /\ clearing' = FALSE
  /\ UNCHANGED <<budget, pressure, reader, indexes, left>>

-----------------------------------------------------------------------------
(* The readers.                                                            *)

Found(h) == {c \in Listed : source[c].handle = h}

Set(r, s) == reader' = [reader EXCEPT ![r] = s]

(* getCachedMp4Index, setCachedMp4Index.                                   *)
IndexFor(r, h) ==
  LET hit == {i \in DOMAIN indexes[r] : indexes[r][i].handle = h}
  IN IF hit # {} THEN indexes[r][Max(hit)].of ELSE Max(Found(h))

Remembered(r, h) ==
  LET others == Without(indexes[r], {e \in ToSet(indexes[r]) : e.handle = h})
      room   == IF Len(others) < IndexCap THEN others ELSE Tail(others)
  IN Append(room, [handle |-> h, of |-> IndexFor(r, h)])

(* A panel or a capture opens a stream of a listed source.                 *)
OpenStream(r) ==
  /\ reader[r].phase = "idle"
  /\ May("streams")
  /\ \E c \in Listed, i \in Keyframes :
       Set(r, [NoStream EXCEPT !.phase = "mark", !.handle = source[c].handle,
                               !.index = IndexFor(r, source[c].handle), !.at = i])
       /\ indexes' = [indexes EXCEPT ![r] = Remembered(r, source[c].handle)]
  /\ UNCHANGED <<source, mem, budget, pressure, clearing>>

(* The spinner follows the indicator of a cache that has subscribers.      *)
Light(S, on) ==
  [c \in Caches |-> IF c \in S /\ source[c].place = "listed" THEN [mem[c] EXCEPT !.lit = on]
                    ELSE mem[c]]

MarkPending(r) ==
  /\ reader[r].phase = "mark"
  /\ mem' = Light(Found(reader[r].handle), TRUE)
  /\ Set(r, [reader[r] EXCEPT !.phase = "opening"])
  /\ UNCHANGED <<source, budget, pressure, indexes, clearing, left>>

(* mp4Sample: the cache answers, or a read is awaited, or there is no such *)
(* source any more.                                                        *)
AskSample(r) ==
  /\ reader[r].phase \in {"opening", "sample"} /\ reader[r].on = 0
  /\ ~reader[r].first /\ reader[r].phase = "sample" => reader[r].at < reader[r].end
  /\ LET s == reader[r] found == Found(s.handle) IN
       IF s.first
       THEN Set(r, Took(s)) /\ UNCHANGED mem
       ELSE IF found = {}
       THEN Set(r, Failed(s)) /\ UNCHANGED mem
       ELSE LET c == Max(found) IN
            IF s.at \in Held(mem[c])
            THEN Set(r, Took(s)) /\ mem' = [mem EXCEPT ![c] = Touched(@, s.at)]
            ELSE Set(r, [s EXCEPT !.on = c]) /\ mem' = [mem EXCEPT ![c] = Fetching(@, {s.at})]
  /\ UNCHANGED <<source, budget, pressure, indexes, clearing, left>>

(* `next` begins: mp4SetActive pins the window and reads ahead.            *)
NextBatch(r) ==
  /\ reader[r].phase = "ready" /\ reader[r].at <= N
  /\ LET s    == reader[r]
         take == Min({Batch, N + 1 - s.at})
         win  == s.at..Min({N, s.at + take + Ahead})
     IN /\ Set(r, [s EXCEPT !.phase = "sample", !.began = s.at, !.end = s.at + take])
        /\ mem' = [c \in Caches |->
             IF c \in Found(s.handle)
             THEN Fetching(IF r \in Capturers THEN mem[c] ELSE [mem[c] EXCEPT !.active = win], win)
             ELSE mem[c]]
  /\ UNCHANGED <<source, budget, pressure, indexes, clearing, left>>

(* The first sample of a batch puts the spinner out.                       *)
ClearPending(r) ==
  /\ reader[r].phase = "clear"
  /\ mem' = Light(Found(reader[r].handle), FALSE)
  /\ Set(r, [reader[r] EXCEPT !.phase = "sample"])
  /\ UNCHANGED <<source, budget, pressure, indexes, clearing, left>>

BatchEnds(r) ==
  /\ reader[r].phase = "sample" /\ reader[r].at = reader[r].end
  /\ Set(r, IF reader[r].closed THEN NoStream ELSE [reader[r] EXCEPT !.phase = "ready"])
  /\ UNCHANGED <<source, mem, budget, pressure, indexes, clearing, left>>

\* Mutant: a stream is closed without a word to the cache.
CloseSilently(r) ==
  /\ reader[r].phase \in {"ready", "sample", "clear"} /\ ~reader[r].closed
  /\ UNCHANGED mem
  /\ Set(r, IF reader[r].phase = "ready" THEN NoStream ELSE [reader[r] EXCEPT !.closed = TRUE])
  /\ UNCHANGED <<source, budget, pressure, indexes, clearing, left>>

(* `close`, also while a batch is being read, puts the spinner out.        *)
CloseStream(r) ==
  /\ reader[r].phase \in {"ready", "sample", "clear"} /\ ~reader[r].closed
  /\ mem' = Light(Found(reader[r].handle), FALSE)
  /\ Set(r, IF reader[r].phase = "ready" THEN NoStream ELSE [reader[r] EXCEPT !.closed = TRUE])
  /\ UNCHANGED <<source, budget, pressure, indexes, clearing, left>>

ReaderStep(r) ==
  MarkPending(r) \/ AskSample(r) \/ NextBatch(r) \/ ClearPending(r) \/ BatchEnds(r) \/ CloseStream(r)

StoreStep == OpenSource \/ RemoveSource \/ StartClear \/ ClearDisposes \/ ClearEnds

Next ==
  \/ StoreStep \/ FetchLands \/ FetchFails \/ Notify \/ PressureChanges
  \/ \E r \in Readers : OpenStream(r) \/ ReaderStep(r)

Spec == Init /\ [][Next]_vars

-----------------------------------------------------------------------------
(* The coordinator counts exactly the bytes that the caches hold, also     *)
(* those of a cache that has been disposed and still takes in the answers  *)
(* of reads under way.                                                     *)
AccountExact ==
  /\ \A c \in Caches : Bytes(mem[c]) = Known[c]
  /\ total = SumFunctionOnSet(Known, Caches)

(* Whatever is pinned, a cache never holds more than its hard ceiling.     *)
Bounded == \A c \in Caches : Bytes(mem[c]) <= HardCeiling

(* A cache that takes in a sample leaves the caches within their ceiling,  *)
(* or has given up all it does not pin.                                    *)
SharesCeiling ==
  [][\A c \in Caches :
       ~(Held(mem[c])' \subseteq Held(mem[c])) =>
         total' <= Ceiling \/ Held(mem[c])' \subseteq mem[c].active']_vars

(* A pinned sample is given up only when everything unpinned is gone and   *)
(* keeping one sample more would break the hard ceiling.                   *)
PinnedLast ==
  [][\A c \in Caches :
       (Held(mem[c]) \cap mem[c].active) \ Held(mem[c])' # {} =>
         \/ source[c].place' # source[c].place
         \/ /\ Held(mem[c])' \subseteq mem[c].active'
            /\ \E i \in Samples \ Held(mem[c])' : Bytes(mem[c])' + Size[i] > HardCeiling]_vars

(* A sample is read from its file once at a time, however many streams and *)
(* windows ask for it, until the cache is disposed.                        *)
ReadOnce ==
  \A c \in Caches, i \in Samples :
    source[c].place = "listed" => mem[c].reads[i] <= 1

(* What the timeline shows as buffered is what is held, or a notification  *)
(* is on its way; of a source that is gone it shows nothing.               *)
RangesTold ==
  \A c \in Caches :
    CASE source[c].place = "listed" -> mem[c].notify \/ mem[c].told = Held(mem[c])
      [] source[c].place = "gone"   -> mem[c].told = {}
      [] OTHER                      -> TRUE

(* A spinner that is lit has a stream that will put it out: one that has   *)
(* not read its first sample since, whoever shares the cache and whatever  *)
(* is closed, except when the read an open waited for has failed.          *)
SpinnerOwned ==
  \A c \in Caches :
    mem[c].lit /\ source[c].place = "listed" =>
      mem[c].lost \/ \E r \in Readers : /\ reader[r].phase # "idle"
                                       /\ reader[r].handle = source[c].handle

(* "the registry entry doesn't leak": a removed source holds no bytes.     *)
GoneHoldsNothing == \A c \in Caches : source[c].place = "gone" => Known[c] = 0

(* "handle ids are monotonically increasing and never recycled": a stream  *)
(* opened by a handle has the index of the mp4 it reads from.              *)
IndexOfSource ==
  \A r \in Readers :
    reader[r].phase = "mark" =>
      \A c \in Found(reader[r].handle) : source[c].place = "listed" => reader[r].index = c
=============================================================================
