---------------------------- MODULE EncodedStream ----------------------------
(***************************************************************************)
(* The encoded samples of one video stream and the reader the worker pulls *)
(* them from (videoDecodeOps.ts: videoStreamOps, makeMp4LazyOps).          *)
(*                                                                         *)
(* A chunk is its index in decode order.  A call of `next` is a record:    *)
(* where it stands, how many samples it took on, the sample it is reading  *)
(* and those it has read.  An mcap call is answered by one atomic request  *)
(* to the data-core worker, in the order of the requests; an mp4 call runs *)
(* in the video worker over the state it shares with other calls of the    *)
(* same stream, with an await at every sample.                             *)
(***************************************************************************)
EXTENDS Integers, Sequences, FiniteSets, FiniteSetsExt

CONSTANTS
  N,            \* samples in the stream
  PtsOf,        \* presentation timestamp of each sample, in decode order
  SyncSamples   \* keyframes

VARIABLE kind   \* of the stream's source, "mcap" or "mp4"; never changes

Samples == 1..N

ASSUME CountAssumption == N \in Nat \ {0}
ASSUME PtsOfAssumption ==
  /\ PtsOf \in [Samples -> Nat]
  /\ \A i, j \in Samples : PtsOf[i] = PtsOf[j] => i = j
ASSUME SyncAssumption == SyncSamples \subseteq Samples /\ 1 \in SyncSamples

NoCall == [phase |-> "none", take |-> 0, idx |-> 0, out |-> <<>>]

(* The second of two calls that share a position may move it past the last *)
(* sample once more.                                                       *)
ReaderState == [pos : 1..(N + 2), first : BOOLEAN]

NextCall ==
  [phase : {"none", "begin", "sample", "clear", "reply"}, take : 0..N,
   idx : 0..(N + 2), out : Seq(Samples)]

\* Mutant: start at the newest sample at or before the target, keyframe or not.
StartAnywhere(t) ==
  LET before == {i \in Samples : PtsOf[i] <= t}
  IN IF before = {} THEN 1 ELSE CHOOSE i \in before : \A j \in before : PtsOf[j] <= PtsOf[i]

(* The keyframe to decode from for the newest frame at or before t.        *)
StartSample(t) ==
  LET before  == {i \in Samples : PtsOf[i] <= t}
      cand    == CHOOSE i \in before : \A j \in before : PtsOf[j] <= PtsOf[i]
      syncs   == {i \in SyncSamples : before # {} /\ i <= cand}
  IN IF syncs = {} THEN Min(SyncSamples) ELSE Max(syncs)

OpenReader(t) == [pos |-> StartSample(t), first |-> kind = "mp4"]

(* `next(n)`: an mcap reader answers at once with the samples it moves past. *)
BeginNext(reader, n) ==
  LET take == Min({n, N + 1 - reader.pos})
  IN IF reader.pos > N
     THEN [reader |-> reader, call |-> [NoCall EXCEPT !.phase = "reply"]]
     ELSE IF kind = "mcap"
     THEN [reader |-> [reader EXCEPT !.pos = @ + take],
           call   |-> [phase |-> "reply", take |-> take, idx |-> 0,
                       out |-> [i \in 1..take |-> reader.pos + i - 1]]]
     ELSE [reader |-> reader,
           call   |-> [NoCall EXCEPT !.phase = "begin", !.take = take]]

(* The next sample is read from the position the calls share, or the call  *)
(* returns what it has.                                                    *)
ReadNext(reader, call) ==
  IF Len(call.out) = call.take
  THEN [call EXCEPT !.phase = "reply", !.idx = 0]
  ELSE [call EXCEPT !.phase = "sample", !.idx = reader.pos]

\* Mutant: the first sample leaves the shared position where it is.
TakeSampleInPlace(reader, call, idx) ==
  LET moved == [pos |-> IF reader.first THEN reader.pos ELSE reader.pos + 1, first |-> FALSE]
      kept  == [call EXCEPT !.out = Append(@, idx)]
  IN [reader |-> moved,
      call   |-> IF call.out = <<>>
                 THEN [kept EXCEPT !.phase = "clear", !.idx = 0]
                 ELSE ReadNext(moved, kept)]

(* A sample has arrived: it is kept and the shared position moves by one.  *)
TakeSample(reader, call, idx) ==
  LET moved == [pos |-> reader.pos + 1, first |-> FALSE]
      kept  == [call EXCEPT !.out = Append(@, idx)]
  IN [reader |-> moved,
      call   |-> IF call.out = <<>>
                 THEN [kept EXCEPT !.phase = "clear", !.idx = 0]
                 ELSE ReadNext(moved, kept)]

(* One await of an mp4 call returns: mp4SetActive, mp4Sample, mp4ClearPending. *)
CallStep(reader, call) ==
  CASE call.phase = "begin" /\ reader.first -> TakeSample(reader, call, reader.pos)
    [] call.phase = "sample"                -> TakeSample(reader, call, call.idx)
    [] OTHER                                -> [reader |-> reader, call |-> ReadNext(reader, call)]

(* The sample asked for does not exist: the read rejects.                  *)
OutOfRange(call) == call.phase = "sample" /\ call.idx > N
===============================================================================
