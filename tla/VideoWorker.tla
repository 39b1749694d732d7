----------------------------- MODULE VideoWorker -----------------------------
(***************************************************************************)
(* The video-decode worker (videoDecode.worker.ts): the operations that    *)
(* open, seek and close a stream, serialised by runExclusive; the ring of  *)
(* encoded chunks and its background pump; the decoder; and the frame path *)
(* of FrameQueue.                                                          *)
(*                                                                         *)
(* The worker is one thread.  A step is what runs between two awaits: a    *)
(* call of its API, the answer to a reader request, an output or an error  *)
(* of the decoder.  Handlers call each other, so each is a function on a   *)
(* record of the worker's variables (World) and an action applies one.     *)
(***************************************************************************)
EXTENDS EncodedStream, FrameQueue

CONSTANTS
  Cursors,             \* positions the main thread may send
  PRIMING_BATCH,       \* chunks read and fed by an open
  ENCODED_RING_BATCH,  \* chunks per background read
  ENCODED_RING_TARGET, \* ring length at which the pump rests
  REFILL_LOW_WATER,    \* decoder backlog at which feeding rests
  DECODED_AHEAD_CAP,   \* decoded frames at which feeding rests
  LOOKAHEAD,           \* distance of the last frame from the cursor, likewise
  MAX_SELF_HEAL_ATTEMPTS,
  DECODER_HOLD,        \* frames the decoder keeps before it outputs one
  DECODER_ORDER,       \* order in which it outputs: "decode" or "presentation"
  Plans,               \* streams to play: their kind, the calls the main thread
                       \* makes and the failures that may happen
  MaxOps,              \* bound on the operations requested
  MaxFaults            \* bound on the failures

AllCalls  == {"seek", "retry", "close", "capture", "cursor", "play", "black", "late"}
AllFaults == {"open", "read", "decode", "throw"}

ASSUME WorkerAssumption ==
  /\ Cursors \subseteq Nat
  /\ Pts = {PtsOf[i] : i \in Samples}
  /\ {PRIMING_BATCH, ENCODED_RING_BATCH, REFILL_LOW_WATER} \subseteq Nat \ {0}
  /\ {ENCODED_RING_TARGET, DECODED_AHEAD_CAP} \subseteq Nat \ {0}
  /\ {LOOKAHEAD, MAX_SELF_HEAL_ATTEMPTS, DECODER_HOLD, MaxOps, MaxFaults} \subseteq Nat
  /\ DECODER_ORDER \in {"decode", "presentation"}
  /\ Plans \subseteq [kind : {"mcap", "mp4"}, calls : SUBSET AllCalls,
                      faults : SUBSET AllFaults]

VARIABLES
  b,        \* cursor, decoded frames and canvas: see FrameQueue
  session,  \* the open stream, or NoSession
  decoder,  \* its VideoDecoder
  ring,     \* localEncoded and encodedEnded
  reader,   \* position of the open stream's reader
  pump,     \* the background call of `next`, and whether its stream is still open
  heal,     \* decodeError, selfHealInFlight and consecutiveSelfHeals
  ops,      \* the promise chain: the running operation and those behind it
  wanted,   \* history: the target asked for last, by the panel or a self-heal
  pc,       \* what the running operation awaits
  prime,    \* its call of `next`
  probed,   \* configSupportedCache has the answer for this stream
  env       \* the plan, calls and faults so far, and whether the panel has opened

vars == <<kind, b, session, decoder, ring, reader, pump, heal, ops, wanted, pc, prime, probed, env>>

NoSession ==
  [from |-> NoPts, pre |-> NoPts, last |-> NoPts, ended |-> FALSE,
   out |-> {}, drained |-> FALSE]

NoDecoder ==
  [state |-> "none", queue |-> <<>>, held |-> {}, flushing |-> FALSE,
   fed |-> 0, intact |-> TRUE]

NoPump == [call |-> NoCall, live |-> FALSE]

World ==
  [b |-> b, session |-> session, decoder |-> decoder, ring |-> ring,
   reader |-> reader, pump |-> pump, heal |-> heal, ops |-> ops,
   wanted |-> wanted]

Becomes(next) ==
  \E w \in {next} :
  /\ b' = w.b
  /\ session' = w.session
  /\ decoder' = w.decoder
  /\ ring' = w.ring
  /\ reader' = w.reader
  /\ pump' = w.pump
  /\ heal' = w.heal
  /\ ops' = w.ops
  /\ wanted' = w.wanted
  /\ UNCHANGED kind

IsOpen(w) == w.session.from # NoPts

-----------------------------------------------------------------------------
(* Feeding the decoder.                                                    *)

(* fed is the last sample fed; intact, whether each followed the one       *)
(* before it and the first was a keyframe, as decoding requires.           *)
Follows(fed, i) == IF fed = 0 THEN i \in SyncSamples ELSE i = fed + 1

Decode(d, chunks) ==
  IF chunks = <<>>
  THEN d
  ELSE [d EXCEPT !.queue = @ \o chunks,
                 !.fed = chunks[Len(chunks)],
                 !.intact = /\ d.intact
                            /\ \A k \in 1..Len(chunks) :
                                 Follows(IF k = 1 THEN d.fed ELSE chunks[k - 1], chunks[k])]

\* Mutant: the look-ahead gate is lost.
MayFeedAlways(w) == TRUE

(* shouldRefill and decodedAheadCap: of the two only decodeQueueSize       *)
(* changes while the feed loop runs.                                       *)
MayFeed(w) ==
  /\ Cardinality(w.b.reorder) + Cardinality(w.b.blit) < DECODED_AHEAD_CAP
  /\ w.session.last = NoPts \/ w.session.last - w.b.cursor <= LOOKAHEAD

FeedCount(w) ==
  IF MayFeed(w) /\ Len(w.decoder.queue) < REFILL_LOW_WATER
  THEN Min({Len(w.ring.chunks), REFILL_LOW_WATER - Len(w.decoder.queue)})
  ELSE 0

\* Mutant: the held frame is emitted without asking whether there is one.
EmitPreUnchecked(w) ==
  [w EXCEPT !.b = EmitFrame(@, w.session.pre),
            !.session.last = w.session.pre, !.session.pre = NoPts]

EmitPre(w) ==
  IF w.session.pre = NoPts THEN w
  ELSE [w EXCEPT !.b = EmitFrame(@, w.session.pre),
                 !.session.last = w.session.pre, !.session.pre = NoPts]

Drained(w) ==
  LET e == EmitPre(w)
  IN [e EXCEPT !.b = ReleaseReordered(@, TRUE), !.session.drained = TRUE,
               !.decoder.flushing = FALSE]

(* drainAtEnd awaits the flush of a configured decoder, and only that.     *)
DrainAtEnd(w) ==
  IF w.decoder.state = "configured"
  THEN [w EXCEPT !.decoder.flushing = TRUE]
  ELSE Drained(w)

FeedFromRing(w) ==
  LET n   == FeedCount(w)
      fed == [w EXCEPT !.decoder = Decode(@, SubSeq(w.ring.chunks, 1, n)),
                       !.ring.chunks = SubSeq(@, n + 1, Len(@))]
  IN IF ~IsOpen(w) \/ w.session.ended THEN w
     ELSE IF n > 0 /\ w.decoder.state # "configured" THEN w
     ELSE IF fed.ring.chunks = <<>> /\ fed.ring.ended
     THEN DrainAtEnd([fed EXCEPT !.session.ended = TRUE])
     ELSE fed

\* Mutant: pumpInFlight does not keep a second call from starting.
PumpTwice(w) ==
  LET next == BeginNext(w.reader, ENCODED_RING_BATCH)
  IN IF \/ ~IsOpen(w) \/ w.session.ended \/ w.ring.ended
        \/ Len(w.ring.chunks) >= ENCODED_RING_TARGET
     THEN w
     ELSE [w EXCEPT !.reader = next.reader,
                    !.pump = [call |-> next.call, live |-> TRUE]]

PumpEncoded(w) ==
  LET next == BeginNext(w.reader, ENCODED_RING_BATCH)
  IN IF \/ ~IsOpen(w) \/ w.session.ended \/ w.ring.ended
        \/ w.pump.call # NoCall
        \/ Len(w.ring.chunks) >= ENCODED_RING_TARGET
     THEN w
     ELSE [w EXCEPT !.reader = next.reader,
                    !.pump = [call |-> next.call, live |-> TRUE]]

MaybeRefill(w) ==
  IF ~IsOpen(w) \/ w.session.ended THEN w ELSE PumpEncoded(FeedFromRing(w))

\* Mutant: a batch that arrives is kept for the next refill to feed.
PumpReturnsOnly(w, batch) ==
  LET idle == [w EXCEPT !.pump = NoPump]
  IN IF ~w.pump.live \/ w.session.ended THEN idle
     ELSE IF batch = <<>>
     THEN [idle EXCEPT !.ring.ended = TRUE]
     ELSE [idle EXCEPT !.ring.chunks = @ \o batch]

(* The tail of pumpEncoded: a batch of another session is dropped.         *)
PumpReturns(w, batch) ==
  LET idle == [w EXCEPT !.pump = NoPump]
  IN IF ~w.pump.live \/ w.session.ended THEN idle
     ELSE FeedFromRing(IF batch = <<>>
                       THEN [idle EXCEPT !.ring.ended = TRUE]
                       ELSE [idle EXCEPT !.ring.chunks = @ \o batch])

-----------------------------------------------------------------------------
(* Frames and errors.                                                      *)

Emit(w, f) == [w EXCEPT !.b = EmitFrame(@, f), !.session.last = f]

\* Mutant: frames before the target are shown.
OnFrameUngated(w, f) ==
  LET alive == [w EXCEPT !.heal.count = 0, !.session.out = @ \cup {f}]
  IN IF ~w.b.canvas
     THEN MaybeRefill([alive EXCEPT !.session.pre = NoPts])
     ELSE MaybeRefill(Emit(EmitPre(alive), f))

OnFrame(w, f) ==
  LET alive == [w EXCEPT !.heal.count = 0, !.session.out = @ \cup {f}]
  IN IF f < w.session.from
     THEN MaybeRefill([alive EXCEPT !.session.pre = f])
     ELSE IF ~w.b.canvas
     THEN MaybeRefill([alive EXCEPT !.session.pre = NoPts])
     ELSE MaybeRefill(Emit(EmitPre(alive), f))

Op(op, target, force, auto) == [op |-> op, target |-> target, force |-> force, heal |-> auto]

\* Mutant: the self-heal in flight is not recorded.
OnDecoderErrorUntracked(w) ==
  LET latched == [w EXCEPT !.heal.error = TRUE, !.session.ended = TRUE,
                           !.session.pre = NoPts]
  IN IF w.heal.inFlight \/ w.heal.count >= MAX_SELF_HEAL_ATTEMPTS
     THEN latched
     ELSE [latched EXCEPT !.heal.count = @ + 1,
                          !.ops = Append(@, Op("seek", w.b.cursor, TRUE, TRUE)),
                          !.wanted = w.b.cursor]

(* The session is over, and unless a re-prime is on its way or too many    *)
(* have failed the worker seeks to its own cursor.                         *)
OnDecoderError(w) ==
  LET latched == [w EXCEPT !.heal.error = TRUE, !.session.ended = TRUE,
                           !.session.pre = NoPts]
  IN IF w.heal.inFlight \/ w.heal.count >= MAX_SELF_HEAL_ATTEMPTS
     THEN latched
     ELSE [latched EXCEPT !.heal.inFlight = TRUE, !.heal.count = @ + 1,
                          !.ops = Append(@, Op("seek", w.b.cursor, TRUE, TRUE)),
                          !.wanted = w.b.cursor]

\* Mutant: frames of the closed stream stay queued.
TeardownUnflushed(w) ==
  [w EXCEPT !.session = NoSession, !.decoder = NoDecoder, !.pump.live = FALSE]

(* The session is dropped before anything is awaited; calls on it go stale. *)
Teardown(w) ==
  [w EXCEPT !.b = FlushBlitQueue(@), !.session = NoSession,
            !.decoder = NoDecoder, !.pump.live = FALSE]

-----------------------------------------------------------------------------
Init ==
  /\ b = InitBlit
  /\ session = NoSession
  /\ decoder = NoDecoder
  /\ ring = [chunks |-> <<>>, ended |-> FALSE]
  /\ reader = [pos |-> 1, first |-> FALSE]
  /\ pump = NoPump
  /\ heal = [error |-> FALSE, inFlight |-> FALSE, count |-> 0]
  /\ ops = <<>>
  /\ wanted = NoPts
  /\ pc = "idle"
  /\ prime = NoCall
  /\ probed = FALSE
  /\ \E p \in Plans :
       /\ kind = p.kind
       /\ env = [plan |-> p, ops |-> 0, faults |-> 0, opened |-> FALSE]

(* The next operation starts in the microtasks of the step that ended the  *)
(* one before it, and a cached answer of isConfigSupported awaits nothing: *)
(* no callback runs in between.                                            *)
Quiet == ~(pc = "idle" /\ ops # <<>>) /\ ~(pc = "probing" /\ probed)

Head1 == ops[1]

\* Mutant: the generation is compared before it is incremented.
SupersededBySelf == \E k \in 1..Len(ops) : ops[k].op = "seek"

Superseded == \E k \in 2..Len(ops) : ops[k].op = "seek"

\* Mutant: a settled operation stays on the chain.
SettledStuck(w) == [w EXCEPT !.heal.inFlight = @ /\ ~Head1.heal]

\* Mutant: the self-heal does not clear selfHealInFlight when it settles.
SettledInFlight(w) == [w EXCEPT !.ops = Tail(@)]

(* The operation settles and leaves the chain.                             *)
Settled(w) ==
  [w EXCEPT !.ops = Tail(@), !.heal.inFlight = @ /\ ~Head1.heal]

(* openInternal from the close to the request that opens the reader.       *)
BeginOpen(w) ==
  [w EXCEPT !.heal.error = FALSE, !.b = Reseed(@, Head1.target)]

Await(where) == pc' = where /\ UNCHANGED <<prime, probed, env>>

StartSeek ==
  /\ Head1.op = "seek"
  /\ LET skip == \/ ~Head1.force /\ Superseded
                 \/ ~IsOpen(World)
                 \/ ~Head1.force /\ ~heal.error /\ session.from = Head1.target
     IN IF skip
        THEN Becomes(Settled(World)) /\ Await("idle")
        ELSE Becomes(Teardown(World)) /\ Await("closing")

CloseFirst(w) == [Teardown(w) EXCEPT !.ring = [chunks |-> <<>>, ended |-> FALSE]]

StartOpen ==
  /\ Head1.op = "open"
  /\ IF IsOpen(World)
     THEN Becomes(CloseFirst(World)) /\ Await("closing")
     ELSE Becomes(BeginOpen(World)) /\ Await("opening")

StartClose ==
  /\ Head1.op = "close"
  /\ IF IsOpen(World)
     THEN Becomes(CloseFirst(World)) /\ Await("closing")
     ELSE Becomes(Settled(World)) /\ Await("idle")

StartCapture ==
  /\ Head1.op = "capture"
  /\ Becomes(World)
  /\ Await("capturing")

StartOp ==
  /\ pc = "idle" /\ ops # <<>>
  /\ StartSeek \/ StartOpen \/ StartClose \/ StartCapture

(* The reader of an mcap stream answers requests in order, so a read under *)
(* way has been answered when the close is.                                *)
InOrder == kind = "mcap" => pump.call = NoCall

CloseReply ==
  /\ pc = "closing"
  /\ InOrder
  /\ IF Head1.op = "close"
     THEN Becomes(Settled(World)) /\ Await("idle")
     ELSE Becomes(BeginOpen(World)) /\ Await("opening")

CaptureReply ==
  /\ pc = "capturing"
  /\ Becomes(Settled(World))
  /\ Await("idle")

(* The session exists from here on, its decoder unconfigured, while the    *)
(* priming batch is read.                                                  *)
OpenReply ==
  /\ pc = "opening"
  /\ LET next == BeginNext(OpenReader(Head1.target), PRIMING_BATCH)
     IN /\ prime' = next.call
        /\ Becomes([World EXCEPT
             !.session = [NoSession EXCEPT !.from = Head1.target],
             !.decoder = [NoDecoder EXCEPT !.state = "unconfigured"],
             !.ring = [chunks |-> <<>>, ended |-> FALSE],
             !.reader = next.reader])
  /\ pc' = "priming"
  /\ UNCHANGED <<probed, env>>

Fault(failure) ==
  /\ failure \in env.plan.faults
  /\ env.faults < MaxFaults
  /\ env' = [env EXCEPT !.faults = @ + 1]

OpenFails ==
  /\ pc = "opening"
  /\ Fault("open")
  /\ Becomes(Settled(World))
  /\ pc' = "idle"
  /\ UNCHANGED <<prime, probed>>

(* The priming batch goes to the decoder directly and the pump starts.     *)
Configured(w, batch) ==
  PumpEncoded([w EXCEPT !.decoder = Decode([@ EXCEPT !.state = "configured"], batch)])

PrimeReturns(w, batch) ==
  /\ IF batch # <<>> /\ batch[1] \in SyncSamples
     THEN Becomes(w) /\ pc' = "probing" /\ prime' = [NoCall EXCEPT !.out = batch]
     ELSE /\ Becomes(Settled(IF batch = <<>> THEN [w EXCEPT !.session.ended = TRUE] ELSE w))
          /\ pc' = "idle" /\ prime' = NoCall
  /\ UNCHANGED <<probed, env>>

PrimeStep ==
  /\ pc = "priming"
  /\ ~OutOfRange(prime)
  /\ LET step == IF prime.phase = "reply"
                 THEN [reader |-> reader, call |-> prime]
                 ELSE CallStep(reader, prime)
         w    == [World EXCEPT !.reader = step.reader]
     IN IF step.call.phase = "reply"
        THEN PrimeReturns(w, step.call.out)
        ELSE /\ Becomes(w)
             /\ prime' = step.call
             /\ UNCHANGED <<pc, probed, env>>

(* isConfigSupported answers: asked once, then remembered.                 *)
ProbeReply ==
  /\ pc = "probing"
  /\ Becomes(Settled(Configured(World, prime.out)))
  /\ prime' = NoCall
  /\ probed' = TRUE
  /\ pc' = "idle"
  /\ UNCHANGED env

(* The batch cannot be read, or the codec is not supported: the operation  *)
(* rejects and leaves the session with an unconfigured decoder.            *)
PrimeFails ==
  /\ pc \in {"priming", "probing"}
  /\ IF pc = "priming" /\ OutOfRange(prime) THEN UNCHANGED env ELSE Fault("read")
  /\ Becomes(Settled(World))
  /\ prime' = NoCall
  /\ pc' = "idle"
  /\ UNCHANGED probed

(* decode() throws on the first priming chunk: handled like an error of    *)
(* the decoder, inside the operation that opens the stream.                *)
PrimeFeedThrows ==
  /\ pc = "probing"
  /\ Fault("throw")
  /\ Becomes(Settled(OnDecoderError([World EXCEPT !.decoder.state = "configured"])))
  /\ prime' = NoCall
  /\ probed' = TRUE
  /\ pc' = "idle"

OperationStep ==
  \/ StartOp \/ CloseReply \/ CaptureReply \/ OpenReply \/ OpenFails
  \/ PrimeStep \/ ProbeReply \/ PrimeFails \/ PrimeFeedThrows

-----------------------------------------------------------------------------
Handles(w) == Becomes(w) /\ UNCHANGED <<pc, prime, probed, env>>

(* An mcap read asked for behind the priming batch is answered behind it;  *)
(* of mp4 calls the first to be asked for sets the active range first.     *)
PumpReady ==
  /\ Quiet
  /\ pump.call # NoCall
  /\ kind = "mcap" /\ pump.live => pc # "priming"
  /\ pc = "priming" /\ pump.live => prime.phase # "begin"

PumpStep ==
  /\ PumpReady
  /\ ~(pump.live /\ OutOfRange(pump.call))
  /\ LET step == IF pump.call.phase = "reply" \/ ~pump.live
                 THEN [reader |-> reader, call |-> [pump.call EXCEPT !.phase = "reply"]]
                 ELSE CallStep(reader, pump.call)
         w    == [World EXCEPT !.reader = step.reader, !.pump.call = step.call]
     IN Handles(IF step.call.phase = "reply" THEN PumpReturns(w, step.call.out) ELSE w)

(* The read rejects: pumpInFlight is cleared and what was read is lost.    *)
PumpFails ==
  /\ PumpReady
  /\ IF pump.live /\ OutOfRange(pump.call) THEN UNCHANGED env ELSE Fault("read")
  /\ Becomes([World EXCEPT !.pump = NoPump])
  /\ UNCHANGED <<pc, prime, probed>>

ConsumeReady ==
  /\ Quiet
  /\ decoder.state = "configured"
  /\ decoder.queue # <<>>
  /\ Cardinality(decoder.held) <= DECODER_HOLD

DecoderConsume ==
  /\ ConsumeReady
  /\ Handles([World EXCEPT !.decoder.queue = Tail(@), !.decoder.held = @ \cup {Head(decoder.queue)}])

OutputReady ==
  /\ Quiet
  /\ decoder.state = "configured"
  /\ \/ Cardinality(decoder.held) > DECODER_HOLD
     \/ decoder.flushing /\ decoder.queue = <<>> /\ decoder.held # {}

NextOutput ==
  IF DECODER_ORDER = "decode" THEN Min(decoder.held)
  ELSE CHOOSE i \in decoder.held : \A j \in decoder.held : PtsOf[i] <= PtsOf[j]

DecoderOutput ==
  /\ OutputReady
  /\ Handles(OnFrame([World EXCEPT !.decoder.held = @ \ {NextOutput}], PtsOf[NextOutput]))

FlushReady ==
  /\ Quiet
  /\ decoder.flushing
  /\ decoder.state = "closed" \/ (decoder.queue = <<>> /\ decoder.held = {})

DecoderFlushed == FlushReady /\ Handles(Drained(World))

(* A fault closes the decoder; it was working on something.                *)
DecoderError ==
  /\ Quiet
  /\ decoder.state = "configured"
  /\ decoder.queue # <<>> \/ decoder.held # {}
  /\ Fault("decode")
  /\ Becomes(OnDecoderError([World EXCEPT !.decoder.state = "closed",
                                          !.decoder.queue = <<>>, !.decoder.held = {}]))
  /\ UNCHANGED <<pc, prime, probed>>

BackgroundStep ==
  PumpStep \/ PumpFails \/ DecoderConsume \/ DecoderOutput \/ DecoderFlushed \/ DecoderError

-----------------------------------------------------------------------------
(* Calls of the worker's API.                                              *)

Request(op, target) ==
  /\ Quiet
  /\ env.ops < MaxOps
  /\ env' = [env EXCEPT !.ops = @ + 1, !.opened = (@ \/ op.op = "open") /\ op.op # "close"]
  /\ Becomes([World EXCEPT !.ops = Append(@, op), !.wanted = target])
  /\ UNCHANGED <<pc, prime, probed>>

(* The panel opens, and not again until it closes, once it has transferred *)
(* its canvas (if it can: "late").                                         *)
CallOpen(t) ==
  /\ ~env.opened
  /\ b.canvas \/ "late" \in env.plan.calls
  /\ Request(Op("open", t, FALSE, FALSE), t)

CallSeek(t) == "seek" \in env.plan.calls /\ env.opened /\ Request(Op("seek", t, FALSE, FALSE), t)

CallRetry(t) == "retry" \in env.plan.calls /\ env.opened /\ Request(Op("seek", t, TRUE, FALSE), t)

CallClose ==
  /\ "close" \in env.plan.calls /\ env.opened
  /\ Request(Op("close", 0, FALSE, FALSE), NoPts)

CallCapture ==
  /\ "capture" \in env.plan.calls
  /\ Request(Op("capture", 0, FALSE, FALSE), wanted)

(* While playing the cursor moves here only on a scrub, else by the clock. *)
SetCursor(ns) ==
  /\ Quiet
  /\ "cursor" \in env.plan.calls
  /\ Handles(MaybeRefill([World EXCEPT !.b = AtCursor(@, ns)]))

BlitClockTick(ns) ==
  /\ Quiet
  /\ b.playing
  /\ Handles(MaybeRefill([World EXCEPT !.b = AtCursor(@, ns)]))

SetPlayback(ns) ==
  /\ Quiet
  /\ "play" \in env.plan.calls
  /\ \/ Handles(MaybeRefill([World EXCEPT !.b = StartPlayback(@, ns)]))
     \/ Handles([World EXCEPT !.b = StopPlayback(@, ns)])

SetRenderCanvas ==
  /\ Quiet
  /\ ~b.canvas
  /\ Handles([World EXCEPT !.b = AttachCanvas(@)])

ClearCanvas ==
  /\ Quiet
  /\ "black" \in env.plan.calls
  /\ Handles([World EXCEPT !.b = PaintBlack(@)])

CallStepOf(t) ==
  \/ CallOpen(t) \/ CallSeek(t) \/ CallRetry(t)
  \/ SetCursor(t) \/ BlitClockTick(t) \/ SetPlayback(t)

ApiCall ==
  \/ \E t \in Cursors : CallStepOf(t)
  \/ CallClose \/ CallCapture \/ SetRenderCanvas \/ ClearCanvas

Next == OperationStep \/ BackgroundStep \/ ApiCall

Spec == Init /\ [][Next]_vars

(* Fairness: requests are answered, the chain runs, and a decoder works    *)
(* off its queue.  WF_vars(A) is []<>~ENABLED <<A>>_vars \/ []<><<A>>_vars; *)
(* it is written out with the condition under which A is enabled, since to *)
(* find it TLC would evaluate whole handlers in every state.               *)
OperationProgress ==
  \/ StartOp \/ CloseReply \/ CaptureReply \/ OpenReply
  \/ PrimeStep \/ ProbeReply \/ (PrimeFails /\ UNCHANGED env)

OperationReady == ops # <<>> /\ (pc = "closing" => InOrder)

PumpProgress == PumpStep \/ (PumpFails /\ UNCHANGED env)

FairSpec ==
  /\ Spec
  /\ WF_vars(DecoderConsume)
  /\ []<>(~OperationReady) \/ []<><<OperationProgress>>_vars
  /\ []<>(~PumpReady) \/ []<><<PumpProgress>>_vars
  /\ []<>(~OutputReady) \/ []<><<DecoderOutput>>_vars
  /\ []<>(~FlushReady) \/ []<><<DecoderFlushed>>_vars

-----------------------------------------------------------------------------
OperationType ==
  [op : {"open", "seek", "close", "capture"}, target : Nat,
   force : BOOLEAN, heal : BOOLEAN]

SessionState ==
  [from : Nat \cup {NoPts}, pre : Pts \cup {NoPts}, last : Pts \cup {NoPts},
   ended : BOOLEAN, out : SUBSET Pts, drained : BOOLEAN]

DecoderState ==
  [state : {"none", "unconfigured", "configured", "closed"}, queue : Seq(Samples),
   held : SUBSET Samples, flushing : BOOLEAN, fed : 0..N, intact : BOOLEAN]

WorldState ==
  [b : BlitState, session : SessionState, decoder : DecoderState,
   ring : [chunks : Seq(Samples), ended : BOOLEAN], reader : ReaderState,
   pump : [call : NextCall, live : BOOLEAN],
   heal : [error : BOOLEAN, inFlight : BOOLEAN, count : 0..MAX_SELF_HEAL_ATTEMPTS],
   ops : Seq(OperationType), wanted : Nat \cup {NoPts}]

TypeOK ==
  /\ World \in WorldState
  /\ pc \in {"idle", "closing", "opening", "priming", "probing", "capturing"}
  /\ prime \in NextCall
  /\ probed \in BOOLEAN
  /\ env \in [plan : Plans, ops : 0..MaxOps, faults : 0..MaxFaults, opened : BOOLEAN]

(* The decoder is fed a keyframe first and then every sample in order, out *)
(* of the priming batch and the ring: a chunk lost, repeated or taken from *)
(* another position makes it fail (openInternal, pumpEncoded).  A read     *)
(* that rejects may have moved the reader past samples nobody gets.        *)
FedInOrder == "read" \in env.plan.faults \/ decoder.intact

(* What is shown or queued is a frame of the open stream: nothing of a     *)
(* stream left behind by a seek or a close survives it.                    *)
OnlyThisStream ==
  (b.reorder \cup b.blit \cup {b.shown, session.pre}) \subseteq session.out \cup {NoPts}

(* "With the feed-stop pacing this never triggers": the bound on decoded   *)
(* frames in emitFrame is never met, so no frame is dropped unseen, as     *)
(* long as it leaves room for what the decoder may still output.           *)
NeverDrops ==
  MAX_QUEUE > Max({PRIMING_BATCH, DECODED_AHEAD_CAP + REFILL_LOW_WATER}) + DECODER_HOLD
  => b.dropped = {}

(* A burst of seeks ends at its last target: once the chain is empty an    *)
(* open stream starts at the position last asked for (seekGeneration and   *)
(* the duplicate-target guard).                                            *)
LastSeekWins == ops = <<>> /\ IsOpen(World) => session.from = wanted

(* selfHealInFlight is set exactly while a self-heal is on the chain, so   *)
(* that it can neither be scheduled twice nor be blocked for good.         *)
HealInFlightTracked == heal.inFlight <=> \E k \in 1..Len(ops) : ops[k].heal

(* A latched decode error is being healed or has used up its attempts: the *)
(* stream is never left broken with a re-prime still due.  Of errors the   *)
(* decoder reports: one thrown by decode() while a re-prime feeds its      *)
(* first batch finds selfHealInFlight set, and is not healed.              *)
ErrorIsHealed ==
  heal.error /\ "throw" \notin env.plan.faults /\ IsOpen(World) /\ ops = <<>> => heal.count = MAX_SELF_HEAL_ATTEMPTS

(* Every operation requested is carried out, whatever becomes of the ones  *)
(* before it: one that rejects does not break the chain.                   *)
ChainDrains == ops # <<>> ~> ops = <<>>

(* A paused panel gets its picture, through decode errors too: once an open *)
(* stream whose reads succeed is at rest at or before the cursor, the      *)
(* newest frame at or before the cursor is drawn, unless the panel blacks  *)
(* it out ("CRUCIAL when PAUSED": pumpEncoded).                            *)
AtRest ==
  /\ env.plan.faults \cap {"open", "read"} = {} /\ "black" \notin env.plan.calls
  /\ IsOpen(World) /\ ops = <<>> /\ ~heal.error
  /\ b.canvas /\ ~b.playing
  /\ session.from <= b.cursor /\ b.shown <= b.cursor
  /\ \E f \in Pts : f <= b.cursor

AtCursorShown == b.shown = Max({f \in Pts : f <= b.cursor})

PausedPicture == AtRest ~> (~AtRest \/ AtCursorShown)

(* PausedPicture where it holds: of an mcap stream a read under way has    *)
(* been answered before the next stream opens, so its pump is free again.  *)
LogPausedPicture == (kind = "mcap" /\ AtRest) ~> (~AtRest \/ AtCursorShown)

-----------------------------------------------------------------------------
(* VideoWorker implements FrameBlit.                                       *)
MaxDisplacement ==
  Max({Cardinality({j \in Samples : j < i /\ PtsOf[j] > PtsOf[i]}) : i \in Samples})

Blit ==
  INSTANCE FrameBlit WITH
    session <- [from |-> session.from, pre |-> session.pre, out |-> session.out,
                drained |-> session.drained]

(* Whatever the chain, the pump and the decoder do, the frame path behaves *)
(* as FrameBlit allows.                                                    *)
ShowsAsFrameBlit == Blit!Spec

Control ==
  INSTANCE StreamControl WITH
    Times <- Cursors, MaxQueue <- MaxOps + MaxFaults, queue <- ops,
    stage <- IF pc \in {"idle", "closing"} THEN pc ELSE "busy",
    at <- session.from, broken <- heal.error, cursor <- b.cursor

(* Seen from the panel the worker is StreamControl: whatever the pump, the *)
(* decoder and their faults do, the operations run one at a time and in    *)
(* order, and only they and a decode error touch the stream.               *)
RunsAsStreamControl == Control!Spec
===============================================================================
