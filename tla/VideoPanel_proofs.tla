-------------------------- MODULE VideoPanel_proofs ---------------------------
(***************************************************************************)
(* Proofs about a video panel and its worker, for every timeline, every    *)
(* bound on the chain, every coalescing distance, margin and threshold and *)
(* every set of acts.  First the invariants of StreamControl; then the     *)
(* panel's types, and that the worker beside the panel behaves as          *)
(* StreamControl, from which the panel inherits LastSeekWins; then what a  *)
(* panel at rest and its worker know of each other.                        *)
(***************************************************************************)
EXTENDS VideoPanel, TLAPS

-----------------------------------------------------------------------------
(* StreamControl.                                                          *)

(***************************************************************************)
(* LastSeekWins is not inductive.  While operations wait, the last of them *)
(* that is not a capture decides where the stream ends, and it is the one  *)
(* asked for last; with none of them left the stream is where it was asked *)
(* to be, or there is none.                                                *)
(***************************************************************************)
Captures(q, from) == \A j \in from..Len(q) : q[j].op = "capture"

Decides(q, k) == q[k].op # "capture" /\ Captures(q, k + 1)

Decided(q, a, w) ==
  /\ \A k \in 1..Len(q) : Decides(q, k) => w = Result(q[k])
  /\ Captures(q, 1) => a \in {NoStream, w}

LastDecides == Decided(queue, at, wanted)

(* What the running operation has done so far.                             *)
StageOK ==
  /\ stage # "idle" => queue # <<>>
  /\ stage = "closing" => at = NoStream /\ First.op # "capture"
  /\ stage = "busy" => First.op # "close"
  /\ stage = "busy" /\ First.op # "capture" => at \in {NoStream, First.target}

IInv == TypeOK /\ LastDecides /\ StageOK

-----------------------------------------------------------------------------
(* What appending and popping do to the deciding operation.                *)
LEMMA AppendOps ==
  ASSUME NEW q \in Seq(Operation), NEW op \in Operation
  PROVE  /\ Append(q, op) \in Seq(Operation)
         /\ Len(Append(q, op)) = Len(q) + 1
         /\ \A k \in 1..Len(q) : Append(q, op)[k] = q[k]
         /\ Append(q, op)[Len(q) + 1] = op
         /\ Append(q, op) # <<>>
  OBVIOUS

LEMMA PopOps ==
  ASSUME NEW q \in Seq(Operation), q # <<>>
  PROVE  /\ Tail(q) \in Seq(Operation)
         /\ Len(Tail(q)) = Len(q) - 1
         /\ \A k \in 1..Len(Tail(q)) : Tail(q)[k] = q[k + 1] /\ k + 1 \in 1..Len(q)
  OBVIOUS

LEMMA FirstOp ==
  ASSUME NEW q \in Seq(Operation), q # <<>>
  PROVE  Len(q) \in Nat /\ 1 \in 1..Len(q) /\ q[1] \in Operation
  OBVIOUS

LEMMA AppendDecides ==
  ASSUME NEW q \in Seq(Operation), NEW op \in Operation,
         NEW k \in 1..(Len(q) + 1), Decides(Append(q, op), k)
  PROVE  IF op.op = "capture"
         THEN k \in 1..Len(q) /\ Decides(q, k)
         ELSE k = Len(q) + 1
  <1> DEFINE r == Append(q, op)
  <1>1. /\ Len(r) = Len(q) + 1 /\ Len(q) \in Nat
        /\ \A j \in 1..Len(q) : r[j] = q[j]
        /\ r[Len(q) + 1] = op
    BY AppendOps
  <1>2. r[k].op # "capture" /\ \A j \in (k + 1)..Len(r) : r[j].op = "capture"
    BY DEF Decides, Captures
  <1> HIDE DEF r
  <1>3. CASE op.op = "capture"
    <2>1. k # Len(q) + 1
      BY <1>1, <1>2, <1>3
    <2>2. k \in 1..Len(q)
      BY <1>1, <2>1
    <2>3. \A j \in (k + 1)..Len(q) : q[j].op = "capture"
      BY <1>1, <1>2, <2>2
    <2> QED
      BY <1>1, <1>2, <1>3, <2>2, <2>3 DEF Decides, Captures
  <1>4. CASE op.op # "capture"
    BY <1>1, <1>2, <1>4
  <1> QED
    BY <1>3, <1>4

LEMMA AppendCaptures ==
  ASSUME NEW q \in Seq(Operation), NEW op \in Operation, Captures(Append(q, op), 1)
  PROVE  op.op = "capture" /\ Captures(q, 1)
  <1>1. /\ Len(Append(q, op)) = Len(q) + 1 /\ Len(q) \in Nat
        /\ \A j \in 1..Len(q) : Append(q, op)[j] = q[j]
        /\ Append(q, op)[Len(q) + 1] = op
    BY AppendOps
  <1> QED
    BY <1>1 DEF Captures

LEMMA PopDecides ==
  ASSUME NEW q \in Seq(Operation), q # <<>>,
         NEW k \in 1..Len(Tail(q)), Decides(Tail(q), k)
  PROVE  k + 1 \in 1..Len(q) /\ Decides(q, k + 1) /\ Tail(q)[k] = q[k + 1]
  <1> DEFINE r == Tail(q)
  <1>1. /\ Len(r) = Len(q) - 1 /\ Len(q) \in Nat
        /\ \A j \in 1..Len(r) : r[j] = q[j + 1] /\ j + 1 \in 1..Len(q)
    BY PopOps
  <1>2. r[k].op # "capture" /\ \A j \in (k + 1)..Len(r) : r[j].op = "capture"
    BY DEF Decides, Captures
  <1>3. k \in 1..Len(r)
    OBVIOUS
  <1> HIDE DEF r
  <1>4. \A j \in (k + 2)..Len(q) : q[j].op = "capture"
    <2> TAKE j \in (k + 2)..Len(q)
    <2>1. j - 1 \in (k + 1)..Len(r) /\ j - 1 \in 1..Len(r) /\ (j - 1) + 1 = j
      BY <1>1, <1>3
    <2> QED
      BY <1>1, <1>2, <2>1
  <1>5. q[k + 1].op # "capture" /\ k + 1 \in 1..Len(q) /\ r[k] = q[k + 1]
    BY <1>1, <1>2, <1>3
  <1>6. (k + 1) + 1 = k + 2
    BY <1>3
  <1> QED
    BY <1>4, <1>5, <1>6 DEF Decides, Captures, r

LEMMA PopCaptures ==
  ASSUME NEW q \in Seq(Operation), q # <<>>, Captures(Tail(q), 1)
  PROVE  Captures(q, 2)
  <1>1. /\ Len(Tail(q)) = Len(q) - 1 /\ Len(q) \in Nat
        /\ \A j \in 1..Len(Tail(q)) : Tail(q)[j] = q[j + 1]
    BY PopOps
  <1>2. \A j \in 2..Len(q) : q[j].op = "capture"
    <2> TAKE j \in 2..Len(q)
    <2>1. j - 1 \in 1..Len(Tail(q)) /\ (j - 1) + 1 = j
      BY <1>1
    <2> QED
      BY <1>1, <2>1 DEF Captures
  <1> QED
    BY <1>2 DEF Captures

-----------------------------------------------------------------------------
(* An operation appended becomes the one that decides, unless it captures. *)
LEMMA AppendDecided ==
  ASSUME NEW q \in Seq(Operation), NEW op \in Operation, NEW a, NEW w, NEW x,
         Decided(q, a, w),
         x = IF op.op = "capture" THEN w ELSE Result(op)
  PROVE  Decided(Append(q, op), a, x)
  <1> DEFINE r == Append(q, op)
  <1>1. /\ Len(r) = Len(q) + 1 /\ Len(q) \in Nat
        /\ \A k \in 1..Len(q) : r[k] = q[k]
        /\ r[Len(q) + 1] = op
    BY AppendOps
  <1>2. ASSUME NEW k \in 1..Len(r), Decides(r, k)
        PROVE  x = Result(r[k])
    <2>1. k \in 1..(Len(q) + 1)
      BY <1>1
    <2>2. IF op.op = "capture" THEN k \in 1..Len(q) /\ Decides(q, k) ELSE k = Len(q) + 1
      BY <2>1, <1>2, AppendDecides
    <2>3. CASE op.op = "capture"
      BY <2>2, <2>3, <1>1 DEF Decided
    <2>4. CASE op.op # "capture"
      BY <2>2, <2>4, <1>1
    <2> QED
      BY <2>3, <2>4
  <1>3. ASSUME Captures(r, 1)
        PROVE  a \in {NoStream, x}
    <2>1. op.op = "capture" /\ Captures(q, 1)
      BY <1>3, AppendCaptures
    <2> QED
      BY <2>1 DEF Decided
  <1> QED
    BY <1>2, <1>3 DEF Decided

(* The head may leave when it was a capture, or left no stream, or left    *)
(* the stream where it was asked to, or when another operation decides.    *)
LEMMA PopDecided ==
  ASSUME NEW q \in Seq(Operation), q # <<>>, NEW a, NEW w,
         Decided(q, a, w),
         \/ ~Captures(q, 2)
         \/ q[1].op = "capture"
         \/ a \in {NoStream, Result(q[1])}
  PROVE  Decided(Tail(q), a, w)
  <1>1. ASSUME NEW k \in 1..Len(Tail(q)), Decides(Tail(q), k)
        PROVE  w = Result(Tail(q)[k])
    BY <1>1, PopDecides DEF Decided
  <1>2. ASSUME Captures(Tail(q), 1)
        PROVE  a \in {NoStream, w}
    <2>1. Captures(q, 2) /\ Len(q) \in Nat /\ 1 \in 1..Len(q)
      BY <1>2, PopCaptures, FirstOp
    <2>2. CASE q[1].op = "capture"
      <3>1. Captures(q, 1)
        BY <2>1, <2>2 DEF Captures
      <3> QED
        BY <3>1 DEF Decided
    <2>3. CASE q[1].op # "capture"
      <3>1. Decides(q, 1)
        BY <2>1, <2>3 DEF Decides
      <3>2. w = Result(q[1])
        BY <3>1, <2>1 DEF Decided
      <3> QED
        BY <3>2, <2>1, <2>3
    <2> QED
      BY <2>2, <2>3
  <1> QED
    BY <1>1, <1>2 DEF Decided

LEMMA RequestTypes ==
  ASSUME NEW op \in Requests
  PROVE  op \in Operation /\ Result(op) \in Nat \cup {NoStream}
<1>1. CASE op \in [op : {"open"}, target : Times, force : {FALSE}, heal : {FALSE}]
  BY <1>1, TimesAssumption DEF Operation, Result
<1>2. CASE op \in [op : {"seek"}, target : Times, force : BOOLEAN, heal : {FALSE}]
  BY <1>2, TimesAssumption DEF Operation, Result
<1>3. CASE op \in [op : {"close", "capture"}, target : {0}, force : {FALSE}, heal : {FALSE}]
  <2>1. /\ op.op \in {"close", "capture"} /\ op.target = 0
        /\ op.force = FALSE /\ op.heal = FALSE
        /\ op = [op |-> op.op, target |-> op.target, force |-> op.force, heal |-> op.heal]
    BY <1>3
  <2>2. op = Op("close", 0, FALSE, FALSE) \/ op = Op("capture", 0, FALSE, FALSE)
    BY <2>1 DEF Op
  <2>3. /\ Op("close", 0, FALSE, FALSE) \in Operation
        /\ Op("capture", 0, FALSE, FALSE) \in Operation
    BY DEF Op, Operation
  <2> QED
    <3>1. op \in Operation
      BY <2>2, <2>3, Zenon
    <3>2. Result(op) = NoStream \/ Result(op) = 0
      BY <2>1 DEF Result
    <3> QED
      BY <3>1, <3>2
<1> QED
  BY <1>1, <1>2, <1>3 DEF Requests

-----------------------------------------------------------------------------
LEMMA InitIInv == Init => IInv
  <1> SUFFICES ASSUME Init PROVE IInv
    OBVIOUS
  <1>1. TypeOK
    <2>1. <<>> \in Seq(Operation)
      OBVIOUS
    <2> QED
      BY <2>1 DEF Init, TypeOK
  <1>2. LastDecides
    BY DEF Init, LastDecides, Decided, NoStream
  <1>3. StageOK
    BY DEF Init, StageOK
  <1> QED
    BY <1>1, <1>2, <1>3 DEF IInv

(* The chain leaves its head: what is left of IInv to show is Decided.     *)
LEMMA PopIInv ==
  ASSUME IInv, queue # <<>>, Pop, UNCHANGED <<at, wanted>>,
         broken' \in BOOLEAN, cursor' \in Nat,
         \/ ~Captures(queue, 2)
         \/ First.op = "capture"
         \/ at \in {NoStream, Result(First)}
  PROVE  IInv'
  <1>1. queue \in Seq(Operation)
    BY DEF IInv, TypeOK
  <1>2. TypeOK'
    BY <1>1, PopOps DEF IInv, TypeOK, Pop
  <1>3. LastDecides'
    BY <1>1, PopDecided DEF IInv, LastDecides, Pop, First
  <1>4. StageOK'
    BY DEF StageOK, Pop
  <1> QED
    BY <1>2, <1>3, <1>4 DEF IInv

-----------------------------------------------------------------------------
LEMMA NextIInv == IInv /\ [Next]_streamVars => IInv'
  <1> SUFFICES ASSUME IInv, [Next]_streamVars PROVE IInv'
    OBVIOUS
  <1> USE DEF IInv
  <1>0. queue \in Seq(Operation) /\ cursor \in Nat /\ broken \in BOOLEAN
    BY DEF TypeOK
  <1>1. ASSUME NEW op \in Requests, Request(op)
        PROVE  IInv'
    <2>1. op \in Operation /\ Result(op) \in Nat \cup {NoStream}
      BY RequestTypes
    <2>2. TypeOK'
      BY <1>0, <1>1, <2>1, AppendOps DEF TypeOK, Request
    <2>3. LastDecides'
      BY <1>0, <1>1, <2>1, AppendDecided DEF LastDecides, Request
    <2>4. StageOK'
      BY <1>0, <1>1, <2>1, AppendOps, FirstOp DEF StageOK, Request, First
    <2> QED
      BY <2>2, <2>3, <2>4
  <1>2. ASSUME NEW ns \in Times, MoveCursor(ns)
        PROVE  IInv'
    BY <1>2, TimesAssumption DEF MoveCursor, TypeOK, LastDecides, StageOK, First
  <1>3. ASSUME Skip
        PROVE  IInv'
    <2>1. \/ ~Captures(queue, 2)
          \/ at \in {NoStream, Result(First)}
      BY <1>3 DEF Skip, Skipped, Superseded, Captures, Result
    <2> QED
      BY <1>0, <1>3, <2>1, PopIInv DEF Skip
  <1>4. ASSUME Drop
        PROVE  IInv'
    <2>1. LastDecides'
      BY <1>4 DEF Drop, LastDecides, Decided
    <2> QED
      BY <1>4, <2>1 DEF Drop, TypeOK, StageOK, First
  <1>5. ASSUME Begin, queue # <<>>, First.op \notin {"capture", "close"}, at = NoStream
        PROVE  IInv'
    <2>1. First \in Operation
      BY <1>0, <1>5, FirstOp DEF First
    <2>2. First.target \in Nat
      BY <2>1 DEF Operation
    <2>3. TypeOK'
      BY <1>5, <2>2 DEF Begin, TypeOK
    <2>4. LastDecides'
      BY <1>5 DEF Begin, LastDecides
    <2>5. StageOK'
      BY <1>5 DEF Begin, StageOK, First
    <2> QED
      BY <2>3, <2>4, <2>5
  <1>6. ASSUME StartOpen
        PROVE  IInv'
    BY <1>5, <1>6 DEF StartOpen
  <1>7. ASSUME StartCapture
        PROVE  IInv'
    BY <1>7 DEF StartCapture, TypeOK, LastDecides, StageOK, First
  <1>8. ASSUME Closed
        PROVE  IInv'
    <2>1. queue # <<>> /\ at = NoStream /\ First.op # "capture"
      BY <1>8 DEF Closed, StageOK
    <2>2. CASE First.op = "close"
      BY <1>0, <1>8, <2>1, <2>2, PopIInv DEF Closed
    <2>3. CASE First.op # "close"
      BY <1>5, <1>8, <2>1, <2>3 DEF Closed
    <2> QED
      BY <2>2, <2>3
  <1>9. ASSUME Opened
        PROVE  IInv'
    <2>1. queue # <<>> /\ First.op \notin {"capture", "close"}
      BY <1>9 DEF Opened, StageOK
    <2>2. 1 \in 1..Len(queue) /\ First \in Operation
      BY <1>0, <2>1, FirstOp DEF First
    <2>3. First.target \in Nat /\ Result(First) = First.target
      BY <2>1, <2>2 DEF Operation, Result
    <2>4. TypeOK'
      BY <1>9, <2>3 DEF Opened, TypeOK
    <2>5. ~Captures(queue, 1)
      BY <2>1, <2>2 DEF Captures, First
    <2>6. LastDecides'
      BY <1>9, <2>5 DEF Opened, LastDecides, Decided
    <2>7. StageOK'
      BY <1>9, <2>1 DEF Opened, StageOK, First
    <2> QED
      BY <2>4, <2>6, <2>7
  <1>10. ASSUME Settle
         PROVE  IInv'
    <2>1. /\ queue # <<>>
          /\ First.op = "capture" \/ at \in {NoStream, Result(First)}
      BY <1>10 DEF Settle, StageOK, Result
    <2> QED
      BY <1>0, <1>10, <2>1, PopIInv DEF Settle
  <1>11. ASSUME NEW healing \in BOOLEAN, NEW settling \in BOOLEAN,
                DecoderFails(healing, settling)
         PROVE  IInv'
    <2> DEFINE auto == Op("seek", cursor, TRUE, TRUE)
               healed == IF healing THEN Append(queue, auto) ELSE queue
    <2>1. auto \in Operation /\ auto.op = "seek" /\ Result(auto) = cursor
      BY <1>0 DEF Operation, Op, Result
    <2>2. /\ queue' = IF settling THEN Tail(healed) ELSE healed
          /\ stage' = IF settling THEN "idle" ELSE stage
          /\ wanted' = IF healing THEN cursor ELSE wanted
          /\ broken' = TRUE /\ at' = at /\ cursor' = cursor
          /\ at # NoStream
          /\ settling => stage = "busy"
      BY <1>11 DEF DecoderFails
    <2> HIDE DEF auto
    <2>3. /\ healed \in Seq(Operation)
          /\ queue # <<>> => healed # <<>> /\ healed[1] = queue[1]
      <3>1. CASE healing
        BY <1>0, <2>1, <3>1, AppendOps, FirstOp
      <3>2. CASE ~healing
        BY <1>0, <3>2
      <3> QED
        BY <3>1, <3>2
    <2>4. Decided(healed, at, wanted')
      <3>1. CASE healing
        BY <1>0, <2>1, <2>2, <3>1, AppendDecided DEF LastDecides
      <3>2. CASE ~healing
        BY <2>2, <3>2 DEF LastDecides
      <3> QED
        BY <3>1, <3>2
    <2>5. wanted' \in Nat \cup {NoStream}
      BY <2>2 DEF TypeOK
    <2> HIDE DEF healed
    <2>6. CASE settling
      <3>1. /\ queue # <<>>
            /\ First.op = "capture" \/ at \in {NoStream, Result(First)}
        BY <2>2, <2>6 DEF StageOK, Result
      <3>2. queue' = Tail(healed) /\ stage' = "idle"
        BY <2>2, <2>6
      <3>3. Tail(healed) \in Seq(Operation)
        BY <2>3, <3>1, PopOps
      <3>4. TypeOK'
        BY <2>2, <2>5, <3>2, <3>3 DEF TypeOK
      <3>5. LastDecides'
        BY <2>2, <2>3, <2>4, <3>1, <3>2, PopDecided DEF LastDecides, First
      <3>6. StageOK'
        BY <3>2 DEF StageOK
      <3> QED
        BY <3>4, <3>5, <3>6
    <2>7. CASE ~settling
      <3>1. queue' = healed /\ stage' = stage
        BY <2>2, <2>7
      <3>2. TypeOK'
        BY <2>2, <2>3, <2>5, <3>1 DEF TypeOK
      <3>3. LastDecides'
        BY <2>2, <2>4, <3>1 DEF LastDecides
      <3>4. StageOK'
        BY <2>2, <2>3, <3>1 DEF StageOK, First
      <3> QED
        BY <3>2, <3>3, <3>4
    <2> QED
      BY <2>6, <2>7
  <1>12. CASE UNCHANGED streamVars
    BY <1>12 DEF streamVars, TypeOK, LastDecides, StageOK, First
  <1> QED
    BY <1>1, <1>2, <1>3, <1>4, <1>6, <1>7, <1>8, <1>9, <1>10, <1>11, <1>12
    DEF Next, WorkerStep, ChainStep

THEOREM Inductive == Spec => []IInv
  BY InitIInv, NextIInv, PTL DEF Spec

(* The variables of StreamControl keep their types.                        *)
THEOREM TypeCorrect == Spec => []TypeOK
  <1>1. IInv => TypeOK
    BY DEF IInv
  <1> QED
    BY <1>1, Inductive, PTL

(* A stream that is open once the chain has drained starts at the target   *)
(* asked for last, whatever seeks, retries, self-heals, closes and captures*)
(* were queued and however they ended (videoDecodeApi.seek, makeOpQueue).  *)
THEOREM LastSeekWinsHolds == Spec => []LastSeekWins
  <1>1. IInv => LastSeekWins
    BY DEF IInv, LastDecides, Decided, Captures, LastSeekWins
  <1> QED
    BY <1>1, Inductive, PTL

-----------------------------------------------------------------------------
(* The panel and its worker.                                               *)

(* The calls a panel sends, each with the arguments it is sent with.       *)
Sent ==
  {c \in CallTypes :
    /\ c.call # "close" => c.ns \in Times
    /\ c.call = "close" => c.ns = 0
    /\ c.call \in {"open", "close", "setCursor"} => c.flag = FALSE}

(* The main thread's part of the panel's types, with the calls under way   *)
(* restricted to those it sends.                                           *)
MainOK ==
  /\ store \in [cursor : Times, playing : BOOLEAN]
  /\ panel \in PanelState
  /\ inbox \in Seq(Sent)
  /\ reply \in {"none", "opened", "failed"}
  /\ clock \in [playing : BOOLEAN, lastSet : Times \cup {0}, now : Nat]
  /\ acts \in [count : 0..MaxActs, patient : BOOLEAN]

PanelIInv == IInv /\ MainOK /\ reach \in Nat

-----------------------------------------------------------------------------
LEMMA Timeline ==
  /\ Times \subseteq Nat
  /\ StartNs \in Times /\ EndNs \in Times
  /\ \A t \in Times : t = EndNs \/ t + 1 \in Times
<1> DEFINE last == Cardinality(Times) - 1
<1>1. last \in Nat /\ Times = 0..last
  BY PanelAssumption
<1> HIDE DEF last
<1>2. last \in Times /\ \A t \in Times : last >= t
  BY <1>1
<1>3. 0 \in Times /\ \A t \in Times : t >= 0
  BY <1>1
<1>4. EndNs = last
  <2>1. EndNs \in Times /\ \A t \in Times : EndNs >= t
    BY <1>2 DEF EndNs, Max
  <2> QED
    BY <1>1, <1>2, <2>1
<1>5. StartNs \in Times
  BY <1>3 DEF StartNs, Min
<1> QED
  BY <1>1, <1>2, <1>4, <1>5

LEMMA CallIsSent ==
  ASSUME NEW t \in Times, NEW p \in BOOLEAN
  PROVE  /\ Call("open", t, FALSE) \in Sent
         /\ Call("seek", t, p) \in Sent
         /\ Call("close", 0, FALSE) \in Sent
         /\ Call("setCursor", t, FALSE) \in Sent
         /\ Call("setPlayback", t, p) \in Sent
  BY DEF Sent, Call, CallTypes

LEMMA OneCall ==
  ASSUME NEW c \in Sent
  PROVE  <<c>> \in Seq(Sent)
  OBVIOUS

LEMMA RequestsAre ==
  ASSUME NEW t \in Times, NEW f \in BOOLEAN
  PROVE  /\ Op("open", t, FALSE, FALSE) \in Requests
         /\ Op("seek", t, f, FALSE) \in Requests
         /\ Op("close", 0, FALSE, FALSE) \in Requests
  BY DEF Requests, Op

(* A call that asks for an operation asks for one of Requests.             *)
LEMMA SentIsRequest ==
  ASSUME NEW c \in Sent
  PROVE  /\ c.call \in {"open", "seek", "close"} => Op(c.call, c.ns, c.flag, FALSE) \in Requests
         /\ c.call \in {"setCursor", "setPlayback"} => c.ns \in Times /\ c.flag \in BOOLEAN
<1>1. /\ c.flag \in BOOLEAN
      /\ c.call # "close" => c.ns \in Times
      /\ c.call = "close" => c.ns = 0
      /\ c.call \in {"open", "close", "setCursor"} => c.flag = FALSE
  BY DEF Sent, CallTypes
<1>2. CASE c.call = "open"
  BY <1>1, <1>2, RequestsAre
<1>3. CASE c.call = "seek"
  BY <1>1, <1>3, RequestsAre
<1>4. CASE c.call = "close"
  <2>1. Op("close", 0, FALSE, FALSE) \in Requests
    BY <1>1, RequestsAre, Timeline
  <2> QED
    BY <1>1, <1>4, <2>1
<1>5. CASE c.call \in {"setCursor", "setPlayback"}
  BY <1>1, <1>5
<1> QED
  BY <1>1, <1>2, <1>3, <1>4, <1>5

LEMMA Received ==
  ASSUME MainOK, inbox # <<>>
  PROVE  Head(inbox) \in Sent /\ Tail(inbox) \in Seq(Sent)
  BY DEF MainOK

-----------------------------------------------------------------------------
(* Every step of a panel and its worker is a step of StreamControl, or     *)
(* leaves its variables alone.                                             *)
LEMMA StepRefines ==
  ASSUME MainOK, [PanelNext]_panelVars
  PROVE  [Next]_streamVars
<1>1. CASE \/ \E c \in Times : Scrub(c)
           \/ Advance \/ TogglePlay \/ SendOpen \/ TimerFires \/ Retry \/ Unmount
  BY <1>1 DEF Scrub, Advance, TogglePlay, StoreBecomes, SendOpen, TimerFires, Retry,
              Unmount, MainOnly
<1>2. CASE OpenReturns
  BY <1>2 DEF OpenReturns
<1>3. ASSUME NEW name \in {"open", "seek", "close"}, ReceiveOperation(name)
      PROVE  Next
  <2>1. inbox # <<>> /\ Head(inbox).call = name
    BY <1>3 DEF ReceiveOperation, Receive
  <2>2. Op(name, Head(inbox).ns, Head(inbox).flag, FALSE) \in Requests
    BY <2>1, Received, SentIsRequest
  <2> QED
    BY <1>3, <2>2 DEF ReceiveOperation, Next
<1>4. CASE ReceiveSetCursor
  <2>1. inbox # <<>> /\ Head(inbox).call = "setCursor"
    BY <1>4 DEF ReceiveSetCursor, Receive
  <2>2. Head(inbox).ns \in Times
    BY <2>1, Received, SentIsRequest
  <2>3. MoveCursor(Head(inbox).ns) \/ MoveCursor(cursor)
    BY <1>4 DEF ReceiveSetCursor
  <2> QED
    BY <2>2, <2>3 DEF MoveCursor, Next, streamVars
<1>5. CASE ReceiveSetPlayback
  <2>1. inbox # <<>> /\ Head(inbox).call = "setPlayback"
    BY <1>5 DEF ReceiveSetPlayback, Receive
  <2>2. Head(inbox).ns \in Times
    BY <2>1, Received, SentIsRequest
  <2> QED
    BY <1>5, <2>2 DEF ReceiveSetPlayback, Next
<1>6. CASE \E ns \in Times : BlitClockTick(ns)
  BY <1>6 DEF BlitClockTick, Next
<1>7. CASE WorkerRuns
  BY <1>7 DEF WorkerRuns, Next, WorkerStep, ChainStep
<1>8. CASE WorkerFails
  BY <1>8 DEF WorkerFails, Next, WorkerStep, ChainStep
<1>9. CASE UNCHANGED panelVars
  BY <1>9 DEF panelVars
<1> QED
  BY <1>1, <1>2, <1>3, <1>4, <1>5, <1>6, <1>7, <1>8, <1>9 DEF PanelNext

-----------------------------------------------------------------------------
(* The main thread keeps its types.                                        *)
LEMMA CallsSent ==
  ASSUME MainOK, NEW calls \in Seq(Sent), Send(calls)
  PROVE  inbox' \in Seq(Sent)
  BY DEF MainOK, Send

LEMMA ForwardedCalls ==
  ASSUME MainOK, NEW c \in Times, NEW p \in BOOLEAN
  PROVE  /\ Forwarded(c, p).calls \in Seq(Sent)
         /\ Forwarded(c, p).sent \in Times \cup {None}
<1> DEFINE moved == c # store.cursor
                    /\ (panel.sent = None \/ Distance(c, panel.sent) >= SETCURSOR_DELTA)
           first == IF moved THEN <<Call("setCursor", c, FALSE)>> ELSE <<>>
           second == IF p # store.playing THEN <<Call("setPlayback", c, p)>> ELSE <<>>
<1>1. Call("setCursor", c, FALSE) \in Sent /\ Call("setPlayback", c, p) \in Sent
  BY CallIsSent
<1>2. first \in Seq(Sent)
  <2>0. <<Call("setCursor", c, FALSE)>> \in Seq(Sent)
    BY <1>1, OneCall
  <2> HIDE DEF moved
  <2>1. CASE moved
    BY <2>0, <2>1
  <2>2. CASE ~moved
    BY <2>2
  <2> QED
    BY <2>1, <2>2
<1>3. second \in Seq(Sent)
  <2>1. CASE p # store.playing
    BY <1>1, <2>1, OneCall
  <2>2. CASE ~(p # store.playing)
    BY <2>2
  <2> QED
    BY <2>1, <2>2
<1>4. first \o second \in Seq(Sent)
  <2> HIDE DEF first, second
  <2> QED
    BY <1>2, <1>3
<1>5. panel.sent \in Times \cup {None}
  BY DEF MainOK, PanelState
<1> QED
  BY <1>4, <1>5 DEF Forwarded

LEMMA StoreBecomesOK ==
  ASSUME MainOK, NEW c \in Times, NEW p \in BOOLEAN, NEW seeks \in BOOLEAN,
         StoreBecomes(c, p, seeks), acts' \in [count : 0..MaxActs, patient : BOOLEAN]
  PROVE  MainOK'
<1>1. store' \in [cursor : Times, playing : BOOLEAN] /\ UNCHANGED <<reply, clock>>
  BY DEF StoreBecomes, MainOnly
<1>2. CASE Mounted
  <2>1. /\ Send(Forwarded(c, p).calls)
        /\ panel' = [panel EXCEPT !.sent = Forwarded(c, p).sent, !.timer = @ \/ seeks]
    BY <1>2 DEF StoreBecomes
  <2>2. inbox' \in Seq(Sent)
    BY <2>1, ForwardedCalls, CallsSent
  <2>3. (panel.timer \/ seeks) \in BOOLEAN
    BY ZenonT(30) DEF MainOK, PanelState
  <2>4. panel' \in PanelState
    BY <2>1, <2>3, ForwardedCalls DEF MainOK, PanelState
  <2> QED
    BY <1>1, <2>2, <2>4 DEF MainOK
<1>3. CASE ~Mounted
  BY <1>1, <1>3 DEF StoreBecomes, MainOK
<1> QED
  BY <1>2, <1>3

LEMMA ActsOK ==
  ASSUME MainOK
  PROVE  /\ \A kind \in AllActs : Act(kind) => acts' \in [count : 0..MaxActs, patient : BOOLEAN]
         /\ \A kind \in AllActs, c \in Times :
              Jump(kind, c) => acts' \in [count : 0..MaxActs, patient : BOOLEAN]
<1>1. acts \in [count : 0..MaxActs, patient : BOOLEAN] /\ MaxActs \in Nat
  BY PanelAssumption DEF MainOK
<1>2. acts.count < MaxActs => acts.count + 1 \in 0..MaxActs
  BY <1>1
<1>3. ASSUME NEW kind \in AllActs, Act(kind)
      PROVE  acts' \in [count : 0..MaxActs, patient : BOOLEAN]
  BY <1>1, <1>2, <1>3 DEF Act
<1>4. ASSUME NEW kind \in AllActs, NEW c \in Times, Jump(kind, c)
      PROVE  acts' \in [count : 0..MaxActs, patient : BOOLEAN]
  <2> DEFINE patient == acts.patient /\ Settled /\ Distance(c, store.cursor) >= SETCURSOR_DELTA
  <2>1. acts' = [count |-> acts.count + 1, patient |-> patient] /\ acts.count < MaxActs
    BY <1>4 DEF Jump
  <2>2. patient \in BOOLEAN
    BY Zenon
  <2> HIDE DEF patient
  <2> QED
    BY <1>2, <2>1, <2>2
<1> QED
  BY <1>3, <1>4

(* What the user and the playback loop do is a change of the store.        *)
LEMMA NextCursor ==
  ASSUME MainOK
  PROVE  Min({store.cursor + 1, EndNs}) \in Times
<1> DEFINE c == Min({store.cursor + 1, EndNs})
<1>1. store.cursor \in Times /\ store.cursor \in Nat /\ EndNs \in Nat
  BY Timeline DEF MainOK
<1>2. \E x \in {store.cursor + 1, EndNs} : \A y \in {store.cursor + 1, EndNs} : x <= y
  <2>1. CASE store.cursor + 1 <= EndNs
    BY <1>1, <2>1
  <2>2. CASE ~(store.cursor + 1 <= EndNs)
    BY <1>1, <2>2
  <2> QED
    BY <2>1, <2>2
<1>3. c \in {store.cursor + 1, EndNs} /\ \A x \in {store.cursor + 1, EndNs} : c <= x
  BY <1>2 DEF Min
<1> HIDE DEF c
<1>4. store.cursor = EndNs => c = EndNs
  BY <1>1, <1>3
<1>5. c \in Times
  BY <1>1, <1>3, <1>4, Timeline
<1> QED
  BY <1>5 DEF c

LEMMA UserStores ==
  ASSUME MainOK, (\E c \in Times : Scrub(c)) \/ Advance \/ TogglePlay
  PROVE  \E c \in Times, p \in BOOLEAN, seeks \in BOOLEAN : StoreBecomes(c, p, seeks)
<1>0. store.cursor \in Times /\ store.playing \in BOOLEAN
  BY DEF MainOK
<1>1. ASSUME NEW c \in Times, Scrub(c)
      PROVE  \E p \in BOOLEAN : StoreBecomes(c, p, TRUE)
  <2>1. (store.playing /\ c # EndNs) \in BOOLEAN
    BY Zenon
  <2> QED
    BY <1>1, <2>1, Zenon DEF Scrub
<1>2. CASE Advance
  <2> DEFINE c == Min({store.cursor + 1, EndNs})
  <2>1. c \in Times /\ StoreBecomes(c, c # EndNs, FALSE)
    BY <1>2, NextCursor DEF Advance
  <2>2. (c # EndNs) \in BOOLEAN
    OBVIOUS
  <2> HIDE DEF c
  <2> QED
    BY <2>1, <2>2, Zenon
<1>3. CASE TogglePlay /\ ~store.playing /\ store.cursor = EndNs
  BY <1>3, Timeline, Zenon DEF TogglePlay
<1>4. CASE TogglePlay /\ ~(~store.playing /\ store.cursor = EndNs)
  <2>1. (~store.playing) \in BOOLEAN /\ StoreBecomes(store.cursor, ~store.playing, FALSE)
    BY <1>4, Zenon DEF TogglePlay
  <2> QED
    BY <1>0, <2>1, Zenon
<1>5. ASSUME NEW c \in Times, Scrub(c)
      PROVE  \E d \in Times, p \in BOOLEAN, seeks \in BOOLEAN : StoreBecomes(d, p, seeks)
  BY <1>1, <1>5, Zenon
<1> QED
  BY <1>2, <1>3, <1>4, <1>5, Zenon

LEMMA UserActs ==
  ASSUME MainOK, (\E c \in Times : Scrub(c)) \/ Advance \/ TogglePlay
  PROVE  acts' \in [count : 0..MaxActs, patient : BOOLEAN]
<1>1. CASE \E c \in Times : Scrub(c)
  BY <1>1, ActsOK DEF Scrub, AllActs
<1>2. CASE Advance
  BY <1>2 DEF Advance, MainOK
<1>3. CASE TogglePlay /\ ~store.playing /\ store.cursor = EndNs
  BY <1>3, ActsOK, Timeline DEF TogglePlay, AllActs
<1>4. CASE TogglePlay /\ ~(~store.playing /\ store.cursor = EndNs)
  BY <1>4, ActsOK DEF TogglePlay, AllActs
<1> QED
  BY <1>1, <1>2, <1>3, <1>4

LEMMA UserOK ==
  ASSUME MainOK, (\E c \in Times : Scrub(c)) \/ Advance \/ TogglePlay
  PROVE  MainOK'
<1>1. PICK c \in Times, p \in BOOLEAN, seeks \in BOOLEAN : StoreBecomes(c, p, seeks)
  BY UserStores
<1>2. acts' \in [count : 0..MaxActs, patient : BOOLEAN]
  BY UserActs
<1> QED
  BY <1>1, <1>2, StoreBecomesOK

LEMMA PanelActsOK ==
  ASSUME MainOK, SendOpen \/ OpenReturns \/ TimerFires \/ Retry \/ Unmount
  PROVE  MainOK'
<1>0. /\ panel.mounted \in Times /\ store.cursor \in Times /\ panel \in PanelState
      /\ inbox \in Seq(Sent) /\ store.playing \in BOOLEAN
  BY DEF MainOK, PanelState
<1>1. CASE SendOpen
  <2>1. <<Call("open", panel.mounted, FALSE)>> \in Seq(Sent)
    BY <1>0, CallIsSent, OneCall
  <2>2. inbox' \in Seq(Sent)
    BY <1>1, <2>1, CallsSent DEF SendOpen
  <2>3. panel' \in PanelState
    BY <1>0, <1>1 DEF SendOpen, PanelState
  <2> QED
    BY <1>1, <2>2, <2>3 DEF SendOpen, MainOnly, MainOK
<1>2. CASE OpenReturns
  <2>1. Handoff \in Seq(Sent)
    BY <1>0, CallIsSent, OneCall DEF Handoff
  <2>2. inbox' \in Seq(Sent)
    <3>1. CASE reply = "opened" /\ store.playing
      BY <1>2, <2>1, <3>1, CallsSent DEF OpenReturns
    <3>2. CASE ~(reply = "opened" /\ store.playing)
      <4>1. Send(<<>>) /\ <<>> \in Seq(Sent)
        BY <1>2, <3>2 DEF OpenReturns
      <4> QED
        BY <4>1, CallsSent
    <3> QED
      BY <3>1, <3>2
  <2>3. panel' \in PanelState
    BY <1>0, <1>2 DEF OpenReturns, PanelState
  <2> QED
    BY <1>2, <2>2, <2>3 DEF OpenReturns, MainOK
<1>3. CASE TimerFires
  <2>1. <<Call("seek", store.cursor, FALSE)>> \in Seq(Sent)
    BY <1>0, CallIsSent, OneCall
  <2>2. inbox' \in Seq(Sent)
    BY <1>0, <1>3, <2>1, CallsSent DEF TimerFires
  <2>3. panel' \in PanelState
    BY <1>0, <1>3 DEF TimerFires, PanelState
  <2> QED
    BY <1>3, <2>2, <2>3 DEF TimerFires, MainOnly, MainOK
<1>4. CASE Retry
  <2>1. <<Call("seek", store.cursor, TRUE)>> \in Seq(Sent)
    BY <1>0, CallIsSent, OneCall
  <2>2. inbox' \in Seq(Sent)
    BY <1>4, <2>1, CallsSent DEF Retry
  <2>3. acts' \in [count : 0..MaxActs, patient : BOOLEAN]
    BY <1>4, ActsOK DEF Retry, AllActs
  <2> QED
    BY <1>4, <2>2, <2>3 DEF Retry, MainOnly, MainOK
<1>5. CASE Unmount
  <2>1. <<Call("close", 0, FALSE)>> \in Seq(Sent)
    BY <1>0, CallIsSent, OneCall
  <2>2. inbox' \in Seq(Sent)
    BY <1>5, <2>1, CallsSent DEF Unmount
  <2>3. panel' \in PanelState
    BY <1>0, <1>5 DEF Unmount, PanelState
  <2>4. acts' \in [count : 0..MaxActs, patient : BOOLEAN]
    BY <1>5, ActsOK DEF Unmount, AllActs
  <2> QED
    BY <1>5, <2>2, <2>3, <2>4 DEF Unmount, MainOnly, MainOK
<1> QED
  BY <1>1, <1>2, <1>3, <1>4, <1>5

LEMMA WorkerOK ==
  ASSUME MainOK,
         \/ \E name \in {"open", "seek", "close"} : ReceiveOperation(name)
         \/ ReceiveSetCursor \/ ReceiveSetPlayback
         \/ \E ns \in Times : BlitClockTick(ns)
         \/ WorkerRuns \/ WorkerFails
  PROVE  MainOK'
<1>0. /\ clock \in [playing : BOOLEAN, lastSet : Times \cup {0}, now : Nat]
      /\ Times \subseteq Nat
  BY Timeline DEF MainOK
<1>1. ASSUME NEW name \in {"open", "seek", "close"}, ReceiveOperation(name)
      PROVE  MainOK'
  BY <1>1, Received DEF ReceiveOperation, Receive, MainOK
<1>2. CASE ReceiveSetCursor
  <2>1. inbox # <<>> /\ Head(inbox).call = "setCursor"
    BY <1>2 DEF ReceiveSetCursor, Receive
  <2>2. Head(inbox).ns \in Times
    BY <2>1, Received, SentIsRequest
  <2>3. clock' \in [playing : BOOLEAN, lastSet : Times \cup {0}, now : Nat]
    BY <1>0, <1>2, <2>2 DEF ReceiveSetCursor
  <2> QED
    BY <1>2, <2>1, <2>3, Received DEF ReceiveSetCursor, Receive, MainOK
<1>3. CASE ReceiveSetPlayback
  <2>1. inbox # <<>> /\ Head(inbox).call = "setPlayback"
    BY <1>3 DEF ReceiveSetPlayback, Receive
  <2>2. Head(inbox).ns \in Times /\ Head(inbox).flag \in BOOLEAN
    BY <2>1, Received, SentIsRequest
  <2>3. clock' \in [playing : BOOLEAN, lastSet : Times \cup {0}, now : Nat]
    BY <1>0, <1>3, <2>2 DEF ReceiveSetPlayback
  <2> QED
    BY <1>3, <2>1, <2>3, Received DEF ReceiveSetPlayback, Receive, MainOK
<1>4. ASSUME NEW ns \in Times, BlitClockTick(ns)
      PROVE  MainOK'
  <2>1. clock' \in [playing : BOOLEAN, lastSet : Times \cup {0}, now : Nat]
    BY <1>0, <1>4 DEF BlitClockTick
  <2> QED
    BY <1>4, <2>1 DEF BlitClockTick, MainOK
<1>5. CASE WorkerRuns
  BY <1>5 DEF WorkerRuns, Answered, MainOK
<1>6. CASE WorkerFails
  <2>1. acts' \in [count : 0..MaxActs, patient : BOOLEAN]
    BY <1>6, ActsOK DEF WorkerFails, AllActs
  <2> QED
    BY <1>6, <2>1 DEF WorkerFails, Answered, MainOK
<1> QED
  BY <1>1, <1>2, <1>3, <1>4, <1>5, <1>6

LEMMA StepMain ==
  ASSUME MainOK, [PanelNext]_panelVars
  PROVE  MainOK'
<1>1. CASE UNCHANGED panelVars
  BY <1>1 DEF panelVars, MainOK
<1> QED
  BY <1>1, UserOK, PanelActsOK, WorkerOK DEF PanelNext

(* reach is the larger of two positions of the cursor.                     *)
LEMMA StepReach ==
  ASSUME reach \in Nat, cursor' \in Nat, [PanelNext]_panelVars
  PROVE  reach' \in Nat
<1>1. CASE Tracked
  <2>1. CASE at' = NoStream
    BY <1>1, <2>1 DEF Tracked
  <2>2. CASE at' # NoStream
    <3>1. \E x \in {reach, cursor'} : \A y \in {reach, cursor'} : x >= y
      <4>1. CASE reach >= cursor'
        BY <4>1
      <4>2. CASE ~(reach >= cursor')
        BY <4>2
      <4> QED
        BY <4>1, <4>2
    <3>2. Max({reach, cursor'}) \in {reach, cursor'}
      BY <3>1 DEF Max
    <3> QED
      BY <1>1, <2>2, <3>2 DEF Tracked
  <2> QED
    BY <2>1, <2>2
<1>2. CASE UNCHANGED reach
  BY <1>2
<1>3. Tracked \/ UNCHANGED reach
  BY DEF PanelNext, panelVars, Scrub, Advance, TogglePlay, StoreBecomes, SendOpen,
         OpenReturns, TimerFires, Retry, Unmount, MainOnly, ReceiveOperation,
         ReceiveSetCursor, ReceiveSetPlayback, BlitClockTick, WorkerRuns, WorkerFails
<1> QED
  BY <1>1, <1>2, <1>3

-----------------------------------------------------------------------------
LEMMA InitPanel ==
  ASSUME PanelInit
  PROVE  PanelIInv
<1>1. IInv
  BY InitIInv DEF PanelInit
<1>2. PICK c \in Times, p \in BOOLEAN :
        /\ store = [cursor |-> c, playing |-> p]
        /\ panel = [phase |-> "ports", mounted |-> c, target |-> None,
                    sent |-> None, timer |-> FALSE]
  BY DEF PanelInit
<1>3. store \in [cursor : Times, playing : BOOLEAN] /\ panel \in PanelState
  BY <1>2 DEF PanelState
<1>4. acts \in [count : 0..MaxActs, patient : BOOLEAN]
  BY PanelAssumption DEF PanelInit
<1> QED
  BY <1>1, <1>3, <1>4 DEF PanelInit, PanelIInv, MainOK

THEOREM PanelInductive == PanelSpec => []PanelIInv
<1>1. PanelInit => PanelIInv
  BY InitPanel
<1>2. PanelIInv /\ [PanelNext]_panelVars => PanelIInv'
  <2> SUFFICES ASSUME PanelIInv, [PanelNext]_panelVars
               PROVE  PanelIInv'
    OBVIOUS
  <2>1. MainOK /\ IInv /\ reach \in Nat
    BY DEF PanelIInv
  <2>2. MainOK'
    BY <2>1, StepMain
  <2>3. IInv'
    BY <2>1, StepRefines, NextIInv
  <2>4. cursor' \in Nat
    BY <2>3 DEF IInv, TypeOK
  <2>5. reach' \in Nat
    BY <2>1, <2>4, StepReach
  <2> QED
    BY <2>2, <2>3, <2>5 DEF PanelIInv
<1> QED
  BY <1>1, <1>2, PTL DEF PanelSpec

(* The panel's variables keep their types: no call is sent with a target   *)
(* the session does not have.                                              *)
THEOREM PanelTypeCorrect == PanelSpec => []PanelTypeOK
<1>1. PanelIInv => PanelTypeOK
  <2> SUFFICES ASSUME PanelIInv PROVE PanelTypeOK
    OBVIOUS
  <2>1. inbox \in Seq(CallTypes)
    <3>1. inbox \in Seq(Sent)
      BY DEF PanelIInv, MainOK
    <3> QED
      BY <3>1 DEF Sent
  <2> QED
    BY <2>1 DEF PanelIInv, MainOK, IInv, PanelTypeOK
<1> QED
  BY <1>1, PanelInductive, PTL

(* A panel with its worker is an implementation of StreamControl: whatever *)
(* the panel sends, it asks for no more than StreamControl's environment.  *)
THEOREM PanelImplementsControl == PanelSpec => Spec
<1>1. PanelInit => Init
  BY DEF PanelInit
<1>2. PanelIInv /\ [PanelNext]_panelVars => [Next]_streamVars
  BY StepRefines DEF PanelIInv
<1> QED
  BY <1>1, <1>2, PanelInductive, PTL DEF PanelSpec, Spec

(* Whatever the user does, in whatever order it arrives, the stream ends   *)
(* at the target asked for last.                                           *)
THEOREM PanelLastSeekWins == PanelSpec => []LastSeekWins
  BY PanelImplementsControl, LastSeekWinsHolds, PTL

-----------------------------------------------------------------------------
(* What a panel owes its worker: once the panel is open and nothing is on  *)
(* the port the worker plays when the session does (PlaybackAgrees), and   *)
(* an unmounted panel leaves no stream open (GoneIsClosed).  Neither is    *)
(* inductive: each needs to say what the calls and the operations still    *)
(* under way will do.                                                      *)

(* The last call on the port q of those named in N, if there is one.       *)
Without(q, N) == \A j \in 1..Len(q) : q[j].call \notin N

LastIn(q, N, k) == q[k].call \in N /\ \A j \in (k + 1)..Len(q) : q[j].call \notin N

(* The last setPlayback on the port decides whether the worker is going    *)
(* to play; with none there it is as it is: p.                             *)
Plays == {"setPlayback"}

Intends(q, p, v) ==
  /\ \A k \in 1..Len(q) : LastIn(q, Plays, k) => q[k].flag = v
  /\ Without(q, Plays) => p = v

(* Before open() has answered only a pause need reach the worker: the      *)
(* hand-off tells it of a session that plays.                              *)
WillPlay ==
  /\ panel.phase = "open" => Intends(inbox, clock.playing, store.playing)
  /\ panel.phase \notin {"open", "gone"} =>
       store.playing \/ Intends(inbox, clock.playing, FALSE)

-----------------------------------------------------------------------------
(* What sending and receiving do to the last call of those named in N.     *)
LEMMA Elements ==
  ASSUME NEW q \in Seq(Sent), NEW r \in Seq(Sent)
  PROVE  /\ Len(q) \in Nat /\ Len(r) \in Nat
         /\ q \o r \in Seq(Sent)
         /\ Len(q \o r) = Len(q) + Len(r)
         /\ \A i \in 1..Len(q) : (q \o r)[i] = q[i]
         /\ \A i \in 1..Len(r) : (q \o r)[Len(q) + i] = r[i]
  OBVIOUS

LEMMA TailElements ==
  ASSUME NEW q \in Seq(Sent), q # <<>>
  PROVE  /\ Len(q) \in Nat \ {0}
         /\ Tail(q) \in Seq(Sent)
         /\ Len(Tail(q)) = Len(q) - 1
         /\ Head(q) = q[1]
         /\ \A i \in 1..Len(Tail(q)) : Tail(q)[i] = q[i + 1]
  OBVIOUS

LEMMA LastKept ==
  ASSUME NEW q \in Seq(Sent), NEW r \in Seq(Sent), NEW N, Without(r, N)
  PROVE  /\ \A k \in 1..Len(q \o r) : LastIn(q \o r, N, k) =>
              k \in 1..Len(q) /\ LastIn(q, N, k) /\ (q \o r)[k] = q[k]
         /\ Without(q \o r, N) <=> Without(q, N)
<1> DEFINE s == q \o r
<1>1. /\ Len(q) \in Nat /\ Len(r) \in Nat /\ Len(s) = Len(q) + Len(r)
      /\ \A i \in 1..Len(q) : s[i] = q[i]
      /\ \A i \in 1..Len(r) : s[Len(q) + i] = r[i]
  BY Elements
<1> HIDE DEF s
<1>2. \A j \in 1..Len(s) : j > Len(q) => s[j].call \notin N
  <2>1. ASSUME NEW j \in 1..Len(s), j > Len(q)
        PROVE  s[j].call \notin N
    <3>1. j - Len(q) \in 1..Len(r) /\ Len(q) + (j - Len(q)) = j
      BY <1>1, <2>1
    <3>2. s[j] = r[j - Len(q)]
      BY <1>1, <3>1
    <3> QED
      BY <3>1, <3>2 DEF Without
  <2> QED
    BY <2>1
<1>3. ASSUME NEW k \in 1..Len(s), LastIn(s, N, k)
      PROVE  k \in 1..Len(q) /\ LastIn(q, N, k) /\ s[k] = q[k]
  <2>1. k \in 1..Len(q)
    BY <1>1, <1>2, <1>3 DEF LastIn
  <2> QED
    BY <1>1, <1>3, <2>1 DEF LastIn
<1>4. Without(s, N) => Without(q, N)
  BY <1>1 DEF Without
<1>5. Without(q, N) => Without(s, N)
  BY <1>1, <1>2 DEF Without
<1> QED
  BY <1>3, <1>4, <1>5 DEF s

LEMMA LastSent ==
  ASSUME NEW q \in Seq(Sent), NEW r \in Seq(Sent), NEW N,
         r # <<>>, r[Len(r)].call \in N
  PROVE  /\ ~Without(q \o r, N)
         /\ \A k \in 1..Len(q \o r) : LastIn(q \o r, N, k) => (q \o r)[k] = r[Len(r)]
<1> DEFINE s == q \o r
<1>1. /\ Len(q) \in Nat /\ Len(r) \in Nat /\ Len(s) = Len(q) + Len(r)
      /\ \A i \in 1..Len(r) : s[Len(q) + i] = r[i]
  BY Elements
<1>2. Len(r) \in 1..Len(r)
  OBVIOUS
<1> HIDE DEF s
<1>3. Len(s) \in 1..Len(s) /\ s[Len(s)] = r[Len(r)]
  BY <1>1, <1>2
<1>4. \A k \in 1..Len(s) : LastIn(s, N, k) => k = Len(s)
  BY <1>3 DEF LastIn
<1>5. ~Without(s, N)
  BY <1>3 DEF Without
<1> QED
  BY <1>3, <1>4, <1>5 DEF s

LEMMA LastReceived ==
  ASSUME NEW q \in Seq(Sent), q # <<>>, NEW N
  PROVE  /\ \A k \in 1..Len(Tail(q)) : LastIn(Tail(q), N, k) =>
              k + 1 \in 1..Len(q) /\ LastIn(q, N, k + 1) /\ Tail(q)[k] = q[k + 1]
         /\ Without(Tail(q), N) =>
              IF Head(q).call \in N THEN 1 \in 1..Len(q) /\ LastIn(q, N, 1)
                                    ELSE Without(q, N)
         /\ Without(q, N) => Head(q).call \notin N /\ Without(Tail(q), N)
<1> DEFINE s == Tail(q)
<1>1. /\ Len(q) \in Nat \ {0} /\ Len(s) = Len(q) - 1 /\ Head(q) = q[1]
      /\ \A i \in 1..Len(s) : s[i] = q[i + 1]
  BY TailElements
<1> HIDE DEF s
<1>2. \A i \in 1..Len(s) : i + 1 \in 1..Len(q)
  BY <1>1
<1>3. ASSUME NEW j \in 2..Len(q)
      PROVE  j - 1 \in 1..Len(s) /\ q[j] = s[j - 1]
  <2>1. j - 1 \in 1..Len(s) /\ (j - 1) + 1 = j
    BY <1>1
  <2> QED
    BY <1>1, <2>1
<1>4. ASSUME NEW k \in 1..Len(s), LastIn(s, N, k)
      PROVE  LastIn(q, N, k + 1)
  <2>1. ASSUME NEW j \in ((k + 1) + 1)..Len(q)
        PROVE  q[j].call \notin N
    <3>1. j \in 2..Len(q) /\ j - 1 \in (k + 1)..Len(s)
      BY <1>1, <2>1
    <3> QED
      BY <1>3, <1>4, <3>1 DEF LastIn
  <2> QED
    BY <1>1, <1>4, <2>1 DEF LastIn
<1>5. ASSUME Without(s, N)
      PROVE  IF Head(q).call \in N THEN 1 \in 1..Len(q) /\ LastIn(q, N, 1) ELSE Without(q, N)
  <2>1. \A j \in 2..Len(q) : q[j].call \notin N
    BY <1>3, <1>5 DEF Without
  <2>2. \A j \in 1..Len(q) : j = 1 \/ j \in 2..Len(q)
    BY <1>1
  <2> QED
    BY <1>1, <2>1, <2>2 DEF LastIn, Without
<1>6. ASSUME Without(q, N)
      PROVE  Head(q).call \notin N /\ Without(s, N)
  BY <1>1, <1>2, <1>6 DEF Without
<1> QED
  BY <1>1, <1>2, <1>4, <1>5, <1>6 DEF s

-----------------------------------------------------------------------------
LEMMA IntendsKept ==
  ASSUME NEW q \in Seq(Sent), NEW r \in Seq(Sent), NEW p, NEW v,
         Intends(q, p, v), Without(r, Plays)
  PROVE  Intends(q \o r, p, v)
  BY LastKept DEF Intends

LEMMA IntendsSet ==
  ASSUME NEW q \in Seq(Sent), NEW r \in Seq(Sent), NEW p, NEW v,
         r # <<>>, r[Len(r)].call = "setPlayback", r[Len(r)].flag = v
  PROVE  Intends(q \o r, p, v)
<1>1. r[Len(r)].call \in Plays
  BY DEF Plays
<1> QED
  BY <1>1, LastSent DEF Intends

(* The head of the port is received: a setPlayback becomes what is.        *)
LEMMA IntendsReceived ==
  ASSUME NEW q \in Seq(Sent), q # <<>>, NEW p, NEW v, Intends(q, p, v)
  PROVE  Intends(Tail(q), IF Head(q).call \in Plays THEN Head(q).flag ELSE p, v)
<1>1. Head(q) = q[1]
  BY TailElements
<1> QED
  BY <1>1, LastReceived DEF Intends
-----------------------------------------------------------------------------
(* WillPlay is kept.                                                       *)
LEMMA OneSilent ==
  ASSUME NEW t, NEW f, NEW name \in {"open", "seek", "close", "setCursor"}
  PROVE  Without(<<Call(name, t, f)>>, Plays) /\ Without(<<>>, Plays)
  BY DEF Without, Plays, Call

LEMMA OnePlays ==
  ASSUME NEW t, NEW v
  PROVE  /\ <<Call("setPlayback", t, v)>> # <<>>
         /\ <<Call("setPlayback", t, v)>>[Len(<<Call("setPlayback", t, v)>>)].call = "setPlayback"
         /\ <<Call("setPlayback", t, v)>>[Len(<<Call("setPlayback", t, v)>>)].flag = v
  BY DEF Call

(* A silent call is sent and the panel neither opens nor goes.             *)
LEMMA PlayKept ==
  ASSUME MainOK, WillPlay, NEW r \in Seq(Sent), inbox' = inbox \o r, Without(r, Plays),
         store'.playing = store.playing, clock'.playing = clock.playing,
         panel'.phase = panel.phase \/ {panel.phase, panel'.phase} \cap {"open", "gone"} = {}
  PROVE  WillPlay'
<1>1. inbox \in Seq(Sent)
  BY DEF MainOK
<1>2. \A v : Intends(inbox, clock.playing, v) => Intends(inbox', clock'.playing, v)
  BY <1>1, IntendsKept
<1>3. CASE panel'.phase = panel.phase
  BY <1>2, <1>3 DEF WillPlay
<1>4. CASE {panel.phase, panel'.phase} \cap {"open", "gone"} = {}
  BY <1>2, <1>4 DEF WillPlay
<1> QED
  BY <1>3, <1>4

(* Nothing the property speaks of changes.                                 *)
LEMMA PlayUnchanged ==
  ASSUME MainOK, WillPlay, inbox' = inbox, store'.playing = store.playing,
         clock'.playing = clock.playing, panel'.phase = panel.phase
  PROVE  WillPlay'
  BY DEF WillPlay

LEMMA ForwardedPlays ==
  ASSUME MainOK, NEW c \in Times, NEW p \in BOOLEAN
  PROVE  /\ p = store.playing => Without(Forwarded(c, p).calls, Plays)
         /\ p # store.playing =>
              LET r == Forwarded(c, p).calls
              IN r # <<>> /\ r[Len(r)].call = "setPlayback" /\ r[Len(r)].flag = p
<1> DEFINE first == IF c # store.cursor
                       /\ (panel.sent = None \/ Distance(c, panel.sent) >= SETCURSOR_DELTA)
                    THEN <<Call("setCursor", c, FALSE)>> ELSE <<>>
           play == <<Call("setPlayback", c, p)>>
           r == Forwarded(c, p).calls
<1>1. Call("setCursor", c, FALSE) \in Sent /\ Call("setPlayback", c, p) \in Sent
  BY CallIsSent
<1>2. first = <<Call("setCursor", c, FALSE)>> \/ first = <<>>
  OBVIOUS
<1>3. first \in Seq(Sent) /\ Without(first, Plays)
  <2>1. <<Call("setCursor", c, FALSE)>> \in Seq(Sent)
    BY <1>1, OneCall
  <2>2. <<>> \in Seq(Sent)
    OBVIOUS
  <2>3. Without(<<Call("setCursor", c, FALSE)>>, Plays) /\ Without(<<>>, Plays)
    BY OneSilent
  <2> HIDE DEF first
  <2> QED
    BY <1>2, <2>1, <2>2, <2>3, Zenon
<1>4. r = first \o (IF p # store.playing THEN play ELSE <<>>)
  BY DEF Forwarded
<1> HIDE DEF first, r
<1>5. ASSUME p = store.playing
      PROVE  Without(r, Plays)
  <2>1. r = first
    BY <1>3, <1>4, <1>5
  <2> QED
    BY <1>3, <2>1
<1>6. ASSUME p # store.playing
      PROVE  r # <<>> /\ r[Len(r)].call = "setPlayback" /\ r[Len(r)].flag = p
  <2>1. play \in Seq(Sent) /\ Len(play) = 1 /\ play[1] = Call("setPlayback", c, p)
    BY <1>1, OneCall
  <2>2. r = first \o play
    BY <1>4, <1>6
  <2> HIDE DEF play
  <2>3. Len(r) = Len(first) + 1 /\ Len(first) \in Nat /\ r[Len(first) + 1] = play[1]
    <3>1. /\ Len(r) = Len(first) + Len(play) /\ Len(first) \in Nat
          /\ \A i \in 1..Len(play) : r[Len(first) + i] = play[i]
      BY <1>3, <2>1, <2>2, Elements
    <3>2. 1 \in 1..Len(play)
      BY <2>1
    <3> QED
      BY <2>1, <3>1, <3>2
  <2>4. r[Len(r)] = Call("setPlayback", c, p) /\ r # <<>>
    BY <2>1, <2>3
  <2> QED
    BY <2>4 DEF Call
<1> QED
  BY <1>5, <1>6 DEF r

LEMMA StorePlays ==
  ASSUME MainOK, WillPlay, NEW c \in Times, NEW p \in BOOLEAN, NEW seeks \in BOOLEAN,
         StoreBecomes(c, p, seeks)
  PROVE  WillPlay'
<1> DEFINE r == Forwarded(c, p).calls
<1>0. /\ inbox \in Seq(Sent) /\ panel \in PanelState
      /\ store.playing \in BOOLEAN /\ r \in Seq(Sent)
  BY ForwardedCalls DEF MainOK
<1>1. store'.playing = p /\ clock' = clock
  BY DEF StoreBecomes, MainOnly
<1>2. CASE Mounted
  <2>1. inbox' = inbox \o r
    BY <1>2 DEF StoreBecomes, Send
  <2>2. panel'.phase = panel.phase /\ panel.phase # "gone"
    BY <1>0, <1>2 DEF StoreBecomes, PanelState, Mounted
  <2>3. CASE p = store.playing
    <3>1. Without(r, Plays)
      BY <2>3, ForwardedPlays
    <3> HIDE DEF r
    <3> QED
      BY <1>0, <1>1, <2>1, <2>2, <2>3, <3>1, PlayKept
  <2>4. CASE p # store.playing
    <3>1. r # <<>> /\ r[Len(r)].call = "setPlayback" /\ r[Len(r)].flag = p
      BY <2>4, ForwardedPlays
    <3> HIDE DEF r
    <3>2. Intends(inbox', clock'.playing, p)
      BY <1>0, <2>1, <3>1, IntendsSet
    <3>3. p \/ p = FALSE
      OBVIOUS
    <3> QED
      BY <1>1, <2>2, <3>2, <3>3 DEF WillPlay
  <2> QED
    BY <2>3, <2>4
<1>3. CASE ~Mounted
  <2>1. panel'.phase = "gone"
    BY <1>3 DEF StoreBecomes, Mounted
  <2> QED
    BY <2>1 DEF WillPlay
<1> QED
  BY <1>2, <1>3
(* The panel's own steps other than the store's.                           *)
LEMMA PanelPlays ==
  ASSUME MainOK, WillPlay, SendOpen \/ TimerFires \/ Retry \/ Unmount
  PROVE  WillPlay'
<1>0. panel.mounted \in Times /\ store.cursor \in Times /\ panel \in PanelState
      /\ inbox \in Seq(Sent)
  BY DEF MainOK, PanelState
<1>1. clock' = clock /\ store' = store
  BY DEF SendOpen, TimerFires, Retry, Unmount, MainOnly
<1>2. CASE SendOpen
  <2> DEFINE r == <<Call("open", panel.mounted, FALSE)>>
  <2>1. r \in Seq(Sent) /\ Without(r, Plays)
    BY <1>0, CallIsSent, OneCall, OneSilent
  <2>2. inbox' = inbox \o r
    BY <1>2 DEF SendOpen, Send
  <2>3. panel.phase = "ports" /\ panel'.phase = "opening"
    BY <1>0, <1>2 DEF SendOpen, PanelState
  <2> HIDE DEF r
  <2> QED
    BY <1>1, <2>1, <2>2, <2>3, PlayKept
<1>3. CASE TimerFires
  <2>1. panel'.phase = panel.phase
    BY <1>0, <1>3 DEF TimerFires, PanelState
  <2>2. CASE panel.target = store.cursor
    BY <1>1, <1>3, <2>1, <2>2, PlayUnchanged DEF TimerFires
  <2>3. CASE panel.target # store.cursor
    <3> DEFINE r == <<Call("seek", store.cursor, FALSE)>>
    <3>1. r \in Seq(Sent) /\ Without(r, Plays)
      BY <1>0, CallIsSent, OneCall, OneSilent
    <3>2. inbox' = inbox \o r
      BY <1>3, <2>3 DEF TimerFires, Send
    <3> HIDE DEF r
    <3> QED
      BY <1>1, <2>1, <3>1, <3>2, PlayKept
  <2> QED
    BY <2>2, <2>3
<1>4. CASE Retry
  <2> DEFINE r == <<Call("seek", store.cursor, TRUE)>>
  <2>1. r \in Seq(Sent) /\ Without(r, Plays)
    BY <1>0, CallIsSent, OneCall, OneSilent
  <2>2. inbox' = inbox \o r /\ panel' = panel
    BY <1>4 DEF Retry, Send
  <2> HIDE DEF r
  <2> QED
    BY <1>1, <2>1, <2>2, PlayKept
<1>5. CASE Unmount
  <2>1. panel'.phase = "gone"
    BY <1>0, <1>5 DEF Unmount, PanelState
  <2> QED
    BY <2>1 DEF WillPlay
<1> QED
  BY <1>2, <1>3, <1>4, <1>5

(* The hand-off tells the worker of a session that plays.                  *)
LEMMA HandoffPlays ==
  ASSUME MainOK, WillPlay, OpenReturns
  PROVE  WillPlay'
<1>0. store.cursor \in Times /\ panel \in PanelState /\ inbox \in Seq(Sent)
      /\ store.playing \in BOOLEAN
  BY DEF MainOK
<1>1. clock' = clock /\ store' = store
  BY DEF OpenReturns
<1>2. panel'.phase = IF ~Mounted THEN panel.phase
                     ELSE IF reply = "opened" THEN "open" ELSE "failed"
  BY <1>0 DEF OpenReturns, PanelState
<1>3. CASE ~Mounted
  BY <1>2, <1>3 DEF WillPlay, Mounted
<1>4. CASE Mounted /\ reply = "opened" /\ store.playing
  <2> DEFINE r == Handoff
  <2>1. r \in Seq(Sent)
    BY <1>0, CallIsSent, OneCall DEF Handoff
  <2>2. inbox' = inbox \o r
    BY <1>4 DEF OpenReturns, Send
  <2>3. r # <<>> /\ r[Len(r)].call = "setPlayback" /\ r[Len(r)].flag = TRUE
    BY OnePlays DEF Handoff
  <2> HIDE DEF r
  <2>4. Intends(inbox', clock'.playing, TRUE)
    BY <1>0, <2>1, <2>2, <2>3, IntendsSet
  <2>5. panel'.phase = "open" /\ store'.playing = TRUE
    BY <1>0, <1>1, <1>2, <1>4
  <2> QED
    BY <2>4, <2>5 DEF WillPlay
<1>5. CASE Mounted /\ ~(reply = "opened" /\ store.playing)
  <2>1. Send(<<>>)
    BY <1>5 DEF OpenReturns
  <2>2. inbox' = inbox
    BY <1>0, <2>1 DEF Send
  <2>3. \A v : Intends(inbox', clock'.playing, v) <=> Intends(inbox, clock.playing, v)
    BY <1>1, <2>2
  <2>4. CASE panel.phase = "open"
    <3>1. Intends(inbox', clock'.playing, store.playing)
      BY <2>3, <2>4 DEF WillPlay
    <3>2. store.playing \/ store.playing = FALSE
      BY <1>0
    <3>3. panel'.phase # "gone" /\ store'.playing = store.playing
      BY <1>1, <1>2, <1>5, <2>4
    <3> QED
      BY <3>1, <3>2, <3>3 DEF WillPlay
  <2>5. CASE panel.phase # "open" /\ reply = "opened"
    <3>1. store.playing = FALSE /\ panel.phase \notin {"open", "gone"}
      BY <1>0, <1>5, <2>5 DEF Mounted
    <3>2. Intends(inbox', clock'.playing, store'.playing)
      BY <1>1, <2>3, <3>1 DEF WillPlay
    <3> QED
      BY <1>2, <1>5, <2>5, <3>2 DEF WillPlay
  <2>6. CASE panel.phase # "open" /\ reply # "opened"
    BY <1>1, <1>2, <1>5, <2>3, <2>6 DEF WillPlay, Mounted
  <2> QED
    BY <2>4, <2>5, <2>6
<1> QED
  BY <1>3, <1>4, <1>5
(* What the worker does with the calls it receives.                        *)
LEMMA WorkerPlays ==
  ASSUME MainOK, WillPlay,
         \/ \E name \in {"open", "seek", "close"} : ReceiveOperation(name)
         \/ ReceiveSetCursor \/ ReceiveSetPlayback
         \/ \E ns \in Times : BlitClockTick(ns)
         \/ WorkerRuns \/ WorkerFails
  PROVE  WillPlay'
<1>0. inbox \in Seq(Sent) /\ clock \in [playing : BOOLEAN, lastSet : Times \cup {0}, now : Nat]
  BY DEF MainOK
<1>1. ASSUME inbox # <<>>, inbox' = Tail(inbox), UNCHANGED <<store, panel>>,
             clock'.playing = IF Head(inbox).call \in Plays THEN Head(inbox).flag ELSE clock.playing
      PROVE  WillPlay'
  <2>1. \A v : Intends(inbox, clock.playing, v) => Intends(inbox', clock'.playing, v)
    BY <1>0, <1>1, IntendsReceived
  <2> QED
    BY <1>1, <2>1 DEF WillPlay
<1>2. ASSUME NEW name \in {"open", "seek", "close"}, ReceiveOperation(name)
      PROVE  WillPlay'
  BY <1>1, <1>2 DEF ReceiveOperation, Receive, Plays
<1>3. CASE ReceiveSetCursor
  <2>1. clock'.playing = clock.playing
    BY <1>0, <1>3 DEF ReceiveSetCursor
  <2> QED
    BY <1>1, <1>3, <2>1 DEF ReceiveSetCursor, Receive, Plays
<1>4. CASE ReceiveSetPlayback
  BY <1>1, <1>4 DEF ReceiveSetPlayback, Receive, Plays
<1>5. ASSUME NEW ns \in Times, BlitClockTick(ns)
      PROVE  WillPlay'
  <2>1. clock'.playing = clock.playing
    BY <1>0, <1>5 DEF BlitClockTick
  <2> QED
    BY <1>5, <2>1, PlayUnchanged DEF BlitClockTick
<1>6. CASE WorkerRuns \/ WorkerFails
  BY <1>6, PlayUnchanged DEF WorkerRuns, WorkerFails
<1> QED
  BY <1>2, <1>3, <1>4, <1>5, <1>6

LEMMA StepPlays ==
  ASSUME MainOK, WillPlay, [PanelNext]_panelVars
  PROVE  WillPlay'
<1>1. CASE (\E c \in Times : Scrub(c)) \/ Advance \/ TogglePlay
  <2>1. PICK c \in Times, p \in BOOLEAN, seeks \in BOOLEAN : StoreBecomes(c, p, seeks)
    BY <1>1, UserStores
  <2> QED
    BY <2>1, StorePlays
<1>2. CASE UNCHANGED panelVars
  BY <1>2, PlayUnchanged DEF panelVars
<1> QED
  BY <1>1, <1>2, PanelPlays, HandoffPlays, WorkerPlays DEF PanelNext

(* The worker plays exactly when the session does, once the panel is open  *)
(* and every call has arrived, whatever was toggled meanwhile.             *)
THEOREM PanelPlaybackAgrees == PanelSpec => []PlaybackAgrees
<1>1. PanelInit => WillPlay
  <2> SUFFICES ASSUME PanelInit PROVE WillPlay
    OBVIOUS
  <2>1. inbox = <<>> /\ clock.playing = FALSE
    BY DEF PanelInit
  <2>2. panel.phase = "ports"
    BY DEF PanelInit
  <2>3. Intends(inbox, clock.playing, FALSE)
    BY <2>1 DEF Intends
  <2> QED
    BY <2>2, <2>3 DEF WillPlay
<1>2. PanelIInv /\ WillPlay /\ [PanelNext]_panelVars => WillPlay'
  BY StepPlays DEF PanelIInv
<1>3. WillPlay => PlaybackAgrees
  BY DEF WillPlay, PlaybackAgrees, Intends, Without
<1> QED
  BY <1>1, <1>2, <1>3, PanelInductive, PTL DEF PanelSpec

-----------------------------------------------------------------------------
(***************************************************************************)
(* An unmounted panel has a close() on its port with no open() behind it,  *)
(* or on the worker's chain, or the stream is already shut and nothing     *)
(* still asked for can open another: a seek needs a stream to reopen.      *)
(***************************************************************************)
NoOpenCalls(q, from) == \A j \in from..Len(q) : q[j].call # "open"

Departs(q) == \E k \in 1..Len(q) : q[k].call = "close" /\ NoOpenCalls(q, k)

NoOpenOps(q, from) == \A j \in from..Len(q) : q[j].op # "open"

Closes(q) == \E k \in 1..Len(q) : q[k].op = "close" /\ NoOpenOps(q, k)

Shut ==
  /\ NoOpenOps(queue, 1)
  /\ at = NoStream
  /\ stage # "idle" => First.op = "capture"

Leaves == Departs(inbox) \/ (NoOpenCalls(inbox, 1) /\ (Closes(queue) \/ Shut))

GoneLeaves == panel.phase = "gone" => Leaves

-----------------------------------------------------------------------------
LEMMA SentAfter ==
  ASSUME NEW q \in Seq(Sent), NEW r \in Seq(Sent), NoOpenCalls(r, 1)
  PROVE  /\ Departs(q) => Departs(q \o r)
         /\ NoOpenCalls(q, 1) => NoOpenCalls(q \o r, 1)
<1> DEFINE s == q \o r
<1>1. /\ Len(q) \in Nat /\ Len(r) \in Nat /\ Len(s) = Len(q) + Len(r)
      /\ \A i \in 1..Len(q) : s[i] = q[i]
      /\ \A i \in 1..Len(r) : s[Len(q) + i] = r[i]
  BY Elements
<1> HIDE DEF s
<1>2. ASSUME NEW k \in 1..(Len(q) + 1), NoOpenCalls(q, k)
      PROVE  NoOpenCalls(s, k)
  <2>1. ASSUME NEW j \in k..Len(s)
        PROVE  s[j].call # "open"
    <3>1. CASE j <= Len(q)
      BY <1>1, <1>2, <3>1 DEF NoOpenCalls
    <3>2. CASE j > Len(q)
      <4>1. j - Len(q) \in 1..Len(r) /\ Len(q) + (j - Len(q)) = j
        BY <1>1, <3>2
      <4>2. s[j] = r[j - Len(q)]
        BY <1>1, <4>1
      <4> QED
        BY <4>1, <4>2 DEF NoOpenCalls
    <3> QED
      BY <1>1, <3>1, <3>2
  <2> QED
    BY <2>1 DEF NoOpenCalls
<1>3. ASSUME NEW k \in 1..Len(q), q[k].call = "close", NoOpenCalls(q, k)
      PROVE  Departs(s)
  <2>1. k \in 1..Len(s) /\ s[k].call = "close" /\ k \in 1..(Len(q) + 1)
    BY <1>1, <1>3
  <2>2. NoOpenCalls(s, k)
    BY <1>2, <1>3, <2>1
  <2> QED
    BY <2>1, <2>2 DEF Departs
<1>4. Departs(q) => Departs(s)
  BY <1>3 DEF Departs
<1>5. 1 \in 1..(Len(q) + 1)
  BY <1>1
<1>6. NoOpenCalls(q, 1) => NoOpenCalls(s, 1)
  BY <1>2, <1>5
<1> QED
  BY <1>4, <1>6 DEF s

(* close() is sent.                                                        *)
LEMMA CloseSent ==
  ASSUME NEW q \in Seq(Sent), NEW c \in Sent, c.call = "close"
  PROVE  Departs(q \o <<c>>)
<1> DEFINE r == <<c>>
           s == q \o r
<1>1. r \in Seq(Sent) /\ Len(r) = 1 /\ r[1] = c
  BY OneCall
<1> HIDE DEF r
<1>2. /\ Len(q) \in Nat /\ Len(s) = Len(q) + 1
      /\ \A i \in 1..1 : s[Len(q) + i] = r[i]
  <2>1. /\ Len(q) \in Nat /\ Len(s) = Len(q) + Len(r)
        /\ \A i \in 1..Len(r) : s[Len(q) + i] = r[i]
    BY <1>1, Elements
  <2> HIDE DEF s
  <2> QED
    BY <1>1, <2>1
<1> HIDE DEF s
<1>3. s[Len(q) + 1] = c
  <2>1. 1 \in 1..1
    OBVIOUS
  <2> QED
    BY <1>1, <1>2, <2>1
<1>4. Len(s) \in 1..Len(s) /\ s[Len(s)] = c /\ \A j \in Len(s)..Len(s) : j = Len(s)
  BY <1>2, <1>3
<1>5. Departs(s)
  BY <1>4 DEF Departs, NoOpenCalls
<1> QED
  BY <1>5 DEF r, s

LEMMA CallTaken ==
  ASSUME NEW q \in Seq(Sent), q # <<>>
  PROVE  /\ Departs(q) => \/ Departs(Tail(q))
                          \/ Head(q).call = "close" /\ NoOpenCalls(Tail(q), 1)
         /\ NoOpenCalls(q, 1) => Head(q).call # "open" /\ NoOpenCalls(Tail(q), 1)
<1> DEFINE s == Tail(q)
<1>1. /\ Len(q) \in Nat \ {0} /\ Len(s) = Len(q) - 1 /\ Head(q) = q[1]
      /\ \A i \in 1..Len(s) : s[i] = q[i + 1]
  BY TailElements
<1> HIDE DEF s
<1>2. ASSUME NEW k \in 1..Len(q), NoOpenCalls(q, k), NEW m \in 1..Len(q), m + 1 >= k
      PROVE  NoOpenCalls(s, m)
  <2>1. ASSUME NEW j \in m..Len(s)
        PROVE  s[j].call # "open"
    <3>1. j \in 1..Len(s) /\ j + 1 \in k..Len(q)
      BY <1>1, <1>2
    <3> QED
      BY <1>1, <1>2, <3>1 DEF NoOpenCalls
  <2> QED
    BY <2>1 DEF NoOpenCalls
<1>3. ASSUME NEW k \in 1..Len(q), q[k].call = "close", NoOpenCalls(q, k), k # 1
      PROVE  Departs(s)
  <2>1. k - 1 \in 1..Len(s) /\ (k - 1) + 1 = k /\ k - 1 \in 1..Len(q) /\ (k - 1) + 1 >= k
    BY <1>1, <1>3
  <2>2. s[k - 1].call = "close" /\ NoOpenCalls(s, k - 1)
    BY <1>1, <1>2, <1>3, <2>1
  <2> QED
    BY <2>1, <2>2 DEF Departs
<1>4. 1 \in 1..Len(q) /\ 1 + 1 >= 1 /\ 1 \in 1..Len(q)
  BY <1>1
<1>5. NoOpenCalls(q, 1) => NoOpenCalls(s, 1) /\ q[1].call # "open"
  BY <1>2, <1>4 DEF NoOpenCalls
<1>6. Departs(q) => Departs(s) \/ (q[1].call = "close" /\ NoOpenCalls(s, 1))
  BY <1>3, <1>5 DEF Departs
<1> QED
  BY <1>1, <1>5, <1>6 DEF s

-----------------------------------------------------------------------------
LEMMA AskedAfter ==
  ASSUME NEW q \in Seq(Operation), NEW op \in Operation, op.op # "open"
  PROVE  /\ Closes(q) => Closes(Append(q, op))
         /\ NoOpenOps(q, 1) => NoOpenOps(Append(q, op), 1)
         /\ op.op = "close" => Closes(Append(q, op))
<1> DEFINE s == Append(q, op)
<1>1. /\ Len(s) = Len(q) + 1 /\ Len(q) \in Nat
      /\ \A k \in 1..Len(q) : s[k] = q[k]
      /\ s[Len(q) + 1] = op
  BY AppendOps
<1> HIDE DEF s
<1>2. ASSUME NEW k \in 1..Len(s), NoOpenOps(q, k)
      PROVE  NoOpenOps(s, k)
  <2>1. ASSUME NEW j \in k..Len(s)
        PROVE  s[j].op # "open"
    <3>1. CASE j = Len(q) + 1
      BY <1>1, <3>1
    <3>2. CASE j # Len(q) + 1
      <4>1. j \in k..Len(q) /\ j \in 1..Len(q)
        BY <1>1, <3>2
      <4> QED
        BY <1>1, <1>2, <4>1 DEF NoOpenOps
    <3> QED
      BY <3>1, <3>2
  <2> QED
    BY <2>1 DEF NoOpenOps
<1>3. Closes(q) => Closes(s)
  <2>1. ASSUME NEW k \in 1..Len(q), q[k].op = "close", NoOpenOps(q, k)
        PROVE  Closes(s)
    <3>1. k \in 1..Len(s) /\ s[k].op = "close"
      BY <1>1, <2>1
    <3>2. NoOpenOps(s, k)
      BY <1>2, <2>1, <3>1
    <3> QED
      BY <3>1, <3>2 DEF Closes
  <2> QED
    BY <2>1 DEF Closes
<1>4. 1 \in 1..Len(s) /\ Len(s) \in 1..Len(s) /\ s[Len(s)] = op
  BY <1>1
<1>5. NoOpenOps(q, 1) => NoOpenOps(s, 1)
  BY <1>2, <1>4
<1>6. op.op = "close" => Closes(s)
  <2>1. \A j \in Len(s)..Len(s) : j = Len(s)
    BY <1>1
  <2> QED
    BY <1>4, <2>1 DEF Closes, NoOpenOps
<1> QED
  BY <1>3, <1>5, <1>6 DEF s

LEMMA Popped ==
  ASSUME NEW q \in Seq(Operation), q # <<>>
  PROVE  /\ Closes(q) => \/ Closes(Tail(q))
                         \/ q[1].op = "close" /\ NoOpenOps(Tail(q), 1)
         /\ NoOpenOps(q, 1) => NoOpenOps(Tail(q), 1)
<1> DEFINE s == Tail(q)
<1>1. /\ Len(s) = Len(q) - 1 /\ Len(q) \in Nat
      /\ \A k \in 1..Len(s) : s[k] = q[k + 1] /\ k + 1 \in 1..Len(q)
      /\ 1 \in 1..Len(q)
  BY PopOps, FirstOp
<1> HIDE DEF s
<1>2. ASSUME NEW k \in 1..Len(q), NoOpenOps(q, k), NEW m \in 1..Len(q), m + 1 >= k
      PROVE  NoOpenOps(s, m)
  <2>1. ASSUME NEW j \in m..Len(s)
        PROVE  s[j].op # "open"
    <3>1. j \in 1..Len(s) /\ j + 1 \in k..Len(q)
      BY <1>1, <1>2
    <3> QED
      BY <1>1, <1>2, <3>1 DEF NoOpenOps
  <2> QED
    BY <2>1 DEF NoOpenOps
<1>3. ASSUME NEW k \in 1..Len(q), q[k].op = "close", NoOpenOps(q, k), k # 1
      PROVE  Closes(s)
  <2>1. k - 1 \in 1..Len(s) /\ (k - 1) + 1 = k /\ k - 1 \in 1..Len(q) /\ (k - 1) + 1 >= k
    BY <1>1, <1>3
  <2>2. s[k - 1].op = "close" /\ NoOpenOps(s, k - 1)
    BY <1>1, <1>2, <1>3, <2>1
  <2> QED
    BY <2>1, <2>2 DEF Closes
<1>4. NoOpenOps(q, 1) => NoOpenOps(s, 1)
  <2>1. 1 + 1 >= 1
    OBVIOUS
  <2> QED
    BY <1>1, <1>2, <2>1
<1>5. Closes(q) => Closes(s) \/ (q[1].op = "close" /\ NoOpenOps(s, 1))
  BY <1>3, <1>4 DEF Closes
<1> QED
  BY <1>4, <1>5 DEF s

-----------------------------------------------------------------------------
(* The worker carries out what is on its chain: a close is only taken off  *)
(* it once there is no stream, and shut, nothing it does opens one.        *)
LEMMA ChainLeaves ==
  ASSUME TypeOK, StageOK, Closes(queue) \/ Shut, WorkerStep
  PROVE  (Closes(queue) \/ Shut)'
<1>0. queue \in Seq(Operation) /\ cursor \in Nat
  BY DEF TypeOK
<1>1. ASSUME Closes(queue), queue' = queue
      PROVE  (Closes(queue) \/ Shut)'
  BY <1>1
<1>2. ASSUME queue # <<>>, Pop, at' = at, First.op = "close" => at = NoStream
      PROVE  (Closes(queue) \/ Shut)'
  <2>1. queue' = Tail(queue) /\ stage' = "idle"
    BY <1>2 DEF Pop
  <2>2. CASE Closes(queue)
    <3>1. Closes(queue') \/ (at' = NoStream /\ NoOpenOps(queue', 1))
      BY <1>0, <1>2, <2>1, <2>2, Popped DEF First
    <3> QED
      BY <2>1, <3>1 DEF Shut
  <2>3. CASE Shut
    <3>1. at' = NoStream /\ NoOpenOps(queue', 1)
      BY <1>0, <1>2, <2>1, <2>3, Popped DEF Shut
    <3> QED
      BY <2>1, <3>1 DEF Shut
  <2> QED
    BY <2>2, <2>3
<1>3. CASE Skip
  BY <1>2, <1>3 DEF Skip, Skipped
<1>4. CASE Drop
  BY <1>1, <1>4 DEF Drop, Shut
<1>5. CASE StartOpen
  <2>1. ~Shut
    BY <1>0, <1>5, FirstOp DEF StartOpen, Shut, NoOpenOps, First
  <2> QED
    BY <1>1, <1>5, <2>1 DEF StartOpen, Begin
<1>6. CASE StartCapture
  <2>1. Shut => Shut'
    BY <1>6 DEF StartCapture, Shut, First
  <2> QED
    BY <1>1, <1>6, <2>1 DEF StartCapture
<1>7. CASE Closed
  <2>1. queue # <<>> /\ at = NoStream /\ First.op # "capture" /\ ~Shut
    BY <1>7 DEF Closed, StageOK, Shut
  <2>2. CASE First.op = "close"
    BY <1>2, <1>7, <2>1, <2>2 DEF Closed
  <2>3. CASE First.op # "close"
    BY <1>1, <1>7, <2>1, <2>3 DEF Closed, Begin
  <2> QED
    BY <2>2, <2>3
<1>8. CASE Opened
  BY <1>1, <1>8 DEF Opened, Shut
<1>9. CASE Settle
  BY <1>2, <1>9 DEF Settle, StageOK
<1>10. ASSUME NEW healing \in BOOLEAN, NEW settling \in BOOLEAN, DecoderFails(healing, settling)
       PROVE  (Closes(queue) \/ Shut)'
  <2> DEFINE heal == Op("seek", cursor, TRUE, TRUE)
             healed == IF healing THEN Append(queue, heal) ELSE queue
  <2>1. Closes(queue)
    BY <1>10 DEF DecoderFails, Shut
  <2>2. heal \in Operation /\ heal.op # "open"
    BY <1>0 DEF Operation, Op
  <2>3. healed \in Seq(Operation) /\ Closes(healed)
    BY <1>0, <2>1, <2>2, AskedAfter, AppendOps
  <2>4. settling => queue # <<>> /\ First.op # "close"
    BY <1>10 DEF DecoderFails, StageOK
  <2>5. queue # <<>> => healed # <<>> /\ healed[1] = First
    BY <1>0, <2>2, AppendOps, FirstOp DEF First
  <2>6. queue' = IF settling THEN Tail(healed) ELSE healed
    BY <1>10 DEF DecoderFails
  <2> HIDE DEF healed
  <2>7. Closes(queue')
    BY <2>3, <2>4, <2>5, <2>6, Popped
  <2> QED
    BY <2>7
<1> QED
  BY <1>3, <1>4, <1>5, <1>6, <1>7, <1>8, <1>9, <1>10 DEF WorkerStep, ChainStep

(* A call is taken off the port.                                           *)
LEMMA ReceiveLeaves ==
  ASSUME IInv, MainOK, Leaves,
         \/ \E name \in {"open", "seek", "close"} : ReceiveOperation(name)
         \/ ReceiveSetCursor \/ ReceiveSetPlayback
  PROVE  Leaves'
<1>0. queue \in Seq(Operation) /\ inbox \in Seq(Sent) /\ StageOK
  BY DEF IInv, TypeOK, MainOK
<1>1. inbox # <<>> /\ inbox' = Tail(inbox)
  BY DEF ReceiveOperation, ReceiveSetCursor, ReceiveSetPlayback, Receive
<1>2. /\ Departs(inbox) => Departs(inbox') \/ (Head(inbox).call = "close" /\ NoOpenCalls(inbox', 1))
      /\ NoOpenCalls(inbox, 1) => Head(inbox).call # "open" /\ NoOpenCalls(inbox', 1)
  BY <1>0, <1>1, CallTaken
<1>3. CASE ReceiveSetCursor \/ ReceiveSetPlayback
  <2>1. Head(inbox).call # "close" /\ UNCHANGED <<queue, stage, at>>
    BY <1>3 DEF ReceiveSetCursor, ReceiveSetPlayback, Receive, MoveCursor
  <2>2. (Closes(queue) \/ Shut) => (Closes(queue) \/ Shut)'
    BY <2>1 DEF Shut, First
  <2> QED
    BY <1>2, <2>1, <2>2 DEF Leaves
<1>4. ASSUME NEW name \in {"open", "seek", "close"}, ReceiveOperation(name)
      PROVE  Leaves'
  <2> DEFINE op == Op(name, Head(inbox).ns, Head(inbox).flag, FALSE)
  <2>1. Head(inbox).call = name
    BY <1>4 DEF ReceiveOperation, Receive
  <2>2. op \in Operation /\ op.op = name
    <3>1. op \in Requests
      BY <1>1, <2>1, Received, SentIsRequest
    <3> QED
      BY <3>1, RequestTypes DEF Op
  <2>3. queue' = Append(queue, op) /\ UNCHANGED <<stage, at>>
    BY <1>4 DEF ReceiveOperation, Request
  <2> HIDE DEF op
  <2>4. CASE Departs(inbox) /\ ~Departs(inbox')
    <3>1. name = "close" /\ NoOpenCalls(inbox', 1)
      BY <1>2, <2>1, <2>4
    <3>2. Closes(queue')
      BY <1>0, <2>2, <2>3, <3>1, AskedAfter
    <3> QED
      BY <3>1, <3>2 DEF Leaves
  <2>5. CASE NoOpenCalls(inbox, 1) /\ (Closes(queue) \/ Shut)
    <3>1. name # "open" /\ NoOpenCalls(inbox', 1)
      BY <1>2, <2>1, <2>5
    <3>2. Closes(queue) => Closes(queue')
      BY <1>0, <2>2, <2>3, <3>1, AskedAfter
    <3>3. Shut => Shut'
      <4>1. NoOpenOps(queue, 1) => NoOpenOps(queue', 1)
        BY <1>0, <2>2, <2>3, <3>1, AskedAfter
      <4>2. queue # <<>> => queue'[1] = queue[1]
        BY <1>0, <2>2, <2>3, AppendOps, FirstOp
      <4> QED
        BY <1>0, <2>3, <4>1, <4>2 DEF Shut, First, StageOK
    <3> QED
      BY <2>5, <3>1, <3>2, <3>3 DEF Leaves
  <2> QED
    BY <2>4, <2>5 DEF Leaves
<1> QED
  BY <1>3, <1>4

(* More is sent, none of it open().                                        *)
LEMMA SendLeaves ==
  ASSUME MainOK, NEW r \in Seq(Sent), NoOpenCalls(r, 1), Leaves,
         inbox' = inbox \o r, UNCHANGED streamVars
  PROVE  Leaves'
<1>1. /\ Departs(inbox) => Departs(inbox')
      /\ NoOpenCalls(inbox, 1) => NoOpenCalls(inbox', 1)
  BY SentAfter DEF MainOK
<1>2. (Closes(queue) \/ Shut) => (Closes(queue) \/ Shut)'
  BY DEF Shut, First, streamVars
<1> QED
  BY <1>1, <1>2 DEF Leaves

LEMMA OneNotOpen ==
  ASSUME NEW t, NEW f, NEW name \in {"seek", "setPlayback"}
  PROVE  NoOpenCalls(<<Call(name, t, f)>>, 1) /\ NoOpenCalls(<<>>, 1)
  BY DEF NoOpenCalls, Call

(* A panel that is gone only answers for what it left behind.              *)
LEMMA PanelLeaves ==
  ASSUME MainOK, GoneLeaves, OpenReturns \/ TimerFires \/ Retry \/ SendOpen \/ Unmount
  PROVE  GoneLeaves'
<1>0. /\ panel \in PanelState /\ inbox \in Seq(Sent)
      /\ store.cursor \in Times /\ <<>> \in Seq(Sent)
  BY DEF MainOK
<1>1. ASSUME NEW r \in Seq(Sent), NoOpenCalls(r, 1), inbox' = inbox \o r,
             UNCHANGED streamVars, panel'.phase = "gone" => panel.phase = "gone"
      PROVE  GoneLeaves'
  BY <1>1, SendLeaves DEF GoneLeaves
<1>2. CASE OpenReturns
  <2>1. panel'.phase = "gone" => panel.phase = "gone"
    BY <1>0, <1>2 DEF OpenReturns, PanelState, Mounted
  <2>2. Handoff \in Seq(Sent) /\ NoOpenCalls(Handoff, 1) /\ NoOpenCalls(<<>>, 1)
    BY <1>0, CallIsSent, OneCall, OneNotOpen DEF Handoff
  <2>3. inbox' = inbox \o Handoff \/ inbox' = inbox \o <<>>
    BY <1>2 DEF OpenReturns, Send
  <2> QED
    BY <1>0, <1>1, <1>2, <2>1, <2>2, <2>3 DEF OpenReturns
<1>3. CASE TimerFires
  <2> DEFINE r == <<Call("seek", store.cursor, FALSE)>>
  <2>1. panel'.phase = panel.phase /\ UNCHANGED streamVars
    BY <1>0, <1>3 DEF TimerFires, PanelState, MainOnly
  <2>2. r \in Seq(Sent) /\ NoOpenCalls(r, 1) /\ NoOpenCalls(<<>>, 1)
    BY <1>0, CallIsSent, OneCall, OneNotOpen
  <2>3. inbox' = inbox \o r \/ inbox' = inbox
    BY <1>3 DEF TimerFires, Send
  <2>4. inbox \o <<>> = inbox
    BY <1>0
  <2> HIDE DEF r
  <2> QED
    BY <1>0, <1>1, <2>1, <2>2, <2>3, <2>4
<1>4. CASE Retry
  <2> DEFINE r == <<Call("seek", store.cursor, TRUE)>>
  <2>1. r \in Seq(Sent) /\ NoOpenCalls(r, 1)
    BY <1>0, CallIsSent, OneCall, OneNotOpen
  <2>2. inbox' = inbox \o r /\ panel' = panel /\ UNCHANGED streamVars
    BY <1>4 DEF Retry, Send, MainOnly
  <2> HIDE DEF r
  <2> QED
    BY <1>1, <2>1, <2>2
<1>5. CASE SendOpen
  <2>1. panel'.phase = "opening"
    BY <1>0, <1>5 DEF SendOpen, PanelState
  <2> QED
    BY <2>1 DEF GoneLeaves
<1>6. CASE Unmount
  <2> DEFINE c == Call("close", 0, FALSE)
  <2>1. c \in Sent /\ c.call = "close"
    BY <1>0, CallIsSent DEF Call
  <2>2. inbox' = inbox \o <<c>>
    BY <1>6 DEF Unmount, Send
  <2> HIDE DEF c
  <2> QED
    BY <1>0, <2>1, <2>2, CloseSent DEF GoneLeaves, Leaves
<1> QED
  BY <1>2, <1>3, <1>4, <1>5, <1>6

LEMMA StepLeaves ==
  ASSUME IInv, MainOK, GoneLeaves, [PanelNext]_panelVars
  PROVE  GoneLeaves'
<1>0. panel \in PanelState
  BY DEF MainOK
<1>1. ASSUME UNCHANGED <<inbox, panel>>, UNCHANGED <<queue, stage, at>> \/ WorkerStep
      PROVE  GoneLeaves'
  <2>1. (Closes(queue) \/ Shut) => (Closes(queue) \/ Shut)'
    <3>1. CASE WorkerStep
      BY <3>1, ChainLeaves DEF IInv
    <3>2. CASE UNCHANGED <<queue, stage, at>>
      BY <3>2 DEF Shut, First
    <3> QED
      BY <1>1, <3>1, <3>2
  <2> QED
    BY <1>1, <2>1 DEF GoneLeaves, Leaves
<1>2. CASE (\E c \in Times : Scrub(c)) \/ Advance \/ TogglePlay
  <2>1. PICK c \in Times, p \in BOOLEAN, seeks \in BOOLEAN : StoreBecomes(c, p, seeks)
    BY <1>2, UserStores
  <2>2. CASE Mounted
    <3>1. panel'.phase # "gone"
      BY <1>0, <2>1, <2>2 DEF StoreBecomes, Mounted, PanelState
    <3> QED
      BY <3>1 DEF GoneLeaves
  <2>3. CASE ~Mounted
    BY <1>1, <2>1, <2>3 DEF StoreBecomes, MainOnly, streamVars
  <2> QED
    BY <2>2, <2>3
<1>3. CASE \/ \E name \in {"open", "seek", "close"} : ReceiveOperation(name)
           \/ ReceiveSetCursor \/ ReceiveSetPlayback
  <2>1. UNCHANGED panel
    BY <1>3 DEF ReceiveOperation, ReceiveSetCursor, ReceiveSetPlayback, Receive
  <2> QED
    BY <1>3, <2>1, ReceiveLeaves DEF GoneLeaves
<1>4. CASE \E ns \in Times : BlitClockTick(ns)
  BY <1>1, <1>4 DEF BlitClockTick, MoveCursor
<1>5. CASE WorkerRuns
  BY <1>1, <1>5 DEF WorkerRuns, WorkerStep, ChainStep
<1>6. CASE WorkerFails
  BY <1>1, <1>6 DEF WorkerFails, WorkerStep, ChainStep
<1>7. CASE UNCHANGED panelVars
  BY <1>1, <1>7 DEF panelVars, streamVars
<1> QED
  BY <1>2, <1>3, <1>4, <1>5, <1>6, <1>7, PanelLeaves DEF PanelNext

(* An unmounted panel leaves no stream open once everything it asked for   *)
(* has been carried out, whatever was under way when it went.              *)
THEOREM PanelGoneIsClosed == PanelSpec => []GoneIsClosed
<1>1. PanelInit => GoneLeaves
  <2> SUFFICES ASSUME PanelInit PROVE GoneLeaves
    OBVIOUS
  <2>1. panel.phase = "ports"
    BY DEF PanelInit
  <2> QED
    BY <2>1 DEF GoneLeaves
<1>2. PanelIInv /\ GoneLeaves /\ [PanelNext]_panelVars => GoneLeaves'
  BY StepLeaves DEF PanelIInv
<1>3. GoneLeaves => GoneIsClosed
  BY DEF GoneLeaves, Leaves, Departs, Closes, Shut, GoneIsClosed
<1> QED
  BY <1>1, <1>2, <1>3, PanelInductive, PTL DEF PanelSpec

-----------------------------------------------------------------------------
(***************************************************************************)
(* What the panel's duplicate guard compares with is where the stream is   *)
(* (BeliefHolds), as long as the user waits for open() before scrubbing    *)
(* and asks for no retry, and nothing fails: each of these moves the       *)
(* stream without the panel's record.  The argument follows the operation  *)
(* from the port to the chain to the answer: open() is somewhere on that   *)
(* way, alone, until the panel is open; from then on the last seek on the  *)
(* port, or with none the operation asked for last, has the target that    *)
(* the panel remembers.                                                    *)
(***************************************************************************)
Undisturbed == Acts \cap {"early", "retry", "fault"} = {}

Operations == {"open", "seek", "close"}

Seeking == {"seek"}

Others == {"open", "close"}

(* open() is on the port, and no other operation.                          *)
OneOpen(q, v) ==
  \E k \in 1..Len(q) : /\ q[k] = Call("open", v, FALSE)
                       /\ \A j \in 1..Len(q) : j # k => q[j].call \notin Operations

Seeks(q, w, v) ==
  /\ \A k \in 1..Len(q) : LastIn(q, Seeking, k) => q[k].ns = v
  /\ Without(q, Seeking) => w = v

OnlySeeks(q) == \A k \in 1..Len(q) : q[k].op = "seek"

AtPorts ==
  ~panel.timer /\ reply = "none" /\ queue = <<>> /\ Without(inbox, Operations)

OpenSent == OneOpen(inbox, panel.mounted) /\ queue = <<>> /\ reply = "none"

OpenRuns ==
  /\ Without(inbox, Operations) /\ wanted = panel.mounted
  /\ queue = <<Op("open", panel.mounted, FALSE, FALSE)>> /\ reply = "none"

OpenAnswered ==
  /\ Without(inbox, Operations) /\ wanted = panel.mounted
  /\ queue = <<>> /\ reply = "opened"

AtOpening == ~panel.timer /\ (OpenSent \/ OpenRuns \/ OpenAnswered)

AtOpen ==
  /\ reply = "none"
  /\ Without(inbox, Others) /\ OnlySeeks(queue)
  /\ Seeks(inbox, wanted, panel.target)

Believes ==
  /\ panel.phase = "ports" => AtPorts
  /\ panel.phase = "opening" => AtOpening
  /\ panel.phase = "open" => AtOpen
  /\ panel.phase # "failed"

-----------------------------------------------------------------------------
LEMMA WithoutAny ==
  ASSUME NEW q, Without(q, Operations)
  PROVE  Without(q, Seeking) /\ Without(q, Others)
  BY DEF Without, Operations, Seeking, Others

LEMMA SeeksKept ==
  ASSUME NEW q \in Seq(Sent), NEW r \in Seq(Sent), NEW w, NEW v,
         Seeks(q, w, v), Without(r, Seeking)
  PROVE  Seeks(q \o r, w, v)
  BY LastKept DEF Seeks

LEMMA SeeksSet ==
  ASSUME NEW q \in Seq(Sent), NEW t \in Times, NEW w, NEW f \in BOOLEAN
  PROVE  Seeks(q \o <<Call("seek", t, f)>>, w, t)
<1> DEFINE r == <<Call("seek", t, f)>>
<1>1. r \in Seq(Sent)
  BY CallIsSent, OneCall
<1>2. r # <<>> /\ r[Len(r)].call \in Seeking /\ r[Len(r)].ns = t
  BY DEF Call, Seeking
<1> HIDE DEF r
<1>3. Seeks(q \o r, w, t)
  BY <1>1, <1>2, LastSent DEF Seeks
<1> QED
  BY <1>3 DEF r

LEMMA SeeksReceived ==
  ASSUME NEW q \in Seq(Sent), q # <<>>, NEW w, NEW v, Seeks(q, w, v)
  PROVE  Seeks(Tail(q), IF Head(q).call = "seek" THEN Head(q).ns ELSE w, v)
<1>1. Head(q) = q[1]
  BY TailElements
<1>2. Head(q).call \in Seeking <=> Head(q).call = "seek"
  BY DEF Seeking
<1> QED
  BY <1>1, <1>2, LastReceived DEF Seeks

LEMMA OneOpenSent ==
  ASSUME NEW q \in Seq(Sent), Without(q, Operations), NEW t \in Times
  PROVE  OneOpen(q \o <<Call("open", t, FALSE)>>, t)
<1> DEFINE o == Call("open", t, FALSE)
           r == <<o>>
           s == q \o r
<1>0. o \in Sent
  BY CallIsSent
<1> HIDE DEF o
<1>1. r \in Seq(Sent) /\ Len(r) = 1 /\ r[1] = o
  BY <1>0, OneCall
<1> HIDE DEF r
<1>2. /\ Len(q) \in Nat /\ Len(s) = Len(q) + Len(r)
      /\ \A i \in 1..Len(q) : s[i] = q[i]
      /\ \A i \in 1..Len(r) : s[Len(q) + i] = r[i]
  BY <1>1, Elements
<1> HIDE DEF s
<1>3. 1 \in 1..Len(r)
  BY <1>1
<1>4. Len(s) = Len(q) + 1 /\ s[Len(s)] = o /\ Len(s) \in 1..Len(s)
  BY <1>1, <1>2, <1>3
<1>5. ASSUME NEW j \in 1..Len(s), j # Len(s)
      PROVE  s[j].call \notin Operations
  <2>1. j \in 1..Len(q)
    BY <1>2, <1>4, <1>5
  <2> QED
    BY <1>2, <2>1 DEF Without
<1>6. OneOpen(s, t)
  BY <1>4, <1>5 DEF OneOpen, o
<1> QED
  BY <1>6 DEF s, r, o

LEMMA OneOpenKept ==
  ASSUME NEW q \in Seq(Sent), NEW r \in Seq(Sent), NEW v,
         OneOpen(q, v), Without(r, Operations)
  PROVE  OneOpen(q \o r, v)
<1> DEFINE o == Call("open", v, FALSE)
           s == q \o r
<1>1. /\ Len(q) \in Nat /\ Len(r) \in Nat /\ Len(s) = Len(q) + Len(r)
      /\ \A i \in 1..Len(q) : s[i] = q[i]
      /\ \A i \in 1..Len(r) : s[Len(q) + i] = r[i]
  BY Elements
<1>2. PICK k \in 1..Len(q) : /\ q[k] = o
                             /\ \A j \in 1..Len(q) : j # k => q[j].call \notin Operations
  BY DEF OneOpen
<1> HIDE DEF s, o
<1>3. k \in 1..Len(s) /\ s[k] = o
  BY <1>1, <1>2
<1>4. ASSUME NEW j \in 1..Len(s), j # k
      PROVE  s[j].call \notin Operations
  <2>1. CASE j <= Len(q)
    BY <1>1, <1>2, <1>4, <2>1
  <2>2. CASE j > Len(q)
    <3>1. j - Len(q) \in 1..Len(r) /\ Len(q) + (j - Len(q)) = j
      BY <1>1, <2>2
    <3>2. s[j] = r[j - Len(q)]
      BY <1>1, <3>1
    <3> QED
      BY <3>1, <3>2 DEF Without
  <2> QED
    BY <1>1, <2>1, <2>2
<1>5. OneOpen(s, v)
  BY <1>3, <1>4 DEF OneOpen, o
<1> QED
  BY <1>5 DEF s

(* Received is open(), or a call that is no operation.                     *)
LEMMA OneOpenReceived ==
  ASSUME NEW q \in Seq(Sent), q # <<>>, NEW v, OneOpen(q, v)
  PROVE  IF Head(q).call \in Operations
         THEN Head(q) = Call("open", v, FALSE) /\ Without(Tail(q), Operations)
         ELSE OneOpen(Tail(q), v)
<1> DEFINE s == Tail(q)
<1>1. /\ Len(q) \in Nat \ {0} /\ Len(s) = Len(q) - 1 /\ Head(q) = q[1]
      /\ \A i \in 1..Len(s) : s[i] = q[i + 1]
  BY TailElements
<1> HIDE DEF s
<1>2. PICK k \in 1..Len(q) : /\ q[k] = Call("open", v, FALSE)
                             /\ \A j \in 1..Len(q) : j # k => q[j].call \notin Operations
  BY DEF OneOpen
<1>3. q[k].call \in Operations
  BY <1>2 DEF Call, Operations
<1>4. \A i \in 1..Len(s) : i + 1 \in 1..Len(q) /\ i + 1 # 1
  BY <1>1
<1>5. CASE k = 1
  <2>1. Without(s, Operations)
    BY <1>1, <1>2, <1>4, <1>5 DEF Without
  <2> QED
    BY <1>1, <1>2, <1>3, <1>5, <2>1 DEF s
<1>6. CASE k # 1
  <2>1. 1 \in 1..Len(q) /\ Head(q).call \notin Operations
    BY <1>1, <1>2, <1>6
  <2>2. k - 1 \in 1..Len(s) /\ (k - 1) + 1 = k
    BY <1>1, <1>6
  <2>3. s[k - 1] = Call("open", v, FALSE)
    BY <1>1, <1>2, <2>2
  <2>4. ASSUME NEW i \in 1..Len(s), i # k - 1
        PROVE  s[i].call \notin Operations
    <3>1. i + 1 # k
      BY <1>1, <2>2, <2>4
    <3> QED
      BY <1>1, <1>2, <1>4, <3>1
  <2>5. OneOpen(s, v)
    BY <2>2, <2>3, <2>4 DEF OneOpen
  <2> QED
    BY <2>1, <2>5 DEF s
<1> QED
  BY <1>5, <1>6

-----------------------------------------------------------------------------
(* A call that asks for no operation is sent, or the panel only remembers  *)
(* more than its phase, its target and its timer.                          *)
LEMMA BelievesSilent ==
  ASSUME MainOK, Believes, NEW r \in Seq(Sent), Without(r, Operations),
         inbox' = inbox \o r, UNCHANGED <<queue, reply, wanted>>,
         panel'.phase = panel.phase, panel'.mounted = panel.mounted,
         panel'.target = panel.target,
         panel.phase \in {"ports", "opening"} => panel'.timer = panel.timer
  PROVE  Believes'
<1>0. inbox \in Seq(Sent) /\ Without(r, Seeking) /\ Without(r, Others)
  BY WithoutAny DEF MainOK
<1>1. /\ Without(inbox, Operations) => Without(inbox', Operations)
      /\ Without(inbox, Others) => Without(inbox', Others)
  BY <1>0, LastKept
<1>2. AtPorts /\ panel.phase = "ports" => AtPorts'
  BY <1>1 DEF AtPorts
<1>3. AtOpening /\ panel.phase = "opening" => AtOpening'
  <2>1. OneOpen(inbox, panel.mounted) => OneOpen(inbox', panel'.mounted)
    BY <1>0, OneOpenKept
  <2>2. OpenSent => OpenSent'
    BY <2>1 DEF OpenSent
  <2>3. (OpenRuns => OpenRuns') /\ (OpenAnswered => OpenAnswered')
    BY <1>1 DEF OpenRuns, OpenAnswered
  <2> QED
    BY <2>2, <2>3 DEF AtOpening
<1>4. AtOpen => AtOpen'
  <2>1. Seeks(inbox, wanted, panel.target) => Seeks(inbox', wanted', panel'.target)
    BY <1>0, SeeksKept
  <2> QED
    BY <1>1, <2>1 DEF AtOpen, OnlySeeks
<1> QED
  BY <1>2, <1>3, <1>4 DEF Believes

(* The worker receives a call that asks for no operation.                  *)
LEMMA BelievesTaken ==
  ASSUME MainOK, Believes, inbox # <<>>, Head(inbox).call \notin Operations,
         inbox' = Tail(inbox), UNCHANGED <<queue, reply, wanted, panel>>
  PROVE  Believes'
<1>0. inbox \in Seq(Sent) /\ Head(inbox).call # "seek"
  BY DEF MainOK, Operations
<1>1. /\ Without(inbox, Operations) => Without(inbox', Operations)
      /\ Without(inbox, Others) => Without(inbox', Others)
  BY <1>0, LastReceived
<1>2. AtPorts => AtPorts'
  BY <1>1 DEF AtPorts
<1>3. AtOpening => AtOpening'
  <2>1. OneOpen(inbox, panel.mounted) => OneOpen(inbox', panel.mounted)
    BY <1>0, OneOpenReceived
  <2>2. OpenSent => OpenSent'
    BY <2>1 DEF OpenSent
  <2>3. (OpenRuns => OpenRuns') /\ (OpenAnswered => OpenAnswered')
    BY <1>1 DEF OpenRuns, OpenAnswered
  <2> QED
    BY <2>2, <2>3 DEF AtOpening
<1>4. AtOpen => AtOpen'
  <2>1. Seeks(inbox, wanted, panel.target) => Seeks(inbox', wanted, panel.target)
    BY <1>0, SeeksReceived
  <2> QED
    BY <1>1, <2>1 DEF AtOpen, OnlySeeks
<1> QED
  BY <1>2, <1>3, <1>4 DEF Believes

(* The worker receives an operation: open(), or a seek of an open panel.   *)
LEMMA BelievesAsked ==
  ASSUME IInv, MainOK, Believes, NEW name \in Operations, ReceiveOperation(name)
  PROVE  Believes'
<1> DEFINE op == Op(name, Head(inbox).ns, Head(inbox).flag, FALSE)
<1>0. /\ inbox \in Seq(Sent) /\ queue \in Seq(Operation)
      /\ inbox # <<>> /\ Head(inbox).call = name /\ inbox' = Tail(inbox)
      /\ UNCHANGED <<panel, reply>>
  BY DEF MainOK, IInv, TypeOK, ReceiveOperation, Receive
<1>1. queue' = Append(queue, op) /\ wanted' = (IF op.op = "capture" THEN wanted ELSE Result(op))
  BY DEF ReceiveOperation, Request
<1>2. op \in Operation
  <2>1. op \in Requests
    BY <1>0, Received, SentIsRequest DEF Operations
  <2> QED
    BY <2>1, RequestTypes
<1>3. ASSUME name \in Others
      PROVE  panel.phase # "open"
  <2>1. ASSUME Without(inbox, Others)
        PROVE  FALSE
    BY <1>0, <1>3, <2>1, LastReceived
  <2> QED
    BY <2>1 DEF Believes, AtOpen
<1>4. ASSUME Without(inbox, Operations)
      PROVE  FALSE
  BY <1>0, <1>4, LastReceived
<1>5. panel.phase # "ports"
  BY <1>4 DEF Believes, AtPorts
<1>6. CASE panel.phase = "opening"
  <2>1. OpenSent /\ ~panel.timer
    BY <1>4, <1>6 DEF Believes, AtOpening, OpenRuns, OpenAnswered
  <2>2. Head(inbox) = Call("open", panel.mounted, FALSE) /\ Without(Tail(inbox), Operations)
    BY <1>0, <2>1, OneOpenReceived DEF OpenSent
  <2>3. op = Op("open", panel.mounted, FALSE, FALSE)
    <3>1. Head(inbox).call = "open" /\ Head(inbox).ns = panel.mounted
          /\ Head(inbox).flag = FALSE
      BY <2>2 DEF Call
    <3> QED
      BY <1>0, <3>1
  <2>4. wanted' = panel.mounted
    BY <1>1, <2>3 DEF Op, Result
  <2>5. queue' = <<Op("open", panel.mounted, FALSE, FALSE)>>
    <3>1. queue = <<>>
      BY <2>1 DEF OpenSent
    <3> HIDE DEF op
    <3>2. queue' = <<op>>
      BY <1>1, <3>1
    <3> QED
      BY <2>3, <3>2
  <2>6. OpenRuns'
    BY <1>0, <2>1, <2>2, <2>4, <2>5 DEF OpenRuns, OpenSent
  <2> QED
    BY <1>0, <1>6, <2>1, <2>6 DEF Believes, AtOpening
<1>7. CASE panel.phase = "open"
  <2>1. name = "seek" /\ AtOpen
    BY <1>3, <1>7 DEF Believes, Operations, Others
  <2>2. Without(inbox', Others)
    BY <1>0, <2>1, LastReceived DEF AtOpen
  <2>3. wanted' = Head(inbox).ns
    BY <1>1, <2>1 DEF Op, Result
  <2>4. Seeks(inbox', wanted', panel'.target)
    BY <1>0, <2>1, <2>3, SeeksReceived DEF AtOpen
  <2>5. OnlySeeks(queue')
    <3>1. op.op = "seek"
      BY <2>1 DEF Op
    <3> HIDE DEF op
    <3>2. /\ Len(queue') = Len(queue) + 1 /\ Len(queue) \in Nat
          /\ \A k \in 1..Len(queue) : queue'[k] = queue[k]
          /\ queue'[Len(queue) + 1] = op
      BY <1>0, <1>1, <1>2, AppendOps
    <3>3. \A k \in 1..Len(queue') : k \in 1..Len(queue) \/ k = Len(queue) + 1
      BY <3>2
    <3> QED
      BY <2>1, <3>1, <3>2, <3>3 DEF OnlySeeks, AtOpen
  <2>6. AtOpen'
    BY <1>0, <2>1, <2>2, <2>4, <2>5 DEF AtOpen
  <2> QED
    BY <1>0, <1>7, <2>6 DEF Believes
<1>8. CASE panel.phase = "gone"
  BY <1>0, <1>8 DEF Believes
<1>9. panel.phase \in {"ports", "opening", "open", "failed", "gone"}
  BY DEF MainOK, PanelState
<1> QED
  BY <1>5, <1>6, <1>7, <1>8, <1>9 DEF Believes

(* The worker runs: it answers open() once it has opened.                  *)
LEMMA BelievesRuns ==
  ASSUME IInv, MainOK, Believes, WorkerRuns
  PROVE  Believes'
<1>0. /\ queue \in Seq(Operation) /\ StageOK
      /\ UNCHANGED <<panel, inbox>>
  BY DEF IInv, TypeOK, WorkerRuns
<1>1. queue # <<>> /\ wanted' = wanted
  BY <1>0 DEF WorkerRuns, Skip, Drop, StartOpen, StartCapture, Closed, Opened, Settle,
              Begin, StageOK
<1>2. queue' = queue \/ (queue' = Tail(queue) /\ stage' = "idle")
  BY DEF WorkerRuns, Skip, Drop, StartOpen, StartCapture, Closed, Opened, Settle, Begin, Pop
<1>3. /\ queue[1] = First
      /\ reply' # reply => stage # "idle" /\ stage' = "idle" /\ First.op = "open"
  BY DEF First, WorkerRuns, Answered
<1>4. panel.phase # "ports"
  BY <1>1 DEF Believes, AtPorts
<1>5. CASE panel.phase = "opening"
  <2>1. OpenRuns /\ ~panel.timer
    BY <1>1, <1>5 DEF Believes, AtOpening, OpenSent, OpenAnswered
  <2>2. First = Op("open", panel.mounted, FALSE, FALSE) /\ First.op = "open"
    BY <2>1 DEF First, OpenRuns, Op
  <2>3. ASSUME queue' = queue, reply' = reply
        PROVE  Believes'
    BY <1>0, <1>1, <1>5, <2>1, <2>3 DEF Believes, AtOpening, OpenRuns
  <2>4. CASE Drop \/ StartOpen \/ StartCapture \/ Closed \/ Opened
    <3>1. queue' = queue /\ stage' # "idle"
      BY <2>2, <2>4 DEF Drop, StartOpen, StartCapture, Closed, Opened, Begin
    <3>2. reply' = reply
      BY <1>3, <3>1
    <3> QED
      BY <2>3, <3>1, <3>2
  <2>5. CASE at # NoStream /\ Settle
    <3>1. reply' = "opened"
      BY <2>2, <2>5 DEF Settle, Pop, WorkerRuns, Answered
    <3>2. queue' = <<>>
      BY <2>1, <2>5 DEF Settle, Pop, OpenRuns
    <3>3. OpenAnswered'
      BY <1>0, <1>1, <2>1, <3>1, <3>2 DEF OpenRuns, OpenAnswered
    <3> QED
      BY <1>0, <1>5, <2>1, <3>3 DEF Believes, AtOpening
  <2>6. ~Skip
    BY <2>2 DEF Skip, Skipped
  <2> QED
    BY <2>4, <2>5, <2>6 DEF WorkerRuns
<1>6. CASE panel.phase = "open"
  <2>1. AtOpen
    BY <1>6 DEF Believes
  <2>2. First.op = "seek" /\ reply' = reply
    BY <1>0, <1>1, <1>3, <2>1, FirstOp DEF AtOpen, OnlySeeks
  <2>3. OnlySeeks(queue')
    <3>1. CASE queue' = queue
      BY <2>1, <3>1 DEF AtOpen
    <3>2. CASE queue' = Tail(queue)
      BY <1>0, <1>1, <2>1, <3>2, PopOps DEF AtOpen, OnlySeeks
    <3> QED
      BY <1>2, <3>1, <3>2
  <2>4. AtOpen'
    BY <1>0, <1>1, <2>1, <2>2, <2>3 DEF AtOpen
  <2> QED
    BY <1>0, <1>6, <2>4 DEF Believes
<1>7. CASE panel.phase = "gone"
  BY <1>0, <1>7 DEF Believes
<1>8. panel.phase \in {"ports", "opening", "open", "failed", "gone"}
  BY DEF MainOK, PanelState
<1> QED
  BY <1>4, <1>5, <1>6, <1>7, <1>8 DEF Believes

(* Nothing of what the panel and its worker agree on changes.              *)
LEMMA BelievesUnchanged ==
  ASSUME Believes, UNCHANGED <<inbox, queue, reply, wanted, panel>>
  PROVE  Believes'
  BY DEF Believes, AtPorts, AtOpening, OpenSent, OpenRuns, OpenAnswered, AtOpen

LEMMA ForwardedNoOperation ==
  ASSUME MainOK, NEW c \in Times, NEW p \in BOOLEAN
  PROVE  Without(Forwarded(c, p).calls, Operations)
<1> DEFINE moved == c # store.cursor
                    /\ (panel.sent = None \/ Distance(c, panel.sent) >= SETCURSOR_DELTA)
           first == IF moved THEN <<Call("setCursor", c, FALSE)>> ELSE <<>>
           second == IF p # store.playing THEN <<Call("setPlayback", c, p)>> ELSE <<>>
           none == <<>>
           cursors == <<Call("setCursor", c, FALSE)>>
           plays == <<Call("setPlayback", c, p)>>
<1>1. Call("setCursor", c, FALSE) \in Sent /\ Call("setPlayback", c, p) \in Sent
  BY CallIsSent
<1>2. /\ none \in Seq(Sent) /\ cursors \in Seq(Sent) /\ plays \in Seq(Sent)
      /\ Without(none, Operations) /\ Without(cursors, Operations)
      /\ Without(plays, Operations)
  <2>1. none \in Seq(Sent)
    OBVIOUS
  <2>2. cursors \in Seq(Sent) /\ plays \in Seq(Sent)
    BY <1>1, OneCall, Zenon
  <2>3. Without(none, Operations) /\ Without(cursors, Operations)
        /\ Without(plays, Operations)
    BY DEF Without, Call, Operations
  <2> QED
    BY <2>1, <2>2, <2>3
<1>3. first \in {none, cursors} /\ second \in {none, plays}
  OBVIOUS
<1>4. Forwarded(c, p).calls = first \o second
  BY DEF Forwarded
<1> HIDE DEF moved, first, second, none, cursors, plays
<1>5. first \in Seq(Sent) /\ second \in Seq(Sent)
      /\ Without(first, Operations) /\ Without(second, Operations)
  BY <1>2, <1>3
<1>6. Without(first \o second, Operations)
  BY <1>5, LastKept
<1> QED
  BY <1>4, <1>6

(* A scrub, the playback loop, play and pause: of a panel that is opening  *)
(* none of them starts the seek timer.                                     *)
LEMMA UserSeeks ==
  ASSUME MainOK, Undisturbed, (\E c \in Times : Scrub(c)) \/ Advance \/ TogglePlay
  PROVE  \E c \in Times, p \in BOOLEAN, seeks \in BOOLEAN :
           /\ StoreBecomes(c, p, seeks)
           /\ panel.phase \in {"ports", "opening"} => seeks = FALSE
<1>0. store.cursor \in Times /\ store.playing \in BOOLEAN
  BY DEF MainOK
<1>1. ASSUME NEW kind, NEW c, Jump(kind, c)
      PROVE  panel.phase \notin {"ports", "opening"}
  BY <1>1 DEF Jump, Undisturbed
<1>2. ASSUME NEW c \in Times, Scrub(c)
      PROVE  \E p \in BOOLEAN, seeks \in BOOLEAN :
               /\ StoreBecomes(c, p, seeks)
               /\ panel.phase \in {"ports", "opening"} => seeks = FALSE
  <2>1. (store.playing /\ c # EndNs) \in BOOLEAN
    BY Zenon
  <2>2. panel.phase \notin {"ports", "opening"}
    BY <1>1, <1>2 DEF Scrub
  <2>3. StoreBecomes(c, store.playing /\ c # EndNs, TRUE)
    BY <1>2 DEF Scrub
  <2> QED
    BY <2>1, <2>2, <2>3, Zenon
<1>3. CASE Advance
  <2> DEFINE c == Min({store.cursor + 1, EndNs})
  <2>1. c \in Times /\ StoreBecomes(c, c # EndNs, FALSE)
    BY <1>3, NextCursor DEF Advance
  <2>2. (c # EndNs) \in BOOLEAN
    OBVIOUS
  <2> HIDE DEF c
  <2> QED
    BY <2>1, <2>2, Zenon
<1>4. CASE TogglePlay /\ ~store.playing /\ store.cursor = EndNs
  <2>1. StoreBecomes(StartNs, TRUE, TRUE) /\ Jump("play", StartNs)
    BY <1>4 DEF TogglePlay
  <2>2. panel.phase \notin {"ports", "opening"}
    BY <1>1, <2>1
  <2> QED
    BY <2>1, <2>2, Timeline, Zenon
<1>5. CASE TogglePlay /\ ~(~store.playing /\ store.cursor = EndNs)
  <2>1. (~store.playing) \in BOOLEAN /\ StoreBecomes(store.cursor, ~store.playing, FALSE)
    BY <1>5, Zenon DEF TogglePlay
  <2> QED
    BY <1>0, <2>1, Zenon
<1>6. CASE \E c \in Times : Scrub(c)
  BY <1>2, <1>6, Zenon
<1> QED
  BY <1>3, <1>4, <1>5, <1>6, Zenon

LEMMA BelievesStored ==
  ASSUME MainOK, Believes, NEW c \in Times, NEW p \in BOOLEAN, NEW seeks \in BOOLEAN,
         StoreBecomes(c, p, seeks),
         panel.phase \in {"ports", "opening"} => seeks = FALSE
  PROVE  Believes'
<1>0. /\ panel \in PanelState
      /\ UNCHANGED <<queue, reply, wanted>>
  BY DEF MainOK, StoreBecomes, MainOnly, streamVars
<1>1. CASE Mounted
  <2>1. /\ inbox' = inbox \o Forwarded(c, p).calls
        /\ panel' = [panel EXCEPT !.sent = Forwarded(c, p).sent, !.timer = @ \/ seeks]
    BY <1>1 DEF StoreBecomes, Send
  <2>2. Forwarded(c, p).calls \in Seq(Sent) /\ Without(Forwarded(c, p).calls, Operations)
    BY ForwardedCalls, ForwardedNoOperation
  <2>3. /\ panel'.phase = panel.phase /\ panel'.mounted = panel.mounted
        /\ panel'.target = panel.target
    BY <1>0, <2>1 DEF PanelState
  <2>4. panel.phase \in {"ports", "opening"} => panel'.timer = panel.timer
    <3>1. panel'.timer = (panel.timer \/ seeks)
      BY <1>0, <2>1 DEF PanelState
    <3>2. panel.timer \in BOOLEAN
      BY <1>0 DEF PanelState
    <3> QED
      BY <3>1, <3>2
  <2> QED
    BY <1>0, <2>1, <2>2, <2>3, <2>4, BelievesSilent
<1>2. CASE ~Mounted
  BY <1>0, <1>2, BelievesUnchanged DEF StoreBecomes
<1> QED
  BY <1>1, <1>2

(* The panel sends open(), hears its answer, seeks, or goes.               *)
LEMMA BelievesPanel ==
  ASSUME MainOK, Believes, SendOpen \/ OpenReturns \/ TimerFires \/ Unmount
  PROVE  Believes'
<1>0. /\ panel \in PanelState /\ inbox \in Seq(Sent)
      /\ panel.mounted \in Times /\ store.cursor \in Times
      /\ UNCHANGED <<queue, wanted>>
  BY DEF MainOK, PanelState, SendOpen, OpenReturns, TimerFires, Unmount, MainOnly, streamVars
<1>1. CASE SendOpen
  <2>1. /\ AtPorts /\ panel' = [panel EXCEPT !.phase = "opening"]
        /\ inbox' = inbox \o <<Call("open", panel.mounted, FALSE)>> /\ reply' = reply
    BY <1>1 DEF SendOpen, Send, MainOnly, Believes
  <2>2. /\ panel'.phase = "opening" /\ panel'.mounted = panel.mounted
        /\ panel'.timer = panel.timer
    BY <1>0, <2>1 DEF PanelState
  <2>3. OneOpen(inbox', panel'.mounted)
    BY <1>0, <2>1, <2>2, OneOpenSent DEF AtPorts
  <2>4. AtOpening'
    BY <1>0, <2>1, <2>2, <2>3 DEF AtOpening, OpenSent, AtPorts
  <2> QED
    BY <2>2, <2>4 DEF Believes
<1>2. CASE OpenReturns
  <2>1. panel.phase # "ports" /\ panel.phase # "open" /\ reply # "none" /\ reply' = "none"
    BY <1>2 DEF OpenReturns, Believes, AtPorts, AtOpen
  <2>2. CASE panel.phase = "opening"
    <3>1. OpenAnswered
      BY <2>1, <2>2 DEF Believes, AtOpening, OpenSent, OpenRuns
    <3>2. panel'.phase = "open" /\ panel'.target = panel.mounted
      BY <1>0, <1>2, <2>2, <3>1 DEF OpenReturns, OpenAnswered, Mounted, PanelState
    <3>3. Without(inbox', Operations)
      <4>1. Handoff \in Seq(Sent)
        BY <1>0, CallIsSent, OneCall DEF Handoff
      <4>2. Without(Handoff, Operations)
        BY DEF Handoff, Without, Call, Operations
      <4>3. inbox' = inbox \o Handoff \/ inbox' = inbox \o <<>>
        BY <1>2 DEF OpenReturns, Send
      <4>4. inbox \o <<>> = inbox
        BY <1>0
      <4> QED
        BY <1>0, <3>1, <4>1, <4>2, <4>3, <4>4, LastKept DEF OpenAnswered
    <3>4. Without(inbox', Others) /\ Without(inbox', Seeking)
      BY <3>3, WithoutAny
    <3>5. OnlySeeks(queue')
      BY <1>0, <3>1 DEF OpenAnswered, OnlySeeks
    <3>6. Seeks(inbox', wanted', panel'.target)
      BY <1>0, <3>1, <3>2, <3>4 DEF Seeks, LastIn, Without, OpenAnswered
    <3>7. AtOpen'
      BY <2>1, <3>4, <3>5, <3>6 DEF AtOpen
    <3> QED
      BY <3>2, <3>7 DEF Believes
  <2>3. CASE panel.phase = "gone"
    <3>1. panel'.phase = "gone"
      BY <1>0, <1>2, <2>3 DEF OpenReturns, Mounted, PanelState
    <3> QED
      BY <3>1 DEF Believes
  <2> QED
    BY <1>0, <2>1, <2>2, <2>3 DEF Believes, PanelState
<1>3. CASE TimerFires
  <2>1. panel.phase \notin {"ports", "opening"} /\ reply' = reply
    BY <1>3 DEF TimerFires, MainOnly, Believes, AtPorts, AtOpening
  <2>2. CASE panel.target = store.cursor
    <3>1. inbox' = inbox /\ panel' = [panel EXCEPT !.timer = FALSE]
      BY <1>3, <2>2 DEF TimerFires
    <3>2. panel'.phase = panel.phase /\ panel'.target = panel.target
      BY <1>0, <3>1 DEF PanelState
    <3>3. AtOpen => AtOpen'
      BY <1>0, <2>1, <3>1, <3>2 DEF AtOpen
    <3> QED
      BY <2>1, <3>2, <3>3 DEF Believes
  <2>3. CASE panel.target # store.cursor
    <3> DEFINE r == <<Call("seek", store.cursor, FALSE)>>
    <3>1. /\ inbox' = inbox \o r
          /\ panel' = [panel EXCEPT !.timer = FALSE, !.target = store.cursor,
                                    !.sent = store.cursor]
      BY <1>3, <2>3 DEF TimerFires, Send
    <3>2. panel'.phase = panel.phase /\ panel'.target = store.cursor
      BY <1>0, <3>1 DEF PanelState
    <3>3. Seeks(inbox', wanted', panel'.target)
      BY <1>0, <3>1, <3>2, SeeksSet
    <3>4. r \in Seq(Sent) /\ Without(r, Others)
      <4>1. r \in Seq(Sent)
        BY <1>0, CallIsSent, OneCall
      <4>2. Without(r, Others)
        BY DEF Without, Call, Others
      <4> QED
        BY <4>1, <4>2
    <3> HIDE DEF r
    <3>5. Without(inbox, Others) => Without(inbox', Others)
      BY <1>0, <3>1, <3>4, LastKept
    <3>6. AtOpen => AtOpen'
      BY <1>0, <2>1, <3>3, <3>5 DEF AtOpen
    <3> QED
      BY <2>1, <3>2, <3>6 DEF Believes
  <2> QED
    BY <2>2, <2>3
<1>4. CASE Unmount
  <2>1. panel'.phase = "gone"
    BY <1>0, <1>4 DEF Unmount, PanelState
  <2> QED
    BY <2>1 DEF Believes
<1> QED
  BY <1>1, <1>2, <1>3, <1>4

LEMMA StepBelieves ==
  ASSUME Undisturbed, IInv, MainOK, Believes, [PanelNext]_panelVars
  PROVE  Believes'
<1>1. CASE (\E c \in Times : Scrub(c)) \/ Advance \/ TogglePlay
  <2>1. PICK c \in Times, p \in BOOLEAN, seeks \in BOOLEAN :
          /\ StoreBecomes(c, p, seeks)
          /\ panel.phase \in {"ports", "opening"} => seeks = FALSE
    BY <1>1, UserSeeks
  <2> QED
    BY <2>1, BelievesStored
<1>2. CASE \E name \in {"open", "seek", "close"} : ReceiveOperation(name)
  BY <1>2, BelievesAsked DEF Operations
<1>3. CASE ReceiveSetCursor \/ ReceiveSetPlayback
  <2>1. /\ inbox # <<>> /\ inbox' = Tail(inbox) /\ Head(inbox).call \notin Operations
        /\ UNCHANGED <<queue, reply, wanted, panel>>
    BY <1>3 DEF ReceiveSetCursor, ReceiveSetPlayback, Receive, MoveCursor, Operations
  <2> QED
    BY <2>1, BelievesTaken
<1>4. CASE (\E ns \in Times : BlitClockTick(ns)) \/ UNCHANGED panelVars
  BY <1>4, BelievesUnchanged DEF BlitClockTick, MoveCursor, panelVars, streamVars
<1>5. ~Retry /\ ~WorkerFails
  BY DEF Retry, WorkerFails, Act, Undisturbed
<1> QED
  BY <1>1, <1>2, <1>3, <1>4, <1>5, BelievesPanel, BelievesRuns DEF PanelNext

(* Of a panel at rest whose stream is open, the target its duplicate guard *)
(* compares with is where the stream was opened last, however scrubs, play *)
(* and pause and the seek timer met what was under way.                    *)
THEOREM PanelBeliefHolds ==
  ASSUME Undisturbed
  PROVE  PanelSpec => []BeliefHolds
<1>1. PanelInit => Believes
  <2> SUFFICES ASSUME PanelInit PROVE Believes
    OBVIOUS
  <2>1. /\ panel.phase = "ports" /\ panel.timer = FALSE
        /\ inbox = <<>> /\ reply = "none" /\ queue = <<>>
    BY DEF PanelInit, Init
  <2> QED
    BY <2>1 DEF Believes, AtPorts, Without
<1>2. PanelIInv /\ Believes /\ [PanelNext]_panelVars => Believes'
  BY StepBelieves DEF PanelIInv
<1>3. Believes /\ LastSeekWins => BeliefHolds
  BY DEF Believes, AtOpen, Seeks, Without, BeliefHolds, Settled, LastSeekWins
<1> QED
  BY <1>1, <1>2, <1>3, PanelInductive, PanelLastSeekWins, PTL DEF PanelSpec

-----------------------------------------------------------------------------
(***************************************************************************)
(* The worker's cursor (PatientCursorFresh).  While the session plays the  *)
(* worker may run ahead; what brings it back is that a pause sends the     *)
(* cursor, that a patient jump is far enough to be sent, and that a seek,  *)
(* which only raises the cursor, is never for a position past the          *)
(* session's.  So of a paused session the last cursor on the port is the   *)
(* session's and will be taken as it is, or with none there the worker's   *)
(* cursor is the session's already: until it has opened, at or before it.  *)
(* A decoder that fails is left out: the self-heal seeks to where the      *)
(* worker had run ahead to.                                                *)
(***************************************************************************)
Moves == {"setCursor", "setPlayback"}

(* Calls and operations for positions up to s, those that open for m.      *)
CallsUpTo(s, m) ==
  {c \in Sent : /\ c.call \in Operations => c.ns <= s
                /\ c.call = "open" => c.ns = m}

OpsUpTo(s, m) ==
  {o \in Operation : o.target <= s /\ (o.op = "open" => o.target = m)}

NonePast ==
  /\ inbox \in Seq(CallsUpTo(store.cursor, panel.mounted))
  /\ queue \in Seq(OpsUpTo(store.cursor, panel.mounted))
  /\ panel.phase # "open" => panel.mounted <= store.cursor

(* open() has raised the cursor to where it opened.                        *)
Raised == reply = "opened" \/ (stage = "busy" /\ First.op = "open")

Arrives ==
  \A k \in 1..Len(inbox) : LastIn(inbox, Moves, k) =>
    /\ inbox[k].ns = store.cursor
    /\ inbox[k].call = "setPlayback" \/ Without(inbox, Plays)

Arrived ==
  Without(inbox, Moves) =>
    \/ cursor = store.cursor
    \/ /\ panel.phase # "open" /\ ~Raised
       /\ cursor <= store.cursor /\ store.cursor = panel.mounted

PausedFresh ==
  ~store.playing => Arrives /\ Arrived /\ panel.sent \in {None, store.cursor}

Fresh == acts.patient /\ Mounted => NonePast /\ PausedFresh

-----------------------------------------------------------------------------
LEMMA SeqWidens ==
  ASSUME NEW A, NEW B, A \subseteq B, NEW q \in Seq(A)
  PROVE  q \in Seq(B)
  OBVIOUS

LEMMA Widens ==
  ASSUME NEW s \in Nat, NEW t \in Nat, s <= t, NEW m
  PROVE  CallsUpTo(s, m) \subseteq CallsUpTo(t, m) /\ OpsUpTo(s, m) \subseteq OpsUpTo(t, m)
<1>1. ASSUME NEW c \in CallsUpTo(s, m)
      PROVE  c \in CallsUpTo(t, m)
  <2>1. c \in Sent /\ (c.call \in Operations => c.ns <= s) /\ (c.call = "open" => c.ns = m)
    BY <1>1 DEF CallsUpTo
  <2>2. c.call \in Operations => c.ns \in Nat
    <3>1. (c.call # "close" => c.ns \in Times) /\ (c.call = "close" => c.ns = 0)
      BY <2>1 DEF Sent
    <3>2. 0 \in Nat
      OBVIOUS
    <3> QED
      BY <3>1, <3>2, TimesAssumption, Zenon
  <2>3. c.call \in Operations => c.ns <= t
    BY <2>1, <2>2
  <2> QED
    BY <2>1, <2>3 DEF CallsUpTo
<1>2. ASSUME NEW o \in OpsUpTo(s, m)
      PROVE  o \in OpsUpTo(t, m)
  BY <1>2 DEF OpsUpTo, Operation
<1> QED
  BY <1>1, <1>2

(* No position on the port or the chain lies past a session that moves on. *)
LEMMA PastKept ==
  ASSUME MainOK, NonePast, store'.cursor \in Nat, store.cursor <= store'.cursor,
         panel'.mounted = panel.mounted, UNCHANGED queue,
         NEW r \in Seq(CallsUpTo(store'.cursor, panel.mounted)),
         inbox' = inbox \o r,
         panel'.phase # "open" => panel.phase # "open"
  PROVE  NonePast'
<1>1. store.cursor \in Nat /\ panel.mounted \in Nat
  BY Timeline DEF MainOK, PanelState
<1>2. /\ inbox \in Seq(CallsUpTo(store'.cursor, panel.mounted))
      /\ queue \in Seq(OpsUpTo(store'.cursor, panel.mounted))
  BY <1>1, Widens, SeqWidens DEF NonePast
<1> DEFINE C == CallsUpTo(store'.cursor, panel.mounted)
<1>3. r \in Seq(C) /\ inbox \in Seq(C)
  BY <1>2
<1> HIDE DEF C
<1>4. inbox \o r \in Seq(C)
  BY <1>3
<1>5. panel'.phase # "open" => panel'.mounted <= store'.cursor
  BY <1>1 DEF NonePast
<1> QED
  BY <1>2, <1>4, <1>5 DEF NonePast, C

(* Calls that do not move the cursor are sent.                             *)
LEMMA PausedKept ==
  ASSUME MainOK, PausedFresh, NEW r \in Seq(Sent), Without(r, Moves),
         inbox' = inbox \o r, store' = store, cursor' = cursor,
         panel'.mounted = panel.mounted,
         panel.phase # "open" => panel'.phase # "open" \/ Raised,
         Raised' => Raised,
         panel'.sent \in {panel.sent, store.cursor}
  PROVE  PausedFresh'
<1>0. inbox \in Seq(Sent)
  BY DEF MainOK
<1>1. Without(r, Plays)
  BY DEF Without, Plays, Moves
<1>2. Arrives => Arrives'
  <2>1. SUFFICES ASSUME Arrives, NEW k \in 1..Len(inbox'), LastIn(inbox', Moves, k)
                 PROVE  /\ inbox'[k].ns = store'.cursor
                        /\ inbox'[k].call = "setPlayback" \/ Without(inbox', Plays)
    BY DEF Arrives
  <2>2. k \in 1..Len(inbox) /\ LastIn(inbox, Moves, k) /\ inbox'[k] = inbox[k]
    BY <1>0, <2>1, LastKept
  <2>3. Without(inbox, Plays) => Without(inbox', Plays)
    BY <1>0, <1>1, LastKept
  <2> QED
    BY <2>1, <2>2, <2>3 DEF Arrives
<1>3. Arrived => Arrived'
  <2>1. Without(inbox', Moves) => Without(inbox, Moves)
    BY <1>0, LastKept
  <2> QED
    BY <2>1 DEF Arrived
<1> QED
  BY <1>2, <1>3 DEF PausedFresh

LEMMA FreshKept ==
  ASSUME MainOK, NonePast, PausedFresh, UNCHANGED <<store, queue, cursor>>,
         NEW r \in Seq(CallsUpTo(store.cursor, panel.mounted)), Without(r, Moves),
         inbox' = inbox \o r,
         panel'.mounted = panel.mounted,
         panel'.phase # "open" => panel.phase # "open",
         panel.phase # "open" => panel'.phase # "open" \/ Raised,
         Raised' => Raised,
         panel'.sent \in {panel.sent, store.cursor}
  PROVE  NonePast' /\ PausedFresh'
<1>0. store.cursor \in Times
  BY DEF MainOK
<1>1. store.cursor \in Nat /\ store.cursor <= store.cursor
  <2>1. store.cursor \in Nat
    BY <1>0, TimesAssumption
  <2> QED
    BY <2>1
<1>2. r \in Seq(Sent)
  BY SeqWidens DEF CallsUpTo
<1>3. PausedFresh'
  BY <1>2, PausedKept
<1>4. NonePast'
  BY <1>1, PastKept
<1> QED
  BY <1>3, <1>4

(* What a cursor and a change of the play state put on the port.           *)
LEMMA ForwardedFits ==
  ASSUME MainOK, NEW c \in Times, NEW p \in BOOLEAN, NEW s, NEW m
  PROVE  Forwarded(c, p).calls \in Seq(CallsUpTo(s, m))
<1> DEFINE calls == Forwarded(c, p).calls
<1>1. calls \in Seq(Sent) /\ Without(calls, Operations)
  BY ForwardedCalls, ForwardedNoOperation
<1> HIDE DEF calls
<1>2. Len(calls) \in Nat /\ \A k \in 1..Len(calls) : calls[k] \in Sent
  BY <1>1
<1>3. ASSUME NEW k \in 1..Len(calls)
      PROVE  calls[k] \in CallsUpTo(s, m)
  <2>1. calls[k].call \notin Operations
    BY <1>1 DEF Without
  <2>2. calls[k].call # "open"
    BY <2>1 DEF Operations
  <2> QED
    BY <1>2, <2>1, <2>2 DEF CallsUpTo
<1>4. calls \in Seq(CallsUpTo(s, m))
  BY <1>1, <1>3
<1> QED
  BY <1>4 DEF calls

(* A session at rest: nothing of it is past any position.                  *)
LEMMA AtRest ==
  ASSUME MainOK, Settled, store'.cursor \in Nat, UNCHANGED queue,
         NEW r \in Seq(CallsUpTo(store'.cursor, panel.mounted)), inbox' = inbox \o r,
         panel'.phase = panel.phase, panel'.mounted = panel.mounted
  PROVE  NonePast'
<1>1. /\ inbox = <<>> /\ queue = <<>> /\ panel.phase = "open"
  BY DEF Settled
<1>2. <<>> \in Seq(OpsUpTo(store'.cursor, panel.mounted))
  OBVIOUS
<1>3. inbox' = r
  BY <1>1
<1> QED
  BY <1>1, <1>2, <1>3 DEF NonePast

(* The store changes, with a jump that was patient if it is one.  A        *)
(* session that pauses sends its cursor with the pause.                    *)
LEMMA PauseFresh ==
  ASSUME MainOK, Mounted, NEW c \in Times, NEW seeks \in BOOLEAN,
         store.playing, StoreBecomes(c, FALSE, seeks)
  PROVE  PausedFresh'
<1> DEFINE r == Forwarded(c, FALSE).calls
<1>0. inbox \in Seq(Sent) /\ panel \in PanelState /\ r \in Seq(Sent)
  BY ForwardedCalls DEF MainOK
<1>1. /\ inbox' = inbox \o r /\ store'.cursor = c
      /\ panel' = [panel EXCEPT !.sent = Forwarded(c, FALSE).sent, !.timer = @ \/ seeks]
  BY DEF StoreBecomes, Send
<1>2. r # <<>> /\ r[Len(r)].call = "setPlayback"
  BY ForwardedPlays
<1>3. r[Len(r)].ns = c
  <2> DEFINE first == IF c # store.cursor
                         /\ (panel.sent = None \/ Distance(c, panel.sent) >= SETCURSOR_DELTA)
                      THEN <<Call("setCursor", c, FALSE)>> ELSE <<>>
             play == Call("setPlayback", c, FALSE)
  <2>1. r = first \o <<play>>
    BY DEF Forwarded
  <2>2. first \in Seq(Sent) /\ play \in Sent /\ play.ns = c
    <3>1. Call("setCursor", c, FALSE) \in Sent /\ play \in Sent
      BY CallIsSent
    <3>2. <<Call("setCursor", c, FALSE)>> \in Seq(Sent)
      BY <3>1, OneCall, Zenon
    <3>5. <<>> \in Seq(Sent)
      OBVIOUS
    <3>3. first \in {<<Call("setCursor", c, FALSE)>>, <<>>}
      OBVIOUS
    <3>4. play.ns = c
      BY DEF Call
    <3> HIDE DEF first, play
    <3> QED
      BY <3>1, <3>2, <3>3, <3>4, <3>5, Zenon
  <2> HIDE DEF first, play, r
  <2>3. Len(r) = Len(first) + 1 /\ r[Len(first) + 1] = play
    BY <2>1, <2>2
  <2> QED
    BY <2>2, <2>3
<1>4. Forwarded(c, FALSE).sent = c
  BY <1>2 DEF Forwarded
<1>5. panel'.sent = c
  BY <1>0, <1>1, <1>4 DEF PanelState
<1> HIDE DEF r
<1>6. r[Len(r)].call \in Moves
  BY <1>2 DEF Moves
<1>7. ~Without(inbox', Moves)
  BY <1>0, <1>1, <1>2, <1>6, LastSent
<1>8. \A k \in 1..Len(inbox') : LastIn(inbox', Moves, k) => inbox'[k] = r[Len(r)]
  BY <1>0, <1>1, <1>2, <1>6, LastSent
<1>9. Arrives'
  BY <1>1, <1>2, <1>3, <1>8 DEF Arrives
<1> QED
  BY <1>1, <1>5, <1>7, <1>9 DEF PausedFresh, Arrived

(* A patient scrub of a paused session sends the cursor by itself.         *)
LEMMA ScrubFresh ==
  ASSUME MainOK, Mounted, Settled, PausedFresh, NEW c \in Times,
         ~store.playing, Distance(c, store.cursor) >= SETCURSOR_DELTA,
         StoreBecomes(c, FALSE, TRUE)
  PROVE  PausedFresh'
<1> DEFINE o == Call("setCursor", c, FALSE)
<1>0. /\ panel \in PanelState /\ store.cursor \in Nat /\ c \in Nat
      /\ store.playing = FALSE /\ SETCURSOR_DELTA \in Nat \ {0}
  BY Timeline, PanelAssumption DEF MainOK
<1>1. /\ inbox' = inbox \o Forwarded(c, FALSE).calls /\ store'.cursor = c
      /\ panel' = [panel EXCEPT !.sent = Forwarded(c, FALSE).sent, !.timer = @ \/ TRUE]
  BY DEF StoreBecomes, Send
<1>2. panel.sent \in {None, store.cursor}
  BY DEF PausedFresh
<1>3. c # store.cursor
  BY <1>0 DEF Distance
<1>4. panel.sent = None \/ Distance(c, panel.sent) >= SETCURSOR_DELTA
  BY <1>2
<1>5. Forwarded(c, FALSE).calls = <<o>> \o <<>> /\ <<o>> # <<>>
  BY <1>0, <1>3, <1>4 DEF Forwarded
<1>6. o \in Sent /\ o.call = "setCursor" /\ o.ns = c
  <2>1. o \in Sent
    BY CallIsSent
  <2>2. o.call = "setCursor" /\ o.ns = c
    BY DEF Call
  <2> QED
    BY <2>1, <2>2
<1> HIDE DEF o
<1>7. <<o>> \o <<>> = <<o>>
  OBVIOUS
<1>8. Forwarded(c, FALSE).sent = c
  BY <1>3, <1>4, <1>5, <1>7 DEF Forwarded
<1>9. panel'.sent = c
  BY <1>0, <1>1, <1>8 DEF PanelState
<1>10. inbox' = <<o>>
  <2>1. inbox = <<>> /\ <<>> \o <<o>> = <<o>>
    BY DEF Settled
  <2>2. Forwarded(c, FALSE).calls = <<o>>
    BY <1>5, <1>7
  <2> QED
    BY <1>1, <2>1, <2>2
<1>11. Len(inbox') = 1 /\ inbox'[1] = o
  BY <1>10
<1>12. Arrives'
  <2>1. \A k \in 1..Len(inbox') : inbox'[k] = o
    BY <1>11
  <2>2. Without(inbox', Plays)
    BY <1>6, <2>1 DEF Without, Plays
  <2> QED
    BY <1>1, <1>6, <2>1, <2>2 DEF Arrives
<1>13. ~Without(inbox', Moves)
  BY <1>6, <1>11 DEF Without, Moves
<1> QED
  BY <1>1, <1>9, <1>12, <1>13 DEF PausedFresh, Arrived

LEMMA NextLater ==
  ASSUME MainOK
  PROVE  store.cursor <= Min({store.cursor + 1, EndNs})
<1> DEFINE c == Min({store.cursor + 1, EndNs})
<1>0. store.cursor \in Times /\ Times \subseteq Nat /\ EndNs \in Times
  BY Timeline DEF MainOK
<1>1. store.cursor <= EndNs
  <2>1. \E x \in Times : \A y \in Times : x >= y
    <3> DEFINE last == Cardinality(Times) - 1
    <3>1. last \in Nat /\ Times = 0..last
      BY PanelAssumption
    <3> HIDE DEF last
    <3> QED
      BY <3>1
  <2>2. \A y \in Times : EndNs >= y
    BY <2>1 DEF EndNs, Max
  <2> QED
    BY <1>0, <2>2
<1>2. \E x \in {store.cursor + 1, EndNs} : \A y \in {store.cursor + 1, EndNs} : x <= y
  <2>1. store.cursor \in Nat /\ EndNs \in Nat
    BY <1>0
  <2>2. CASE store.cursor + 1 <= EndNs
    BY <2>1, <2>2
  <2>3. CASE ~(store.cursor + 1 <= EndNs)
    BY <2>1, <2>3
  <2> QED
    BY <2>2, <2>3
<1>3. c \in {store.cursor + 1, EndNs}
  BY <1>2 DEF Min
<1> HIDE DEF c
<1>4. store.cursor <= c
  <2>1. store.cursor \in Nat /\ EndNs \in Nat
    BY <1>0
  <2> QED
    BY <1>1, <1>3, <2>1
<1> QED
  BY <1>4 DEF c

(* The user and the playback loop: the session moves on, unless it jumps,  *)
(* and it jumps at rest.                                                   *)
LEMMA PatientJump ==
  ASSUME NEW kind, NEW c, Jump(kind, c), acts'.patient, MainOK
  PROVE  acts.patient /\ Settled /\ Distance(c, store.cursor) >= SETCURSOR_DELTA
<1> DEFINE patient == acts.patient /\ Settled /\ Distance(c, store.cursor) >= SETCURSOR_DELTA
<1>1. acts' = [count |-> acts.count + 1, patient |-> patient]
  BY DEF Jump
<1> HIDE DEF patient
<1>2. patient
  BY <1>1
<1> QED
  BY <1>2 DEF patient

LEMMA PatientAct ==
  ASSUME NEW kind, Act(kind), MainOK
  PROVE  acts'.patient = acts.patient
  BY DEF Act, MainOK

LEMMA StoredNonePast ==
  ASSUME MainOK, Mounted, NEW c \in Times, NEW p \in BOOLEAN, NEW seeks \in BOOLEAN,
         StoreBecomes(c, p, seeks),
         Settled \/ (NonePast /\ store.cursor <= c)
  PROVE  NonePast'
<1> DEFINE r == Forwarded(c, p).calls
<1>0. panel \in PanelState /\ c \in Nat
  BY TimesAssumption DEF MainOK
<1>1. /\ inbox' = inbox \o r /\ store'.cursor = c /\ UNCHANGED queue
      /\ panel' = [panel EXCEPT !.sent = Forwarded(c, p).sent, !.timer = @ \/ seeks]
  BY DEF StoreBecomes, Send, MainOnly, streamVars
<1>2. panel'.phase = panel.phase /\ panel'.mounted = panel.mounted
  BY <1>0, <1>1 DEF PanelState
<1>3. r \in Seq(CallsUpTo(store'.cursor, panel.mounted))
  BY ForwardedFits
<1> HIDE DEF r
<1>4. CASE Settled
  BY <1>0, <1>1, <1>2, <1>3, <1>4, AtRest
<1>5. CASE NonePast /\ store.cursor <= c
  BY <1>0, <1>1, <1>2, <1>3, <1>5, PastKept
<1> QED
  BY <1>4, <1>5

LEMMA PlayingFresh ==
  ASSUME MainOK, NEW c, NEW seeks, StoreBecomes(c, TRUE, seeks)
  PROVE  PausedFresh'
<1>1. store'.playing = TRUE
  BY DEF StoreBecomes
<1> QED
  BY <1>1 DEF PausedFresh

LEMMA UserFresh ==
  ASSUME MainOK, Fresh, (\E c \in Times : Scrub(c)) \/ Advance \/ TogglePlay
  PROVE  Fresh'
<1>0. /\ store.cursor \in Times /\ store.cursor \in Nat /\ panel \in PanelState
      /\ store.playing \in BOOLEAN /\ acts \in [count : 0..MaxActs, patient : BOOLEAN]
  <2>1. store.cursor \in Times
    BY DEF MainOK
  <2>2. store.cursor \in Nat
    BY <2>1, TimesAssumption
  <2> QED
    BY <2>1, <2>2 DEF MainOK
<1>1. ASSUME acts'.patient, Mounted'
      PROVE  Mounted
  <2>1. PICK c \in Times, p \in BOOLEAN, seeks \in BOOLEAN : StoreBecomes(c, p, seeks)
    BY UserStores
  <2> QED
    BY <1>1, <2>1 DEF StoreBecomes, Mounted
<1> SUFFICES ASSUME acts'.patient, Mounted', Mounted
             PROVE  NonePast' /\ PausedFresh'
  BY <1>1 DEF Fresh
<1>2. ASSUME NEW c \in Times, Scrub(c)
      PROVE  NonePast' /\ PausedFresh'
  <2> DEFINE p == store.playing /\ c # EndNs
  <2>1. Jump("scrub", c) /\ StoreBecomes(c, p, TRUE)
    BY <1>2 DEF Scrub
  <2>2. p \in BOOLEAN
    BY Zenon
  <2>3. acts.patient /\ Settled /\ Distance(c, store.cursor) >= SETCURSOR_DELTA
    BY <2>1, PatientJump
  <2>4. PausedFresh
    BY <2>3 DEF Fresh
  <2>5. p => store.playing
    OBVIOUS
  <2> HIDE DEF p
  <2>6. NonePast'
    BY <2>1, <2>2, <2>3, StoredNonePast
  <2>7. CASE p
    <3>1. p = TRUE
      BY <2>2, <2>7
    <3> QED
      BY <2>1, <2>6, <3>1, PlayingFresh
  <2>8. CASE ~p
    <3>1. p = FALSE
      BY <2>2, <2>8
    <3>2. StoreBecomes(c, FALSE, TRUE)
      BY <2>1, <3>1
    <3>3. CASE store.playing
      BY <2>6, <3>2, <3>3, PauseFresh
    <3>4. CASE ~store.playing
      BY <2>3, <2>4, <2>6, <3>2, <3>4, ScrubFresh
    <3> QED
      BY <3>3, <3>4
  <2> QED
    BY <2>7, <2>8
<1>3. ASSUME Advance
      PROVE  NonePast' /\ PausedFresh'
  <2> DEFINE c == Min({store.cursor + 1, EndNs})
             p == c # EndNs
  <2>1. c \in Times
    BY NextCursor
  <2>2. StoreBecomes(c, p, FALSE) /\ store.playing /\ acts' = acts
    BY <1>3 DEF Advance
  <2>3. p \in BOOLEAN
    OBVIOUS
  <2>4. NonePast
    BY <2>2 DEF Fresh
  <2>5. store.cursor <= c
    BY <1>0, NextLater
  <2> HIDE DEF c, p
  <2>6. NonePast'
    BY <2>1, <2>2, <2>3, <2>4, <2>5, StoredNonePast
  <2>7. CASE p
    <3>1. p = TRUE
      BY <2>3, <2>7
    <3> QED
      BY <2>2, <2>6, <3>1, PlayingFresh
  <2>8. CASE ~p
    <3>1. p = FALSE
      BY <2>3, <2>8
    <3> QED
      BY <2>1, <2>2, <2>6, <3>1, PauseFresh
  <2> QED
    BY <2>7, <2>8
<1>4. ASSUME TogglePlay, ~store.playing, store.cursor = EndNs
      PROVE  NonePast' /\ PausedFresh'
  <2>1. Jump("play", StartNs) /\ StoreBecomes(StartNs, TRUE, TRUE)
    BY <1>4 DEF TogglePlay
  <2>2. Settled
    BY <2>1, PatientJump
  <2>3. NonePast'
    BY <2>1, <2>2, StoredNonePast, Timeline
  <2> QED
    BY <2>1, <2>3, PlayingFresh
<1>5. ASSUME TogglePlay, ~(~store.playing /\ store.cursor = EndNs)
      PROVE  NonePast' /\ PausedFresh'
  <2>1. Act("play") /\ StoreBecomes(store.cursor, ~store.playing, FALSE)
    BY <1>5 DEF TogglePlay
  <2>2. NonePast
    BY <2>1, PatientAct DEF Fresh
  <2>3. store.cursor <= store.cursor /\ (~store.playing) \in BOOLEAN
    <3>1. store.cursor <= store.cursor
      BY <1>0
    <3>2. (~store.playing) \in BOOLEAN
      BY Zenon
    <3> QED
      BY <3>1, <3>2
  <2>4. NonePast'
    BY <1>0, <2>1, <2>2, <2>3, StoredNonePast
  <2>5. CASE store.playing
    <3>1. (~store.playing) = FALSE
      BY <2>5
    <3> QED
      BY <1>0, <2>1, <2>4, <2>5, <3>1, PauseFresh
  <2>6. CASE ~store.playing
    <3>1. (~store.playing) = TRUE
      BY <2>6
    <3> QED
      BY <2>1, <2>4, <3>1, PlayingFresh
  <2> QED
    BY <2>5, <2>6
<1> QED
  BY <1>2, <1>3, <1>4, <1>5

(* The panel sends an operation for where the session is, or is told that  *)
(* its stream is open.                                                     *)
LEMMA PanelFresh ==
  ASSUME MainOK, Fresh, reply # "failed", SendOpen \/ OpenReturns \/ TimerFires \/ Retry \/ Unmount
  PROVE  Fresh'
<1>0. /\ panel \in PanelState /\ inbox \in Seq(Sent)
      /\ panel.mounted \in Times /\ store.cursor \in Times
      /\ UNCHANGED <<queue, stage, cursor, store>>
  BY DEF MainOK, PanelState, SendOpen, OpenReturns, TimerFires, Retry, Unmount, MainOnly,
         streamVars
<1>a. store.cursor \in Nat
  BY <1>0, TimesAssumption
<1> DEFINE Fits == CallsUpTo(store.cursor, panel.mounted)
<1>b. ASSUME NEW f \in BOOLEAN
      PROVE  /\ <<Call("seek", store.cursor, f)>> \in Seq(Fits)
             /\ Without(<<Call("seek", store.cursor, f)>>, Moves)
  <2> DEFINE o == Call("seek", store.cursor, f)
  <2>1. o \in Sent
    BY <1>0, CallIsSent
  <2>2. o.call = "seek" /\ o.ns = store.cursor
    BY DEF Call
  <2>3. o \in Fits
    BY <1>a, <2>1, <2>2 DEF CallsUpTo
  <2>4. Without(<<o>>, Moves)
    BY <2>2 DEF Without, Moves
  <2> HIDE DEF o, Fits
  <2>5. <<o>> \in Seq(Fits)
    BY <2>3
  <2> QED
    BY <2>4, <2>5 DEF o
<1>c. <<>> \in Seq(Fits) /\ Without(<<>>, Moves) /\ inbox \o <<>> = inbox
  <2>1. <<>> \in Seq(Fits)
    OBVIOUS
  <2>2. Without(<<>>, Moves)
    BY DEF Without
  <2>3. inbox \o <<>> = inbox
    BY <1>0
  <2> QED
    BY <2>1, <2>2, <2>3
<1>d. ASSUME NEW r \in Seq(Fits), Without(r, Moves), inbox' = inbox \o r,
             panel'.mounted = panel.mounted, panel'.phase = panel.phase,
             reply' = reply, acts'.patient = acts.patient,
             panel'.sent \in {panel.sent, store.cursor}
      PROVE  Fresh'
  <2>1. Raised' => Raised
    BY <1>0, <1>d DEF Raised, First
  <2>2. Mounted' => Mounted
    BY <1>d DEF Mounted
  <2> HIDE DEF Fits
  <2>3. NonePast /\ PausedFresh => NonePast' /\ PausedFresh'
    BY <1>0, <1>d, <2>1, FreshKept DEF Fits
  <2> QED
    BY <1>d, <2>2, <2>3 DEF Fresh
<1>1. CASE SendOpen
  <2> DEFINE o == Call("open", panel.mounted, FALSE)
  <2>1. /\ panel' = [panel EXCEPT !.phase = "opening"] /\ reply' = reply /\ acts' = acts
        /\ inbox' = inbox \o <<o>> /\ panel.phase = "ports"
    BY <1>1 DEF SendOpen, Send, MainOnly
  <2>2. /\ panel'.phase = "opening" /\ panel'.mounted = panel.mounted
        /\ panel'.sent = panel.sent
    BY <1>0, <2>1 DEF PanelState
  <2>3. o \in Sent /\ o.call = "open" /\ o.ns = panel.mounted
    <3>1. o \in Sent
      BY <1>0, CallIsSent
    <3>2. o.call = "open" /\ o.ns = panel.mounted
      BY DEF Call
    <3> QED
      BY <3>1, <3>2
  <2> HIDE DEF o
  <2>4. ASSUME NonePast
        PROVE  <<o>> \in Seq(Fits)
    <3>1. panel.mounted <= store.cursor
      BY <2>1, <2>4 DEF NonePast
    <3>2. o \in Fits
      BY <2>3, <3>1 DEF CallsUpTo
    <3> HIDE DEF Fits
    <3> QED
      BY <3>2
  <2>5. Without(<<o>>, Moves)
    BY <2>3 DEF Without, Moves
  <2>6. Raised' => Raised
    BY <1>0, <2>1 DEF Raised, First
  <2> HIDE DEF Fits
  <2>7. NonePast /\ PausedFresh => NonePast' /\ PausedFresh'
    BY <1>0, <2>1, <2>2, <2>4, <2>5, <2>6, FreshKept DEF Fits
  <2>8. Mounted
    BY <2>1 DEF Mounted
  <2> QED
    BY <2>1, <2>7, <2>8 DEF Fresh
<1>2. CASE OpenReturns
  <2> DEFINE r == IF reply = "opened" /\ store.playing THEN Handoff ELSE <<>>
  <2>1. reply' = "none" /\ reply # "none" /\ acts' = acts /\ inbox' = inbox \o r
    BY <1>2 DEF OpenReturns, Send
  <2>2. /\ panel'.mounted = panel.mounted /\ panel'.sent = panel.sent
        /\ Mounted' => Mounted
    BY <1>0, <1>2 DEF OpenReturns, PanelState, Mounted
  <2>3. reply = "opened"
    BY <2>1 DEF MainOK
  <2>4. Mounted => panel'.phase = "open"
    BY <1>0, <1>2, <2>3 DEF OpenReturns, PanelState
  <2>5. (Raised' => Raised) /\ Raised
    BY <1>0, <2>1, <2>3 DEF Raised, First
  <2>6. Handoff \in Seq(Fits)
    <3> DEFINE o == Call("setPlayback", store.cursor, TRUE)
    <3>1. o \in Sent
      BY <1>0, CallIsSent
    <3>2. o.call = "setPlayback"
      BY DEF Call
    <3>3. o \in Fits
      BY <3>1, <3>2 DEF CallsUpTo, Operations
    <3>4. Handoff = <<o>>
      BY DEF Handoff
    <3> HIDE DEF o, Fits
    <3>5. <<o>> \in Seq(Fits)
      BY <3>3
    <3> QED
      BY <3>4, <3>5
  <2>7. ASSUME NonePast, Mounted, store.playing
        PROVE  NonePast' /\ PausedFresh'
    <3>1. PausedFresh'
      BY <1>0, <2>7 DEF PausedFresh
    <3>2. inbox' = inbox \o Handoff
      BY <2>1, <2>3, <2>7
    <3>3. store'.cursor \in Nat /\ store.cursor <= store'.cursor
      BY <1>0, <1>a
    <3>4. Handoff \in Seq(CallsUpTo(store'.cursor, panel.mounted))
      BY <1>0, <2>6
    <3>5. UNCHANGED queue
      BY <1>0
    <3> HIDE DEF Fits
    <3>6. NonePast'
      BY <2>2, <2>4, <2>7, <3>2, <3>3, <3>4, <3>5, PastKept
    <3> QED
      BY <3>1, <3>6
  <2>8. ASSUME NonePast, PausedFresh, Mounted, ~store.playing
        PROVE  NonePast' /\ PausedFresh'
    <3> DEFINE s == <<>>
    <3>1. inbox' = inbox \o s /\ s \in Seq(Fits) /\ Without(s, Moves)
      BY <1>c, <2>1, <2>8
    <3> HIDE DEF s, Fits
    <3> QED
      BY <1>0, <2>2, <2>4, <2>5, <2>8, <3>1, FreshKept DEF Fits
  <2> QED
    BY <2>1, <2>2, <2>7, <2>8 DEF Fresh
<1>3. CASE TimerFires
  <2>1. panel'.phase = panel.phase /\ panel'.mounted = panel.mounted /\ reply' = reply
        /\ acts' = acts /\ panel'.sent \in {panel.sent, store.cursor}
    BY <1>0, <1>3 DEF TimerFires, PanelState, MainOnly
  <2>2. inbox' = inbox \/ inbox' = inbox \o <<Call("seek", store.cursor, FALSE)>>
    BY <1>3 DEF TimerFires, Send
  <2>3. FALSE \in BOOLEAN
    OBVIOUS
  <2> HIDE DEF Fits
  <2> QED
    BY <1>b, <1>c, <1>d, <2>1, <2>2, <2>3
<1>4. CASE Retry
  <2>1. panel' = panel /\ reply' = reply /\ acts'.patient = acts.patient
    BY <1>4, PatientAct DEF Retry, MainOnly
  <2>2. inbox' = inbox \o <<Call("seek", store.cursor, TRUE)>>
    BY <1>4 DEF Retry, Send
  <2>3. TRUE \in BOOLEAN
    OBVIOUS
  <2> HIDE DEF Fits
  <2> QED
    BY <1>b, <1>d, <2>1, <2>2, <2>3
<1>5. CASE Unmount
  <2>1. ~Mounted'
    BY <1>0, <1>5 DEF Unmount, PanelState, Mounted
  <2> QED
    BY <2>1 DEF Fresh
<1> QED
  BY <1>1, <1>2, <1>3, <1>4, <1>5

(* The worker's clock stands still once a paused session has told it.      *)
LEMMA PausedClock ==
  ASSUME MainOK, WillPlay, Mounted, ~store.playing, Without(inbox, Plays)
  PROVE  clock.playing = FALSE
<1>1. store.playing = FALSE
  BY DEF MainOK
<1>2. Intends(inbox, clock.playing, FALSE)
  BY <1>1 DEF WillPlay, Mounted
<1> QED
  BY <1>2 DEF Intends

(* The worker receives a cursor: it takes the last one of a paused session *)
(* as it is.                                                               *)
LEMMA MovesFresh ==
  ASSUME MainOK, WillPlay, Fresh, ReceiveSetCursor \/ ReceiveSetPlayback
  PROVE  Fresh'
<1>0. /\ inbox \in Seq(Sent) /\ inbox # <<>> /\ inbox' = Tail(inbox)
      /\ UNCHANGED <<queue, stage, store, panel, reply, acts>>
      /\ clock \in [playing : BOOLEAN, lastSet : Times \cup {0}, now : Nat]
  BY DEF MainOK, ReceiveSetCursor, ReceiveSetPlayback, Receive, MoveCursor
<1>1. Head(inbox) = inbox[1] /\ Head(inbox).call \in Moves
  BY <1>0, TailElements DEF ReceiveSetCursor, ReceiveSetPlayback, Receive, Moves
<1> SUFFICES ASSUME acts'.patient, Mounted'
             PROVE  NonePast' /\ PausedFresh'
  BY DEF Fresh
<1>2. NonePast /\ PausedFresh /\ Mounted
  BY <1>0 DEF Fresh, Mounted
<1>3. NonePast'
  <2> DEFINE C == CallsUpTo(store.cursor, panel.mounted)
  <2>1. inbox \in Seq(C)
    BY <1>2 DEF NonePast
  <2> HIDE DEF C
  <2>2. inbox' \in Seq(C)
    BY <1>0, <2>1
  <2> QED
    BY <1>0, <1>2, <2>2 DEF NonePast, C
<1>4. ASSUME ~store.playing
      PROVE  Arrives' /\ Arrived'
  <2>1. Arrives
    BY <1>2, <1>4 DEF PausedFresh
  <2>2. Arrives'
    <3>1. SUFFICES ASSUME NEW k \in 1..Len(inbox'), LastIn(inbox', Moves, k)
                   PROVE  /\ inbox'[k].ns = store'.cursor
                          /\ inbox'[k].call = "setPlayback" \/ Without(inbox', Plays)
      BY DEF Arrives
    <3>2. k + 1 \in 1..Len(inbox) /\ LastIn(inbox, Moves, k + 1) /\ inbox'[k] = inbox[k + 1]
      <4>a. inbox \in Seq(Sent) /\ inbox # <<>>
        BY <1>0
      <4>1. \A j \in 1..Len(Tail(inbox)) : LastIn(Tail(inbox), Moves, j) =>
              /\ j + 1 \in 1..Len(inbox) /\ LastIn(inbox, Moves, j + 1)
              /\ Tail(inbox)[j] = inbox[j + 1]
        BY ONLY <4>a, LastReceived
      <4>2. inbox' = Tail(inbox)
        BY <1>0
      <4> QED
        BY <3>1, <4>1, <4>2
    <3>3. Without(inbox, Plays) => Without(inbox', Plays)
      BY <1>0, LastReceived
    <3> QED
      BY <1>0, <2>1, <3>2, <3>3 DEF Arrives
  <2>3. ASSUME Without(inbox', Moves)
        PROVE  cursor' = store.cursor
    <3>1. 1 \in 1..Len(inbox) /\ LastIn(inbox, Moves, 1)
      BY <1>0, <1>1, <2>3, LastReceived
    <3>2. /\ Head(inbox).ns = store.cursor
          /\ Head(inbox).call = "setPlayback" \/ Without(inbox, Plays)
      BY <1>1, <2>1, <3>1 DEF Arrives
    <3>3. CASE ReceiveSetPlayback
      BY <3>2, <3>3 DEF ReceiveSetPlayback, MoveCursor
    <3>4. CASE ReceiveSetCursor
      <4>1. Head(inbox).call = "setCursor"
        BY <3>4 DEF ReceiveSetCursor, Receive
      <4>2. Without(inbox, Plays)
        BY <3>2, <4>1
      <4>3. clock.playing = FALSE
        BY <1>2, <1>4, <4>2, PausedClock
      <4> QED
        BY <3>2, <3>4, <4>3 DEF ReceiveSetCursor, MoveCursor
    <3> QED
      BY <3>3, <3>4
  <2> QED
    BY <1>0, <2>2, <2>3 DEF Arrived
<1> QED
  BY <1>0, <1>2, <1>3, <1>4 DEF PausedFresh

(* The worker receives an operation.                                       *)
LEMMA AskedFresh ==
  ASSUME IInv, MainOK, Fresh, NEW name \in Operations, ReceiveOperation(name)
  PROVE  Fresh'
<1> DEFINE op == Op(name, Head(inbox).ns, Head(inbox).flag, FALSE)
<1>0. /\ inbox \in Seq(Sent) /\ queue \in Seq(Operation) /\ StageOK
      /\ inbox # <<>> /\ Head(inbox).call = name /\ inbox' = Tail(inbox)
      /\ queue' = Append(queue, op)
      /\ UNCHANGED <<panel, reply, store, acts, stage, cursor>>
  BY DEF MainOK, IInv, TypeOK, ReceiveOperation, Receive, Request
<1>1. op \in Operation
  <2>1. op \in Requests
    BY <1>0, Received, SentIsRequest DEF Operations
  <2> QED
    BY <2>1, RequestTypes
<1> SUFFICES ASSUME acts'.patient, Mounted'
             PROVE  NonePast' /\ PausedFresh'
  BY DEF Fresh
<1>2. NonePast /\ PausedFresh /\ Mounted
  BY <1>0 DEF Fresh, Mounted
<1>3. NonePast'
  <2> DEFINE C == CallsUpTo(store.cursor, panel.mounted)
             O == OpsUpTo(store.cursor, panel.mounted)
  <2>1. inbox \in Seq(C) /\ queue \in Seq(O)
    BY <1>2 DEF NonePast
  <2>2. Head(inbox) \in C
    <3> HIDE DEF C
    <3> QED
      BY <1>0, <2>1
  <2>3. /\ Head(inbox).ns <= store.cursor
        /\ name = "open" => Head(inbox).ns = panel.mounted
    BY <1>0, <2>2 DEF CallsUpTo
  <2>4. op.target = Head(inbox).ns /\ op.op = name
    BY DEF Op
  <2> HIDE DEF op
  <2>5. op \in O
    BY <1>1, <2>3, <2>4 DEF OpsUpTo
  <2> HIDE DEF C, O
  <2>6. inbox' \in Seq(C) /\ queue' \in Seq(O)
    BY <1>0, <2>1, <2>5
  <2> QED
    BY <1>0, <1>2, <2>6 DEF NonePast, C, O
<1> HIDE DEF op
<1>4. Raised' => Raised
  <2>1. queue # <<>> => queue'[1] = queue[1]
    BY <1>0, <1>1, AppendOps, FirstOp
  <2> QED
    BY <1>0, <2>1 DEF Raised, First, StageOK
<1>5. name \notin Moves /\ name \notin Plays
  BY DEF Operations, Moves, Plays
<1>6. Without(inbox', Moves) => Without(inbox, Moves)
  BY <1>0, <1>5, LastReceived
<1>7. Arrives => Arrives'
  <2>1. SUFFICES ASSUME Arrives, NEW k \in 1..Len(inbox'), LastIn(inbox', Moves, k)
                 PROVE  /\ inbox'[k].ns = store'.cursor
                        /\ inbox'[k].call = "setPlayback" \/ Without(inbox', Plays)
    BY DEF Arrives
  <2>2. k + 1 \in 1..Len(inbox) /\ LastIn(inbox, Moves, k + 1) /\ inbox'[k] = inbox[k + 1]
    BY <1>0, <2>1, LastReceived
  <2>3. Without(inbox, Plays) => Without(inbox', Plays)
    BY <1>0, LastReceived
  <2> QED
    BY <1>0, <2>1, <2>2, <2>3 DEF Arrives
<1>8. Arrived => Arrived'
  BY <1>0, <1>4, <1>6 DEF Arrived
<1> QED
  BY <1>0, <1>2, <1>3, <1>7, <1>8 DEF PausedFresh

(* The worker runs: it opens at or before where the session is.            *)
LEMMA RunsFresh ==
  ASSUME IInv, MainOK, Fresh, WorkerRuns
  PROVE  Fresh'
<1>0. /\ queue \in Seq(Operation) /\ StageOK /\ cursor \in Nat
      /\ UNCHANGED <<panel, inbox, store, acts>>
  BY DEF IInv, TypeOK, WorkerRuns
<1>a. store.cursor \in Nat /\ panel.mounted \in Nat
  <2>1. store.cursor \in Times /\ panel.mounted \in Times
    BY DEF MainOK, PanelState
  <2> QED
    BY <2>1, TimesAssumption
<1> SUFFICES ASSUME acts'.patient, Mounted'
             PROVE  NonePast' /\ PausedFresh'
  BY DEF Fresh
<1>1. NonePast /\ PausedFresh
  BY <1>0 DEF Fresh, Mounted
<1>2. queue # <<>>
  BY <1>0 DEF WorkerRuns, Skip, Drop, StartOpen, StartCapture, Closed, Opened, Settle, StageOK
<1>3. queue' = queue \/ queue' = Tail(queue)
  BY DEF WorkerRuns, Skip, Drop, StartOpen, StartCapture, Closed, Opened, Settle, Begin, Pop
<1> DEFINE O == OpsUpTo(store.cursor, panel.mounted)
<1>4. queue \in Seq(O)
  BY <1>1 DEF NonePast
<1>5. First \in O
  <2> HIDE DEF O
  <2> QED
    BY <1>2, <1>4 DEF First
<1>6. /\ First.target \in Nat /\ First.target <= store.cursor
      /\ First.op = "open" => First.target = panel.mounted
  BY <1>5 DEF OpsUpTo, Operation
<1>7. NonePast'
  <2> HIDE DEF O
  <2>1. queue' \in Seq(O)
    BY <1>2, <1>3, <1>4
  <2> QED
    BY <1>0, <1>1, <2>1 DEF NonePast, O
<1>8. Arrives => Arrives'
  BY <1>0 DEF Arrives
<1>9. CASE Begin
  <2>1. /\ cursor' = IF cursor < First.target THEN First.target ELSE cursor
        /\ stage' = "busy" /\ queue' = queue
    BY <1>9 DEF Begin
  <2>2. reply' = reply
    BY <2>1 DEF WorkerRuns, Answered
  <2>3. cursor = store.cursor => cursor' = store.cursor
    BY <1>a, <1>6, <2>1
  <2>4. cursor <= store.cursor => cursor' <= store.cursor
    BY <1>0, <1>a, <1>6, <2>1
  <2>5. Raised' => Raised \/ First.op = "open"
    BY <2>1, <2>2 DEF Raised, First
  <2>6. First.op = "open" /\ store.cursor = panel.mounted /\ cursor <= store.cursor
          => cursor' = store.cursor
    BY <1>0, <1>a, <1>6, <2>1
  <2>7. Arrived => Arrived'
    BY <1>0, <2>3, <2>4, <2>5, <2>6 DEF Arrived
  <2> QED
    BY <1>0, <1>1, <1>7, <1>8, <2>7 DEF PausedFresh
<1>10. ASSUME cursor' = cursor, Raised' => Raised
       PROVE  NonePast' /\ PausedFresh'
  <2>1. Arrived => Arrived'
    BY <1>0, <1>10 DEF Arrived
  <2> QED
    BY <1>0, <1>1, <1>7, <1>8, <2>1 DEF PausedFresh
<1>11. CASE Skip
  <2>1. cursor' = cursor /\ stage = "idle" /\ stage' = "idle"
    BY <1>11 DEF Skip, Pop
  <2>2. Raised' => Raised
    BY <2>1 DEF Raised, WorkerRuns, Answered
  <2> QED
    BY <1>10, <2>1, <2>2
<1>12. CASE Drop \/ StartCapture \/ Opened
  <2>1. cursor' = cursor /\ queue' = queue /\ stage' # "idle"
    BY <1>2, <1>12 DEF Drop, StartCapture, Opened
  <2>2. reply' = reply
    BY <2>1 DEF WorkerRuns, Answered
  <2>3. stage' = "busy" => stage = "busy" \/ First.op = "capture"
    BY <1>12 DEF Drop, StartCapture, Opened
  <2>4. Raised' => Raised
    BY <2>1, <2>2, <2>3 DEF Raised, First
  <2> QED
    BY <1>10, <2>1, <2>4
<1>13. CASE StartOpen
  BY <1>9, <1>13 DEF StartOpen
<1>14. CASE Closed
  <2>1. CASE First.op = "close"
    <3>1. cursor' = cursor /\ stage' = "idle"
      BY <1>14, <2>1 DEF Closed, Pop
    <3>2. reply' = reply
      BY <2>1 DEF WorkerRuns, Answered
    <3> QED
      BY <1>10, <3>1, <3>2 DEF Raised
  <2>2. CASE First.op # "close"
    BY <1>9, <1>14, <2>2 DEF Closed
  <2> QED
    BY <2>1, <2>2
<1>15. CASE at # NoStream /\ Settle
  <2>1. cursor' = cursor /\ stage = "busy" /\ stage' = "idle"
    BY <1>15 DEF Settle, Pop
  <2>2. reply' # reply => First.op = "open"
    BY DEF WorkerRuns, Answered
  <2>3. Raised' => Raised
    BY <2>1, <2>2 DEF Raised
  <2> QED
    BY <1>10, <2>1, <2>3
<1> QED
  BY <1>11, <1>12, <1>13, <1>14, <1>15 DEF WorkerRuns

(* The clock of a paused session ticks only while a call to pause is       *)
(* under way.                                                              *)
LEMMA TickFresh ==
  ASSUME MainOK, WillPlay, Fresh, NEW ns \in Times, BlitClockTick(ns)
  PROVE  Fresh'
<1>0. UNCHANGED <<queue, stage, store, panel, inbox, reply, acts>> /\ clock.playing
  BY DEF BlitClockTick, MoveCursor
<1> SUFFICES ASSUME acts'.patient, Mounted'
             PROVE  NonePast' /\ PausedFresh'
  BY DEF Fresh
<1>1. NonePast /\ PausedFresh /\ Mounted
  BY <1>0 DEF Fresh, Mounted
<1>2. NonePast'
  BY <1>0, <1>1 DEF NonePast
<1>3. ~store.playing => ~Without(inbox, Moves)
  <2>1. Without(inbox, Moves) => Without(inbox, Plays)
    BY DEF Without, Moves, Plays
  <2> QED
    BY <1>0, <1>1, <2>1, PausedClock
<1>4. Arrives => Arrives'
  BY <1>0 DEF Arrives
<1>5. ~store.playing => Arrived'
  BY <1>0, <1>3 DEF Arrived
<1> QED
  BY <1>0, <1>1, <1>2, <1>4, <1>5 DEF PausedFresh

(* Without faults every open() succeeds.                                   *)
LEMMA StepSucceeds ==
  ASSUME "fault" \notin Acts, IInv, reply # "failed", [PanelNext]_panelVars
  PROVE  reply' # "failed"
<1>1. CASE WorkerRuns
  <2>1. Skip => stage = "idle"
    BY DEF Skip
  <2>2. Drop \/ StartOpen \/ StartCapture \/ Opened => stage' # "idle" \/ stage = "idle"
    BY DEF Drop, StartOpen, StartCapture, Opened, Begin
  <2>3. Closed => stage' # "idle" \/ First.op # "open"
    BY DEF Closed, Begin
  <2>4. at # NoStream /\ Settle => at' # NoStream
    BY DEF Settle
  <2> QED
    BY <1>1, <2>1, <2>2, <2>3, <2>4 DEF WorkerRuns, Answered
<1>2. ~WorkerFails
  BY DEF WorkerFails, Act
<1>3. CASE OpenReturns
  BY <1>3 DEF OpenReturns
<1>4. CASE UNCHANGED reply
  BY <1>4
<1>5. WorkerRuns \/ WorkerFails \/ OpenReturns \/ UNCHANGED reply
  BY DEF PanelNext, panelVars, Scrub, Advance, TogglePlay, StoreBecomes, SendOpen,
         TimerFires, Retry, Unmount, MainOnly, ReceiveOperation, Receive,
         ReceiveSetCursor, ReceiveSetPlayback, BlitClockTick
<1> QED
  BY <1>1, <1>2, <1>3, <1>4, <1>5

LEMMA StepFresh ==
  ASSUME "fault" \notin Acts, IInv, MainOK, WillPlay, Fresh, reply # "failed",
         [PanelNext]_panelVars
  PROVE  Fresh'
<1>1. CASE \E name \in {"open", "seek", "close"} : ReceiveOperation(name)
  BY <1>1, AskedFresh DEF Operations
<1>2. CASE \E ns \in Times : BlitClockTick(ns)
  BY <1>2, TickFresh
<1>3. CASE UNCHANGED panelVars
  BY <1>3 DEF panelVars, streamVars, Fresh, NonePast, PausedFresh, Arrives, Arrived, Raised,
              Mounted, First
<1>4. ~WorkerFails
  BY DEF WorkerFails, Act
<1> QED
  BY <1>1, <1>2, <1>3, <1>4, UserFresh, PanelFresh, MovesFresh, RunsFresh DEF PanelNext

(* At rest and paused, the cursor the worker blits for is the session's,   *)
(* as long as every jump waited for what was under way before it and went  *)
(* far enough to be sent: however long the session played, whatever was    *)
(* toggled and retried and whenever the panel opened.                      *)
THEOREM PanelCursorFresh ==
  ASSUME "fault" \notin Acts
  PROVE  PanelSpec => []PatientCursorFresh
<1> DEFINE Inv == Fresh /\ WillPlay /\ reply # "failed"
<1>1. PanelInit => Inv
  <2> SUFFICES ASSUME PanelInit PROVE Inv
    OBVIOUS
  <2>1. PICK c \in Times, p \in BOOLEAN :
          /\ store = [cursor |-> c, playing |-> p]
          /\ panel = [phase |-> "ports", mounted |-> c, target |-> None,
                      sent |-> None, timer |-> FALSE]
    BY DEF PanelInit
  <2>2. /\ inbox = <<>> /\ queue = <<>> /\ reply = "none" /\ stage = "idle" /\ cursor = 0
        /\ clock.playing = FALSE
    BY DEF PanelInit, Init
  <2>3. c \in Nat
    BY TimesAssumption
  <2>4. WillPlay
    <3>1. Intends(inbox, clock.playing, FALSE)
      BY <2>2 DEF Intends
    <3> QED
      BY <2>1, <3>1 DEF WillPlay
  <2>5. NonePast
    <3>1. <<>> \in Seq(CallsUpTo(c, c)) /\ <<>> \in Seq(OpsUpTo(c, c))
      OBVIOUS
    <3> QED
      BY <2>1, <2>2, <2>3, <3>1 DEF NonePast
  <2>6. Arrives
    BY <2>2 DEF Arrives
  <2>7. Arrived
    BY <2>1, <2>2, <2>3 DEF Arrived, Raised
  <2>8. PausedFresh
    BY <2>1, <2>6, <2>7 DEF PausedFresh
  <2> QED
    BY <2>2, <2>4, <2>5, <2>8 DEF Fresh
<1>2. PanelIInv /\ Inv /\ [PanelNext]_panelVars => Inv'
  BY StepFresh, StepPlays, StepSucceeds DEF PanelIInv
<1>3. PanelIInv /\ Inv => PatientCursorFresh
  <2> SUFFICES ASSUME MainOK, Fresh, acts.patient, Settled, ~store.playing
               PROVE  Distance(cursor, store.cursor) < SETCURSOR_DELTA
    BY DEF PanelIInv, PatientCursorFresh, CursorFresh
  <2>1. store.cursor \in Times
    BY DEF MainOK
  <2>2. store.cursor \in Nat /\ SETCURSOR_DELTA \in Nat \ {0}
    BY <2>1, TimesAssumption, PanelAssumption
  <2>3. Without(inbox, Moves) /\ panel.phase = "open" /\ Mounted
    BY DEF Settled, Without, Mounted
  <2>4. cursor = store.cursor
    BY <2>3 DEF Fresh, PausedFresh, Arrived
  <2> QED
    BY <2>2, <2>4 DEF Distance
<1> QED
  BY <1>1, <1>2, <1>3, PanelInductive, PTL DEF PanelSpec
===============================================================================
