----------------------------- MODULE Intake_proofs -----------------------------
(***************************************************************************)
(* Proofs about Intake, for any drops of any files, in any order, and any  *)
(* answers in the dialogs: each file comes to rest in one place.           *)
(***************************************************************************)
EXTENDS MCSessionStore, FiniteFolds

-----------------------------------------------------------------------------
(* The places a file can be in, and that it is in one of them.             *)
Sidecars == {i \in Intake!InBatch : batch[i].ext = "sidecar"}
Videos   == {i \in Intake!InBatch : batch[i].ext = "mp4"}
Plain    == Intake!InBatch \ (Sidecars \cup Videos)

Bucketed == Len(batch) - Len(todo)

RouteNames == {"eager", "lidar", "openlabel", "calibration", "trajectory", "map",
               "pairs", "videos", "tabular", "unknown"}
QueueNames == {"tabular", "unknown", "videos"}

IntakeTypeOK ==
  /\ batch \in Seq(Intake!FileType) /\ batch # <<>>
  /\ stage \in {"bucket", "sniff", "open", "dialogs"}
  /\ Len(todo) \in 0..Len(batch) /\ todo = [k \in 1..Len(todo) |-> Bucketed + k]
  /\ \A n \in DOMAIN sidecars : /\ sidecars[n] \in Sidecars /\ sidecars[n] <= Bucketed
                                /\ batch[sidecars[n]].name = n
  /\ mp4s \in Seq(Videos)
  /\ buckets \in [RouteNames -> Seq(Intake!InBatch)]
  /\ \A r \in RouteNames :
       buckets[r] \in Seq(IF r \in {"pairs", "videos"} THEN Videos ELSE Plain)
  /\ timedBy \in [Intake!InBatch -> 0..Len(batch)]
  /\ opened \subseteq Videos \cup Plain
  /\ errors \in Seq(Intake!InBatch) /\ dropped \in Seq(Videos \cup Plain)
  /\ pending \in [QueueNames -> Seq(Intake!InBatch)]
  /\ \A q \in QueueNames : pending[q] \in Seq(IF q = "videos" THEN Videos ELSE Plain)

InTodo(i)     == IF i > Bucketed THEN 1 ELSE 0
InSidecars(i) == IF stage = "bucket" /\ \E n \in DOMAIN sidecars : sidecars[n] = i THEN 1 ELSE 0
Routed(i) ==
  Count(i, buckets["eager"]) + Count(i, buckets["lidar"]) + Count(i, buckets["openlabel"])
  + Count(i, buckets["calibration"]) + Count(i, buckets["trajectory"])
  + Count(i, buckets["map"]) + Count(i, buckets["pairs"]) + Count(i, buckets["videos"])
  + Count(i, buckets["tabular"]) + Count(i, buckets["unknown"])
Waiting(i) == Count(i, pending["tabular"]) + Count(i, pending["unknown"])
              + Count(i, pending["videos"])
InSources(i) == IF i \in opened THEN 1 ELSE 0
TimedByIt(i) == {v \in Videos : timedBy[v] = i}
Timing(i)    == IF i \in Sidecars THEN Cardinality(TimedByIt(i)) ELSE 0

Total(i) ==
  InTodo(i) + InSidecars(i) + Count(i, mp4s) + Routed(i) + Count(i, errors)
  + Count(i, dropped) + InSources(i) + Waiting(i) + Timing(i)

(* A later sidecar of the same name is bucketed.                           *)
HiddenNow(i) ==
  i \in Sidecars /\ \E j \in Sidecars : j > i /\ j <= Bucketed /\ batch[j].name = batch[i].name

OnePlace == \A i \in Intake!InBatch : Total(i) = IF HiddenNow(i) THEN 0 ELSE 1

(* What each stage has not touched yet, or has emptied.                    *)
StageOK ==
  /\ stage = "bucket" => /\ errors = <<>> /\ opened = {} /\ dropped = <<>>
                         /\ \A q \in QueueNames : pending[q] = <<>>
  /\ stage = "bucket" /\ todo # <<>> => /\ buckets["pairs"] = <<>> /\ buckets["videos"] = <<>>
                                        /\ \A i \in Intake!InBatch : timedBy[i] = 0
  /\ stage # "bucket" => todo = <<>> /\ mp4s = <<>>
  /\ stage = "dialogs" => \A r \in RouteNames : buckets[r] = <<>>

(* A video that waits for its timestamps has none, one with a sidecar has  *)
(* that of its name, and one that is open has a time for each frame.       *)
VideoOK ==
  \A i \in Videos :
    /\ i \in opened => timedBy[i] # 0 /\ Intake!Aligned(i, timedBy[i])
    /\ Count(i, mp4s) + Count(i, buckets["videos"]) + Count(i, pending["videos"]) > 0 =>
         timedBy[i] = 0
    /\ Count(i, buckets["pairs"]) > 0 => timedBy[i] \in Sidecars
    /\ timedBy[i] \in Sidecars => batch[timedBy[i]].name = batch[i].name

(* While a sidecar waits so do the videos of its name; then it times one,  *)
(* or there is none.                                                       *)
FitOK ==
  /\ \A i \in Videos : stage = "bucket" /\ i <= Bucketed /\ batch[i].name \in DOMAIN sidecars =>
                         Count(i, mp4s) > 0
  /\ \A s \in Sidecars : s <= Bucketed =>
       \/ stage = "bucket" /\ batch[s].name \in DOMAIN sidecars
       \/ \E v \in Videos : batch[v].name = batch[s].name /\ timedBy[v] \in Sidecars
       \/ stage # "bucket" /\ \A v \in Videos : batch[v].name # batch[s].name

IntakeInv == IntakeTypeOK /\ OnePlace /\ StageOK /\ VideoOK /\ FitOK

-----------------------------------------------------------------------------
(* The instance's own copies of library operators are the library's.       *)
LEMMA CardinalityThere == ASSUME NEW S PROVE Intake!Cardinality(S) = Cardinality(S)
  BY DEF Intake!Cardinality, Cardinality

LEMMA SetToSeqThere == ASSUME NEW S PROVE Intake!SetToSeq(S) = SetToSeq(S)
<1>1. Intake!Cardinality(S) = Cardinality(S)
  BY CardinalityThere
<1>2. \A f : Intake!IsInjective(f) <=> IsInjective(f)
  BY DEF Intake!IsInjective, IsInjective
<1> QED
  BY <1>1, <1>2 DEF Intake!SetToSeq, SetToSeq

LEMMA CountOfThese ==
  ASSUME NEW S, IsFiniteSet(S)
  PROVE  /\ Intake!SetToSeq(S) \in Seq(S)
         /\ \A i : Count(i, Intake!SetToSeq(S)) = IF i \in S THEN 1 ELSE 0
  BY SetToSeqThere, CountOfSet

LEMMA RoutesAre == Intake!ToSet(Intake!Routes) = RouteNames
<1>1. DOMAIN Intake!Routes = 1..10
  BY DEF Intake!Routes
<1>2. Intake!ToSet(Intake!Routes) = {Intake!Routes[n] : n \in 1..10}
  BY <1>1 DEF Intake!ToSet
<1>3. 1..10 = {1, 2, 3, 4, 5, 6, 7, 8, 9, 10}
  OBVIOUS
<1> QED
  BY <1>2, <1>3 DEF Intake!Routes, RouteNames

LEMMA BatchIs ==
  ASSUME IntakeTypeOK
  PROVE  /\ Len(batch) \in Nat /\ Len(batch) > 0 /\ Bucketed \in 0..Len(batch)
         /\ Intake!InBatch \in SUBSET Nat /\ 0 \notin Intake!InBatch /\ IsFiniteSet(Intake!InBatch)
         /\ Sidecars \subseteq Intake!InBatch /\ Videos \subseteq Intake!InBatch /\ Plain \subseteq Intake!InBatch
         /\ Sidecars \cap Videos = {} /\ Sidecars \cap Plain = {} /\ Videos \cap Plain = {}
         /\ \A i \in Intake!InBatch : batch[i] \in Intake!FileType
<1>1. Len(batch) \in Nat /\ Len(batch) > 0 /\ Len(todo) \in 0..Len(batch)
  BY DEF IntakeTypeOK
<1>2. \A i \in Intake!InBatch : batch[i] \in Intake!FileType
  BY DEF IntakeTypeOK, Intake!InBatch
<1>3. Intake!InBatch \in SUBSET Nat /\ 0 \notin Intake!InBatch /\ IsFiniteSet(Intake!InBatch)
  BY <1>1, FS_Interval DEF Intake!InBatch
<1> QED
  BY <1>1, <1>2, <1>3 DEF Bucketed, Sidecars, Videos, Plain

LEMMA SeqSub == ASSUME NEW S, NEW T, S \subseteq T, NEW s \in Seq(S) PROVE s \in Seq(T)
  OBVIOUS

LEMMA SeqIsFcn == ASSUME NEW S, NEW s \in Seq(S) PROVE s = [k \in 1..Len(s) |-> s[k]]
  OBVIOUS

(* Every number of times is one.                                           *)
LEMMA PartsAre ==
  ASSUME IntakeTypeOK, NEW i \in Intake!InBatch
  PROVE  /\ InTodo(i) \in Nat /\ InSidecars(i) \in Nat /\ Count(i, mp4s) \in Nat
         /\ \A r \in RouteNames : Count(i, buckets[r]) \in Nat
         /\ Routed(i) \in Nat /\ Count(i, errors) \in Nat /\ Count(i, dropped) \in Nat
         /\ InSources(i) \in Nat
         /\ \A q \in QueueNames : Count(i, pending[q]) \in Nat
         /\ Waiting(i) \in Nat
         /\ IsFiniteSet(TimedByIt(i)) /\ Timing(i) \in Nat
         /\ i \notin Videos => Count(i, mp4s) = 0
         /\ \A r \in RouteNames : Count(i, buckets[r]) > 0 =>
              i \in (IF r \in {"pairs", "videos"} THEN Videos ELSE Plain)
         /\ \A q \in QueueNames : Count(i, pending[q]) > 0 =>
              i \in (IF q = "videos" THEN Videos ELSE Plain)
         /\ i \in Sidecars => Routed(i) = 0 /\ Waiting(i) = 0 /\ InSources(i) = 0 /\ Count(i, dropped) = 0
<1>1. Count(i, mp4s) \in Nat /\ (i \notin Videos => Count(i, mp4s) = 0)
  BY CountIs DEF IntakeTypeOK
<1>2. Count(i, errors) \in Nat
  BY CountIs DEF IntakeTypeOK
<1>3. Count(i, dropped) \in Nat /\ (i \notin Videos \cup Plain => Count(i, dropped) = 0)
  BY CountIs DEF IntakeTypeOK
<1>4. ASSUME NEW r \in RouteNames
      PROVE  /\ Count(i, buckets[r]) \in Nat
             /\ Count(i, buckets[r]) > 0 =>
                  i \in (IF r \in {"pairs", "videos"} THEN Videos ELSE Plain)
  <2> DEFINE S == IF r \in {"pairs", "videos"} THEN Videos ELSE Plain
  <2>1. buckets[r] \in Seq(S)
    BY DEF IntakeTypeOK
  <2> HIDE DEF S
  <2>2. Count(i, buckets[r]) \in Nat /\ (i \notin S => Count(i, buckets[r]) = 0)
    BY <2>1, CountIs
  <2>3. Count(i, buckets[r]) > 0 => i \in S
    BY <2>2
  <2> QED
    BY <2>2, <2>3 DEF S
<1>5. ASSUME NEW q \in QueueNames
      PROVE  /\ Count(i, pending[q]) \in Nat
             /\ Count(i, pending[q]) > 0 => i \in (IF q = "videos" THEN Videos ELSE Plain)
  <2> DEFINE S == IF q = "videos" THEN Videos ELSE Plain
  <2>1. pending[q] \in Seq(S)
    BY DEF IntakeTypeOK
  <2> HIDE DEF S
  <2>2. Count(i, pending[q]) \in Nat /\ (i \notin S => Count(i, pending[q]) = 0)
    BY <2>1, CountIs
  <2>3. Count(i, pending[q]) > 0 => i \in S
    BY <2>2
  <2> QED
    BY <2>2, <2>3 DEF S
<1>6. IsFiniteSet(TimedByIt(i)) /\ Timing(i) \in Nat
  <2>1. TimedByIt(i) \in SUBSET Intake!InBatch
    BY BatchIs DEF TimedByIt
  <2>2. IsFiniteSet(TimedByIt(i))
    BY <2>1, BatchIs, FS_Subset
  <2> QED
    BY <2>2, FS_CardinalityType DEF Timing
<1>7. Routed(i) \in Nat /\ Waiting(i) \in Nat
  BY <1>4, <1>5 DEF Routed, Waiting, RouteNames, QueueNames
<1>8. InTodo(i) \in Nat /\ InSidecars(i) \in Nat /\ InSources(i) \in Nat
  BY DEF InTodo, InSidecars, InSources
<1>9. ASSUME i \in Sidecars
      PROVE  Routed(i) = 0 /\ Waiting(i) = 0 /\ InSources(i) = 0 /\ Count(i, dropped) = 0
  <2>1. i \notin Videos /\ i \notin Plain
    BY <1>9, BatchIs
  <2>2. \A r \in RouteNames : Count(i, buckets[r]) = 0
    BY <1>4, <2>1
  <2>3. \A q \in QueueNames : Count(i, pending[q]) = 0
    BY <1>5, <2>1
  <2>4. i \notin opened
    BY <2>1 DEF IntakeTypeOK
  <2> QED
    BY <1>3, <2>1, <2>2, <2>3, <2>4 DEF Routed, Waiting, InSources, RouteNames, QueueNames
<1> QED
  BY <1>1, <1>2, <1>3, <1>4, <1>5, <1>6, <1>7, <1>8, <1>9

(* One bucket changes.                                                     *)
LEMMA RoutedChange ==
  ASSUME IntakeTypeOK, NEW r \in RouteNames, NEW s, buckets' = [buckets EXCEPT ![r] = s],
         NEW i \in Intake!InBatch, Count(i, s) \in Nat
  PROVE  /\ Routed(i)' \in Nat /\ Routed(i)' + Count(i, buckets[r]) = Routed(i) + Count(i, s)
         /\ Count(i, buckets[r]) <= Routed(i) /\ Count(i, s) <= Routed(i)'
         /\ \A q \in RouteNames : Count(i, buckets'[q]) \in Nat /\ Count(i, buckets'[q]) <= Routed(i)'
<1>1. \A q \in RouteNames : Count(i, buckets[q]) \in Nat
  BY PartsAre
<1>2. buckets'[r] = s /\ \A q \in RouteNames \ {r} : buckets'[q] = buckets[q]
  BY DEF IntakeTypeOK
<1>3. \A q \in RouteNames : Count(i, buckets'[q]) \in Nat /\ Count(i, buckets[q])' = Count(i, buckets'[q])
  BY <1>1, <1>2 DEF Count, At
<1>4. \A q \in RouteNames : Count(i, buckets'[q]) <= Routed(i)'
  BY <1>3 DEF Routed, RouteNames
<1>5. /\ Routed(i)' \in Nat /\ Routed(i)' + Count(i, buckets[r]) = Routed(i) + Count(i, s)
      /\ Count(i, buckets[r]) <= Routed(i) /\ Count(i, s) <= Routed(i)'
  BY <1>1, <1>2 DEF Routed, RouteNames
<1> QED
  BY <1>3, <1>4, <1>5

LEMMA RoutedPart ==
  ASSUME NEW i, \A r \in RouteNames : Count(i, buckets[r]) \in Nat
  PROVE  \A r \in RouteNames : Count(i, buckets[r]) <= Routed(i)
  BY DEF Routed, RouteNames

(* One queue changes.                                                      *)
LEMMA WaitingChange ==
  ASSUME IntakeTypeOK, NEW q \in QueueNames, NEW s, pending' = [pending EXCEPT ![q] = s],
         NEW i \in Intake!InBatch, Count(i, s) \in Nat
  PROVE  /\ Waiting(i)' \in Nat /\ Waiting(i)' + Count(i, pending[q]) = Waiting(i) + Count(i, s)
         /\ Count(i, pending[q]) <= Waiting(i) /\ Count(i, s) <= Waiting(i)'
         /\ \A p \in QueueNames : Count(i, pending'[p]) \in Nat /\ Count(i, pending'[p]) <= Waiting(i)'
<1>1. \A p \in QueueNames : Count(i, pending[p]) \in Nat
  BY PartsAre
<1>2. pending'[q] = s /\ \A p \in QueueNames \ {q} : pending'[p] = pending[p]
  BY DEF IntakeTypeOK
<1>3. \A p \in QueueNames : Count(i, pending'[p]) \in Nat /\ Count(i, pending[p])' = Count(i, pending'[p])
  BY <1>1, <1>2 DEF Count, At
<1>4. \A p \in QueueNames : Count(i, pending'[p]) <= Waiting(i)'
  BY <1>3 DEF Waiting, QueueNames
<1>5. /\ Waiting(i)' \in Nat /\ Waiting(i)' + Count(i, pending[q]) = Waiting(i) + Count(i, s)
      /\ Count(i, pending[q]) <= Waiting(i) /\ Count(i, s) <= Waiting(i)'
  BY <1>1, <1>2 DEF Waiting, QueueNames
<1> QED
  BY <1>3, <1>4, <1>5

LEMMA WaitingPart ==
  ASSUME NEW i, \A q \in QueueNames : Count(i, pending[q]) \in Nat
  PROVE  \A q \in QueueNames : Count(i, pending[q]) <= Waiting(i)
  BY DEF Waiting, QueueNames

LEMMA BatchSame ==
  ASSUME batch' = batch
  PROVE  /\ Intake!InBatch' = Intake!InBatch /\ Sidecars' = Sidecars /\ Videos' = Videos /\ Plain' = Plain
  BY DEF Intake!InBatch, Sidecars, Videos, Plain

LEMMA IntakeInitInv == Intake!Init => IntakeInv
<1> SUFFICES ASSUME Intake!Init PROVE IntakeInv
  OBVIOUS
<1>1. batch \in Seq(Intake!FileType) /\ batch # <<>> /\ Len(batch) \in Nat /\ Len(batch) > 0
  BY IntakeConstants DEF Intake!Init, Intake!IntakeAssumption
<1>2. Len(todo) = Len(batch) /\ Bucketed = 0 /\ todo = [k \in 1..Len(todo) |-> Bucketed + k]
  BY <1>1 DEF Intake!Init, Bucketed
<1>3. buckets \in [RouteNames -> Seq(Intake!InBatch)] /\ \A r \in RouteNames : buckets[r] = <<>>
  BY RoutesAre DEF Intake!Init
<1>4. /\ pending \in [QueueNames -> Seq(Intake!InBatch)] /\ \A q \in QueueNames : pending[q] = <<>>
  <2>1. pending = [q \in QueueNames |-> <<>>]
    <3>1. pending = [tabular |-> <<>>, unknown |-> <<>>, videos |-> <<>>]
      BY DEF Intake!Init
    <3>2. DOMAIN pending = QueueNames /\ \A q \in QueueNames : pending[q] = <<>>
      BY <3>1 DEF QueueNames
    <3>3. pending = [q \in DOMAIN pending |-> pending[q]]
      BY <3>1
    <3> QED
      BY <3>2, <3>3
  <2> QED
    BY <2>1
<1>5. DOMAIN sidecars = {}
  BY DEF Intake!Init
<1>6. timedBy \in [Intake!InBatch -> 0..Len(batch)] /\ \A i \in Intake!InBatch : timedBy[i] = 0
  BY <1>1 DEF Intake!Init, Intake!InBatch
<1>7. /\ stage = "bucket" /\ mp4s = <<>> /\ opened = {} /\ errors = <<>> /\ dropped = <<>>
  BY DEF Intake!Init
<1>8. IntakeTypeOK
  BY <1>1, <1>2, <1>3, <1>4, <1>5, <1>6, <1>7 DEF IntakeTypeOK
<1>9. OnePlace
  <2>1. ASSUME NEW i \in Intake!InBatch PROVE Total(i) = 1 /\ ~ HiddenNow(i)
    <3>1. InTodo(i) = 1 /\ InSidecars(i) = 0 /\ InSources(i) = 0
      BY <1>2, <1>5, <1>7, <1>8, BatchIs DEF InTodo, InSidecars, InSources
    <3>2. Routed(i) = 0 /\ Waiting(i) = 0
      BY <1>3, <1>4, CountEmpty DEF Routed, Waiting, RouteNames, QueueNames
    <3>3. Timing(i) = 0
      <4>1. TimedByIt(i) = {}
        BY <1>6, <1>8, BatchIs DEF TimedByIt
      <4> QED
        BY <4>1, FS_EmptySet DEF Timing
    <3>4. ~ HiddenNow(i)
      BY <1>2, <1>8, BatchIs DEF HiddenNow
    <3> QED
      BY <1>7, <3>1, <3>2, <3>3, <3>4, CountEmpty DEF Total
  <2> QED
    BY <2>1 DEF OnePlace
<1>10. StageOK
  BY <1>3, <1>4, <1>6, <1>7, <1>2 DEF StageOK, RouteNames
<1>11. VideoOK
  BY <1>3, <1>6, <1>7, <1>8, CountEmpty, BatchIs DEF VideoOK, RouteNames
<1>12. FitOK
  BY <1>2, <1>5, <1>8, BatchIs DEF FitOK
<1> QED
  BY <1>8, <1>9, <1>10, <1>11, <1>12 DEF IntakeInv

-----------------------------------------------------------------------------
(* Bucketing.                                                              *)

(* Until all files have a bucket none is further.                          *)
LEMMA EarlyParts ==
  ASSUME IntakeInv, stage = "bucket", NEW i \in Intake!InBatch
  PROVE  /\ Count(i, errors) = 0 /\ Count(i, dropped) = 0 /\ InSources(i) = 0 /\ Waiting(i) = 0
         /\ todo # <<>> => Timing(i) = 0 /\ (i \in Videos => Routed(i) = 0)
<1>1. /\ IntakeTypeOK /\ errors = <<>> /\ opened = {} /\ dropped = <<>>
      /\ \A q \in QueueNames : pending[q] = <<>>
  BY DEF IntakeInv, StageOK
<1>2. Count(i, errors) = 0 /\ Count(i, dropped) = 0 /\ InSources(i) = 0 /\ Waiting(i) = 0
  BY <1>1, CountEmpty DEF InSources, Waiting, QueueNames
<1>3. ASSUME todo # <<>> PROVE Timing(i) = 0 /\ (i \in Videos => Routed(i) = 0)
  <2>1. /\ buckets["pairs"] = <<>> /\ buckets["videos"] = <<>>
        /\ \A v \in Intake!InBatch : timedBy[v] = 0
    BY <1>3 DEF IntakeInv, StageOK
  <2>2. TimedByIt(i) = {}
    BY <1>1, <2>1, BatchIs DEF TimedByIt
  <2>3. Timing(i) = 0
    BY <2>2, FS_EmptySet DEF Timing
  <2>4. ASSUME i \in Videos, NEW r \in RouteNames PROVE Count(i, buckets[r]) = 0
    <3>1. i \notin Plain
      BY <1>1, <2>4, BatchIs
    <3>2. Count(i, buckets[r]) \in Nat /\ (Count(i, buckets[r]) > 0 => r \in {"pairs", "videos"})
      BY <1>1, <3>1, PartsAre
    <3>3. r \in {"pairs", "videos"} => Count(i, buckets[r]) = 0
      BY <2>1, CountEmpty
    <3> QED
      BY <3>2, <3>3
  <2>5. i \in Videos => Routed(i) = 0
    BY <2>4 DEF Routed, RouteNames
  <2> QED
    BY <2>3, <2>5
<1> QED
  BY <1>2, <1>3

(* The next file leaves the list.                                          *)
LEMMA NextFile ==
  ASSUME IntakeInv, stage = "bucket", todo # <<>>, todo' = Tail(todo), batch' = batch
  PROVE  /\ Head(todo) = Bucketed + 1 /\ Head(todo) \in Intake!InBatch /\ Bucketed' = Bucketed + 1
         /\ Len(todo') \in 0..Len(batch) /\ todo' = [k \in 1..Len(todo') |-> Bucketed' + k]
         /\ \A i \in Intake!InBatch : InTodo(i)' = IF i = Head(todo) THEN 0 ELSE InTodo(i)
         /\ InTodo(Head(todo)) = 1
         /\ ~ HiddenNow(Head(todo))
         /\ \A i \in Intake!InBatch : i > Bucketed => Total(i) = 1
<1>1. /\ Len(todo) \in 1..Len(batch) /\ Len(batch) \in Nat /\ Bucketed \in Nat
      /\ todo = [k \in 1..Len(todo) |-> Bucketed + k] /\ Intake!InBatch = 1..Len(batch)
      /\ Sidecars \subseteq Intake!InBatch
  BY BatchIs DEF IntakeInv, IntakeTypeOK, Intake!InBatch
<1>2. Head(todo) = Bucketed + 1
  BY <1>1
<1>3. Bucketed + Len(todo) = Len(batch)
  BY <1>1 DEF Bucketed
<1>4. /\ Len(todo') = Len(todo) - 1 /\ \A k \in 1..Len(todo') : todo'[k] = todo[k + 1]
      /\ todo' \in Seq(Nat)
  BY <1>1
<1>5. Bucketed' = Bucketed + 1
  BY <1>1, <1>4 DEF Bucketed
<1>6. todo' = [k \in 1..Len(todo') |-> Bucketed' + k]
  <2>1. \A k \in 1..Len(todo') : todo'[k] = Bucketed' + k
    BY <1>1, <1>4, <1>5
  <2>2. todo' = [k \in 1..Len(todo') |-> todo'[k]]
    BY <1>4, SeqIsFcn
  <2> QED
    BY <2>1, <2>2
<1>7. Head(todo) \in Intake!InBatch
  BY <1>1, <1>2, <1>3
<1>8. \A i \in Intake!InBatch : InTodo(i)' = IF i = Head(todo) THEN 0 ELSE InTodo(i)
  BY <1>1, <1>2, <1>5 DEF InTodo
<1>9. \A i \in Intake!InBatch : i > Bucketed => ~ HiddenNow(i)
  BY <1>1 DEF HiddenNow
<1>10. \A i \in Intake!InBatch : i > Bucketed => Total(i) = 1
  BY <1>9 DEF IntakeInv, OnePlace
<1> QED
  BY <1>1, <1>2, <1>4, <1>5, <1>6, <1>7, <1>8, <1>9, <1>10 DEF InTodo

(* A file that is in one place is in no other.                             *)
LEMMA Alone ==
  ASSUME IntakeInv, NEW i \in Intake!InBatch
  PROVE  /\ Total(i) \in {0, 1} /\ (~ HiddenNow(i) => Total(i) = 1)
         /\ InTodo(i) > 0 =>
              /\ InSidecars(i) = 0 /\ Count(i, mp4s) = 0 /\ Routed(i) = 0 /\ Count(i, errors) = 0
              /\ Count(i, dropped) = 0 /\ InSources(i) = 0 /\ Waiting(i) = 0 /\ Timing(i) = 0
         /\ InSidecars(i) > 0 =>
              /\ InSidecars(i) = 1
              /\ InTodo(i) = 0 /\ Count(i, mp4s) = 0 /\ Routed(i) = 0 /\ Count(i, errors) = 0
              /\ Count(i, dropped) = 0 /\ InSources(i) = 0 /\ Waiting(i) = 0 /\ Timing(i) = 0
         /\ Count(i, mp4s) > 0 =>
              /\ Count(i, mp4s) = 1
              /\ InTodo(i) = 0 /\ InSidecars(i) = 0 /\ Routed(i) = 0 /\ Count(i, errors) = 0
              /\ Count(i, dropped) = 0 /\ InSources(i) = 0 /\ Waiting(i) = 0 /\ Timing(i) = 0
         /\ Routed(i) > 0 =>
              /\ Routed(i) = 1
              /\ InTodo(i) = 0 /\ InSidecars(i) = 0 /\ Count(i, mp4s) = 0 /\ Count(i, errors) = 0
              /\ Count(i, dropped) = 0 /\ InSources(i) = 0 /\ Waiting(i) = 0 /\ Timing(i) = 0
         /\ Waiting(i) > 0 =>
              /\ Waiting(i) = 1
              /\ InTodo(i) = 0 /\ InSidecars(i) = 0 /\ Count(i, mp4s) = 0 /\ Routed(i) = 0
              /\ Count(i, errors) = 0 /\ Count(i, dropped) = 0 /\ InSources(i) = 0 /\ Timing(i) = 0
<1>1. IntakeTypeOK
  BY DEF IntakeInv
<1>2. Total(i) = IF HiddenNow(i) THEN 0 ELSE 1
  BY DEF IntakeInv, OnePlace
<1>3. Total(i) \in {0, 1} /\ Total(i) <= 1 /\ (~ HiddenNow(i) => Total(i) = 1)
  BY <1>2
<1>4. /\ InTodo(i) \in Nat /\ InSidecars(i) \in Nat /\ Count(i, mp4s) \in Nat /\ Routed(i) \in Nat
      /\ Count(i, errors) \in Nat /\ Count(i, dropped) \in Nat /\ InSources(i) \in Nat
      /\ Waiting(i) \in Nat /\ Timing(i) \in Nat
  BY <1>1, PartsAre
<1>5. InTodo(i) + InSidecars(i) + Count(i, mp4s) + Routed(i) + Count(i, errors)
      + Count(i, dropped) + InSources(i) + Waiting(i) + Timing(i) <= 1
  BY <1>3 DEF Total
<1>6. PICK a \in Nat : a = InTodo(i)
  BY <1>4
<1>7. PICK b \in Nat : b = InSidecars(i)
  BY <1>4
<1>8. PICK c \in Nat : c = Count(i, mp4s)
  BY <1>4
<1>9. PICK d \in Nat : d = Routed(i)
  BY <1>4
<1>10. PICK e \in Nat : e = Count(i, errors)
  BY <1>4
<1>11. PICK f \in Nat : f = Count(i, dropped)
  BY <1>4
<1>12. PICK g \in Nat : g = InSources(i)
  BY <1>4
<1>13. PICK h \in Nat : h = Waiting(i)
  BY <1>4
<1>14. PICK j \in Nat : j = Timing(i)
  BY <1>4
<1>15. a + b + c + d + e + f + g + h + j <= 1
  BY <1>5, <1>6, <1>7, <1>8, <1>9, <1>10, <1>11, <1>12, <1>13, <1>14
<1>16. /\ a > 0 => b = 0 /\ c = 0 /\ d = 0 /\ e = 0 /\ f = 0 /\ g = 0 /\ h = 0 /\ j = 0
       /\ b > 0 => b = 1 /\ a = 0 /\ c = 0 /\ d = 0 /\ e = 0 /\ f = 0 /\ g = 0 /\ h = 0 /\ j = 0
       /\ c > 0 => c = 1 /\ a = 0 /\ b = 0 /\ d = 0 /\ e = 0 /\ f = 0 /\ g = 0 /\ h = 0 /\ j = 0
       /\ d > 0 => d = 1 /\ a = 0 /\ b = 0 /\ c = 0 /\ e = 0 /\ f = 0 /\ g = 0 /\ h = 0 /\ j = 0
       /\ h > 0 => h = 1 /\ a = 0 /\ b = 0 /\ c = 0 /\ d = 0 /\ e = 0 /\ f = 0 /\ g = 0 /\ j = 0
  BY <1>15
<1> QED
  BY <1>3, <1>6, <1>7, <1>8, <1>9, <1>10, <1>11, <1>12, <1>13, <1>14, <1>16

(* What the bucketing of a file leaves alone.                              *)
LEMMA BucketRest ==
  ASSUME IntakeInv, stage = "bucket", todo # <<>>, todo' = Tail(todo),
         UNCHANGED <<batch, stage, timedBy, opened, errors, pending, dropped>>
  PROVE  /\ \A j \in Intake!InBatch : /\ Count(j, errors)' = Count(j, errors)
                               /\ Count(j, dropped)' = Count(j, dropped)
                               /\ InSources(j)' = InSources(j) /\ Waiting(j)' = Waiting(j)
                               /\ Timing(j)' = Timing(j)
         /\ buckets'["pairs"] = <<>> /\ buckets'["videos"] = <<>> => StageOK' /\ VideoOK'
         /\ /\ \A n \in DOMAIN sidecars' :
                 /\ sidecars'[n] \in Sidecars /\ sidecars'[n] <= Bucketed + 1
                 /\ batch[sidecars'[n]].name = n
            /\ mp4s' \in Seq(Videos)
            /\ buckets' \in [RouteNames -> Seq(Intake!InBatch)]
            /\ \A r \in RouteNames :
                 buckets'[r] \in Seq(IF r \in {"pairs", "videos"} THEN Videos ELSE Plain)
            => IntakeTypeOK'
<1>1. IntakeTypeOK
  BY DEF IntakeInv
<1>2. Intake!InBatch' = Intake!InBatch /\ Sidecars' = Sidecars /\ Videos' = Videos /\ Plain' = Plain
  BY BatchSame
<1>3. ASSUME NEW j \in Intake!InBatch
      PROVE  /\ Count(j, errors)' = Count(j, errors) /\ Count(j, dropped)' = Count(j, dropped)
             /\ InSources(j)' = InSources(j) /\ Waiting(j)' = Waiting(j)
             /\ Timing(j)' = Timing(j)
  <2>1. TimedByIt(j)' = TimedByIt(j)
    BY <1>2 DEF TimedByIt
  <2> QED
    BY <1>2, <2>1 DEF InSources, Waiting, Timing, Count, At
<1>4. ASSUME buckets'["pairs"] = <<>>, buckets'["videos"] = <<>> PROVE StageOK' /\ VideoOK'
  <2>1. /\ errors = <<>> /\ opened = {} /\ dropped = <<>>
        /\ \A q \in QueueNames : pending[q] = <<>>
        /\ \A v \in Intake!InBatch : timedBy[v] = 0
    BY DEF IntakeInv, StageOK
  <2>2. StageOK'
    BY <1>2, <1>4, <2>1 DEF StageOK
  <2>3. Videos \subseteq Intake!InBatch /\ 0 \notin Sidecars
    BY <1>1, BatchIs
  <2>4. VideoOK'
    <3>1. ASSUME NEW v \in Videos
          PROVE  /\ v \notin opened' /\ timedBy'[v] = 0 /\ timedBy'[v] \notin Sidecars'
                 /\ Count(v, buckets'["pairs"]) = 0
      BY <1>2, <1>4, <2>1, <2>3, CountEmpty
    <3>2. ASSUME NEW v \in Videos'
          PROVE  /\ v \in opened' => timedBy'[v] # 0 /\ Intake!Aligned(v, timedBy[v])'
                 /\ Count(v, mp4s') + Count(v, buckets'["videos"]) + Count(v, pending'["videos"]) > 0 =>
                      timedBy'[v] = 0
                 /\ Count(v, buckets'["pairs"]) > 0 => timedBy'[v] \in Sidecars'
                 /\ timedBy'[v] \in Sidecars' => batch'[timedBy'[v]].name = batch'[v].name
      BY <1>2, <3>1
    <3> QED
      BY <3>2 DEF VideoOK, Intake!Aligned, Count, At
  <2> QED
    BY <2>2, <2>4
<1>5. ASSUME /\ \A n \in DOMAIN sidecars' :
                  /\ sidecars'[n] \in Sidecars /\ sidecars'[n] <= Bucketed + 1
                  /\ batch[sidecars'[n]].name = n
             /\ mp4s' \in Seq(Videos)
             /\ buckets' \in [RouteNames -> Seq(Intake!InBatch)]
             /\ \A r \in RouteNames :
                  buckets'[r] \in Seq(IF r \in {"pairs", "videos"} THEN Videos ELSE Plain)
      PROVE  IntakeTypeOK'
  <2>1. /\ batch' \in Seq(Intake!FileType) /\ batch' # <<>> /\ stage' \in {"bucket", "sniff", "open", "dialogs"}
        /\ timedBy' \in [Intake!InBatch -> 0..Len(batch')] /\ opened' \subseteq Videos \cup Plain
        /\ errors' \in Seq(Intake!InBatch) /\ dropped' \in Seq(Videos \cup Plain)
        /\ pending' \in [QueueNames -> Seq(Intake!InBatch)]
        /\ \A q \in QueueNames : pending'[q] \in Seq(IF q = "videos" THEN Videos ELSE Plain)
    BY <1>1 DEF IntakeTypeOK
  <2>2. /\ Len(todo') \in 0..Len(batch') /\ todo' = [k \in 1..Len(todo') |-> Bucketed' + k]
        /\ Bucketed' = Bucketed + 1
    BY NextFile
  <2> QED
    BY <1>2, <1>5, <2>1, <2>2 DEF IntakeTypeOK
<1> QED
  BY <1>3, <1>4, <1>5

LEMMA BucketSidecar ==
  ASSUME IntakeInv, stage = "bucket", todo # <<>>, todo' = Tail(todo),
         UNCHANGED <<batch, stage, timedBy, opened, errors, pending, dropped, mp4s, buckets>>,
         batch[Head(todo)].ext = "sidecar",
         sidecars' = [n \in DOMAIN sidecars \cup {batch[Head(todo)].name} |->
                        IF n = batch[Head(todo)].name THEN Head(todo) ELSE sidecars[n]]
  PROVE  IntakeInv'
<1> DEFINE i == Head(todo)
           f == batch[i].name
<1>1. IntakeTypeOK /\ StageOK /\ VideoOK /\ FitOK
  BY DEF IntakeInv
<1>2. Intake!InBatch' = Intake!InBatch /\ Sidecars' = Sidecars /\ Videos' = Videos /\ Plain' = Plain
  BY BatchSame
<1>3. /\ i = Bucketed + 1 /\ i \in Intake!InBatch /\ Bucketed' = Bucketed + 1
      /\ \A j \in Intake!InBatch : InTodo(j)' = IF j = i THEN 0 ELSE InTodo(j)
      /\ InTodo(i) = 1 /\ ~ HiddenNow(i)
  BY NextFile
<1>4. i \in Sidecars /\ Sidecars \subseteq Intake!InBatch /\ Intake!InBatch \subseteq Nat /\ Bucketed \in Nat
      /\ Videos \subseteq Intake!InBatch /\ Sidecars \cap Videos = {}
  BY <1>1, <1>3, BatchIs DEF Sidecars
<1>5. /\ DOMAIN sidecars' = DOMAIN sidecars \cup {f} /\ sidecars'[f] = i
      /\ \A n \in DOMAIN sidecars : n # f => sidecars'[n] = sidecars[n]
  OBVIOUS
<1>6. \A n \in DOMAIN sidecars : /\ sidecars[n] \in Sidecars /\ sidecars[n] <= Bucketed
                                 /\ batch[sidecars[n]].name = n
  BY <1>1 DEF IntakeTypeOK
<1> HIDE DEF i, f
<1>7. batch[i].name = f
  BY DEF f, i
<1>8. IntakeTypeOK'
  <2>1. ASSUME NEW n \in DOMAIN sidecars'
        PROVE  /\ sidecars'[n] \in Sidecars /\ sidecars'[n] <= Bucketed + 1
               /\ batch[sidecars'[n]].name = n
    <3>1. CASE n = f
      BY <1>3, <1>4, <1>5, <1>7, <3>1
    <3>2. CASE n # f
      <4>1. PICK s \in Sidecars : s = sidecars[n] /\ s <= Bucketed /\ batch[s].name = n
        BY <1>5, <1>6, <2>1, <3>2
      <4>2. s <= Bucketed + 1
        BY <1>4, <4>1
      <4> QED
        BY <1>5, <2>1, <3>2, <4>1, <4>2
    <3> QED
      BY <3>1, <3>2
  <2>2. /\ mp4s' \in Seq(Videos) /\ buckets' \in [RouteNames -> Seq(Intake!InBatch)]
        /\ \A r \in RouteNames :
             buckets'[r] \in Seq(IF r \in {"pairs", "videos"} THEN Videos ELSE Plain)
    BY <1>1 DEF IntakeTypeOK
  <2> QED
    BY <2>1, <2>2, BucketRest
<1>9. StageOK' /\ VideoOK'
  <2>1. buckets'["pairs"] = <<>> /\ buckets'["videos"] = <<>>
    BY <1>1 DEF StageOK
  <2> QED
    BY <2>1, BucketRest
<1>10. \A j \in Intake!InBatch :
         /\ Count(j, mp4s)' = Count(j, mp4s) /\ Routed(j)' = Routed(j)
         /\ Count(j, errors)' = Count(j, errors) /\ Count(j, dropped)' = Count(j, dropped)
         /\ InSources(j)' = InSources(j) /\ Waiting(j)' = Waiting(j) /\ Timing(j)' = Timing(j)
  <2>1. \A j \in Intake!InBatch : Count(j, mp4s)' = Count(j, mp4s) /\ Routed(j)' = Routed(j)
    BY DEF Count, At, Routed
  <2> QED
    BY <2>1, BucketRest
(* A sidecar in a bucket that none came after is kept by its name.         *)
<1>11. ASSUME NEW j \in Sidecars, j <= Bucketed, ~ HiddenNow(j)
       PROVE  /\ batch[j].name \in DOMAIN sidecars /\ sidecars[batch[j].name] = j
              /\ InSidecars(j) = 1
  <2>1. Total(j) = 1
    BY <1>4, <1>11, Alone
  <2>2. InTodo(j) = 0
    BY <1>4, <1>11 DEF InTodo
  <2>3. Count(j, mp4s) = 0 /\ Routed(j) = 0
    BY <1>1, <1>4, PartsAre
  <2>4. /\ Count(j, errors) = 0 /\ Count(j, dropped) = 0 /\ InSources(j) = 0 /\ Waiting(j) = 0
        /\ Timing(j) = 0
    BY <1>4, EarlyParts
  <2>5. InSidecars(j) \in Nat
    BY <1>1, <1>4, PartsAre
  <2>6. InSidecars(j) = 1
    BY <2>1, <2>2, <2>3, <2>4, <2>5 DEF Total
  <2>7. PICK n \in DOMAIN sidecars : sidecars[n] = j
    BY <2>6 DEF InSidecars
  <2> QED
    BY <1>6, <2>6, <2>7
<1>12. OnePlace'
  <2>1. ASSUME NEW j \in Intake!InBatch PROVE Total(j)' = IF HiddenNow(j)' THEN 0 ELSE 1
    <3>1. HiddenNow(j)' <=> \/ HiddenNow(j)
                            \/ j \in Sidecars /\ j <= Bucketed /\ batch[j].name = f
      BY <1>2, <1>3, <1>4, <1>7 DEF HiddenNow
    <3>2. Total(j) = IF HiddenNow(j) THEN 0 ELSE 1
      BY DEF IntakeInv, OnePlace
    <3>3. CASE j = i
      <4>1. ~ HiddenNow(j)'
        BY <1>3, <1>4, <3>1, <3>3
      <4>2. InTodo(j)' = 0 /\ InSidecars(j)' = 1
        BY <1>3, <1>5, <3>3 DEF InSidecars
      <4>3. /\ Count(j, mp4s) = 0 /\ Routed(j) = 0 /\ Count(j, errors) = 0
            /\ Count(j, dropped) = 0 /\ InSources(j) = 0 /\ Waiting(j) = 0 /\ Timing(j) = 0
        BY <1>3, <3>3, Alone
      <4> QED
        BY <1>10, <4>1, <4>2, <4>3 DEF Total
    <3>4. CASE f \in DOMAIN sidecars /\ j = sidecars[f]
      <4>1. j \in Sidecars /\ j <= Bucketed /\ batch[j].name = f
        BY <1>6, <3>4
      <4>2. HiddenNow(j)'
        BY <3>1, <4>1
      <4>3. InSidecars(j) = 1
        BY <3>4 DEF InSidecars
      <4>4. InSidecars(j)' = 0
        <5>1. \A n \in DOMAIN sidecars' : sidecars'[n] # j
          BY <1>3, <1>4, <1>5, <1>6, <4>1
        <5> QED
          BY <5>1 DEF InSidecars
      <4>5. /\ InTodo(j) = 0 /\ Count(j, mp4s) = 0 /\ Routed(j) = 0 /\ Count(j, errors) = 0
            /\ Count(j, dropped) = 0 /\ InSources(j) = 0 /\ Waiting(j) = 0 /\ Timing(j) = 0
        BY <4>3, Alone
      <4>6. InTodo(j)' = 0
        BY <1>3, <4>5
      <4> QED
        BY <1>10, <4>2, <4>4, <4>5, <4>6 DEF Total
    <3>5. CASE j # i /\ ~ (f \in DOMAIN sidecars /\ j = sidecars[f])
      <4>1. HiddenNow(j)' <=> HiddenNow(j)
        BY <1>11, <3>1, <3>5
      <4>2. InSidecars(j)' = InSidecars(j)
        <5>1. (\E n \in DOMAIN sidecars' : sidecars'[n] = j)
              <=> \E n \in DOMAIN sidecars : sidecars[n] = j
          BY <1>5, <3>5
        <5> QED
          BY <5>1 DEF InSidecars
      <4>3. InTodo(j)' = InTodo(j)
        BY <1>3, <3>5
      <4> QED
        BY <1>10, <3>2, <4>1, <4>2, <4>3 DEF Total
    <3> QED
      BY <3>3, <3>4, <3>5
  <2> QED
    BY <1>2, <2>1 DEF OnePlace
<1>13. FitOK'
  <2>1. ASSUME NEW v \in Videos, v <= Bucketed' PROVE Count(v, mp4s') > 0
    <3>1. v \in Intake!InBatch /\ v <= Bucketed
      BY <1>3, <1>4, <2>1
    <3>2. Total(v) = 1
      BY <1>4, <3>1, Alone DEF HiddenNow
    <3>3. InTodo(v) = 0 /\ InSidecars(v) = 0
      <4>1. InTodo(v) = 0
        <5>1. v \in Nat
          BY <1>4, <3>1
        <5> QED
          BY <1>4, <3>1, <5>1 DEF InTodo
      <4>2. \A n \in DOMAIN sidecars : sidecars[n] # v
        BY <1>4, <1>6, <2>1
      <4> QED
        BY <4>1, <4>2 DEF InSidecars
    <3>4. /\ Routed(v) = 0 /\ Count(v, errors) = 0 /\ Count(v, dropped) = 0 /\ InSources(v) = 0
          /\ Waiting(v) = 0 /\ Timing(v) = 0
      BY <3>1, EarlyParts
    <3>5. Count(v, mp4s) \in Nat
      BY <1>1, <3>1, PartsAre
    <3>6. Count(v, mp4s) = 1
      BY <3>2, <3>3, <3>4, <3>5 DEF Total
    <3> QED
      BY <3>6
  <2>2. ASSUME NEW s \in Sidecars, s <= Bucketed'
        PROVE  \/ stage' = "bucket" /\ batch'[s].name \in DOMAIN sidecars'
               \/ \E v \in Videos' : batch'[v].name = batch'[s].name /\ timedBy'[v] \in Sidecars'
    <3>1. CASE s <= Bucketed
      BY <1>1, <1>2, <1>5, <2>2, <3>1 DEF FitOK
    <3>2. CASE s = i
      BY <1>5, <1>7, <3>2
    <3> QED
      BY <1>3, <1>4, <2>2, <3>1, <3>2
  <2> QED
    BY <1>2, <2>1, <2>2 DEF FitOK, Count, At
<1> QED
  BY <1>8, <1>9, <1>12, <1>13 DEF IntakeInv

LEMMA BucketVideo ==
  ASSUME IntakeInv, stage = "bucket", todo # <<>>, todo' = Tail(todo),
         UNCHANGED <<batch, stage, timedBy, opened, errors, pending, dropped, sidecars, buckets>>,
         batch[Head(todo)].ext = "mp4", mp4s' = Append(mp4s, Head(todo))
  PROVE  IntakeInv'
<1> DEFINE i == Head(todo)
<1>1. IntakeTypeOK /\ StageOK /\ VideoOK /\ FitOK
  BY DEF IntakeInv
<1>2. Intake!InBatch' = Intake!InBatch /\ Sidecars' = Sidecars /\ Videos' = Videos /\ Plain' = Plain
  BY BatchSame
<1>3. /\ i = Bucketed + 1 /\ i \in Intake!InBatch /\ Bucketed' = Bucketed + 1
      /\ \A j \in Intake!InBatch : InTodo(j)' = IF j = i THEN 0 ELSE InTodo(j)
      /\ InTodo(i) = 1 /\ ~ HiddenNow(i)
  BY NextFile
<1>4. i \in Videos /\ Sidecars \subseteq Intake!InBatch /\ Intake!InBatch \subseteq Nat /\ Bucketed \in Nat
      /\ Videos \subseteq Intake!InBatch /\ Sidecars \cap Videos = {}
  BY <1>1, <1>3, BatchIs DEF Videos
<1> HIDE DEF i
<1>5. mp4s \in Seq(Videos) /\ mp4s' \in Seq(Videos)
      /\ \A j : Count(j, mp4s') = Count(j, mp4s) + (IF i = j THEN 1 ELSE 0)
  BY <1>1, <1>4, CountAppend DEF IntakeTypeOK, i
<1>6. \A n \in DOMAIN sidecars : /\ sidecars[n] \in Sidecars /\ sidecars[n] <= Bucketed
                                 /\ batch[sidecars[n]].name = n
  BY <1>1 DEF IntakeTypeOK
<1>8. IntakeTypeOK'
  <2>1. \A n \in DOMAIN sidecars' : /\ sidecars'[n] \in Sidecars /\ sidecars'[n] <= Bucketed + 1
                                    /\ batch[sidecars'[n]].name = n
    <3>1. \A n \in DOMAIN sidecars : sidecars[n] \in Nat
      BY <1>4, <1>6
    <3> QED
      BY <1>4, <1>6, <3>1
  <2>2. /\ mp4s' \in Seq(Videos) /\ buckets' \in [RouteNames -> Seq(Intake!InBatch)]
        /\ \A r \in RouteNames :
             buckets'[r] \in Seq(IF r \in {"pairs", "videos"} THEN Videos ELSE Plain)
    BY <1>1, <1>5 DEF IntakeTypeOK
  <2> QED
    BY <2>1, <2>2, BucketRest
<1>9. StageOK' /\ VideoOK'
  <2>1. buckets'["pairs"] = <<>> /\ buckets'["videos"] = <<>>
    BY <1>1 DEF StageOK
  <2> QED
    BY <2>1, BucketRest
<1>10. \A j \in Intake!InBatch :
         /\ InSidecars(j)' = InSidecars(j) /\ Routed(j)' = Routed(j)
         /\ Count(j, errors)' = Count(j, errors) /\ Count(j, dropped)' = Count(j, dropped)
         /\ InSources(j)' = InSources(j) /\ Waiting(j)' = Waiting(j) /\ Timing(j)' = Timing(j)
  <2>1. \A j \in Intake!InBatch : InSidecars(j)' = InSidecars(j) /\ Routed(j)' = Routed(j)
    BY DEF InSidecars, Count, At, Routed
  <2> QED
    BY <2>1, BucketRest
<1>11. \A j : Count(j, mp4s)' = Count(j, mp4s')
  BY DEF Count, At
<1>12. OnePlace'
  <2>1. ASSUME NEW j \in Intake!InBatch PROVE Total(j)' = IF HiddenNow(j)' THEN 0 ELSE 1
    <3>1. HiddenNow(j)' <=> HiddenNow(j)
      BY <1>2, <1>3, <1>4 DEF HiddenNow
    <3>2. Total(j) = IF HiddenNow(j) THEN 0 ELSE 1
      BY DEF IntakeInv, OnePlace
    <3>3. CASE j = i
      <4>1. ~ HiddenNow(j)'
        BY <1>3, <3>1, <3>3
      <4>2. /\ InSidecars(j) = 0 /\ Count(j, mp4s) = 0 /\ Routed(j) = 0 /\ Count(j, errors) = 0
            /\ Count(j, dropped) = 0 /\ InSources(j) = 0 /\ Waiting(j) = 0 /\ Timing(j) = 0
        BY <1>3, <3>3, Alone
      <4>3. InTodo(j)' = 0 /\ Count(j, mp4s)' = 1
        BY <1>3, <1>5, <1>11, <3>3, <4>2
      <4> QED
        BY <1>10, <4>1, <4>2, <4>3 DEF Total
    <3>4. CASE j # i
      <4>1. Count(j, mp4s) \in Nat
        BY <1>1, PartsAre
      <4>2. InTodo(j)' = InTodo(j) /\ Count(j, mp4s)' = Count(j, mp4s)
        BY <1>3, <1>5, <1>11, <3>4, <4>1
      <4> QED
        BY <1>10, <3>1, <3>2, <4>2 DEF Total
    <3> QED
      BY <3>3, <3>4
  <2> QED
    BY <1>2, <2>1 DEF OnePlace
<1>13. FitOK'
  <2>1. ASSUME NEW v \in Videos, v <= Bucketed', batch[v].name \in DOMAIN sidecars
        PROVE  Count(v, mp4s') > 0
    <3>1. Count(v, mp4s) \in Nat
      BY <1>1, <1>4, PartsAre
    <3>2. CASE v = i
      BY <1>5, <3>1, <3>2
    <3>3. CASE v # i
      <4>1. v <= Bucketed
        BY <1>3, <1>4, <2>1, <3>3
      <4>2. Count(v, mp4s) > 0
        BY <1>1, <2>1, <4>1 DEF FitOK, IntakeInv, StageOK
      <4> QED
        BY <1>5, <3>1, <3>3, <4>2
    <3> QED
      BY <3>2, <3>3
  <2>2. ASSUME NEW s \in Sidecars, s <= Bucketed'
        PROVE  \/ stage' = "bucket" /\ batch'[s].name \in DOMAIN sidecars'
               \/ \E v \in Videos' : batch'[v].name = batch'[s].name /\ timedBy'[v] \in Sidecars'
    <3>1. s <= Bucketed
      BY <1>3, <1>4, <2>2
    <3> QED
      BY <1>1, <1>2, <3>1 DEF FitOK
  <2> QED
    BY <1>2, <1>11, <2>1, <2>2 DEF FitOK
<1> QED
  BY <1>8, <1>9, <1>12, <1>13 DEF IntakeInv

LEMMA BucketPlain ==
  ASSUME IntakeInv, stage = "bucket", todo # <<>>, todo' = Tail(todo),
         UNCHANGED <<batch, stage, timedBy, opened, errors, pending, dropped, sidecars, mp4s>>,
         batch[Head(todo)].ext \notin {"sidecar", "mp4"},
         buckets' = [buckets EXCEPT ![Intake!Route(batch[Head(todo)].ext)] = Append(@, Head(todo))]
  PROVE  IntakeInv'
<1> DEFINE i == Head(todo)
           r == Intake!Route(batch[i].ext)
           q == Append(buckets[r], i)
<1>1. IntakeTypeOK /\ StageOK /\ VideoOK /\ FitOK
  BY DEF IntakeInv
<1>2. Intake!InBatch' = Intake!InBatch /\ Sidecars' = Sidecars /\ Videos' = Videos /\ Plain' = Plain
  BY BatchSame
<1>3. /\ i = Bucketed + 1 /\ i \in Intake!InBatch /\ Bucketed' = Bucketed + 1
      /\ \A j \in Intake!InBatch : InTodo(j)' = IF j = i THEN 0 ELSE InTodo(j)
      /\ InTodo(i) = 1 /\ ~ HiddenNow(i)
  BY NextFile
<1>4. /\ i \in Plain /\ Sidecars \subseteq Intake!InBatch /\ Intake!InBatch \subseteq Nat /\ Bucketed \in Nat
      /\ Videos \subseteq Intake!InBatch /\ Plain \subseteq Intake!InBatch
      /\ Sidecars \cap Plain = {} /\ Videos \cap Plain = {}
  <2>1. i \in Plain
    BY <1>3 DEF Plain, Sidecars, Videos
  <2> QED
    BY <1>1, <2>1, BatchIs
<1>5. r \in RouteNames \ {"pairs", "videos"}
  BY DEF Intake!Route, RouteNames
<1>6. buckets' = [buckets EXCEPT ![r] = q]
  OBVIOUS
<1> HIDE DEF i, r
<1>7. buckets[r] \in Seq(Plain)
  BY <1>1, <1>5 DEF IntakeTypeOK
<1>8. q \in Seq(Plain) /\ \A j : Count(j, q) = Count(j, buckets[r]) + (IF i = j THEN 1 ELSE 0)
  BY <1>4, <1>7, CountAppend
<1> HIDE DEF q
<1>9. buckets \in [RouteNames -> Seq(Intake!InBatch)] /\ q \in Seq(Intake!InBatch)
  BY <1>1, <1>4, <1>8, SeqSub DEF IntakeTypeOK
<1>10. buckets' \in [RouteNames -> Seq(Intake!InBatch)]
  BY <1>5, <1>6, <1>9
<1>11. buckets'[r] = q /\ \A p \in RouteNames : p # r => buckets'[p] = buckets[p]
  BY <1>5, <1>6, <1>9
<1>12. buckets'["pairs"] = <<>> /\ buckets'["videos"] = <<>>
  <2>1. buckets["pairs"] = <<>> /\ buckets["videos"] = <<>>
    BY <1>1 DEF StageOK
  <2> QED
    BY <1>5, <1>11, <2>1 DEF RouteNames
<1>13. IntakeTypeOK'
  <2>1. \A n \in DOMAIN sidecars' : /\ sidecars'[n] \in Sidecars /\ sidecars'[n] <= Bucketed + 1
                                    /\ batch[sidecars'[n]].name = n
    <3>1. \A n \in DOMAIN sidecars : /\ sidecars[n] \in Sidecars /\ sidecars[n] <= Bucketed
                                     /\ batch[sidecars[n]].name = n
      BY <1>1 DEF IntakeTypeOK
    <3>2. \A n \in DOMAIN sidecars : sidecars[n] \in Nat
      BY <1>4, <3>1
    <3> QED
      BY <1>4, <3>1, <3>2
  <2>2. ASSUME NEW p \in RouteNames
        PROVE  buckets'[p] \in Seq(IF p \in {"pairs", "videos"} THEN Videos ELSE Plain)
    <3>1. buckets[p] \in Seq(IF p \in {"pairs", "videos"} THEN Videos ELSE Plain)
      BY <1>1 DEF IntakeTypeOK
    <3> QED
      BY <1>5, <1>8, <1>11, <3>1
  <2>3. mp4s' \in Seq(Videos)
    BY <1>1 DEF IntakeTypeOK
  <2> QED
    BY <1>10, <2>1, <2>2, <2>3, BucketRest
<1>14. StageOK' /\ VideoOK'
  BY <1>12, BucketRest
<1>15. \A j \in Intake!InBatch :
         /\ InSidecars(j)' = InSidecars(j) /\ Count(j, mp4s)' = Count(j, mp4s)
         /\ Count(j, errors)' = Count(j, errors) /\ Count(j, dropped)' = Count(j, dropped)
         /\ InSources(j)' = InSources(j) /\ Waiting(j)' = Waiting(j) /\ Timing(j)' = Timing(j)
  <2>1. \A j \in Intake!InBatch : InSidecars(j)' = InSidecars(j) /\ Count(j, mp4s)' = Count(j, mp4s)
    BY DEF InSidecars, Count, At
  <2> QED
    BY <2>1, BucketRest
<1>16. ASSUME NEW j \in Intake!InBatch
       PROVE  Routed(j)' = Routed(j) + (IF i = j THEN 1 ELSE 0)
  <2>1. Count(j, buckets[r]) \in Nat /\ Routed(j) \in Nat
    BY <1>1, <1>5, PartsAre
  <2>2. Count(j, q) = Count(j, buckets[r]) + (IF i = j THEN 1 ELSE 0)
    BY <1>8
  <2>3. Count(j, q) \in Nat
    BY <2>1, <2>2
  <2>4. Routed(j)' \in Nat /\ Routed(j)' + Count(j, buckets[r]) = Routed(j) + Count(j, q)
    BY <1>1, <1>5, <1>6, <2>3, RoutedChange
  <2>6. PICK a \in Nat : a = Routed(j)'
    BY <2>4
  <2>7. PICK b \in Nat : b = Routed(j)
    BY <2>1
  <2>8. PICK c \in Nat : c = Count(j, buckets[r])
    BY <2>1
  <2>9. a + c = b + (c + (IF i = j THEN 1 ELSE 0))
    BY <2>2, <2>4, <2>6, <2>7, <2>8
  <2>10. a = b + (IF i = j THEN 1 ELSE 0)
    BY <2>9
  <2> QED
    BY <2>6, <2>7, <2>10
<1>17. OnePlace'
  <2>1. ASSUME NEW j \in Intake!InBatch PROVE Total(j)' = IF HiddenNow(j)' THEN 0 ELSE 1
    <3>1. HiddenNow(j)' <=> HiddenNow(j)
      BY <1>2, <1>3, <1>4 DEF HiddenNow
    <3>2. Total(j) = IF HiddenNow(j) THEN 0 ELSE 1
      BY DEF IntakeInv, OnePlace
    <3>3. CASE j = i
      <4>1. ~ HiddenNow(j)'
        BY <1>3, <3>1, <3>3
      <4>2. /\ InSidecars(j) = 0 /\ Count(j, mp4s) = 0 /\ Routed(j) = 0 /\ Count(j, errors) = 0
            /\ Count(j, dropped) = 0 /\ InSources(j) = 0 /\ Waiting(j) = 0 /\ Timing(j) = 0
        BY <1>3, <3>3, Alone
      <4>3. InTodo(j)' = 0 /\ Routed(j)' = 1
        BY <1>3, <1>16, <3>3, <4>2
      <4> QED
        BY <1>15, <4>1, <4>2, <4>3 DEF Total
    <3>4. CASE j # i
      <4>1. Routed(j) \in Nat
        BY <1>1, PartsAre
      <4>2. InTodo(j)' = InTodo(j) /\ Routed(j)' = Routed(j)
        BY <1>3, <1>16, <3>4, <4>1
      <4> QED
        BY <1>15, <3>1, <3>2, <4>2 DEF Total
    <3> QED
      BY <3>3, <3>4
  <2> QED
    BY <1>2, <2>1 DEF OnePlace
<1>18. FitOK'
  <2>1. ASSUME NEW v \in Videos, v <= Bucketed', batch[v].name \in DOMAIN sidecars
        PROVE  Count(v, mp4s) > 0
    <3>1. v <= Bucketed
      BY <1>3, <1>4, <2>1
    <3> QED
      BY <1>1, <2>1, <3>1 DEF FitOK
  <2>2. ASSUME NEW s \in Sidecars, s <= Bucketed'
        PROVE  \/ stage' = "bucket" /\ batch'[s].name \in DOMAIN sidecars'
               \/ \E v \in Videos' : batch'[v].name = batch'[s].name /\ timedBy'[v] \in Sidecars'
    <3>1. s <= Bucketed
      BY <1>3, <1>4, <2>2
    <3> QED
      BY <1>1, <1>2, <3>1 DEF FitOK
  <2> QED
    BY <1>2, <1>15, <1>4, <2>1, <2>2 DEF FitOK
<1> QED
  BY <1>13, <1>14, <1>17, <1>18 DEF IntakeInv

LEMMA BucketInv == ASSUME IntakeInv, Intake!Bucket PROVE IntakeInv'
<1>1. CASE batch[Head(todo)].ext = "sidecar"
  BY <1>1, BucketSidecar DEF Intake!Bucket
<1>2. CASE batch[Head(todo)].ext = "mp4"
  BY <1>2, BucketVideo DEF Intake!Bucket
<1>3. CASE batch[Head(todo)].ext \notin {"sidecar", "mp4"}
  BY <1>3, BucketPlain DEF Intake!Bucket
<1> QED
  BY <1>1, <1>2, <1>3

(* The next video leaves the list for one of the two buckets of videos.    *)
LEMMA PairRest ==
  ASSUME IntakeInv, NEW r \in {"pairs", "videos"}, stage = "bucket", todo = <<>>, mp4s # <<>>,
         mp4s' = Tail(mp4s), buckets' = [buckets EXCEPT ![r] = Append(@, Head(mp4s))],
         UNCHANGED <<batch, stage, todo, opened, errors, pending, dropped>>
  PROVE  /\ Head(mp4s) \in Videos /\ mp4s' \in Seq(Videos) /\ timedBy[Head(mp4s)] = 0
         /\ Count(Head(mp4s), mp4s) = 1 /\ Count(Head(mp4s), mp4s') = 0
         /\ buckets' \in [RouteNames -> Seq(Intake!InBatch)]
         /\ \A p \in RouteNames :
              buckets'[p] \in Seq(IF p \in {"pairs", "videos"} THEN Videos ELSE Plain)
         /\ \A j \in Intake!InBatch :
              /\ Count(j, mp4s') = IF j = Head(mp4s) THEN 0 ELSE Count(j, mp4s)
              /\ Routed(j)' = IF j = Head(mp4s) THEN 1 ELSE Routed(j)
              /\ Count(j, buckets'[r]) = IF j = Head(mp4s) THEN 1 ELSE Count(j, buckets[r])
         /\ \A p \in RouteNames : p # r => buckets'[p] = buckets[p]
         /\ \A p \in RouteNames : Count(Head(mp4s), buckets[p]) = 0
<1> DEFINE i == Head(mp4s)
           q == Append(buckets[r], i)
<1>1. IntakeTypeOK
  BY DEF IntakeInv
<1>2. mp4s \in Seq(Videos) /\ r \in RouteNames /\ Videos \subseteq Intake!InBatch
  BY <1>1, BatchIs DEF IntakeTypeOK, RouteNames
<1>3. /\ i \in Videos /\ mp4s' \in Seq(Videos)
      /\ \A j : Count(j, mp4s) = Count(j, mp4s') + (IF i = j THEN 1 ELSE 0)
  BY <1>2, CountTail
<1>4. \A j : Count(j, mp4s') \in Nat
  BY <1>3, CountIs
<1>5. buckets' = [buckets EXCEPT ![r] = q]
  OBVIOUS
<1> HIDE DEF i
<1>6. Count(i, mp4s) > 0
  <2>1. Count(i, mp4s) = Count(i, mp4s') + 1
    BY <1>3
  <2> QED
    BY <1>4, <2>1
<1>7. /\ Count(i, mp4s) = 1 /\ Routed(i) = 0 /\ timedBy[i] = 0
  <2>1. Count(i, mp4s) = 1 /\ Routed(i) = 0
    BY <1>2, <1>3, <1>6, Alone
  <2>2. Count(i, buckets["videos"]) \in Nat /\ Count(i, pending["videos"]) \in Nat
    BY <1>1, <1>2, <1>3, PartsAre DEF RouteNames, QueueNames
  <2>3. Count(i, mp4s) + Count(i, buckets["videos"]) + Count(i, pending["videos"]) > 0
    BY <2>1, <2>2
  <2> QED
    BY <1>3, <2>1, <2>3 DEF IntakeInv, VideoOK
<1>8. \A j : Count(j, mp4s') = IF j = i THEN 0 ELSE Count(j, mp4s)
  <2>1. ASSUME NEW j PROVE Count(j, mp4s') = IF j = i THEN 0 ELSE Count(j, mp4s)
    <3>1. Count(j, mp4s') \in Nat /\ Count(j, mp4s) = Count(j, mp4s') + (IF i = j THEN 1 ELSE 0)
      BY <1>3, <1>4
    <3>2. j = i => Count(j, mp4s) = 1
      BY <1>7
    <3> QED
      BY <3>1, <3>2
  <2> QED
    BY <2>1
<1>9. buckets[r] \in Seq(Videos) /\ buckets \in [RouteNames -> Seq(Intake!InBatch)]
  BY <1>1, <1>2 DEF IntakeTypeOK
<1>10. q \in Seq(Videos) /\ \A j : Count(j, q) = Count(j, buckets[r]) + (IF i = j THEN 1 ELSE 0)
  BY <1>3, <1>9, CountAppend
<1> HIDE DEF q
<1>11. q \in Seq(Intake!InBatch)
  BY <1>2, <1>10, SeqSub
<1>12. /\ buckets' \in [RouteNames -> Seq(Intake!InBatch)] /\ buckets'[r] = q
       /\ \A p \in RouteNames : p # r => buckets'[p] = buckets[p]
  BY <1>2, <1>5, <1>9, <1>11
<1>13. ASSUME NEW p \in RouteNames
       PROVE  buckets'[p] \in Seq(IF p \in {"pairs", "videos"} THEN Videos ELSE Plain)
  <2>1. buckets[p] \in Seq(IF p \in {"pairs", "videos"} THEN Videos ELSE Plain)
    BY <1>1 DEF IntakeTypeOK
  <2> QED
    BY <1>10, <1>12, <2>1
<1>14. \A p \in RouteNames : Count(i, buckets[p]) = 0
  <2>1. ASSUME NEW p \in RouteNames PROVE Count(i, buckets[p]) = 0
    <3>1. \A p2 \in RouteNames : Count(i, buckets[p2]) \in Nat
      BY <1>1, <1>2, <1>3, PartsAre
    <3>2. Count(i, buckets[p]) <= Routed(i)
      BY <3>1, RoutedPart
    <3> QED
      BY <1>7, <3>1, <3>2
  <2> QED
    BY <2>1
<1>15. ASSUME NEW j \in Intake!InBatch
       PROVE  /\ Routed(j)' = IF j = i THEN 1 ELSE Routed(j)
              /\ Count(j, q) = IF j = i THEN 1 ELSE Count(j, buckets[r])
  <2>1. Count(j, buckets[r]) \in Nat /\ Routed(j) \in Nat
    BY <1>1, <1>2, PartsAre
  <2>2. Count(j, q) = Count(j, buckets[r]) + (IF i = j THEN 1 ELSE 0)
    BY <1>10
  <2>3. Count(j, q) \in Nat
    BY <2>1, <2>2
  <2>4. Routed(j)' \in Nat /\ Routed(j)' + Count(j, buckets[r]) = Routed(j) + Count(j, q)
    BY <1>1, <1>2, <1>5, <2>3, RoutedChange
  <2>5. j = i => Routed(j) = 0 /\ Count(j, buckets[r]) = 0
    BY <1>2, <1>7, <1>14
  <2>6. PICK a \in Nat : a = Routed(j)'
    BY <2>4
  <2>7. PICK b \in Nat : b = Routed(j)
    BY <2>1
  <2>8. PICK c \in Nat : c = Count(j, buckets[r])
    BY <2>1
  <2>9. a + c = b + (c + (IF i = j THEN 1 ELSE 0))
    BY <2>2, <2>4, <2>6, <2>7, <2>8
  <2>10. a = b + (IF i = j THEN 1 ELSE 0)
    BY <2>9
  <2> QED
    BY <2>2, <2>5, <2>6, <2>7, <2>8, <2>10
<1> QED
  BY <1>3, <1>7, <1>8, <1>12, <1>13, <1>14, <1>15 DEF i

LEMMA PairWith ==
  ASSUME IntakeInv, stage = "bucket", todo = <<>>, mp4s # <<>>, mp4s' = Tail(mp4s),
         batch[Head(mp4s)].name \in DOMAIN sidecars,
         buckets' = [buckets EXCEPT !["pairs"] = Append(@, Head(mp4s))],
         timedBy' = [timedBy EXCEPT ![Head(mp4s)] = sidecars[batch[Head(mp4s)].name]],
         sidecars' = Intake!Others(batch[Head(mp4s)].name),
         UNCHANGED <<batch, stage, todo, opened, errors, pending, dropped>>
  PROVE  IntakeInv'
<1> DEFINE i == Head(mp4s)
           f == batch[i].name
           s == sidecars[f]
<1>1. IntakeTypeOK /\ StageOK /\ VideoOK /\ FitOK
  BY DEF IntakeInv
<1>2. Intake!InBatch' = Intake!InBatch /\ Sidecars' = Sidecars /\ Videos' = Videos /\ Plain' = Plain
  BY BatchSame
<1>3. /\ i \in Videos /\ mp4s' \in Seq(Videos) /\ timedBy[i] = 0
      /\ Count(i, mp4s) = 1 /\ Count(i, mp4s') = 0
      /\ buckets' \in [RouteNames -> Seq(Intake!InBatch)]
      /\ \A p \in RouteNames :
           buckets'[p] \in Seq(IF p \in {"pairs", "videos"} THEN Videos ELSE Plain)
      /\ \A j \in Intake!InBatch :
           /\ Count(j, mp4s') = IF j = i THEN 0 ELSE Count(j, mp4s)
           /\ Routed(j)' = IF j = i THEN 1 ELSE Routed(j)
           /\ Count(j, buckets'["pairs"]) = IF j = i THEN 1 ELSE Count(j, buckets["pairs"])
      /\ \A p \in RouteNames : p # "pairs" => buckets'[p] = buckets[p]
      /\ \A p \in RouteNames : Count(i, buckets[p]) = 0
  BY PairRest
<1>4. /\ \A n \in DOMAIN sidecars : /\ sidecars[n] \in Sidecars /\ sidecars[n] <= Bucketed
                                    /\ batch[sidecars[n]].name = n
      /\ timedBy \in [Intake!InBatch -> 0..Len(batch)]
  BY <1>1 DEF IntakeTypeOK
<1>5. /\ f \in DOMAIN sidecars /\ DOMAIN sidecars' = DOMAIN sidecars \ {f}
      /\ \A n \in DOMAIN sidecars' : sidecars'[n] = sidecars[n]
  BY DEF Intake!Others
<1>6. timedBy' = [timedBy EXCEPT ![i] = s]
  OBVIOUS
<1>7. batch[i].name = f /\ sidecars[f] = s
  OBVIOUS
<1> HIDE DEF i, f, s
<1>8. s \in Sidecars /\ batch[s].name = f
  BY <1>4, <1>5, <1>7
<1>9. /\ Sidecars \subseteq Intake!InBatch /\ Videos \subseteq Intake!InBatch /\ Sidecars \cap Videos = {}
      /\ Intake!InBatch = 1..Len(batch) /\ Len(batch) \in Nat
      /\ 0 \notin Sidecars /\ Bucketed = Len(batch) /\ Bucketed' = Bucketed
  <2>1. Bucketed = Len(batch) /\ Bucketed' = Bucketed
    BY <1>1 DEF Bucketed, IntakeTypeOK
  <2> QED
    BY <1>1, <2>1, BatchIs DEF Intake!InBatch
<1>10. /\ timedBy' \in [Intake!InBatch -> 0..Len(batch)] /\ timedBy'[i] = s
       /\ \A j \in Intake!InBatch : j # i => timedBy'[j] = timedBy[j]
  BY <1>3, <1>4, <1>6, <1>8, <1>9
<1>11. IntakeTypeOK'
  <2>1. \A n \in DOMAIN sidecars' : /\ sidecars'[n] \in Sidecars' /\ sidecars'[n] <= Bucketed'
                                    /\ batch'[sidecars'[n]].name = n
    BY <1>2, <1>4, <1>5, <1>9
  <2>2. /\ batch' \in Seq(Intake!FileType) /\ batch' # <<>> /\ stage' \in {"bucket", "sniff", "open", "dialogs"}
        /\ opened' \subseteq Videos \cup Plain
        /\ errors' \in Seq(Intake!InBatch) /\ dropped' \in Seq(Videos \cup Plain)
        /\ pending' \in [QueueNames -> Seq(Intake!InBatch)]
        /\ \A q \in QueueNames : pending'[q] \in Seq(IF q = "videos" THEN Videos ELSE Plain)
    BY <1>1 DEF IntakeTypeOK
  <2>3. Len(todo') \in 0..Len(batch') /\ todo' = [k \in 1..Len(todo') |-> Bucketed' + k]
    BY <1>1, <1>9 DEF IntakeTypeOK
  <2> QED
    BY <1>2, <1>3, <1>10, <2>1, <2>2, <2>3 DEF IntakeTypeOK
<1>12. \A j \in Intake!InBatch :
         /\ InTodo(j)' = InTodo(j) /\ Count(j, errors)' = Count(j, errors)
         /\ Count(j, dropped)' = Count(j, dropped)
         /\ InSources(j)' = InSources(j) /\ Waiting(j)' = Waiting(j)
         /\ Count(j, mp4s)' = Count(j, mp4s')
         /\ (HiddenNow(j)' <=> HiddenNow(j))
  <2>1. \A j \in Intake!InBatch : InTodo(j)' = InTodo(j) /\ (HiddenNow(j)' <=> HiddenNow(j))
    BY <1>2, <1>9 DEF InTodo, HiddenNow
  <2> QED
    BY <2>1 DEF InSources, Waiting, Count, At
<1>13. OnePlace'
  <2>1. ASSUME NEW j \in Intake!InBatch PROVE Total(j)' = IF HiddenNow(j)' THEN 0 ELSE 1
    <3>1. Total(j) = IF HiddenNow(j) THEN 0 ELSE 1
      BY DEF IntakeInv, OnePlace
    <3>2. CASE j = i
      <4>1. j \in Videos /\ j \notin Sidecars /\ ~ HiddenNow(j)
        BY <1>3, <1>9, <3>2 DEF HiddenNow
      <4>2. /\ InTodo(j) = 0 /\ InSidecars(j) = 0 /\ Count(j, errors) = 0
            /\ Count(j, dropped) = 0 /\ InSources(j) = 0 /\ Waiting(j) = 0
        BY <1>3, <3>2, Alone
      <4>3. Count(j, mp4s)' = 0 /\ Routed(j)' = 1
        BY <1>3, <1>12, <3>2
      <4>4. InSidecars(j)' = 0
        <5>1. \A n \in DOMAIN sidecars' : sidecars'[n] # j
          BY <1>4, <1>5, <4>1
        <5> QED
          BY <5>1 DEF InSidecars
      <4>5. Timing(j)' = 0
        BY <1>2, <4>1 DEF Timing
      <4> QED
        BY <1>12, <4>1, <4>2, <4>3, <4>4, <4>5 DEF Total
    <3>3. CASE j = s
      <4>1. j \in Sidecars /\ j \notin Videos /\ j # i
        BY <1>3, <1>8, <1>9, <3>3
      <4>2. InSidecars(j) = 1
        BY <1>5, <1>7, <3>3 DEF InSidecars
      <4>3. InSidecars(j)' = 0
        <5>1. \A n \in DOMAIN sidecars' : sidecars'[n] # j
          BY <1>4, <1>5, <1>8, <3>3
        <5> QED
          BY <5>1 DEF InSidecars
      <4>4. /\ InTodo(j) = 0 /\ Count(j, mp4s) = 0 /\ Routed(j) = 0 /\ Count(j, errors) = 0
            /\ Count(j, dropped) = 0 /\ InSources(j) = 0 /\ Waiting(j) = 0 /\ Timing(j) = 0
        BY <4>2, Alone
      <4>5. Timing(j)' = 1
        <5>1. IsFiniteSet(TimedByIt(j)) /\ Timing(j) = Cardinality(TimedByIt(j))
          BY <1>1, <4>1, PartsAre DEF Timing
        <5>2. TimedByIt(j) = {}
          BY <4>4, <5>1, FS_EmptySet
        <5>3. TimedByIt(j)' = {i}
          BY <1>2, <1>3, <1>9, <1>10, <3>3, <5>2 DEF TimedByIt
        <5> QED
          BY <1>2, <4>1, <5>3, FS_Singleton DEF Timing
      <4>6. ~ HiddenNow(j) /\ Count(j, mp4s)' = 0 /\ Routed(j)' = 0
        <5>1. Total(j) = 1
          BY <4>2, <4>4 DEF Total
        <5> QED
          BY <1>3, <1>12, <3>1, <4>1, <4>4, <5>1
      <4> QED
        BY <1>12, <4>3, <4>4, <4>5, <4>6 DEF Total
    <3>4. CASE j # i /\ j # s
      <4>1. Count(j, mp4s)' = Count(j, mp4s) /\ Routed(j)' = Routed(j)
        BY <1>3, <1>12, <3>4
      <4>2. InSidecars(j)' = InSidecars(j)
        <5>1. (\E n \in DOMAIN sidecars' : sidecars'[n] = j)
              <=> \E n \in DOMAIN sidecars : sidecars[n] = j
          BY <1>5, <1>7, <3>4
        <5> QED
          BY <5>1 DEF InSidecars
      <4>3. Timing(j)' = Timing(j)
        <5>1. j \in Sidecars => TimedByIt(j)' = TimedByIt(j)
          BY <1>2, <1>3, <1>9, <1>10, <3>4 DEF TimedByIt
        <5> QED
          BY <1>2, <5>1 DEF Timing
      <4> QED
        BY <1>12, <3>1, <4>1, <4>2, <4>3 DEF Total
    <3> QED
      BY <3>2, <3>3, <3>4
  <2> QED
    BY <1>2, <2>1 DEF OnePlace
<1>14. StageOK'
  BY <1>1 DEF StageOK
<1>15. VideoOK'
  <2>1. opened = {} /\ pending' = pending
    BY <1>1 DEF StageOK
  <2>2. ASSUME NEW v \in Videos
        PROVE  /\ Count(v, mp4s') + Count(v, buckets'["videos"]) + Count(v, pending["videos"]) > 0 =>
                    timedBy'[v] = 0
               /\ Count(v, buckets'["pairs"]) > 0 => timedBy'[v] \in Sidecars
               /\ timedBy'[v] \in Sidecars => batch[timedBy'[v]].name = batch[v].name
    <3>1. /\ Count(v, mp4s) + Count(v, buckets["videos"]) + Count(v, pending["videos"]) > 0 =>
               timedBy[v] = 0
          /\ Count(v, buckets["pairs"]) > 0 => timedBy[v] \in Sidecars
          /\ timedBy[v] \in Sidecars => batch[timedBy[v]].name = batch[v].name
      BY <1>1 DEF VideoOK
    <3>2. buckets'["videos"] = buckets["videos"] /\ v \in Intake!InBatch
      BY <1>3, <1>9 DEF RouteNames
    <3>3. CASE v = i
      <4>1. Count(v, mp4s') = 0 /\ Count(v, buckets'["videos"]) = 0
        BY <1>3, <3>2, <3>3 DEF RouteNames
      <4>2. Count(v, pending["videos"]) = 0
        BY <1>1, <2>1, CountEmpty DEF StageOK, QueueNames
      <4> QED
        BY <1>7, <1>8, <1>10, <3>3, <4>1, <4>2
    <3>4. CASE v # i
      BY <1>3, <1>10, <3>1, <3>2, <3>4
    <3> QED
      BY <3>3, <3>4
  <2>3. opened' = {}
    BY <2>1
  <2> QED
    BY <1>2, <2>1, <2>2, <2>3 DEF VideoOK
<1>16. FitOK'
  <2>1. ASSUME NEW v \in Videos, batch[v].name \in DOMAIN sidecars' PROVE Count(v, mp4s') > 0
    <3>1. v # i /\ v \in Intake!InBatch /\ v <= Bucketed /\ batch[v].name \in DOMAIN sidecars
      BY <1>5, <1>7, <1>9, <2>1
    <3>2. Count(v, mp4s) > 0
      BY <1>1, <3>1 DEF FitOK
    <3> QED
      BY <1>3, <3>1, <3>2
  <2>2. ASSUME NEW t \in Sidecars, t <= Bucketed
        PROVE  \/ stage' = "bucket" /\ batch[t].name \in DOMAIN sidecars'
               \/ \E v \in Videos : batch[v].name = batch[t].name /\ timedBy'[v] \in Sidecars
    <3>1. CASE batch[t].name = f
      BY <1>3, <1>7, <1>8, <1>10, <3>1
    <3>2. CASE batch[t].name # f /\ batch[t].name \in DOMAIN sidecars
      BY <1>5, <3>2
    <3>3. CASE \E v \in Videos : batch[v].name = batch[t].name /\ timedBy[v] \in Sidecars
      <4>1. PICK v \in Videos : batch[v].name = batch[t].name /\ timedBy[v] \in Sidecars
        BY <3>3
      <4>2. v # i /\ v \in Intake!InBatch
        BY <1>3, <1>9, <4>1
      <4> QED
        BY <1>10, <4>1, <4>2
    <3> QED
      BY <1>1, <2>2, <3>1, <3>2, <3>3 DEF FitOK
  <2> QED
    BY <1>2, <1>9, <1>12, <2>1, <2>2 DEF FitOK
<1> QED
  BY <1>11, <1>13, <1>14, <1>15, <1>16 DEF IntakeInv

LEMMA PairWithout ==
  ASSUME IntakeInv, stage = "bucket", todo = <<>>, mp4s # <<>>, mp4s' = Tail(mp4s),
         batch[Head(mp4s)].name \notin DOMAIN sidecars,
         buckets' = [buckets EXCEPT !["videos"] = Append(@, Head(mp4s))],
         UNCHANGED <<batch, stage, todo, opened, errors, pending, dropped, timedBy, sidecars>>
  PROVE  IntakeInv'
<1> DEFINE i == Head(mp4s)
<1>1. IntakeTypeOK /\ StageOK /\ VideoOK /\ FitOK
  BY DEF IntakeInv
<1>2. Intake!InBatch' = Intake!InBatch /\ Sidecars' = Sidecars /\ Videos' = Videos /\ Plain' = Plain
  BY BatchSame
<1>3. /\ i \in Videos /\ mp4s' \in Seq(Videos) /\ timedBy[i] = 0
      /\ Count(i, mp4s) = 1 /\ Count(i, mp4s') = 0
      /\ buckets' \in [RouteNames -> Seq(Intake!InBatch)]
      /\ \A p \in RouteNames :
           buckets'[p] \in Seq(IF p \in {"pairs", "videos"} THEN Videos ELSE Plain)
      /\ \A j \in Intake!InBatch :
           /\ Count(j, mp4s') = IF j = i THEN 0 ELSE Count(j, mp4s)
           /\ Routed(j)' = IF j = i THEN 1 ELSE Routed(j)
           /\ Count(j, buckets'["videos"]) = IF j = i THEN 1 ELSE Count(j, buckets["videos"])
      /\ \A p \in RouteNames : p # "videos" => buckets'[p] = buckets[p]
      /\ \A p \in RouteNames : Count(i, buckets[p]) = 0
  BY PairRest
<1> HIDE DEF i
<1>4. /\ Sidecars \subseteq Intake!InBatch /\ Videos \subseteq Intake!InBatch /\ Sidecars \cap Videos = {}
      /\ 0 \notin Sidecars /\ Bucketed' = Bucketed
  BY <1>1, BatchIs DEF Bucketed
<1>5. IntakeTypeOK'
  <2>1. \A n \in DOMAIN sidecars' : /\ sidecars'[n] \in Sidecars' /\ sidecars'[n] <= Bucketed'
                                    /\ batch'[sidecars'[n]].name = n
    BY <1>1, <1>2, <1>4 DEF IntakeTypeOK
  <2>2. /\ batch' \in Seq(Intake!FileType) /\ batch' # <<>> /\ stage' \in {"bucket", "sniff", "open", "dialogs"}
        /\ timedBy' \in [Intake!InBatch -> 0..Len(batch')] /\ opened' \subseteq Videos \cup Plain
        /\ errors' \in Seq(Intake!InBatch) /\ dropped' \in Seq(Videos \cup Plain)
        /\ pending' \in [QueueNames -> Seq(Intake!InBatch)]
        /\ \A q \in QueueNames : pending'[q] \in Seq(IF q = "videos" THEN Videos ELSE Plain)
    BY <1>1 DEF IntakeTypeOK
  <2>3. Len(todo') \in 0..Len(batch') /\ todo' = [k \in 1..Len(todo') |-> Bucketed' + k]
    BY <1>1, <1>4 DEF IntakeTypeOK
  <2> QED
    BY <1>2, <1>3, <2>1, <2>2, <2>3 DEF IntakeTypeOK
<1>6. \A j \in Intake!InBatch :
         /\ InTodo(j)' = InTodo(j) /\ InSidecars(j)' = InSidecars(j)
         /\ Count(j, errors)' = Count(j, errors) /\ Count(j, dropped)' = Count(j, dropped)
         /\ InSources(j)' = InSources(j) /\ Waiting(j)' = Waiting(j) /\ Timing(j)' = Timing(j)
         /\ Count(j, mp4s)' = Count(j, mp4s')
         /\ (HiddenNow(j)' <=> HiddenNow(j))
  <2>1. \A j \in Intake!InBatch :
          InTodo(j)' = InTodo(j) /\ InSidecars(j)' = InSidecars(j) /\ (HiddenNow(j)' <=> HiddenNow(j))
    BY <1>2, <1>4 DEF InTodo, InSidecars, HiddenNow
  <2>2. \A j \in Intake!InBatch : TimedByIt(j)' = TimedByIt(j)
    BY <1>2 DEF TimedByIt
  <2>3. \A j \in Intake!InBatch : Timing(j)' = Timing(j)
    BY <1>2, <2>2 DEF Timing
  <2> QED
    BY <2>1, <2>3 DEF InSources, Waiting, Count, At
<1>7. OnePlace'
  <2>1. ASSUME NEW j \in Intake!InBatch PROVE Total(j)' = IF HiddenNow(j)' THEN 0 ELSE 1
    <3>1. Total(j) = IF HiddenNow(j) THEN 0 ELSE 1
      BY DEF IntakeInv, OnePlace
    <3>2. CASE j = i
      <4>1. ~ HiddenNow(j)
        BY <1>3, <1>4, <3>2 DEF HiddenNow
      <4>2. /\ InTodo(j) = 0 /\ InSidecars(j) = 0 /\ Count(j, errors) = 0
            /\ Count(j, dropped) = 0 /\ InSources(j) = 0 /\ Waiting(j) = 0 /\ Timing(j) = 0
        BY <1>3, <3>2, Alone
      <4>3. Count(j, mp4s)' = 0 /\ Routed(j)' = 1
        BY <1>3, <1>6, <3>2
      <4> QED
        BY <1>6, <4>1, <4>2, <4>3 DEF Total
    <3>3. CASE j # i
      <4>1. Count(j, mp4s)' = Count(j, mp4s) /\ Routed(j)' = Routed(j)
        BY <1>3, <1>6, <3>3
      <4> QED
        BY <1>6, <3>1, <4>1 DEF Total
    <3> QED
      BY <3>2, <3>3
  <2> QED
    BY <1>2, <2>1 DEF OnePlace
<1>8. StageOK'
  BY <1>1 DEF StageOK
<1>9. VideoOK'
  <2>1. opened = {} /\ pending' = pending /\ opened' = {}
    BY <1>1 DEF StageOK
  <2>2. ASSUME NEW v \in Videos
        PROVE  /\ Count(v, mp4s') + Count(v, buckets'["videos"]) + Count(v, pending["videos"]) > 0 =>
                    timedBy'[v] = 0
               /\ Count(v, buckets'["pairs"]) > 0 => timedBy'[v] \in Sidecars
               /\ timedBy'[v] \in Sidecars => batch[timedBy'[v]].name = batch[v].name
    <3>1. /\ Count(v, mp4s) + Count(v, buckets["videos"]) + Count(v, pending["videos"]) > 0 =>
               timedBy[v] = 0
          /\ Count(v, buckets["pairs"]) > 0 => timedBy[v] \in Sidecars
          /\ timedBy[v] \in Sidecars => batch[timedBy[v]].name = batch[v].name
      BY <1>1 DEF VideoOK
    <3>2. buckets'["pairs"] = buckets["pairs"] /\ v \in Intake!InBatch /\ timedBy' = timedBy
      BY <1>3, <1>4 DEF RouteNames
    <3>3. CASE v = i
      BY <1>3, <3>1, <3>2, <3>3
    <3>4. CASE v # i
      BY <1>3, <3>1, <3>2, <3>4
    <3> QED
      BY <3>3, <3>4
  <2> QED
    BY <1>2, <2>1, <2>2 DEF VideoOK
<1>10. FitOK'
  <2>1. ASSUME NEW v \in Videos, v <= Bucketed, batch[v].name \in DOMAIN sidecars
        PROVE  Count(v, mp4s') > 0
    <3>1. v # i /\ v \in Intake!InBatch
      BY <1>4, <2>1 DEF i
    <3>2. Count(v, mp4s) > 0
      BY <1>1, <2>1 DEF FitOK
    <3> QED
      BY <1>3, <3>1, <3>2
  <2> QED
    BY <1>1, <1>2, <1>4, <1>6, <2>1 DEF FitOK
<1> QED
  BY <1>5, <1>7, <1>8, <1>9, <1>10 DEF IntakeInv

LEMMA PairInv == ASSUME IntakeInv, Intake!Pair PROVE IntakeInv'
<1>1. CASE batch[Head(mp4s)].name \in DOMAIN sidecars
  BY <1>1, PairWith DEF Intake!Pair
<1>2. CASE batch[Head(mp4s)].name \notin DOMAIN sidecars
  BY <1>2, PairWithout DEF Intake!Pair
<1> QED
  BY <1>1, <1>2

(* A sidecar left over is an error.                                        *)
LEMMA OrphansInv == ASSUME IntakeInv, Intake!Orphans PROVE IntakeInv'
<1> DEFINE S == {sidecars[n] : n \in DOMAIN sidecars}
<1>1. IntakeTypeOK /\ StageOK /\ VideoOK /\ FitOK
  BY DEF IntakeInv
<1>2. /\ stage = "bucket" /\ todo = <<>> /\ mp4s = <<>> /\ stage' = "sniff"
      /\ errors' = Intake!SetToSeq(S)
      /\ UNCHANGED <<batch, todo, sidecars, mp4s, buckets, timedBy, opened, pending, dropped>>
  BY DEF Intake!Orphans
<1>3. Intake!InBatch' = Intake!InBatch /\ Sidecars' = Sidecars /\ Videos' = Videos /\ Plain' = Plain
  BY <1>2, BatchSame
<1>4. /\ Sidecars \subseteq Intake!InBatch /\ Videos \subseteq Intake!InBatch /\ Sidecars \cap Videos = {}
      /\ IsFiniteSet(Intake!InBatch) /\ Bucketed' = Bucketed /\ Bucketed = Len(batch)
      /\ Intake!InBatch = 1..Len(batch) /\ Len(batch) \in Nat
  <2>1. Bucketed' = Bucketed /\ Bucketed = Len(batch)
    BY <1>1, <1>2 DEF Bucketed, IntakeTypeOK
  <2> QED
    BY <1>1, <2>1, BatchIs DEF Intake!InBatch
<1>5. S \subseteq Sidecars
  BY <1>1 DEF IntakeTypeOK
<1> HIDE DEF S
<1>6. IsFiniteSet(S) /\ S \subseteq Intake!InBatch
  BY <1>4, <1>5, FS_Subset
<1>7. errors' \in Seq(Intake!InBatch) /\ \A j : Count(j, errors') = IF j \in S THEN 1 ELSE 0
  <2>1. errors' \in Seq(S) /\ \A j : Count(j, errors') = IF j \in S THEN 1 ELSE 0
    BY <1>2, <1>6, CountOfThese
  <2> QED
    BY <1>6, <2>1, SeqSub
<1>8. IntakeTypeOK'
  BY <1>1, <1>2, <1>3, <1>4, <1>7 DEF IntakeTypeOK
<1>9. OnePlace'
  <2>1. ASSUME NEW j \in Intake!InBatch PROVE Total(j)' = IF HiddenNow(j)' THEN 0 ELSE 1
    <3>1. Total(j) = IF HiddenNow(j) THEN 0 ELSE 1
      BY DEF IntakeInv, OnePlace
    <3>2. /\ InTodo(j)' = InTodo(j) /\ (HiddenNow(j)' <=> HiddenNow(j))
      BY <1>2, <1>3, <1>4 DEF InTodo, HiddenNow
    <3>3. /\ Count(j, mp4s)' = Count(j, mp4s) /\ Routed(j)' = Routed(j)
          /\ Count(j, dropped)' = Count(j, dropped) /\ InSources(j)' = InSources(j)
          /\ Waiting(j)' = Waiting(j)
      BY <1>2 DEF Count, At, Routed, InSources, Waiting
    <3>4. Timing(j)' = Timing(j)
      <4>1. TimedByIt(j)' = TimedByIt(j)
        BY <1>2, <1>3 DEF TimedByIt
      <4> QED
        BY <1>3, <4>1 DEF Timing
    <3>5. InSidecars(j)' = 0 /\ Count(j, errors)' = InSidecars(j)
      BY <1>2, <1>7 DEF InSidecars, Count, At, S
    <3>6. Count(j, errors) = 0
      BY <1>2, EarlyParts
    <3>7. InSidecars(j) \in Nat /\ InTodo(j) \in Nat /\ Count(j, mp4s) \in Nat /\ Routed(j) \in Nat
          /\ Count(j, dropped) \in Nat /\ InSources(j) \in Nat /\ Waiting(j) \in Nat
          /\ Timing(j) \in Nat
      BY <1>1, PartsAre
    <3>8. Total(j)' = Total(j)
      BY <3>2, <3>3, <3>4, <3>5, <3>6, <3>7 DEF Total
    <3> QED
      BY <3>1, <3>2, <3>8
  <2> QED
    BY <1>3, <2>1 DEF OnePlace
<1>10. StageOK'
  BY <1>2 DEF StageOK
<1>11. VideoOK'
  BY <1>1, <1>2, <1>3 DEF VideoOK, Intake!Aligned, Count, At
<1>12. FitOK'
  <2>1. \A v \in Videos : batch[v].name \notin DOMAIN sidecars
    <3>1. \A v \in Videos : Count(v, mp4s) = 0 /\ v <= Bucketed
      BY <1>2, <1>4, CountEmpty
    <3> QED
      BY <1>1, <1>2, <3>1 DEF FitOK
  <2>2. ASSUME NEW s \in Sidecars, s <= Bucketed
        PROVE  \/ \E v \in Videos : batch[v].name = batch[s].name /\ timedBy[v] \in Sidecars
               \/ \A v \in Videos : batch[v].name # batch[s].name
    BY <1>1, <1>2, <2>1, <2>2 DEF FitOK
  <2> QED
    BY <1>2, <1>3, <1>4, <2>2 DEF FitOK
<1> QED
  BY <1>8, <1>9, <1>10, <1>11, <1>12 DEF IntakeInv

-----------------------------------------------------------------------------
(* Sniffing and opening.                                                   *)
LEMMA LeftIs ==
  ASSUME NEW E, NEW list \in Seq(E), NEW taken
  PROVE  /\ Intake!Left(list, taken) \in Seq(E)
         /\ \A i : Count(i, Intake!Left(list, taken)) = IF i \in taken THEN 0 ELSE Count(i, list)
<1>1. Intake!Left(list, taken) = Dropped(list, taken)
  BY DEF Intake!Left, Dropped, Intake!FoldLeft, FoldLeft,
         Intake!MapThenFoldSet, MapThenFoldSet,
         Intake!Max, Max
<1> QED
  BY <1>1, DroppedIs

LEMMA ConcatIn ==
  ASSUME NEW E, NEW s \in Seq(E), NEW t \in Seq(E) PROVE s \o t \in Seq(E)
  OBVIOUS

LEMMA SniffedIs ==
  ASSUME NEW i
  PROVE  /\ Intake!Sniffed("unknown", i) \in {"unknown", "calibration", "openlabel", "trajectory", "map"}
         /\ Intake!Sniffed("tabular", i) \in {"tabular", "lidar"}
<1>1. Intake!Mark(i) \in {"unknown", "calibration", "openlabel", "trajectory", "map"}
  BY DEF Intake!Mark
<1>2. Intake!Sniffed("unknown", i) \in {"unknown", "calibration", "openlabel", "trajectory", "map"}
  BY <1>1 DEF Intake!Sniffed
<1>3. Intake!Sniffed("tabular", i) \in {"tabular", "lidar"}
  BY DEF Intake!Sniffed
<1> QED
  BY <1>2, <1>3

(* What sniffing puts in a bucket, and how often a file is in one then.    *)
LEMMA SniffedBuckets ==
  ASSUME IntakeTypeOK, Intake!Sniff
  PROVE  /\ buckets' \in [RouteNames -> Seq(Intake!InBatch)]
         /\ \A r \in RouteNames :
              buckets'[r] \in Seq(IF r \in {"pairs", "videos"} THEN Videos ELSE Plain)
         /\ buckets'["pairs"] = buckets["pairs"] /\ buckets'["videos"] = buckets["videos"]
         /\ \A i \in Intake!InBatch :
              /\ \A r \in {"unknown", "tabular"} :
                   Count(i, buckets'[r]) = IF Intake!Sniffed(r, i) = r THEN Count(i, buckets[r]) ELSE 0
              /\ Count(i, buckets'["lidar"]) =
                   Count(i, buckets["lidar"])
                   + (IF Intake!Sniffed("tabular", i) = "lidar" THEN Count(i, buckets["tabular"]) ELSE 0)
              /\ \A r \in RouteNames \ {"unknown", "tabular", "lidar"} :
                   Count(i, buckets'[r]) =
                     Count(i, buckets[r])
                     + (IF Intake!Sniffed("unknown", i) = r THEN Count(i, buckets["unknown"]) ELSE 0)
<1> DEFINE MovedTo(q, r) == Intake!Left(buckets[q], {i \in Intake!InBatch : Intake!Sniffed(q, i) # r})
<1>1. buckets' = [r \in RouteNames |->
                    CASE r \in {"unknown", "tabular"} -> MovedTo(r, r)
                      [] r = "lidar" -> buckets[r] \o MovedTo("tabular", r)
                      [] OTHER -> buckets[r] \o MovedTo("unknown", r)]
  BY RoutesAre DEF Intake!Sniff
<1>2. /\ \A r \in RouteNames \ {"pairs", "videos"} : buckets[r] \in Seq(Plain)
      /\ buckets["pairs"] \in Seq(Videos) /\ buckets["videos"] \in Seq(Videos)
  BY DEF IntakeTypeOK, RouteNames
<1>3. \A q \in {"unknown", "tabular"} : \A r \in RouteNames :
        /\ MovedTo(q, r) \in Seq(Plain)
        /\ \A i \in Intake!InBatch :
             Count(i, MovedTo(q, r)) = IF Intake!Sniffed(q, i) = r THEN Count(i, buckets[q]) ELSE 0
  <2>1. ASSUME NEW q \in {"unknown", "tabular"}, NEW r \in RouteNames
        PROVE  /\ MovedTo(q, r) \in Seq(Plain)
               /\ \A i \in Intake!InBatch :
                    Count(i, MovedTo(q, r)) = IF Intake!Sniffed(q, i) = r THEN Count(i, buckets[q]) ELSE 0
    <3> DEFINE taken == {i \in Intake!InBatch : Intake!Sniffed(q, i) # r}
    <3>1. buckets[q] \in Seq(Plain)
      BY <1>2 DEF RouteNames
    <3>2. \A i \in Intake!InBatch : i \in taken <=> Intake!Sniffed(q, i) # r
      OBVIOUS
    <3>3. /\ Intake!Left(buckets[q], taken) \in Seq(Plain)
          /\ \A i : Count(i, Intake!Left(buckets[q], taken)) =
                      IF i \in taken THEN 0 ELSE Count(i, buckets[q])
      <4> HIDE DEF taken
      <4> QED
        BY <3>1, LeftIs
    <3>4. MovedTo(q, r) = Intake!Left(buckets[q], taken)
      OBVIOUS
    <3> HIDE DEF taken, MovedTo
    <3> QED
      BY <3>2, <3>3, <3>4
  <2> QED
    BY <2>1
<1> HIDE DEF MovedTo
<1>4. /\ \A r \in {"unknown", "tabular"} : buckets'[r] = MovedTo(r, r)
      /\ buckets'["lidar"] = buckets["lidar"] \o MovedTo("tabular", "lidar")
      /\ \A r \in RouteNames \ {"unknown", "tabular", "lidar"} :
           buckets'[r] = buckets[r] \o MovedTo("unknown", r)
      /\ DOMAIN buckets' = RouteNames /\ buckets' = [r \in RouteNames |-> buckets'[r]]
  BY <1>1 DEF RouteNames
<1>5. ASSUME NEW r \in {"pairs", "videos"} PROVE buckets'[r] = buckets[r]
  <2>1. r \in RouteNames \ {"unknown", "tabular", "lidar"}
    BY DEF RouteNames
  <2>2. \A i \in Intake!InBatch : Intake!Sniffed("unknown", i) # r
    BY SniffedIs
  <2>3. MovedTo("unknown", r) \in Seq(Plain) /\ \A i \in Intake!InBatch : Count(i, MovedTo("unknown", r)) = 0
    BY <1>3, <2>1, <2>2
  <2>4. MovedTo("unknown", r) = <<>>
    BY <2>3, BatchIs, CountNone
  <2>5. buckets[r] \in Seq(Videos)
    BY <1>2
  <2>6. buckets'[r] = buckets[r] \o <<>>
    BY <1>4, <2>1, <2>4
  <2> QED
    BY <2>5, <2>6
<1>6. ASSUME NEW r \in RouteNames
      PROVE  buckets'[r] \in Seq(IF r \in {"pairs", "videos"} THEN Videos ELSE Plain)
  <2>1. CASE r \in {"pairs", "videos"}
    BY <1>2, <1>5, <2>1
  <2>2. CASE r \in {"unknown", "tabular"}
    BY <1>3, <1>4, <2>2
  <2>3. CASE r = "lidar"
    <3>1. buckets["lidar"] \in Seq(Plain) /\ MovedTo("tabular", "lidar") \in Seq(Plain)
      BY <1>2, <1>3 DEF RouteNames
    <3>2. buckets'["lidar"] \in Seq(Plain)
      BY <1>4, <3>1, ConcatIn
    <3> QED
      BY <2>3, <3>2
  <2>4. CASE r \notin {"pairs", "videos", "unknown", "tabular", "lidar"}
    <3>1. buckets[r] \in Seq(Plain) /\ MovedTo("unknown", r) \in Seq(Plain)
      BY <1>2, <1>3, <2>4
    <3>2. buckets'[r] = buckets[r] \o MovedTo("unknown", r)
      BY <1>4, <2>4
    <3>3. buckets'[r] \in Seq(Plain)
      BY <3>1, <3>2, ConcatIn
    <3> QED
      BY <2>4, <3>3
  <2> QED
    BY <2>1, <2>2, <2>3, <2>4
<1>7. buckets' \in [RouteNames -> Seq(Intake!InBatch)]
  <2>1. Videos \subseteq Intake!InBatch /\ Plain \subseteq Intake!InBatch
    BY BatchIs
  <2>2. \A r \in RouteNames : buckets'[r] \in Seq(Intake!InBatch)
    BY <1>6, <2>1, SeqSub
  <2> QED
    BY <1>4, <2>2
<1>8. ASSUME NEW i \in Intake!InBatch
      PROVE  /\ \A r \in {"unknown", "tabular"} :
                   Count(i, buckets'[r]) = IF Intake!Sniffed(r, i) = r THEN Count(i, buckets[r]) ELSE 0
             /\ Count(i, buckets'["lidar"]) =
                   Count(i, buckets["lidar"])
                   + (IF Intake!Sniffed("tabular", i) = "lidar" THEN Count(i, buckets["tabular"]) ELSE 0)
             /\ \A r \in RouteNames \ {"unknown", "tabular", "lidar"} :
                   Count(i, buckets'[r]) =
                     Count(i, buckets[r])
                     + (IF Intake!Sniffed("unknown", i) = r THEN Count(i, buckets["unknown"]) ELSE 0)
  <2>1. \A r \in {"unknown", "tabular"} :
          Count(i, buckets'[r]) = IF Intake!Sniffed(r, i) = r THEN Count(i, buckets[r]) ELSE 0
    <3>1. ASSUME NEW r \in {"unknown", "tabular"}
          PROVE  Count(i, buckets'[r]) = IF Intake!Sniffed(r, i) = r THEN Count(i, buckets[r]) ELSE 0
      <4>1. r \in RouteNames /\ buckets'[r] = MovedTo(r, r)
        BY <1>4 DEF RouteNames
      <4> QED
        BY <1>3, <4>1
    <3> QED
      BY <3>1
  <2>2. Count(i, buckets'["lidar"]) =
          Count(i, buckets["lidar"])
          + (IF Intake!Sniffed("tabular", i) = "lidar" THEN Count(i, buckets["tabular"]) ELSE 0)
    <3>1. buckets["lidar"] \in Seq(Plain) /\ MovedTo("tabular", "lidar") \in Seq(Plain)
      BY <1>2, <1>3 DEF RouteNames
    <3>2. Count(i, buckets'["lidar"]) = Count(i, buckets["lidar"]) + Count(i, MovedTo("tabular", "lidar"))
      BY <1>4, <3>1, CountConcat
    <3>3. Count(i, MovedTo("tabular", "lidar")) =
            IF Intake!Sniffed("tabular", i) = "lidar" THEN Count(i, buckets["tabular"]) ELSE 0
      BY <1>3 DEF RouteNames
    <3> QED
      BY <3>2, <3>3
  <2>3. ASSUME NEW r \in RouteNames \ {"unknown", "tabular", "lidar"}
        PROVE  Count(i, buckets'[r]) =
                 Count(i, buckets[r])
                 + (IF Intake!Sniffed("unknown", i) = r THEN Count(i, buckets["unknown"]) ELSE 0)
    <3>1. buckets[r] \in Seq(Intake!InBatch)
      BY DEF IntakeTypeOK
    <3>2. MovedTo("unknown", r) \in Seq(Intake!InBatch)
      <4>1. MovedTo("unknown", r) \in Seq(Plain)
        BY <1>3
      <4> QED
        BY <4>1, BatchIs, SeqSub
    <3>3. Count(i, buckets'[r]) = Count(i, buckets[r]) + Count(i, MovedTo("unknown", r))
      <4>1. buckets'[r] = buckets[r] \o MovedTo("unknown", r)
        BY <1>4
      <4> QED
        BY <3>1, <3>2, <4>1, CountConcat
    <3>4. Count(i, MovedTo("unknown", r)) =
            IF Intake!Sniffed("unknown", i) = r THEN Count(i, buckets["unknown"]) ELSE 0
      BY <1>3
    <3> QED
      BY <3>3, <3>4
  <2> QED
    BY <2>1, <2>2, <2>3
<1> QED
  BY <1>5, <1>6, <1>7, <1>8

LEMMA SniffInv == ASSUME IntakeInv, Intake!Sniff PROVE IntakeInv'
<1>1. IntakeTypeOK /\ StageOK /\ VideoOK /\ FitOK
  BY DEF IntakeInv
<1>2. /\ stage = "sniff" /\ stage' = "open"
      /\ UNCHANGED <<batch, todo, sidecars, mp4s, timedBy, opened, errors, pending, dropped>>
  BY DEF Intake!Sniff
<1>3. Intake!InBatch' = Intake!InBatch /\ Sidecars' = Sidecars /\ Videos' = Videos /\ Plain' = Plain
      /\ Bucketed' = Bucketed
  BY <1>2, BatchSame DEF Bucketed
<1>4. /\ buckets' \in [RouteNames -> Seq(Intake!InBatch)]
      /\ \A r \in RouteNames :
           buckets'[r] \in Seq(IF r \in {"pairs", "videos"} THEN Videos ELSE Plain)
      /\ buckets'["pairs"] = buckets["pairs"] /\ buckets'["videos"] = buckets["videos"]
  BY <1>1, SniffedBuckets
<1>5. IntakeTypeOK'
  BY <1>1, <1>2, <1>3, <1>4 DEF IntakeTypeOK
<1>6. ASSUME NEW i \in Intake!InBatch PROVE Routed(i)' = Routed(i)
  <2> DEFINE old(r) == Count(i, buckets[r])
             now(r) == Count(i, buckets'[r])
             u == Intake!Sniffed("unknown", i)
             t == Intake!Sniffed("tabular", i)
  <2>1. \A r \in RouteNames : old(r) \in Nat
    BY <1>1, PartsAre
  <2>2. u \in {"unknown", "calibration", "openlabel", "trajectory", "map"} /\ t \in {"tabular", "lidar"}
    BY SniffedIs
  <2>3. /\ now("unknown") = IF u = "unknown" THEN old("unknown") ELSE 0
        /\ now("tabular") = IF t = "tabular" THEN old("tabular") ELSE 0
        /\ now("lidar") = old("lidar") + (IF t = "lidar" THEN old("tabular") ELSE 0)
        /\ now("eager") = old("eager") /\ now("pairs") = old("pairs") /\ now("videos") = old("videos")
        /\ \A r \in {"openlabel", "calibration", "trajectory", "map"} :
             now(r) = old(r) + (IF u = r THEN old("unknown") ELSE 0)
    <3>1. /\ \A r \in {"unknown", "tabular"} : now(r) = IF Intake!Sniffed(r, i) = r THEN old(r) ELSE 0
          /\ now("lidar") = old("lidar") + (IF t = "lidar" THEN old("tabular") ELSE 0)
          /\ \A r \in RouteNames \ {"unknown", "tabular", "lidar"} :
               now(r) = old(r) + (IF u = r THEN old("unknown") ELSE 0)
      BY <1>1, SniffedBuckets
    <3>2. now("eager") = old("eager")
      <4>1. now("eager") = old("eager") + (IF u = "eager" THEN old("unknown") ELSE 0)
        BY <3>1 DEF RouteNames
      <4>2. old("eager") \in Nat
        BY <2>1 DEF RouteNames
      <4> HIDE DEF now, old, u
      <4> QED
        BY <2>2, <4>1, <4>2
    <3>3. now("pairs") = old("pairs") /\ now("videos") = old("videos")
      BY <1>4
    <3> HIDE DEF now, old
    <3> QED
      BY <3>1, <3>2, <3>3 DEF RouteNames
  <2>4. /\ Routed(i) = old("eager") + old("lidar") + old("openlabel") + old("calibration")
                       + old("trajectory") + old("map") + old("pairs") + old("videos")
                       + old("tabular") + old("unknown")
        /\ Routed(i)' = now("eager") + now("lidar") + now("openlabel") + now("calibration")
                        + now("trajectory") + now("map") + now("pairs") + now("videos")
                        + now("tabular") + now("unknown")
    BY DEF Routed, Count, At
  <2> HIDE DEF now, old, u, t
  <2>5. /\ old("eager") \in Nat /\ old("lidar") \in Nat /\ old("openlabel") \in Nat
        /\ old("calibration") \in Nat /\ old("trajectory") \in Nat /\ old("map") \in Nat
        /\ old("pairs") \in Nat /\ old("videos") \in Nat /\ old("tabular") \in Nat
        /\ old("unknown") \in Nat
    BY <2>1 DEF RouteNames
  <2>6. now("lidar") + now("tabular") = old("lidar") + old("tabular")
    BY <2>2, <2>3, <2>5
  <2>7. now("openlabel") + now("calibration") + now("trajectory") + now("map") + now("unknown")
        = old("openlabel") + old("calibration") + old("trajectory") + old("map") + old("unknown")
    <3>1. now("unknown") = IF u = "unknown" THEN old("unknown") ELSE 0
      BY <2>3
    <3>2. /\ now("openlabel") = old("openlabel") + (IF u = "openlabel" THEN old("unknown") ELSE 0)
          /\ now("calibration") = old("calibration") + (IF u = "calibration" THEN old("unknown") ELSE 0)
          /\ now("trajectory") = old("trajectory") + (IF u = "trajectory" THEN old("unknown") ELSE 0)
          /\ now("map") = old("map") + (IF u = "map" THEN old("unknown") ELSE 0)
      BY <2>3
    <3> QED
      BY <2>2, <2>5, <3>1, <3>2
  <2>8. \A r \in RouteNames : now(r) \in Nat
    BY <2>2, <2>3, <2>5 DEF RouteNames
  <2>9. /\ now("eager") \in Nat /\ now("lidar") \in Nat /\ now("openlabel") \in Nat
        /\ now("calibration") \in Nat /\ now("trajectory") \in Nat /\ now("map") \in Nat
        /\ now("pairs") \in Nat /\ now("videos") \in Nat /\ now("tabular") \in Nat
        /\ now("unknown") \in Nat
    BY <2>8 DEF RouteNames
  <2>10. Routed(i) = (old("eager") + old("pairs") + old("videos")) + (old("lidar") + old("tabular"))
                     + (old("openlabel") + old("calibration") + old("trajectory") + old("map")
                        + old("unknown"))
    BY <2>4, <2>5
  <2>11. Routed(i)' = (now("eager") + now("pairs") + now("videos")) + (now("lidar") + now("tabular"))
                      + (now("openlabel") + now("calibration") + now("trajectory") + now("map")
                         + now("unknown"))
    BY <2>4, <2>9
  <2>12. now("eager") + now("pairs") + now("videos") = old("eager") + old("pairs") + old("videos")
    BY <2>3
  <2> QED
    BY <2>6, <2>7, <2>10, <2>11, <2>12
<1>7. OnePlace'
  <2>1. ASSUME NEW j \in Intake!InBatch PROVE Total(j)' = IF HiddenNow(j)' THEN 0 ELSE 1
    <3>1. Total(j) = IF HiddenNow(j) THEN 0 ELSE 1
      BY DEF IntakeInv, OnePlace
    <3>2. /\ InTodo(j)' = InTodo(j) /\ (HiddenNow(j)' <=> HiddenNow(j))
          /\ InSidecars(j)' = InSidecars(j)
      BY <1>2, <1>3 DEF InTodo, HiddenNow, InSidecars
    <3>3. /\ Count(j, mp4s)' = Count(j, mp4s) /\ Count(j, errors)' = Count(j, errors)
          /\ Count(j, dropped)' = Count(j, dropped) /\ InSources(j)' = InSources(j)
          /\ Waiting(j)' = Waiting(j)
      BY <1>2 DEF Count, At, InSources, Waiting
    <3>4. Timing(j)' = Timing(j)
      <4>1. TimedByIt(j)' = TimedByIt(j)
        BY <1>2, <1>3 DEF TimedByIt
      <4> QED
        BY <1>3, <4>1 DEF Timing
    <3> QED
      BY <1>6, <3>1, <3>2, <3>3, <3>4 DEF Total
  <2> QED
    BY <1>3, <2>1 DEF OnePlace
<1>8. StageOK'
  BY <1>1, <1>2 DEF StageOK
<1>9. VideoOK'
  <2>1. \A v : /\ Count(v, buckets["pairs"])' = Count(v, buckets["pairs"])
               /\ Count(v, buckets["videos"])' = Count(v, buckets["videos"])
               /\ Count(v, mp4s)' = Count(v, mp4s)
               /\ Count(v, pending["videos"])' = Count(v, pending["videos"])
    BY <1>2, <1>4 DEF Count, At
  <2> QED
    BY <1>1, <1>2, <1>3, <2>1 DEF VideoOK, Intake!Aligned
<1>10. FitOK'
  BY <1>1, <1>2, <1>3 DEF FitOK
<1> QED
  BY <1>5, <1>7, <1>8, <1>9, <1>10 DEF IntakeInv

(* Once all files are bucketed.                                            *)
LEMMA LateRest ==
  ASSUME IntakeInv, stage # "bucket", stage' # "bucket", UNCHANGED <<batch, todo, sidecars, mp4s>>
  PROVE  /\ Intake!InBatch' = Intake!InBatch /\ Sidecars' = Sidecars /\ Videos' = Videos /\ Plain' = Plain
         /\ todo = <<>> /\ mp4s = <<>>
         /\ \A j \in Intake!InBatch : /\ InTodo(j)' = InTodo(j) /\ InSidecars(j)' = InSidecars(j)
                               /\ Count(j, mp4s)' = Count(j, mp4s) /\ Count(j, mp4s) = 0
                               /\ (HiddenNow(j)' <=> HiddenNow(j))
         /\ (\A v \in Videos : timedBy'[v] # timedBy[v] =>
                              timedBy[v] \notin Sidecars /\ timedBy'[v] \notin Sidecars)
            => FitOK' /\ \A j \in Intake!InBatch : Timing(j)' = Timing(j)
         /\ /\ stage' \in {"bucket", "sniff", "open", "dialogs"}
            /\ buckets' \in [RouteNames -> Seq(Intake!InBatch)]
            /\ \A r \in RouteNames :
                 buckets'[r] \in Seq(IF r \in {"pairs", "videos"} THEN Videos ELSE Plain)
            /\ timedBy' \in [Intake!InBatch -> 0..Len(batch)]
            /\ opened' \subseteq Videos \cup Plain
            /\ errors' \in Seq(Intake!InBatch) /\ dropped' \in Seq(Videos \cup Plain)
            /\ pending' \in [QueueNames -> Seq(Intake!InBatch)]
            /\ \A q \in QueueNames : pending'[q] \in Seq(IF q = "videos" THEN Videos ELSE Plain)
            => IntakeTypeOK'
<1>1. IntakeTypeOK /\ StageOK /\ FitOK
  BY DEF IntakeInv
<1>2. Intake!InBatch' = Intake!InBatch /\ Sidecars' = Sidecars /\ Videos' = Videos /\ Plain' = Plain
      /\ Bucketed' = Bucketed
  BY BatchSame DEF Bucketed
<1>3. todo = <<>> /\ mp4s = <<>>
  BY <1>1 DEF StageOK
<1>4. \A j \in Intake!InBatch : /\ InTodo(j)' = InTodo(j) /\ InSidecars(j)' = InSidecars(j)
                         /\ Count(j, mp4s)' = Count(j, mp4s) /\ Count(j, mp4s) = 0
                         /\ (HiddenNow(j)' <=> HiddenNow(j))
  <2>1. \A j \in Intake!InBatch : Count(j, mp4s) = 0 /\ Count(j, mp4s)' = Count(j, mp4s)
    BY <1>3, CountEmpty DEF Count, At
  <2> QED
    BY <1>2, <2>1 DEF InTodo, InSidecars, HiddenNow
<1>5. ASSUME \A v \in Videos : timedBy'[v] # timedBy[v] =>
                              timedBy[v] \notin Sidecars /\ timedBy'[v] \notin Sidecars
      PROVE  FitOK' /\ \A j \in Intake!InBatch : Timing(j)' = Timing(j)
  <2>1. FitOK'
    BY <1>1, <1>2, <1>5 DEF FitOK
  <2>2. ASSUME NEW j \in Intake!InBatch PROVE Timing(j)' = Timing(j)
    <3>1. j \in Sidecars => TimedByIt(j)' = TimedByIt(j)
      BY <1>2, <1>5 DEF TimedByIt
    <3> QED
      BY <1>2, <3>1 DEF Timing
  <2> QED
    BY <2>1, <2>2
<1>6. ASSUME /\ stage' \in {"bucket", "sniff", "open", "dialogs"}
             /\ buckets' \in [RouteNames -> Seq(Intake!InBatch)]
             /\ \A r \in RouteNames :
                  buckets'[r] \in Seq(IF r \in {"pairs", "videos"} THEN Videos ELSE Plain)
             /\ timedBy' \in [Intake!InBatch -> 0..Len(batch)]
             /\ opened' \subseteq Videos \cup Plain
             /\ errors' \in Seq(Intake!InBatch) /\ dropped' \in Seq(Videos \cup Plain)
             /\ pending' \in [QueueNames -> Seq(Intake!InBatch)]
             /\ \A q \in QueueNames : pending'[q] \in Seq(IF q = "videos" THEN Videos ELSE Plain)
      PROVE  IntakeTypeOK'
  BY <1>1, <1>2, <1>6 DEF IntakeTypeOK
<1> QED
  BY <1>2, <1>3, <1>4, <1>5, <1>6

(* The first file of a bucket leaves it.                                   *)
LEMMA TakeRoute ==
  ASSUME IntakeInv, NEW r \in RouteNames, buckets[r] # <<>>,
         buckets' = [buckets EXCEPT ![r] = Tail(@)]
  PROVE  /\ Head(buckets[r]) \in (IF r \in {"pairs", "videos"} THEN Videos ELSE Plain)
         /\ Head(buckets[r]) \in Intake!InBatch
         /\ Routed(Head(buckets[r])) = 1 /\ Count(Head(buckets[r]), buckets[r]) = 1
         /\ buckets' \in [RouteNames -> Seq(Intake!InBatch)]
         /\ \A p \in RouteNames :
              buckets'[p] \in Seq(IF p \in {"pairs", "videos"} THEN Videos ELSE Plain)
         /\ \A j \in Intake!InBatch :
              /\ Routed(j)' = IF j = Head(buckets[r]) THEN 0 ELSE Routed(j)
              /\ \A p \in RouteNames :
                   Count(j, buckets'[p]) = IF j = Head(buckets[r]) THEN 0 ELSE Count(j, buckets[p])
<1> DEFINE i == Head(buckets[r])
           q == Tail(buckets[r])
           S == IF r \in {"pairs", "videos"} THEN Videos ELSE Plain
<1>1. IntakeTypeOK
  BY DEF IntakeInv
<1>2. /\ Videos \subseteq Intake!InBatch /\ Plain \subseteq Intake!InBatch /\ buckets[r] \in Seq(S)
      /\ buckets \in [RouteNames -> Seq(Intake!InBatch)] /\ buckets' = [buckets EXCEPT ![r] = q]
  BY <1>1, BatchIs DEF IntakeTypeOK
<1>3. S \subseteq Intake!InBatch
  BY <1>2
<1> HIDE DEF S
<1>4. /\ i \in S /\ q \in Seq(S)
      /\ \A j : Count(j, buckets[r]) = Count(j, q) + (IF i = j THEN 1 ELSE 0)
  BY <1>2, CountTail
<1> HIDE DEF i, q
<1>5. q \in Seq(Intake!InBatch) /\ i \in Intake!InBatch /\ \A j : Count(j, q) \in Nat
  BY <1>3, <1>4, SeqSub, CountIs
<1>6. /\ buckets' \in [RouteNames -> Seq(Intake!InBatch)] /\ buckets'[r] = q
      /\ \A p \in RouteNames : p # r => buckets'[p] = buckets[p]
  BY <1>2, <1>5
<1>7. \A p \in RouteNames : buckets'[p] \in Seq(IF p \in {"pairs", "videos"} THEN Videos ELSE Plain)
  <2>1. \A p \in RouteNames : buckets[p] \in Seq(IF p \in {"pairs", "videos"} THEN Videos ELSE Plain)
    BY <1>1 DEF IntakeTypeOK
  <2> QED
    BY <1>4, <1>6, <2>1 DEF S
<1>8. /\ Routed(i) = 1 /\ Count(i, buckets[r]) = 1 /\ Count(i, q) = 0
      /\ \A p \in RouteNames : p # r => Count(i, buckets[p]) = 0
  <2>1. Count(i, buckets[r]) = Count(i, q) + 1 /\ Count(i, q) \in Nat
    BY <1>4, <1>5
  <2>2. \A p \in RouteNames : Count(i, buckets[p]) \in Nat
    BY <1>1, <1>5, PartsAre
  <2>3. Count(i, buckets[r]) <= Routed(i) /\ Routed(i) \in Nat
    BY <1>1, <1>5, <2>2, RoutedPart, PartsAre
  <2>4. Routed(i) > 0
    BY <2>1, <2>3
  <2>5. Routed(i) = 1
    BY <1>5, <2>4, Alone
  <2>6. ASSUME NEW x \in Intake!InBatch, x = i, NEW p \in RouteNames, p # r
        PROVE  Count(x, buckets[p]) = 0
    <3>1. Count(x, q) \in Nat
      BY <1>5
    <3>2. /\ Routed(x)' \in Nat /\ Routed(x)' + Count(x, buckets[r]) = Routed(x) + Count(x, q)
          /\ \A z \in RouteNames :
               Count(x, buckets'[z]) \in Nat /\ Count(x, buckets'[z]) <= Routed(x)'
      BY <1>1, <1>2, <2>6, <3>1, RoutedChange
    <3>3. Routed(x)' = 0
      BY <2>1, <2>5, <2>6, <3>2
    <3> QED
      BY <1>6, <2>6, <3>2, <3>3
  <2> QED
    BY <1>5, <2>1, <2>3, <2>5, <2>6
<1>9. ASSUME NEW j \in Intake!InBatch
      PROVE  /\ Routed(j)' = IF j = i THEN 0 ELSE Routed(j)
             /\ \A p \in RouteNames : Count(j, buckets'[p]) = IF j = i THEN 0 ELSE Count(j, buckets[p])
  <2>1. Count(j, q) \in Nat /\ Count(j, buckets[r]) = Count(j, q) + (IF i = j THEN 1 ELSE 0)
    BY <1>4, <1>5
  <2>2. Count(j, buckets[r]) \in Nat /\ Routed(j) \in Nat
    BY <1>1, PartsAre
  <2>3. Routed(j)' \in Nat /\ Routed(j)' + Count(j, buckets[r]) = Routed(j) + Count(j, q)
    BY <1>1, <1>2, <2>1, RoutedChange
  <2>4. PICK a \in Nat : a = Routed(j)'
    BY <2>3
  <2>5. PICK b \in Nat : b = Routed(j)
    BY <2>2
  <2>6. PICK c \in Nat : c = Count(j, q)
    BY <2>1
  <2>7. a + (c + (IF i = j THEN 1 ELSE 0)) = b + c
    BY <2>1, <2>3, <2>4, <2>5, <2>6
  <2>8. a + (IF i = j THEN 1 ELSE 0) = b
    BY <2>7
  <2>9. j = i => b = 1
    BY <1>8, <2>5
  <2>10. Routed(j)' = IF j = i THEN 0 ELSE Routed(j)
    BY <2>4, <2>5, <2>8, <2>9
  <2>11. ASSUME NEW p \in RouteNames
         PROVE  Count(j, buckets'[p]) = IF j = i THEN 0 ELSE Count(j, buckets[p])
    <3>1. CASE p = r
      <4>1. j # i => Count(j, q) = Count(j, buckets[r])
        BY <2>1
      <4> QED
        BY <1>6, <1>8, <3>1, <4>1
    <3>2. CASE p # r
      BY <1>6, <1>8, <3>2
    <3> QED
      BY <3>1, <3>2
  <2> QED
    BY <2>10, <2>11
<1> QED
  BY <1>4, <1>5, <1>6, <1>7, <1>8, <1>9 DEF i, S

(* The first bucket that is not empty.                                     *)
LEMMA NextRoute ==
  ASSUME IntakeTypeOK, Intake!OpenNext
  PROVE  \E r \in RouteNames :
           /\ stage = "open" /\ buckets[r] # <<>> /\ buckets' = [buckets EXCEPT ![r] = Tail(@)]
           /\ \/ /\ errors' = Append(errors, Head(buckets[r]))
                 /\ UNCHANGED <<opened, pending>>
              \/ /\ r \notin {"videos", "tabular"}
                 /\ r = "pairs" => Intake!Aligned(Head(buckets[r]), timedBy[Head(buckets[r])])
                 /\ opened' = opened \cup {Head(buckets[r])} /\ UNCHANGED <<errors, pending>>
              \/ /\ r \in QueueNames
                 /\ pending' = [pending EXCEPT ![r] = Append(@, Head(buckets[r]))]
                 /\ UNCHANGED <<opened, errors>>
           /\ UNCHANGED <<batch, stage, todo, sidecars, mp4s, timedBy, dropped>>
<1> DEFINE left == {n \in 1..Len(Intake!Routes) : buckets[Intake!Routes[n]] # <<>>}
           k == CHOOSE n \in left : \A m \in left : n <= m
           r == Intake!Routes[k]
<1>1. /\ stage = "open" /\ left # {} /\ buckets' = [buckets EXCEPT ![r] = Tail(@)]
      /\ \/ /\ errors' = Append(errors, Head(buckets[r]))
            /\ UNCHANGED <<opened, pending>>
         \/ /\ r \notin {"videos", "tabular"}
            /\ r = "pairs" => Intake!Aligned(Head(buckets[r]), timedBy[Head(buckets[r])])
            /\ opened' = opened \cup {Head(buckets[r])} /\ UNCHANGED <<errors, pending>>
         \/ /\ r \in DOMAIN pending
            /\ pending' = [pending EXCEPT ![r] = Append(@, Head(buckets[r]))]
            /\ UNCHANGED <<opened, errors>>
      /\ UNCHANGED <<batch, stage, todo, sidecars, mp4s, timedBy, dropped>>
  BY DEF Intake!OpenNext
<1>2. Len(Intake!Routes) = 10 /\ left \in SUBSET Nat
  BY DEF Intake!Routes
<1>3. k \in left
  <2>1. \E n \in left : \A m \in left : n <= m
    <3> HIDE DEF left
    <3> QED
      BY <1>1, <1>2, LeastNat
  <2> HIDE DEF left
  <2> QED
    BY <2>1
<1>4. k \in 1..10 /\ buckets[r] # <<>>
  <2> HIDE DEF k
  <2> QED
    BY <1>2, <1>3
<1>5. r \in RouteNames
  <2>1. k \in {1, 2, 3, 4, 5, 6, 7, 8, 9, 10}
    <3> HIDE DEF k
    <3> QED
      BY <1>4
  <2> HIDE DEF k
  <2> QED
    BY <2>1 DEF Intake!Routes, RouteNames
<1>6. DOMAIN pending = QueueNames
  BY DEF IntakeTypeOK
<1> HIDE DEF r
<1> QED
  BY <1>1, <1>4, <1>5, <1>6

LEMMA NotWaiting ==
  ASSUME IntakeTypeOK, NEW i \in Intake!InBatch, Waiting(i) = 0
  PROVE  \A q \in QueueNames : Count(i, pending[q]) = 0
<1>1. \A q \in QueueNames : Count(i, pending[q]) \in Nat
  BY PartsAre
<1>2. \A q \in QueueNames : Count(i, pending[q]) <= Waiting(i)
  BY <1>1, WaitingPart
<1> QED
  BY <1>1, <1>2

LEMMA OpenNextInv == ASSUME IntakeInv, Intake!OpenNext PROVE IntakeInv'
<1>1. IntakeTypeOK /\ StageOK /\ VideoOK /\ FitOK
  BY DEF IntakeInv
<1>2. PICK r \in RouteNames :
        /\ stage = "open" /\ buckets[r] # <<>> /\ buckets' = [buckets EXCEPT ![r] = Tail(@)]
        /\ \/ /\ errors' = Append(errors, Head(buckets[r]))
              /\ UNCHANGED <<opened, pending>>
           \/ /\ r \notin {"videos", "tabular"}
              /\ r = "pairs" => Intake!Aligned(Head(buckets[r]), timedBy[Head(buckets[r])])
              /\ opened' = opened \cup {Head(buckets[r])} /\ UNCHANGED <<errors, pending>>
           \/ /\ r \in QueueNames
              /\ pending' = [pending EXCEPT ![r] = Append(@, Head(buckets[r]))]
              /\ UNCHANGED <<opened, errors>>
        /\ UNCHANGED <<batch, stage, todo, sidecars, mp4s, timedBy, dropped>>
  BY <1>1, NextRoute
<1> DEFINE Leads == Head(buckets[r])
<1>3. /\ Leads \in (IF r \in {"pairs", "videos"} THEN Videos ELSE Plain) /\ Leads \in Intake!InBatch
      /\ Routed(Leads) = 1 /\ Count(Leads, buckets[r]) = 1
      /\ buckets' \in [RouteNames -> Seq(Intake!InBatch)]
      /\ \A p \in RouteNames :
           buckets'[p] \in Seq(IF p \in {"pairs", "videos"} THEN Videos ELSE Plain)
      /\ \A j \in Intake!InBatch :
           /\ Routed(j)' = IF j = Leads THEN 0 ELSE Routed(j)
           /\ \A p \in RouteNames :
                Count(j, buckets'[p]) = IF j = Leads THEN 0 ELSE Count(j, buckets[p])
  BY <1>2, TakeRoute
<1> HIDE DEF Leads
<1>4. PICK i \in Intake!InBatch : i = Leads
  BY <1>3
<1>5. /\ i \in (IF r \in {"pairs", "videos"} THEN Videos ELSE Plain)
      /\ Routed(i) = 1 /\ Count(i, buckets[r]) = 1
  BY <1>3, <1>4
<1>6. /\ InTodo(i) = 0 /\ InSidecars(i) = 0 /\ Count(i, mp4s) = 0 /\ Count(i, errors) = 0
      /\ Count(i, dropped) = 0 /\ InSources(i) = 0 /\ Waiting(i) = 0 /\ Timing(i) = 0
      /\ ~ HiddenNow(i)
  <2>1. /\ InTodo(i) = 0 /\ InSidecars(i) = 0 /\ Count(i, mp4s) = 0 /\ Count(i, errors) = 0
        /\ Count(i, dropped) = 0 /\ InSources(i) = 0 /\ Waiting(i) = 0 /\ Timing(i) = 0
    BY <1>5, Alone
  <2>2. i \in Videos \/ i \in Plain
    BY <1>5
  <2>3. i \notin Sidecars
    BY <1>1, <2>2, BatchIs
  <2> QED
    BY <2>1, <2>3 DEF HiddenNow
<1>7. /\ Videos \subseteq Intake!InBatch /\ Plain \subseteq Intake!InBatch /\ Videos \cap Plain = {}
      /\ 0 \notin Sidecars
  BY <1>1, BatchIs
<1>8. ASSUME NEW j \in Intake!InBatch
      PROVE  /\ Routed(j)' = IF j = i THEN 0 ELSE Routed(j)
             /\ \A p \in RouteNames : Count(j, buckets'[p]) = IF j = i THEN 0 ELSE Count(j, buckets[p])
             /\ Count(j, dropped)' = Count(j, dropped)
  BY <1>2, <1>3, <1>4 DEF Count, At
<1>9. /\ Intake!InBatch' = Intake!InBatch /\ Sidecars' = Sidecars /\ Videos' = Videos /\ Plain' = Plain
      /\ mp4s = <<>> /\ mp4s' = <<>>
      /\ \A j \in Intake!InBatch : /\ InTodo(j)' = InTodo(j) /\ InSidecars(j)' = InSidecars(j)
                            /\ Count(j, mp4s)' = Count(j, mp4s) /\ Timing(j)' = Timing(j)
                            /\ (HiddenNow(j)' <=> HiddenNow(j))
      /\ FitOK'
  <2>1. stage # "bucket" /\ stage' # "bucket" /\ timedBy' = timedBy
    BY <1>2
  <2>2. \A v \in Videos : timedBy'[v] # timedBy[v] =>
                              timedBy[v] \notin Sidecars /\ timedBy'[v] \notin Sidecars
    BY <2>1
  <2>3. UNCHANGED <<batch, todo, sidecars, mp4s>> /\ mp4s' = mp4s
    BY <1>2
  <2>4. FitOK' /\ \A j \in Intake!InBatch : Timing(j)' = Timing(j)
    BY <2>1, <2>2, <2>3, LateRest
  <2>5. /\ Intake!InBatch' = Intake!InBatch /\ Sidecars' = Sidecars /\ Videos' = Videos /\ Plain' = Plain
        /\ mp4s = <<>>
        /\ \A j \in Intake!InBatch : /\ InTodo(j)' = InTodo(j) /\ InSidecars(j)' = InSidecars(j)
                              /\ Count(j, mp4s)' = Count(j, mp4s)
                              /\ (HiddenNow(j)' <=> HiddenNow(j))
    BY <2>1, <2>3, LateRest
  <2> QED
    BY <2>3, <2>4, <2>5
<1>10. StageOK'
  BY <1>1, <1>2, <1>9 DEF StageOK
<1>11. ASSUME /\ opened' \subseteq Videos \cup Plain /\ errors' \in Seq(Intake!InBatch)
              /\ pending' \in [QueueNames -> Seq(Intake!InBatch)]
              /\ \A q \in QueueNames : pending'[q] \in Seq(IF q = "videos" THEN Videos ELSE Plain)
       PROVE  IntakeTypeOK'
  <2>1. stage # "bucket" /\ stage' # "bucket" /\ stage' \in {"bucket", "sniff", "open", "dialogs"}
    BY <1>2
  <2>2. timedBy' \in [Intake!InBatch -> 0..Len(batch)] /\ dropped' \in Seq(Videos \cup Plain)
    BY <1>1, <1>2 DEF IntakeTypeOK
  <2> QED
    BY <1>2, <1>3, <1>11, <2>1, <2>2, LateRest
(* What is needed of where the file comes to rest.                         *)
<1>12. ASSUME \A j \in Intake!InBatch :
                IF j = i
                  THEN Count(i, errors)' + InSources(i)' + Waiting(i)' = 1
                  ELSE /\ Count(j, errors)' = Count(j, errors) /\ InSources(j)' = InSources(j)
                       /\ Waiting(j)' = Waiting(j),
              Count(i, errors)' \in Nat, InSources(i)' \in Nat, Waiting(i)' \in Nat
       PROVE  OnePlace'
  <2>1. ASSUME NEW j \in Intake!InBatch PROVE Total(j)' = IF HiddenNow(j)' THEN 0 ELSE 1
    <3>1. Total(j) = IF HiddenNow(j) THEN 0 ELSE 1
      BY DEF IntakeInv, OnePlace
    <3>2. CASE j = i
      <4>1. /\ InTodo(i)' = 0 /\ InSidecars(i)' = 0 /\ Count(i, mp4s)' = 0 /\ Routed(i)' = 0
            /\ Count(i, dropped)' = 0 /\ Timing(i)' = 0 /\ ~ HiddenNow(i)'
        BY <1>6, <1>8, <1>9
      <4>2. Count(i, errors)' + InSources(i)' + Waiting(i)' = 1
        BY <1>12
      <4>3. Total(i)' = Count(i, errors)' + InSources(i)' + Waiting(i)'
        BY <1>12, <4>1 DEF Total
      <4> QED
        BY <3>2, <4>1, <4>2, <4>3
    <3>3. CASE j # i
      BY <1>8, <1>9, <1>12, <3>1, <3>3 DEF Total
    <3> QED
      BY <3>2, <3>3
  <2> QED
    BY <1>9, <2>1 DEF OnePlace
<1>13. ASSUME \A v \in Videos :
                /\ v \in opened' \ opened => timedBy[v] # 0 /\ Intake!Aligned(v, timedBy[v])
                /\ v # i => Count(v, pending'["videos"]) = Count(v, pending["videos"])
                /\ v = i /\ Count(v, pending'["videos"]) > 0 => timedBy[v] = 0,
              Count(i, pending'["videos"]) \in Nat
       PROVE  VideoOK'
  <2>1. ASSUME NEW v \in Videos
        PROVE  /\ v \in opened' => timedBy[v] # 0 /\ Intake!Aligned(v, timedBy[v])
               /\ Count(v, mp4s') + Count(v, buckets'["videos"]) + Count(v, pending'["videos"]) > 0 =>
                    timedBy[v] = 0
               /\ Count(v, buckets'["pairs"]) > 0 => timedBy[v] \in Sidecars
               /\ timedBy[v] \in Sidecars => batch[timedBy[v]].name = batch[v].name
    <3>1. /\ v \in opened => timedBy[v] # 0 /\ Intake!Aligned(v, timedBy[v])
          /\ Count(v, mp4s) + Count(v, buckets["videos"]) + Count(v, pending["videos"]) > 0 =>
               timedBy[v] = 0
          /\ Count(v, buckets["pairs"]) > 0 => timedBy[v] \in Sidecars
          /\ timedBy[v] \in Sidecars => batch[timedBy[v]].name = batch[v].name
      BY <1>1 DEF VideoOK
    <3>2. v \in Intake!InBatch /\ Count(v, mp4s') = 0 /\ Count(v, mp4s) = 0
      BY <1>7, <1>9, CountEmpty
    <3>3. /\ Count(v, buckets'["videos"]) = IF v = i THEN 0 ELSE Count(v, buckets["videos"])
          /\ Count(v, buckets'["pairs"]) = IF v = i THEN 0 ELSE Count(v, buckets["pairs"])
      BY <1>8, <3>2 DEF RouteNames
    <3>4. CASE v = i
      BY <1>13, <3>1, <3>2, <3>3, <3>4
    <3>5. CASE v # i
      BY <1>13, <3>1, <3>2, <3>3, <3>5
    <3> QED
      BY <3>4, <3>5
  <2>2. /\ timedBy' = timedBy /\ \A v, w : Intake!Aligned(v, w)' <=> Intake!Aligned(v, w)
    BY <1>2 DEF Intake!Aligned
  <2>3. \A v : /\ Count(v, mp4s)' = Count(v, mp4s') /\ Count(v, buckets["videos"])' = Count(v, buckets'["videos"])
               /\ Count(v, pending["videos"])' = Count(v, pending'["videos"])
               /\ Count(v, buckets["pairs"])' = Count(v, buckets'["pairs"])
    BY DEF Count, At
  <2> QED
    BY <1>2, <1>9, <2>1, <2>2, <2>3 DEF VideoOK, Intake!Aligned
<1>14. /\ opened \subseteq Videos \cup Plain /\ errors \in Seq(Intake!InBatch)
       /\ pending \in [QueueNames -> Seq(Intake!InBatch)]
       /\ \A q \in QueueNames : pending[q] \in Seq(IF q = "videos" THEN Videos ELSE Plain)
       /\ i \notin opened /\ i \in Videos \cup Plain
  BY <1>1, <1>5, <1>6 DEF IntakeTypeOK, InSources
<1>15. CASE errors' = Append(errors, Leads) /\ UNCHANGED <<opened, pending>>
  <2>1. errors' \in Seq(Intake!InBatch) /\ \A j : Count(j, errors') = Count(j, errors) + (IF i = j THEN 1 ELSE 0)
    BY <1>4, <1>14, <1>15, CountAppend
  <2>2. \A j : Count(j, errors)' = Count(j, errors')
    BY DEF Count, At
  <2>3. \A j \in Intake!InBatch : InSources(j)' = InSources(j) /\ Waiting(j)' = Waiting(j)
    BY <1>15 DEF InSources, Waiting, Count, At
  <2>4. Count(i, errors)' = 1 /\ InSources(i)' = 0 /\ Waiting(i)' = 0
    BY <1>6, <2>1, <2>2, <2>3
  <2>5. \A j \in Intake!InBatch : j # i => Count(j, errors)' = Count(j, errors)
    <3>1. \A j \in Intake!InBatch : Count(j, errors) \in Nat
      BY <1>1, PartsAre
    <3> QED
      BY <2>1, <2>2, <3>1
  <2>6. OnePlace'
    BY <1>12, <2>3, <2>4, <2>5
  <2>7. VideoOK'
    <3>1. \A v \in Videos : v = i /\ Count(v, pending["videos"]) > 0 => timedBy[v] = 0
      BY <1>1, <1>6, NotWaiting DEF QueueNames
    <3>2. Count(i, pending'["videos"]) \in Nat
      BY <1>1, <1>15, PartsAre DEF QueueNames
    <3> QED
      BY <1>13, <1>15, <3>1, <3>2
  <2>8. IntakeTypeOK'
    BY <1>11, <1>14, <1>15, <2>1
  <2> QED
    BY <1>9, <1>10, <2>6, <2>7, <2>8 DEF IntakeInv
<1>16. CASE /\ r \notin {"videos", "tabular"} /\ (r = "pairs" => Intake!Aligned(Leads, timedBy[Leads]))
            /\ opened' = opened \cup {Leads} /\ UNCHANGED <<errors, pending>>
  <2>1. \A j \in Intake!InBatch : Count(j, errors)' = Count(j, errors) /\ Waiting(j)' = Waiting(j)
    BY <1>16 DEF Waiting, Count, At
  <2>2. \A j \in Intake!InBatch : InSources(j)' = IF j = i THEN 1 ELSE InSources(j)
    BY <1>4, <1>16 DEF InSources
  <2>3. Count(i, errors)' = 0 /\ InSources(i)' = 1 /\ Waiting(i)' = 0
    BY <1>6, <2>1, <2>2
  <2>4. OnePlace'
    BY <1>12, <2>1, <2>2, <2>3
  <2>5. VideoOK'
    <3>1. \A v \in Videos : v = i /\ Count(v, pending["videos"]) > 0 => timedBy[v] = 0
      BY <1>1, <1>6, NotWaiting DEF QueueNames
    <3>2. Count(i, pending'["videos"]) \in Nat
      BY <1>1, <1>16, PartsAre DEF QueueNames
    <3>3. i \in Videos => timedBy[i] # 0 /\ Intake!Aligned(i, timedBy[i])
      <4>1. ASSUME i \in Videos PROVE timedBy[i] # 0 /\ Intake!Aligned(i, timedBy[i])
        <5>1. r = "pairs"
          BY <1>5, <1>7, <1>16, <4>1
        <5>2. timedBy[i] \in Sidecars
          BY <1>1, <1>5, <4>1, <5>1 DEF VideoOK
        <5> QED
          BY <1>4, <1>7, <1>16, <5>1, <5>2
      <4> QED
        BY <4>1
    <3> QED
      BY <1>4, <1>13, <1>16, <3>1, <3>2, <3>3
  <2>6. IntakeTypeOK'
    BY <1>4, <1>11, <1>14, <1>16
  <2> QED
    BY <1>9, <1>10, <2>4, <2>5, <2>6 DEF IntakeInv
<1>17. CASE /\ r \in QueueNames /\ pending' = [pending EXCEPT ![r] = Append(@, Leads)]
            /\ UNCHANGED <<opened, errors>>
  <2> DEFINE q == Append(pending[r], i)
             S == IF r = "videos" THEN Videos ELSE Plain
  <2>1. pending' = [pending EXCEPT ![r] = q] /\ pending[r] \in Seq(S) /\ pending[r] \in Seq(Intake!InBatch)
    BY <1>4, <1>14, <1>17
  <2>2. i \in S
    BY <1>5, <1>17 DEF QueueNames
  <2> HIDE DEF S
  <2>3. /\ q \in Seq(S) /\ q \in Seq(Intake!InBatch)
        /\ \A j : Count(j, q) = Count(j, pending[r]) + (IF i = j THEN 1 ELSE 0)
    BY <2>1, <2>2, CountAppend
  <2> HIDE DEF q
  <2>4. /\ pending' \in [QueueNames -> Seq(Intake!InBatch)] /\ pending'[r] = q
        /\ \A p \in QueueNames : p # r => pending'[p] = pending[p]
    BY <1>14, <1>17, <2>1, <2>3
  <2>5. \A p \in QueueNames : pending'[p] \in Seq(IF p = "videos" THEN Videos ELSE Plain)
    BY <1>14, <2>3, <2>4 DEF S
  <2>6. ASSUME NEW j \in Intake!InBatch
        PROVE  /\ Waiting(j)' = IF j = i THEN 1 ELSE Waiting(j)
               /\ j # i => Count(j, q) = Count(j, pending[r])
               /\ Count(j, q) \in Nat
    <3>1. Count(j, pending[r]) \in Nat /\ Waiting(j) \in Nat
      BY <1>1, <1>17, PartsAre
    <3>2. Count(j, q) = Count(j, pending[r]) + (IF i = j THEN 1 ELSE 0)
      BY <2>3
    <3>3. Count(j, q) \in Nat
      BY <3>1, <3>2
    <3>4. Waiting(j)' \in Nat /\ Waiting(j)' + Count(j, pending[r]) = Waiting(j) + Count(j, q)
      BY <1>1, <1>17, <2>1, <3>3, WaitingChange
    <3>5. PICK a \in Nat : a = Waiting(j)'
      BY <3>4
    <3>6. PICK b \in Nat : b = Waiting(j)
      BY <3>1
    <3>7. PICK c \in Nat : c = Count(j, pending[r])
      BY <3>1
    <3>8. a + c = b + (c + (IF i = j THEN 1 ELSE 0))
      BY <3>2, <3>4, <3>5, <3>6, <3>7
    <3>9. a = b + (IF i = j THEN 1 ELSE 0)
      BY <3>8
    <3>10. j = i => b = 0
      BY <1>6, <3>6
    <3> QED
      BY <3>1, <3>2, <3>3, <3>5, <3>6, <3>9, <3>10
  <2>7. \A j \in Intake!InBatch : Count(j, errors)' = Count(j, errors) /\ InSources(j)' = InSources(j)
    BY <1>17 DEF InSources, Count, At
  <2>8. Count(i, errors)' = 0 /\ InSources(i)' = 0 /\ Waiting(i)' = 1
    BY <1>6, <2>6, <2>7
  <2>9. OnePlace'
    BY <1>12, <2>6, <2>7, <2>8
  <2>10. VideoOK'
    <3>1. i \in Videos => timedBy[i] = 0
      <4>1. ASSUME i \in Videos PROVE timedBy[i] = 0
        <5>1. r = "videos"
          BY <1>5, <1>7, <1>17, <4>1 DEF QueueNames
        <5>2. Count(i, mp4s) = 0 /\ Count(i, pending["videos"]) \in Nat
          BY <1>1, <1>6, PartsAre DEF QueueNames
        <5>3. Count(i, mp4s) + Count(i, buckets["videos"]) + Count(i, pending["videos"]) > 0
          BY <1>5, <5>1, <5>2
        <5> QED
          BY <1>1, <4>1, <5>3 DEF VideoOK
      <4> QED
        BY <4>1
    <3>2. "videos" \in QueueNames
      BY DEF QueueNames
    <3>3. ASSUME NEW v \in Intake!InBatch
          PROVE  /\ v # i => Count(v, pending'["videos"]) = Count(v, pending["videos"])
                 /\ Count(v, pending'["videos"]) \in Nat
      <4>1. CASE r = "videos"
        BY <2>4, <2>6, <4>1
      <4>2. CASE r # "videos"
        <5>1. Count(v, pending["videos"]) \in Nat
          BY <1>1, <3>2, PartsAre
        <5> QED
          BY <2>4, <3>2, <4>2, <5>1
      <4> QED
        BY <4>1, <4>2
    <3> QED
      BY <1>7, <1>13, <1>17, <3>1, <3>3
  <2>11. IntakeTypeOK'
    BY <1>11, <1>14, <1>17, <2>4, <2>5
  <2> QED
    BY <1>9, <1>10, <2>9, <2>10, <2>11 DEF IntakeInv
<1> QED
  BY <1>2, <1>15, <1>16, <1>17 DEF Leads

LEMMA UnchangedInv ==
  ASSUME IntakeInv, stage' = stage,
         UNCHANGED <<batch, todo, sidecars, mp4s, buckets, timedBy, opened, errors, pending, dropped>>
  PROVE  IntakeInv'
<1>1. IntakeTypeOK /\ OnePlace /\ StageOK /\ VideoOK /\ FitOK
  BY DEF IntakeInv
<1>2. Intake!InBatch' = Intake!InBatch /\ Sidecars' = Sidecars /\ Videos' = Videos /\ Plain' = Plain
      /\ Bucketed' = Bucketed
  BY BatchSame DEF Bucketed
<1>3. IntakeTypeOK'
  BY <1>1, <1>2 DEF IntakeTypeOK
<1>4. OnePlace'
  <2>1. ASSUME NEW j \in Intake!InBatch PROVE Total(j)' = Total(j) /\ (HiddenNow(j)' <=> HiddenNow(j))
    <3>1. TimedByIt(j)' = TimedByIt(j)
      BY <1>2 DEF TimedByIt
    <3> QED
      BY <1>2, <3>1
      DEF Total, InTodo, InSidecars, Routed, Waiting, InSources, Timing, Count, At, HiddenNow
  <2> QED
    BY <1>1, <1>2, <2>1 DEF OnePlace
<1>5. StageOK'
  BY <1>1, <1>2 DEF StageOK
<1>6. VideoOK'
  BY <1>1, <1>2 DEF VideoOK, Intake!Aligned, Count, At
<1>7. FitOK'
  BY <1>1, <1>2 DEF FitOK, Count, At
<1> QED
  BY <1>3, <1>4, <1>5, <1>6, <1>7 DEF IntakeInv

LEMMA QueuedInv == ASSUME IntakeInv, Intake!Queued PROVE IntakeInv'
<1>1. IntakeTypeOK /\ OnePlace /\ StageOK /\ VideoOK /\ FitOK
  BY DEF IntakeInv
<1>2. /\ stage = "open" /\ stage' = "dialogs" /\ \A r \in RouteNames : buckets[r] = <<>>
      /\ UNCHANGED <<batch, todo, sidecars, mp4s, buckets, timedBy, opened, errors, pending, dropped>>
  BY RoutesAre DEF Intake!Queued
<1>3. Intake!InBatch' = Intake!InBatch /\ Sidecars' = Sidecars /\ Videos' = Videos /\ Plain' = Plain
      /\ Bucketed' = Bucketed
  BY <1>2, BatchSame DEF Bucketed
<1>4. IntakeTypeOK'
  BY <1>1, <1>2, <1>3 DEF IntakeTypeOK
<1>5. OnePlace'
  <2>1. ASSUME NEW j \in Intake!InBatch PROVE Total(j)' = Total(j) /\ (HiddenNow(j)' <=> HiddenNow(j))
    <3>1. TimedByIt(j)' = TimedByIt(j)
      BY <1>2, <1>3 DEF TimedByIt
    <3> QED
      BY <1>2, <1>3, <3>1
      DEF Total, InTodo, InSidecars, Routed, Waiting, InSources, Timing, Count, At, HiddenNow
  <2> QED
    BY <1>1, <1>3, <2>1 DEF OnePlace
<1>6. StageOK'
  BY <1>1, <1>2 DEF StageOK
<1>7. VideoOK'
  BY <1>1, <1>2, <1>3 DEF VideoOK, Intake!Aligned, Count, At
<1>8. FitOK'
  BY <1>1, <1>2, <1>3 DEF FitOK
<1> QED
  BY <1>4, <1>5, <1>6, <1>7, <1>8 DEF IntakeInv

-----------------------------------------------------------------------------
(* The dialogs.                                                            *)

(* The first imports H of the queues Q leave them.                         *)
TakenFrom(Q, H) ==
  /\ Q \in SUBSET QueueNames /\ \A q \in Q : pending[q] # <<>>
  /\ H = {Head(pending[q]) : q \in Q} /\ batch' = batch
  /\ pending' = [q \in QueueNames |-> IF q \in Q THEN Tail(pending[q]) ELSE pending[q]]

LEMMA TakeQueues ==
  ASSUME IntakeInv, NEW Q, NEW H, TakenFrom(Q, H)
  PROVE  /\ \A q \in Q : Head(pending[q]) \in (IF q = "videos" THEN Videos ELSE Plain)
         /\ H \subseteq Videos \cup Plain /\ H \subseteq Intake!InBatch
         /\ pending' \in [QueueNames -> Seq(Intake!InBatch)]
         /\ \A q \in QueueNames : pending'[q] \in Seq(IF q = "videos" THEN Videos ELSE Plain)
         /\ \A j \in Intake!InBatch :
              /\ Waiting(j)' = IF j \in H THEN 0 ELSE Waiting(j)
              /\ j \in H => Waiting(j) = 1
              /\ \A q \in QueueNames : /\ Count(j, pending'[q]) \in Nat
                                       /\ Count(j, pending'[q]) <= Count(j, pending[q])
                                       /\ j \in H => Count(j, pending'[q]) = 0
<1> USE DEF TakenFrom
<1> DEFINE Kind(q) == IF q = "videos" THEN Videos ELSE Plain
<1>1. IntakeTypeOK
  BY DEF IntakeInv
<1>2. /\ pending \in [QueueNames -> Seq(Intake!InBatch)] /\ \A q \in QueueNames : pending[q] \in Seq(Kind(q))
  BY <1>1 DEF IntakeTypeOK
<1>3. Videos \subseteq Intake!InBatch /\ Plain \subseteq Intake!InBatch
  BY <1>1, BatchIs
<1> HIDE DEF Kind
<1>4. ASSUME NEW q \in Q
      PROVE  /\ Head(pending[q]) \in Kind(q) /\ Tail(pending[q]) \in Seq(Kind(q))
             /\ \A j : Count(j, pending[q]) =
                         Count(j, Tail(pending[q])) + (IF Head(pending[q]) = j THEN 1 ELSE 0)
  BY <1>2, CountTail
<1>5. \A q \in QueueNames : pending'[q] = IF q \in Q THEN Tail(pending[q]) ELSE pending[q]
  OBVIOUS
<1>6. \A q \in QueueNames : pending'[q] \in Seq(Kind(q)) /\ pending'[q] \in Seq(Intake!InBatch)
  <2>1. ASSUME NEW q \in QueueNames PROVE pending'[q] \in Seq(Kind(q))
    BY <1>2, <1>4, <1>5
  <2>2. \A q : Kind(q) \subseteq Intake!InBatch
    BY <1>3 DEF Kind
  <2> QED
    BY <2>1, <2>2, SeqSub
<1>7. pending' \in [QueueNames -> Seq(Intake!InBatch)]
  <2>1. pending' = [q \in QueueNames |-> pending'[q]]
    OBVIOUS
  <2> QED
    BY <1>6, <2>1
<1>8. \A q \in Q : Head(pending[q]) \in Videos \cup Plain
  BY <1>4 DEF Kind
<1>9. ASSUME NEW j \in Intake!InBatch
      PROVE  /\ Waiting(j)' = IF j \in H THEN 0 ELSE Waiting(j)
             /\ j \in H => Waiting(j) = 1
             /\ \A q \in QueueNames : /\ Count(j, pending'[q]) \in Nat
                                      /\ Count(j, pending'[q]) <= Count(j, pending[q])
                                      /\ j \in H => Count(j, pending'[q]) = 0
  <2> DEFINE old(q) == Count(j, pending[q])
             now(q) == Count(j, pending'[q])
             d(q) == IF q \in Q /\ Head(pending[q]) = j THEN 1 ELSE 0
  <2>1. \A q \in QueueNames : old(q) \in Nat /\ now(q) \in Nat
    <3>1. \A q \in QueueNames : old(q) \in Nat
      BY <1>1, PartsAre
    <3>2. \A q \in QueueNames : now(q) \in Nat
      BY <1>6, CountIs
    <3> QED
      BY <3>1, <3>2
  <2>2. \A q \in QueueNames : old(q) = now(q) + d(q)
    <3>1. ASSUME NEW q \in Q PROVE old(q) = now(q) + d(q)
      <4>1. pending'[q] = Tail(pending[q])
        BY <1>5
      <4> QED
        BY <1>4, <4>1
    <3>2. ASSUME NEW q \in QueueNames \ Q PROVE old(q) = now(q) + d(q)
      <4>1. pending'[q] = pending[q] /\ old(q) \in Nat
        BY <1>5, <2>1
      <4> QED
        BY <4>1
    <3> QED
      BY <3>1, <3>2
  <2>3. /\ Waiting(j) = old("tabular") + old("unknown") + old("videos")
        /\ Waiting(j)' = now("tabular") + now("unknown") + now("videos")
    BY DEF Waiting, Count, At
  <2>4. \A q \in QueueNames : d(q) \in {0, 1}
    OBVIOUS
  <2>5. j \in H <=> d("tabular") = 1 \/ d("unknown") = 1 \/ d("videos") = 1
    BY DEF QueueNames
  <2>6. Waiting(j) > 0 => Waiting(j) = 1
    BY Alone
  <2> HIDE DEF old, now, d
  <2>7. /\ old("tabular") \in Nat /\ old("unknown") \in Nat /\ old("videos") \in Nat
        /\ now("tabular") \in Nat /\ now("unknown") \in Nat /\ now("videos") \in Nat
        /\ old("tabular") = now("tabular") + d("tabular")
        /\ old("unknown") = now("unknown") + d("unknown")
        /\ old("videos") = now("videos") + d("videos")
        /\ d("tabular") \in {0, 1} /\ d("unknown") \in {0, 1} /\ d("videos") \in {0, 1}
    BY <2>1, <2>2, <2>4 DEF QueueNames
  <2>8. j \in H => /\ Waiting(j) = 1
                   /\ now("tabular") = 0 /\ now("unknown") = 0 /\ now("videos") = 0
    <3>1. PICK a \in Nat, b \in Nat, c \in Nat :
            a = now("tabular") /\ b = now("unknown") /\ c = now("videos")
      BY <2>7
    <3>2. PICK x \in {0, 1}, y \in {0, 1}, z \in {0, 1} :
            x = d("tabular") /\ y = d("unknown") /\ z = d("videos")
      BY <2>7
    <3>3. Waiting(j) = (a + x) + (b + y) + (c + z)
      BY <2>3, <2>7, <3>1, <3>2
    <3>4. ASSUME j \in H PROVE x + y + z >= 1
      BY <2>5, <3>2, <3>4
    <3>5. ASSUME j \in H PROVE Waiting(j) = 1 /\ a = 0 /\ b = 0 /\ c = 0
      <4>1. (a + x) + (b + y) + (c + z) >= 1
        BY <3>4, <3>5
      <4>2. (a + x) + (b + y) + (c + z) = 1
        BY <2>6, <3>3, <4>1
      <4>3. a = 0 /\ b = 0 /\ c = 0
        BY <3>4, <3>5, <4>2
      <4> QED
        BY <3>3, <4>2, <4>3
    <3> QED
      BY <3>1, <3>5
  <2>9. Waiting(j)' = IF j \in H THEN 0 ELSE Waiting(j)
    BY <2>3, <2>5, <2>7, <2>8
  <2>10. \A q \in QueueNames : now(q) <= old(q)
    BY <2>1, <2>2, <2>4
  <2> QED
    BY <2>1, <2>8, <2>9, <2>10 DEF QueueNames, now, old
<1> QED
  BY <1>3, <1>4, <1>6, <1>7, <1>8, <1>9 DEF Kind

(* When each of them is opened, refused or given up.                       *)
LEMMA Answered ==
  ASSUME IntakeInv, stage = "dialogs", stage' = stage,
         UNCHANGED <<batch, todo, sidecars, mp4s, buckets>>, NEW Q, NEW H, TakenFrom(Q, H),
         opened' \subseteq Videos \cup Plain, errors' \in Seq(Intake!InBatch),
         dropped' \in Seq(Videos \cup Plain), timedBy' \in [Intake!InBatch -> 0..Len(batch)],
         \A v \in Videos : timedBy'[v] # timedBy[v] =>
                             v \in H /\ timedBy[v] \notin Sidecars /\ timedBy'[v] \notin Sidecars,
         \A j \in Intake!InBatch :
           IF j \in H
             THEN Count(j, errors') + Count(j, dropped') + (IF j \in opened' THEN 1 ELSE 0) = 1
             ELSE /\ Count(j, errors') = Count(j, errors) /\ Count(j, dropped') = Count(j, dropped)
                  /\ (j \in opened' <=> j \in opened),
         \A v \in Videos : v \in H /\ v \in opened' => timedBy'[v] # 0 /\ Intake!Aligned(v, timedBy'[v])
  PROVE  IntakeInv'
<1>1. IntakeTypeOK /\ StageOK /\ VideoOK /\ FitOK
  BY DEF IntakeInv
<1>2. /\ H \subseteq Videos \cup Plain /\ H \subseteq Intake!InBatch
      /\ pending' \in [QueueNames -> Seq(Intake!InBatch)]
      /\ \A q \in QueueNames : pending'[q] \in Seq(IF q = "videos" THEN Videos ELSE Plain)
      /\ \A j \in Intake!InBatch :
           /\ Waiting(j)' = IF j \in H THEN 0 ELSE Waiting(j)
           /\ j \in H => Waiting(j) = 1
           /\ \A q \in QueueNames : /\ Count(j, pending'[q]) \in Nat
                                    /\ Count(j, pending'[q]) <= Count(j, pending[q])
                                    /\ j \in H => Count(j, pending'[q]) = 0
  BY TakeQueues
<1>3. /\ stage # "bucket" /\ stage' # "bucket" /\ stage' \in {"bucket", "sniff", "open", "dialogs"}
      /\ batch' = batch /\ mp4s' = mp4s /\ buckets' = buckets
  OBVIOUS
<1>4. \A v \in Videos : timedBy'[v] # timedBy[v] =>
                          timedBy[v] \notin Sidecars /\ timedBy'[v] \notin Sidecars
  OBVIOUS
<1>5. FitOK' /\ \A j \in Intake!InBatch : Timing(j)' = Timing(j)
  BY <1>3, <1>4, LateRest
<1>6. /\ Intake!InBatch' = Intake!InBatch /\ Sidecars' = Sidecars /\ Videos' = Videos /\ Plain' = Plain
      /\ mp4s = <<>>
      /\ \A j \in Intake!InBatch : /\ InTodo(j)' = InTodo(j) /\ InSidecars(j)' = InSidecars(j)
                            /\ Count(j, mp4s)' = Count(j, mp4s)
                            /\ (HiddenNow(j)' <=> HiddenNow(j))
  BY <1>3, LateRest
<1>7. IntakeTypeOK'
  <2>1. /\ buckets' \in [RouteNames -> Seq(Intake!InBatch)]
        /\ \A r \in RouteNames :
             buckets'[r] \in Seq(IF r \in {"pairs", "videos"} THEN Videos ELSE Plain)
    BY <1>1, <1>3 DEF IntakeTypeOK
  <2> QED
    BY <1>2, <1>3, <2>1, LateRest
<1>8. \A j \in Intake!InBatch :
        /\ Count(j, errors)' = Count(j, errors') /\ Count(j, dropped)' = Count(j, dropped')
        /\ InSources(j)' = (IF j \in opened' THEN 1 ELSE 0) /\ Routed(j)' = Routed(j)
  BY DEF InSources, Routed, Count, At
<1>9. OnePlace'
  <2>1. ASSUME NEW j \in Intake!InBatch PROVE Total(j)' = IF HiddenNow(j)' THEN 0 ELSE 1
    <3>1. Total(j) = IF HiddenNow(j) THEN 0 ELSE 1
      BY DEF IntakeInv, OnePlace
    <3>2. CASE j \in H
      <4>1. Waiting(j) = 1
        BY <1>2, <3>2
      <4>2. /\ InTodo(j) = 0 /\ InSidecars(j) = 0 /\ Count(j, mp4s) = 0 /\ Routed(j) = 0
            /\ Timing(j) = 0
        BY <4>1, Alone
      <4>3. ~ HiddenNow(j)
        <5>1. j \notin Sidecars
          BY <1>1, <1>2, <3>2, BatchIs
        <5> QED
          BY <5>1 DEF HiddenNow
      <4>4. /\ InTodo(j)' = 0 /\ InSidecars(j)' = 0 /\ Count(j, mp4s)' = 0 /\ Routed(j)' = 0
            /\ Timing(j)' = 0 /\ Waiting(j)' = 0
        BY <1>2, <1>5, <1>6, <1>8, <3>2, <4>2
      <4>5. Count(j, errors') \in Nat /\ Count(j, dropped') \in Nat
        BY CountIs
      <4>6. Count(j, errors)' + Count(j, dropped)' + InSources(j)' = 1
        BY <1>8, <3>2
      <4>7. Count(j, errors)' \in Nat /\ Count(j, dropped)' \in Nat /\ InSources(j)' \in Nat
        BY <1>8, <4>5
      <4>8. Total(j)' = Count(j, errors)' + Count(j, dropped)' + InSources(j)'
        BY <4>4, <4>7 DEF Total
      <4> QED
        BY <1>6, <4>3, <4>6, <4>8
    <3>3. CASE j \notin H
      <4>1. InSources(j)' = InSources(j)
        BY <1>8, <3>3 DEF InSources
      <4>2. /\ Count(j, errors)' = Count(j, errors) /\ Count(j, dropped)' = Count(j, dropped)
            /\ Waiting(j)' = Waiting(j)
        BY <1>2, <1>8, <3>3
      <4> QED
        BY <1>5, <1>6, <1>8, <3>1, <4>1, <4>2 DEF Total
    <3> QED
      BY <3>2, <3>3
  <2> QED
    BY <1>6, <2>1 DEF OnePlace
<1>10. StageOK'
  BY <1>1, <1>3, <1>6 DEF StageOK
<1>11. VideoOK'
  <2>1. ASSUME NEW v \in Videos
        PROVE  /\ v \in opened' => timedBy'[v] # 0 /\ Intake!Aligned(v, timedBy'[v])
               /\ Count(v, mp4s') + Count(v, buckets'["videos"]) + Count(v, pending'["videos"]) > 0 =>
                    timedBy'[v] = 0
               /\ Count(v, buckets'["pairs"]) > 0 => timedBy'[v] \in Sidecars
               /\ timedBy'[v] \in Sidecars => batch[timedBy'[v]].name = batch[v].name
    <3>1. /\ v \in opened => timedBy[v] # 0 /\ Intake!Aligned(v, timedBy[v])
          /\ Count(v, mp4s) + Count(v, buckets["videos"]) + Count(v, pending["videos"]) > 0 =>
               timedBy[v] = 0
          /\ Count(v, buckets["pairs"]) > 0 => timedBy[v] \in Sidecars
          /\ timedBy[v] \in Sidecars => batch[timedBy[v]].name = batch[v].name
      BY <1>1 DEF VideoOK
    <3>2. v \in Intake!InBatch /\ v \notin H => timedBy'[v] = timedBy[v]
      OBVIOUS
    <3>3. v \in Intake!InBatch
      BY <1>1, BatchIs
    <3>4. /\ Count(v, mp4s) = 0 /\ Count(v, buckets["videos"]) = 0 /\ Count(v, buckets["pairs"]) = 0
      BY <1>1, <1>6, CountEmpty DEF StageOK, RouteNames
    <3>5. /\ Count(v, pending'["videos"]) \in Nat /\ Count(v, pending["videos"]) \in Nat
          /\ Count(v, pending'["videos"]) <= Count(v, pending["videos"])
          /\ v \in H => Count(v, pending'["videos"]) = 0
      <4>1. "videos" \in QueueNames
        BY DEF QueueNames
      <4> QED
        BY <1>1, <1>2, <3>3, <4>1, PartsAre
    <3>6. Count(v, mp4s') + Count(v, buckets'["videos"]) + Count(v, pending'["videos"]) > 0 =>
            timedBy'[v] = 0
      BY <1>3, <3>1, <3>2, <3>3, <3>4, <3>5
    <3>7. v \in opened' => timedBy'[v] # 0 /\ Intake!Aligned(v, timedBy'[v])
      BY <3>1, <3>2, <3>3
    <3>8. Count(v, buckets'["pairs"]) = 0
      BY <1>3, <3>4
    <3> QED
      BY <1>4, <3>1, <3>6, <3>7, <3>8
  <2>2. \A v : /\ Count(v, mp4s)' = Count(v, mp4s')
               /\ Count(v, buckets["videos"])' = Count(v, buckets'["videos"])
               /\ Count(v, pending["videos"])' = Count(v, pending'["videos"])
               /\ Count(v, buckets["pairs"])' = Count(v, buckets'["pairs"])
    BY DEF Count, At
  <2>3. \A v \in Videos : Intake!Aligned(v, timedBy[v])' <=> Intake!Aligned(v, timedBy'[v])
    BY <1>3 DEF Intake!Aligned
  <2> QED
    BY <1>3, <1>6, <2>1, <2>2, <2>3 DEF VideoOK
<1> QED
  BY <1>5, <1>7, <1>9, <1>10, <1>11 DEF IntakeInv

LEMMA OneTaken ==
  ASSUME IntakeTypeOK, NEW q \in QueueNames, q \in Intake!Up, batch' = batch, pending' = Intake!Without(q)
  PROVE  /\ stage = "dialogs" /\ Head(pending[q]) \in Intake!InBatch
         /\ \A i : i = Head(pending[q]) => TakenFrom({q}, {i}) /\ Count(i, pending[q]) > 0
<1>1. stage = "dialogs" /\ pending[q] # <<>> /\ pending[q] \in Seq(Intake!InBatch)
      /\ DOMAIN pending = QueueNames
  BY DEF Intake!Up, IntakeTypeOK
<1>2. /\ Head(pending[q]) \in Intake!InBatch /\ Tail(pending[q]) \in Seq(Intake!InBatch)
      /\ \A i : Count(i, pending[q]) =
                  Count(i, Tail(pending[q])) + (IF Head(pending[q]) = i THEN 1 ELSE 0)
  BY <1>1, CountTail
<1>3. pending' = [p \in QueueNames |-> IF p \in {q} THEN Tail(pending[p]) ELSE pending[p]]
  BY <1>1 DEF Intake!Without
<1>4. ASSUME NEW i, i = Head(pending[q]) PROVE TakenFrom({q}, {i}) /\ Count(i, pending[q]) > 0
  <2>1. {i} = {Head(pending[p]) : p \in {q}}
    BY <1>4
  <2>2. TakenFrom({q}, {i})
    BY <1>1, <1>3, <2>1 DEF TakenFrom
  <2>3. Count(i, Tail(pending[q])) \in Nat
    BY <1>2, CountIs
  <2>4. Count(i, pending[q]) = Count(i, Tail(pending[q])) + 1
    BY <1>2, <1>4
  <2> QED
    BY <2>2, <2>3, <2>4
<1> QED
  BY <1>1, <1>2, <1>4

(* Where a file that a dialog is about is not.                             *)
LEMMA AskedOf ==
  ASSUME IntakeInv, NEW Q, NEW H, TakenFrom(Q, H), NEW i \in H
  PROVE  /\ i \in Intake!InBatch /\ i \in Videos \cup Plain
         /\ Count(i, errors) = 0 /\ Count(i, dropped) = 0 /\ i \notin opened
<1>1. i \in Intake!InBatch /\ i \in Videos \cup Plain /\ Waiting(i) = 1
  BY TakeQueues
<1>2. Count(i, errors) = 0 /\ Count(i, dropped) = 0 /\ InSources(i) = 0
  BY <1>1, Alone
<1> QED
  BY <1>1, <1>2 DEF InSources

(* The import of a table or of a recipe opens the file or is refused.      *)
LEMMA ImportInv ==
  ASSUME IntakeInv, NEW q \in {"tabular", "unknown"}, q \in Intake!Up, pending' = Intake!Without(q),
         UNCHANGED <<batch, stage, todo, sidecars, mp4s, buckets, timedBy, dropped>>,
         \/ opened' = opened \cup {Head(pending[q])} /\ errors' = errors
         \/ errors' = Append(errors, Head(pending[q])) /\ opened' = opened
  PROVE  IntakeInv'
<1>1. IntakeTypeOK
  BY DEF IntakeInv
<1>2. q \in QueueNames /\ batch' = batch
  BY DEF QueueNames
<1>3. /\ stage = "dialogs" /\ Head(pending[q]) \in Intake!InBatch
      /\ \A i : i = Head(pending[q]) => TakenFrom({q}, {i}) /\ Count(i, pending[q]) > 0
  BY <1>1, <1>2, OneTaken
<1>4. PICK i \in Intake!InBatch : i = Head(pending[q])
  BY <1>3
<1>5. TakenFrom({q}, {i})
  BY <1>3, <1>4
<1>6. Count(i, errors) = 0 /\ Count(i, dropped) = 0 /\ i \notin opened
  BY <1>5, AskedOf
<1>7. i \in Plain
  BY <1>1, <1>2, <1>3, <1>4, PartsAre
<1>8. /\ errors \in Seq(Intake!InBatch) /\ dropped \in Seq(Videos \cup Plain)
      /\ opened \subseteq Videos \cup Plain /\ timedBy \in [Intake!InBatch -> 0..Len(batch)]
  BY <1>1 DEF IntakeTypeOK
<1>9. i \notin Videos
  BY <1>1, <1>7, BatchIs
<1>10. \A j \in Intake!InBatch : Count(j, errors) \in Nat /\ Count(j, dropped) \in Nat
  BY <1>1, PartsAre
<1>11. /\ timedBy' \in [Intake!InBatch -> 0..Len(batch)] /\ dropped' \in Seq(Videos \cup Plain)
       /\ \A j : Count(j, dropped') = Count(j, dropped)
       /\ \A v \in Videos : timedBy'[v] # timedBy[v] =>
                              v \in {i} /\ timedBy[v] \notin Sidecars /\ timedBy'[v] \notin Sidecars
       /\ \A v \in Videos : v \in {i} /\ v \in opened' => timedBy'[v] # 0 /\ Intake!Aligned(v, timedBy'[v])
  BY <1>8, <1>9
<1>12. CASE opened' = opened \cup {Head(pending[q])} /\ errors' = errors
  <2>1. opened' \subseteq Videos \cup Plain /\ errors' \in Seq(Intake!InBatch)
    BY <1>4, <1>7, <1>8, <1>12
  <2>2. \A j \in Intake!InBatch :
          IF j \in {i}
            THEN Count(j, errors') + Count(j, dropped') + (IF j \in opened' THEN 1 ELSE 0) = 1
            ELSE /\ Count(j, errors') = Count(j, errors) /\ Count(j, dropped') = Count(j, dropped)
                 /\ (j \in opened' <=> j \in opened)
    BY <1>4, <1>6, <1>11, <1>12
  <2> QED
    BY <1>3, <1>5, <1>11, <2>1, <2>2, Answered
<1>13. CASE errors' = Append(errors, Head(pending[q])) /\ opened' = opened
  <2>1. /\ errors' \in Seq(Intake!InBatch)
        /\ \A j : Count(j, errors') = Count(j, errors) + (IF i = j THEN 1 ELSE 0)
    BY <1>4, <1>8, <1>13, CountAppend
  <2>2. opened' \subseteq Videos \cup Plain
    BY <1>8, <1>13
  <2>3. \A j \in Intake!InBatch :
          IF j \in {i}
            THEN Count(j, errors') + Count(j, dropped') + (IF j \in opened' THEN 1 ELSE 0) = 1
            ELSE /\ Count(j, errors') = Count(j, errors) /\ Count(j, dropped') = Count(j, dropped)
                 /\ (j \in opened' <=> j \in opened)
    BY <1>6, <1>10, <1>11, <1>13, <2>1
  <2> QED
    BY <1>3, <1>5, <1>11, <2>1, <2>2, <2>3, Answered
<1> QED
  BY <1>12, <1>13

LEMMA BindingInv == ASSUME IntakeInv, Intake!ConfirmVideoBinding PROVE IntakeInv'
<1>1. IntakeTypeOK /\ VideoOK
  BY DEF IntakeInv
<1>2. /\ "videos" \in Intake!Up /\ Intake!Selected \in Intake!Tables
      /\ UNCHANGED <<batch, stage, todo, sidecars, mp4s, buckets, errors, dropped>>
      /\ "videos" \in QueueNames /\ batch' = batch
  BY DEF Intake!ConfirmVideoBinding, QueueNames
<1>3. CASE ~ Intake!Aligned(Head(pending["videos"]), Intake!Selected)
  <2>1. UNCHANGED <<opened, pending, timedBy>>
    BY <1>3 DEF Intake!ConfirmVideoBinding
  <2> QED
    BY <1>2, <2>1, UnchangedInv
<1>4. CASE Intake!Aligned(Head(pending["videos"]), Intake!Selected)
  <2>1. /\ opened' = opened \cup {Head(pending["videos"])} /\ pending' = Intake!Without("videos")
        /\ timedBy' = [timedBy EXCEPT ![Head(pending["videos"])] = Intake!Selected]
    BY <1>4 DEF Intake!ConfirmVideoBinding
  <2>2. /\ stage = "dialogs" /\ Head(pending["videos"]) \in Intake!InBatch
        /\ \A i : i = Head(pending["videos"]) =>
             TakenFrom({"videos"}, {i}) /\ Count(i, pending["videos"]) > 0
    BY <1>1, <1>2, <2>1, OneTaken
  <2>3. PICK i \in Intake!InBatch : i = Head(pending["videos"])
    BY <2>2
  <2>4. TakenFrom({"videos"}, {i}) /\ Count(i, pending["videos"]) > 0
    BY <2>2, <2>3
  <2>5. Count(i, errors) = 0 /\ Count(i, dropped) = 0 /\ i \notin opened
    BY <2>4, AskedOf
  <2>6. i \in Videos
    BY <1>1, <1>2, <2>4, PartsAre
  <2>7. /\ errors \in Seq(Intake!InBatch) /\ dropped \in Seq(Videos \cup Plain)
        /\ opened \subseteq Videos \cup Plain /\ timedBy \in [Intake!InBatch -> 0..Len(batch)]
    BY <1>1 DEF IntakeTypeOK
  <2>8. PICK s : s = Intake!Selected
    OBVIOUS
  <2>9. s \in Intake!InBatch /\ s \notin Sidecars /\ s # 0 /\ s \in 0..Len(batch)
    <3>1. s \in opened /\ batch[s].ext \in {"csv", "parquet"}
      BY <1>2, <2>8 DEF Intake!Tables
    <3>2. s \in Intake!InBatch
      BY <1>1, <2>7, <3>1, BatchIs
    <3>3. Intake!InBatch = 1..Len(batch) /\ Len(batch) \in Nat
      BY <1>1, BatchIs DEF Intake!InBatch
    <3> QED
      BY <3>1, <3>2, <3>3 DEF Sidecars
  <2>10. timedBy[i] = 0 /\ 0 \notin Sidecars
    <3>1. /\ Count(i, mp4s) \in Nat /\ Count(i, buckets["videos"]) \in Nat
          /\ Count(i, pending["videos"]) \in Nat
      BY <1>1, <1>2, PartsAre DEF RouteNames
    <3>2. Count(i, mp4s) + Count(i, buckets["videos"]) + Count(i, pending["videos"]) > 0
      BY <2>4, <3>1
    <3> QED
      BY <1>1, <2>6, <3>2, BatchIs DEF VideoOK
  <2>11. /\ timedBy' \in [Intake!InBatch -> 0..Len(batch)] /\ timedBy'[i] = s
         /\ \A v \in Intake!InBatch : v # i => timedBy'[v] = timedBy[v]
    BY <2>1, <2>3, <2>7, <2>8, <2>9
  <2>12. /\ opened' \subseteq Videos \cup Plain /\ errors' \in Seq(Intake!InBatch)
         /\ dropped' \in Seq(Videos \cup Plain)
         /\ \A j : Count(j, errors') = Count(j, errors) /\ Count(j, dropped') = Count(j, dropped)
    BY <1>2, <2>1, <2>3, <2>6, <2>7
  <2>13. \A v \in Videos : timedBy'[v] # timedBy[v] =>
                             v \in {i} /\ timedBy[v] \notin Sidecars /\ timedBy'[v] \notin Sidecars
    <3>1. Videos \subseteq Intake!InBatch
      BY <1>1, BatchIs
    <3> QED
      BY <2>9, <2>10, <2>11, <3>1
  <2>14. \A j \in Intake!InBatch :
           IF j \in {i}
             THEN Count(j, errors') + Count(j, dropped') + (IF j \in opened' THEN 1 ELSE 0) = 1
             ELSE /\ Count(j, errors') = Count(j, errors) /\ Count(j, dropped') = Count(j, dropped)
                  /\ (j \in opened' <=> j \in opened)
    BY <2>1, <2>3, <2>5, <2>12
  <2>15. \A v \in Videos : v \in {i} /\ v \in opened' => timedBy'[v] # 0 /\ Intake!Aligned(v, timedBy'[v])
    BY <1>4, <2>3, <2>8, <2>9, <2>11
  <2> QED
    BY <1>2, <2>2, <2>4, <2>11, <2>12, <2>13, <2>14, <2>15, Answered
<1> QED
  BY <1>3, <1>4

LEMMA CancelInv == ASSUME IntakeInv, NEW Q, Intake!Cancel(Q) PROVE IntakeInv'
<1>1. IntakeTypeOK
  BY DEF IntakeInv
<1>2. /\ Q # {} /\ Q \subseteq Intake!Up
      /\ pending' = [q \in DOMAIN pending |-> IF q \in Q THEN Tail(pending[q]) ELSE pending[q]]
      /\ dropped' = dropped \o Intake!SetToSeq({Head(pending[q]) : q \in Q})
      /\ UNCHANGED <<batch, stage, todo, sidecars, mp4s, buckets, timedBy, opened, errors>>
  BY DEF Intake!Cancel
<1>3. DOMAIN pending = QueueNames
  BY <1>1 DEF IntakeTypeOK
<1>4. stage = "dialogs" /\ Q \subseteq QueueNames /\ \A q \in Q : pending[q] # <<>>
  BY <1>2, <1>3 DEF Intake!Up
<1>5. PICK H : H = {Head(pending[q]) : q \in Q}
  OBVIOUS
<1>6. TakenFrom(Q, H)
  BY <1>2, <1>3, <1>4, <1>5 DEF TakenFrom
<1>7. H \subseteq Videos \cup Plain /\ H \subseteq Intake!InBatch
  BY <1>6, TakeQueues
<1>8. \A i \in H : Count(i, errors) = 0 /\ Count(i, dropped) = 0 /\ i \notin opened
  BY <1>6, AskedOf
<1>9. IsFiniteSet(H)
  BY <1>1, <1>7, BatchIs, FS_Subset
<1>10. Intake!SetToSeq(H) \in Seq(H) /\ \A j : Count(j, Intake!SetToSeq(H)) = IF j \in H THEN 1 ELSE 0
  BY <1>9, CountOfThese
<1>11. /\ errors \in Seq(Intake!InBatch) /\ dropped \in Seq(Videos \cup Plain)
       /\ opened \subseteq Videos \cup Plain /\ timedBy \in [Intake!InBatch -> 0..Len(batch)]
  BY <1>1 DEF IntakeTypeOK
<1>12. /\ dropped' \in Seq(Videos \cup Plain)
       /\ \A j : Count(j, dropped') = Count(j, dropped) + (IF j \in H THEN 1 ELSE 0)
  <2>1. Intake!SetToSeq(H) \in Seq(Videos \cup Plain)
    BY <1>7, <1>10, SeqSub
  <2>2. dropped' = dropped \o Intake!SetToSeq(H)
    BY <1>2, <1>5
  <2>3. dropped' \in Seq(Videos \cup Plain)
    BY <1>11, <2>1, <2>2, ConcatIn
  <2>4. \A j : Count(j, dropped') = Count(j, dropped) + Count(j, Intake!SetToSeq(H))
    BY <1>11, <2>1, <2>2, CountConcat
  <2> QED
    BY <1>10, <2>3, <2>4
<1>13. \A j \in Intake!InBatch : Count(j, errors) \in Nat /\ Count(j, dropped) \in Nat
  BY <1>1, PartsAre
<1>14. /\ timedBy' = timedBy /\ opened' = opened /\ errors' = errors /\ stage' = stage
       /\ UNCHANGED <<batch, todo, sidecars, mp4s, buckets>>
  BY <1>2
<1>15. \A j \in Intake!InBatch :
         IF j \in H
           THEN Count(j, errors') + Count(j, dropped') + (IF j \in opened' THEN 1 ELSE 0) = 1
           ELSE /\ Count(j, errors') = Count(j, errors) /\ Count(j, dropped') = Count(j, dropped)
                /\ (j \in opened' <=> j \in opened)
  <2>1. ASSUME NEW j \in H
        PROVE  Count(j, errors') + Count(j, dropped') + (IF j \in opened' THEN 1 ELSE 0) = 1
    BY <1>8, <1>12, <1>14
  <2>2. ASSUME NEW j \in Intake!InBatch \ H
        PROVE  /\ Count(j, errors') = Count(j, errors) /\ Count(j, dropped') = Count(j, dropped)
               /\ (j \in opened' <=> j \in opened)
    <3>1. Count(j, dropped') = Count(j, dropped) + 0 /\ Count(j, dropped) \in Nat
      BY <1>12, <1>13
    <3> QED
      BY <1>14, <3>1
  <2> QED
    BY <2>1, <2>2
<1>16. \A v \in Videos : v \in H /\ v \in opened' => timedBy'[v] # 0 /\ Intake!Aligned(v, timedBy'[v])
  BY <1>8, <1>14
<1>17. /\ \A v \in Videos : timedBy'[v] # timedBy[v] =>
                             v \in H /\ timedBy[v] \notin Sidecars /\ timedBy'[v] \notin Sidecars
       /\ opened' \subseteq Videos \cup Plain /\ errors' \in Seq(Intake!InBatch)
       /\ timedBy' \in [Intake!InBatch -> 0..Len(batch)]
  BY <1>11, <1>14
<1> QED
  BY <1>4, <1>6, <1>12, <1>14, <1>15, <1>16, <1>17, Answered

-----------------------------------------------------------------------------
LEMMA IntakeNextInv == ASSUME IntakeInv, [Intake!Next]_(Intake!vars) PROVE IntakeInv'
<1>1. CASE Intake!Bucket
  BY <1>1, BucketInv
<1>2. CASE Intake!Pair
  BY <1>2, PairInv
<1>3. CASE Intake!Orphans
  BY <1>3, OrphansInv
<1>4. CASE Intake!Sniff
  BY <1>4, SniffInv
<1>5. CASE Intake!OpenNext
  BY <1>5, OpenNextInv
<1>6. CASE Intake!Queued
  BY <1>6, QueuedInv
<1>7. CASE \E n \in IntakeOffsets : Intake!TypeOffset(n)
  BY <1>7, UnchangedInv DEF Intake!TypeOffset
<1>8. CASE \E i \in Intake!InBatch : Intake!Select(i)
  BY <1>8, UnchangedInv DEF Intake!Select
<1>9. CASE Intake!ConfirmTabularImport
  BY <1>9, ImportInv DEF Intake!ConfirmTabularImport
<1>10. CASE Intake!ConfirmVideoBinding
  BY <1>10, BindingInv
<1>11. CASE Intake!ConfirmRecipeImport
  BY <1>11, ImportInv DEF Intake!ConfirmRecipeImport
<1>12. CASE \E q \in Intake!Up : Intake!Cancel({q})
  BY <1>12, CancelInv
<1>13. CASE Intake!Escape
  <2>1. PICK Q : Q = Intake!Up
    OBVIOUS
  <2>2. Intake!Cancel(Q)
    BY <1>13, <2>1 DEF Intake!Escape, Intake!Cancel
  <2> QED
    BY <2>2, CancelInv
<1>14. CASE UNCHANGED Intake!vars
  BY <1>14, UnchangedInv DEF Intake!vars
<1> QED
  BY <1>1, <1>2, <1>3, <1>4, <1>5, <1>6, <1>7, <1>8, <1>9, <1>10, <1>11, <1>12, <1>13, <1>14
  DEF Intake!Next

(* With the dialogs no file is on its way any more.                        *)
LEMMA AllInPlace ==
  ASSUME IntakeInv, stage = "dialogs", NEW i \in Intake!InBatch
  PROVE  Intake!Places(i) = Total(i) /\ (Intake!Hidden(i) <=> HiddenNow(i))
<1>1. /\ IntakeTypeOK /\ todo = <<>> /\ mp4s = <<>> /\ \A r \in RouteNames : buckets[r] = <<>>
  BY DEF IntakeInv, StageOK
<1>2. /\ Bucketed = Len(batch) /\ Len(batch) \in Nat /\ Intake!InBatch = 1..Len(batch)
  BY <1>1, BatchIs DEF Bucketed, Intake!InBatch
<1>3. InTodo(i) = 0 /\ InSidecars(i) = 0
  BY <1>2 DEF InTodo, InSidecars
<1>4. Count(i, mp4s) = 0 /\ Routed(i) = 0
  BY <1>1, CountEmpty DEF Routed, RouteNames
<1>5. Cardinality({v \in Intake!InBatch : batch[v].ext = "mp4" /\ timedBy[v] = i /\ batch[i].ext = "sidecar"})
      = Timing(i)
  <2> DEFINE S == {v \in Intake!InBatch : batch[v].ext = "mp4" /\ timedBy[v] = i /\ batch[i].ext = "sidecar"}
  <2>1. CASE i \in Sidecars
    <3>1. S = TimedByIt(i)
      BY <2>1 DEF TimedByIt, Videos, Sidecars
    <3> HIDE DEF S
    <3> QED
      BY <2>1, <3>1 DEF Timing, S
  <2>2. CASE i \notin Sidecars
    <3>1. S = {}
      BY <2>2 DEF Sidecars
    <3>2. Cardinality(S) = 0
      BY <3>1, FS_EmptySet
    <3> QED
      BY <2>2, <3>2 DEF Timing
  <2> QED
    BY <2>1, <2>2
<1>6. \A s : Intake!Times(i, s) = Count(i, s)
  BY CardinalityThere DEF Intake!Times, Count, At
<1>7. Intake!Places(i) = Count(i, errors) + Count(i, dropped) + InSources(i) + Count(i, pending["tabular"])
                  + Count(i, pending["unknown"]) + Count(i, pending["videos"]) + Timing(i)
  BY <1>5, <1>6, CardinalityThere DEF Intake!Places, InSources
<1>8. /\ Count(i, errors) \in Nat /\ Count(i, dropped) \in Nat /\ InSources(i) \in Nat
      /\ Count(i, pending["tabular"]) \in Nat /\ Count(i, pending["unknown"]) \in Nat
      /\ Count(i, pending["videos"]) \in Nat /\ Timing(i) \in Nat
  BY <1>1, PartsAre DEF QueueNames
<1>9. Intake!Places(i) = Total(i)
  BY <1>3, <1>4, <1>7, <1>8 DEF Total, Waiting
<1>10. Intake!Hidden(i) <=> HiddenNow(i)
  BY <1>2 DEF Intake!Hidden, HiddenNow, Sidecars
<1> QED
  BY <1>9, <1>10

LEMMA InvOnce == IntakeInv => Intake!EachFileOnce
<1> SUFFICES ASSUME IntakeInv, stage = "dialogs"
    PROVE  /\ \A i \in Intake!InBatch : Intake!Places(i) = IF Intake!Hidden(i) THEN 0 ELSE 1
           /\ \A i \in Intake!InBatch : batch[i].ext = "mp4" =>
                /\ i \in opened => timedBy[i] # 0 /\ Intake!Aligned(i, timedBy[i])
                /\ LET twins == {j \in Intake!InBatch : batch[j].ext = "mp4" /\ batch[j].name = batch[i].name}
                       fits  == {j \in Intake!InBatch : batch[j].ext = "sidecar" /\ batch[j].name = batch[i].name}
                   IN /\ timedBy[i] # 0 /\ batch[timedBy[i]].ext = "sidecar" => timedBy[i] \in fits
                      /\ fits # {} => \E j \in twins : timedBy[j] \in fits
  BY DEF Intake!EachFileOnce
<1>1. \A i \in Intake!InBatch : Intake!Places(i) = IF Intake!Hidden(i) THEN 0 ELSE 1
  BY AllInPlace DEF IntakeInv, OnePlace
<1>2. IntakeTypeOK /\ VideoOK /\ FitOK
  BY DEF IntakeInv
<1>3. /\ Intake!InBatch = 1..Len(batch) /\ Len(batch) \in Nat /\ Bucketed = Len(batch)
      /\ timedBy \in [Intake!InBatch -> 0..Len(batch)] /\ Videos \subseteq Intake!InBatch /\ Sidecars \subseteq Intake!InBatch
  BY <1>2, BatchIs DEF Intake!InBatch, IntakeTypeOK, IntakeInv, StageOK, Bucketed
<1>4. ASSUME NEW i \in Videos,
             NEW twins, twins = {j \in Intake!InBatch : batch[j].ext = "mp4" /\ batch[j].name = batch[i].name},
             NEW fits, fits = {j \in Intake!InBatch : batch[j].ext = "sidecar" /\ batch[j].name = batch[i].name}
      PROVE  /\ i \in opened => timedBy[i] # 0 /\ Intake!Aligned(i, timedBy[i])
             /\ timedBy[i] # 0 /\ batch[timedBy[i]].ext = "sidecar" => timedBy[i] \in fits
             /\ fits # {} => \E j \in twins : timedBy[j] \in fits
  <2>1. i \in opened => timedBy[i] # 0 /\ Intake!Aligned(i, timedBy[i])
    BY <1>2 DEF VideoOK
  <2>2. \A v \in Videos : timedBy[v] \in Sidecars => batch[timedBy[v]].name = batch[v].name
    BY <1>2 DEF VideoOK
  <2>3. ASSUME timedBy[i] # 0, batch[timedBy[i]].ext = "sidecar" PROVE timedBy[i] \in fits
    <3>1. timedBy[i] \in Intake!InBatch
      BY <1>3, <2>3
    <3>2. timedBy[i] \in Sidecars
      BY <2>3, <3>1 DEF Sidecars
    <3> QED
      BY <1>4, <2>2, <2>3, <3>1, <3>2
  <2>4. ASSUME NEW s \in fits PROVE \E j \in twins : timedBy[j] \in fits
    <3>1. s \in Sidecars /\ s \in Intake!InBatch /\ batch[s].name = batch[i].name
      BY <1>4 DEF Sidecars
    <3>2. s <= Bucketed
      BY <1>3, <3>1
    <3>3. \E v \in Videos : batch[v].name = batch[s].name /\ timedBy[v] \in Sidecars
      BY <1>2, <3>1, <3>2 DEF FitOK
    <3>4. PICK v \in Videos : batch[v].name = batch[s].name /\ timedBy[v] \in Sidecars
      BY <3>3
    <3>5. v \in twins
      BY <1>4, <3>1, <3>4 DEF Videos
    <3>6. timedBy[v] \in fits
      BY <1>4, <2>2, <3>1, <3>4 DEF Sidecars
    <3> QED
      BY <3>5, <3>6
  <2> QED
    BY <2>1, <2>3, <2>4
<1>5. \A i \in Intake!InBatch : batch[i].ext = "mp4" => i \in Videos
  BY DEF Videos
<1> QED
  BY <1>1, <1>4, <1>5

(* Each file of a drop, whatever it holds, is opened, refused with an      *)
(* error, given up by the user or waited for by a dialog, and is so once:  *)
(* no order of the files, of what opens and of what the user answers loses *)
(* one or opens it twice (bucket.ts, store.ts openFiles, the dialogs).     *)
THEOREM FilesEndOnce == Intake!Spec => []EachFileOnce
<1>1. Intake!Init => IntakeInv
  BY IntakeInitInv
<1>2. IntakeInv /\ [Intake!Next]_(Intake!vars) => IntakeInv'
  BY IntakeNextInv
<1>3. IntakeInv => EachFileOnce
  BY InvOnce DEF EachFileOnce
<1> QED
  BY <1>1, <1>2, <1>3, PTL DEF Intake!Spec
================================================================================
