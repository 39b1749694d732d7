-------------------------- MODULE SampleCache_proofs --------------------------
(***************************************************************************)
(* Proofs about SampleCache, for any number of openings, handles, samples  *)
(* and streams, every size of a sample and every budget.                   *)
(*                                                                         *)
(* Bytes are sums over sets, and the recency order is filtered by a fold:  *)
(* see FiniteFolds for how such functions are reasoned about.              *)
(***************************************************************************)
EXTENDS SampleCache, FiniteFolds

-----------------------------------------------------------------------------
(* What a set of samples takes: more, the more there are.                  *)
LEMMA WeightIs ==
  /\ IsSum(Weight, Size, Samples)
  /\ \A T \in SUBSET Samples : Weight[T] \in Nat
  /\ \A U \in SUBSET Samples : \A T \in SUBSET U : Weight[T] <= Weight[U]
<1>1. IsFiniteSet(Samples) /\ Size \in [Samples -> Int] /\ \A i \in Samples : Size[i] \in Nat
  <2>1. IsFiniteSet(Samples)
    <3>1. N \in Int
      BY CacheAssumption
    <3> QED
      BY <3>1, FS_Interval DEF Samples
  <2>2. Size \in [Samples -> Nat \ {0}]
    BY CacheAssumption
  <2> QED
    BY <2>1, <2>2
<1>2. PICK G : IsSum(G, Size, Samples)
  BY <1>1, SumExists
<1>3. \A T \in SUBSET Samples : Weight[T] = G[T]
  BY <1>1, <1>2, SumIs DEF Weight
<1>4. IsSum(Weight, Size, Samples)
  <2>1. Weight = G
    BY <1>2, <1>3 DEF IsSum, Weight
  <2> QED
    BY <1>2, <2>1
<1> HIDE DEF Weight
<1> DEFINE Bad == {U \in SUBSET Samples :
                     Weight[U] \notin Nat \/ \E T \in SUBSET U : ~(Weight[T] <= Weight[U])}
<1>5. ASSUME NEW U \in Bad, \A B \in Bad : B \subseteq U => B = U
      PROVE  FALSE
  <2>1. ASSUME NEW x \in U
        PROVE  /\ Weight[U] \in Nat
               /\ \A T \in SUBSET (U \ {x}) : Weight[T] <= Weight[U]
    <3>1. U \ {x} \in SUBSET Samples /\ U \ {x} \notin Bad /\ x \in Samples
      BY <1>5
    <3>2. Weight[U] = Size[x] + Weight[U \ {x}]
      BY <1>4 DEF IsSum
    <3>3. Size[x] \in Nat /\ Weight[U \ {x}] \in Nat
      BY <1>1, <3>1
    <3>4. Weight[U] \in Nat
      BY <3>2, <3>3
    <3>5. ASSUME NEW T \in SUBSET (U \ {x})
          PROVE  Weight[T] <= Weight[U]
      <4>1. Weight[T] <= Weight[U \ {x}]
        BY <3>1
      <4>2. Weight[T] \in Int
        BY <3>1, <1>4 DEF IsSum
      <4> QED
        BY <4>1, <4>2, <3>2, <3>3
    <3> HIDE DEF Bad
    <3> QED
      BY <3>4, <3>5
  <2>2. Weight[U] \in Nat
    <3>1. CASE U = {}
      BY <3>1, <1>4 DEF IsSum
    <3>2. CASE U # {}
      BY <3>2, <2>1
    <3> QED
      BY <3>1, <3>2
  <2>3. ASSUME NEW T \in SUBSET U
        PROVE  Weight[T] <= Weight[U]
    <3>1. CASE T = U
      BY <3>1, <2>2
    <3>2. CASE T # U
      <4>1. PICK x \in U : x \notin T
        BY <3>2
      <4> QED
        BY <4>1, <2>1
    <3> QED
      BY <3>1, <3>2
  <2> QED
    BY <2>2, <2>3
<1>6. \A A \in Bad : IsFiniteSet(A)
  <2>1. \A A \in Bad : A \in SUBSET Samples
    OBVIOUS
  <2> HIDE DEF Bad
  <2> QED
    BY <1>1, <2>1, FS_Subset
<1>7. Bad = {}
  <2> HIDE DEF Bad
  <2> QED
    BY <1>5, <1>6, LeastSet
<1> QED
  BY <1>4, <1>7

-----------------------------------------------------------------------------
(* The recency order.                                                      *)

(* The fold of Without drops what is in S and keeps the rest.              *)
LEMMA WithoutIs ==
  ASSUME NEW E, NEW s \in Seq(E), NEW S
  PROVE  /\ Without(s, S) \in Seq(E)
         /\ ToSet(Without(s, S)) = ToSet(s) \ S
<1>1. Without(s, S) = Dropped(s, S)
  BY DEF Without, Dropped
<1> QED
  BY <1>1, DroppedIs

LEMMA CeilingIs ==
  /\ Budget \in Nat /\ Ceiling \in Nat /\ HardCeiling \in Nat
  /\ Budget <= HardCeiling
<1> DEFINE B == {Floor, 2 * Budget}
<1>1. Budget \in Nat /\ Floor \in Nat /\ Ceiling \in Nat
  BY CacheAssumption
<1>2. B \in SUBSET Nat /\ B # {} /\ IsFiniteSet(B)
  <2>1. IsFiniteSet({Floor} \cup {2 * Budget})
    BY FS_Singleton, FS_AddElement
  <2>2. B = {Floor} \cup {2 * Budget}
    OBVIOUS
  <2> QED
    BY <1>1, <2>1, <2>2
<1>3. Max(B) \in B /\ \A y \in B : Max(B) >= y
  <2> HIDE DEF B
  <2> QED
    BY <1>2, MaxIs
<1>4. HardCeiling \in Nat /\ HardCeiling >= 2 * Budget
  BY <1>1, <1>3 DEF HardCeiling
<1> QED
  BY <1>1, <1>4

(* What Shrunk leaves: nothing new, all that is to be kept, no more than   *)
(* the limit unless only that is left, and no less than it must.           *)
LEMMA ShrunkIs ==
  ASSUME NEW s \in Seq(Samples), NEW keep, NEW limit \in Int
  PROVE  LET t == Shrunk(s, keep, limit)
         IN /\ t \in Seq(Samples)
            /\ ToSet(t) \subseteq ToSet(s) /\ ToSet(s) \cap keep \subseteq ToSet(t)
            /\ Weight[ToSet(t)] <= limit \/ ToSet(t) \subseteq keep
            /\ \/ ToSet(t) = ToSet(s)
               \/ \E i \in ToSet(s) \ ToSet(t) : Weight[ToSet(t)] + Size[i] > limit
<1> DEFINE order   == Without(s, keep)
           gone(k) == {order[i] : i \in 1..k}
           Fits(k) == Weight[ToSet(s) \ gone(k)] <= limit
           enough  == {k \in 0..Len(order) : Fits(k)}
           last    == IF enough = {} THEN Len(order) ELSE Min(enough)
           t       == Shrunk(s, keep, limit)
<1>1. /\ order \in Seq(Samples) /\ ToSet(order) = ToSet(s) \ keep
      /\ Len(order) \in Nat /\ DOMAIN order = 1..Len(order)
  BY WithoutIs
<1>2. t = Without(s, gone(last))
  BY DEF Shrunk
<1>3. t \in Seq(Samples) /\ ToSet(t) = ToSet(s) \ gone(last)
  <2> HIDE DEF gone, last, t
  <2> QED
    BY <1>2, WithoutIs
<1>4. ToSet(s) \in SUBSET Samples
  BY SetOfSeq
<1>5. gone(Len(order)) = ToSet(s) \ keep
  BY <1>1 DEF ToSet
<1>6. last \in 0..Len(order) /\ (enough # {} => last \in enough)
  <2>1. enough \in SUBSET Nat
    OBVIOUS
  <2>2. enough # {} => Min(enough) \in enough
    <3> HIDE DEF enough
    <3> QED
      BY <2>1, MinIs
  <2>3. enough \subseteq 0..Len(order)
    OBVIOUS
  <2>4. last = IF enough = {} THEN Len(order) ELSE Min(enough)
    OBVIOUS
  <2> HIDE DEF enough, last, order
  <2>5. Len(order) \in 0..Len(order)
    BY <1>1
  <2> QED
    BY <2>2, <2>3, <2>4, <2>5
<1>7. Weight[ToSet(t)] <= limit \/ ToSet(t) \subseteq keep
  <2>1. CASE enough = {}
    BY <2>1, <1>3, <1>5
  <2>2. CASE enough # {}
    BY <2>2, <1>3, <1>6
  <2> QED
    BY <2>1, <2>2
<1>8. ASSUME ToSet(t) # ToSet(s)
      PROVE  \E i \in ToSet(s) \ ToSet(t) : Weight[ToSet(t)] + Size[i] > limit
  <2>1. last > 0
    <3>1. gone(0) = {}
      OBVIOUS
    <3>2. last \in Nat
      <4> HIDE DEF last, order
      <4> QED
        BY <1>1, <1>6
    <3>3. last # 0
      <4> HIDE DEF last, gone
      <4> QED
        BY <1>3, <1>8, <3>1
    <3> HIDE DEF last
    <3> QED
      BY <3>2, <3>3
  <2>2. last - 1 \in 0..Len(order) /\ last - 1 \notin enough
    <3>1. last \in Nat /\ last - 1 \in 0..Len(order)
      <4> HIDE DEF last, order
      <4> QED
        BY <1>1, <1>6, <2>1
    <3>2. ASSUME last - 1 \in enough
          PROVE  FALSE
      <4>1. enough \in SUBSET Nat
        OBVIOUS
      <4>2. PICK x \in enough : \A y \in enough : x <= y
        <5> HIDE DEF enough
        <5> QED
          BY <4>1, <3>2, LeastNat
      <4>3. Min(enough) <= last - 1
        <5> HIDE DEF enough
        <5> QED
          BY <3>2, <4>2 DEF Min
      <4>4. last = Min(enough)
        <5> HIDE DEF enough
        <5> QED
          BY <3>2
      <4> HIDE DEF enough, last
      <4> QED
        BY <3>1, <4>3, <4>4
    <3> QED
      BY <3>1, <3>2
  <2> DEFINE i == order[last]
             R == ToSet(s) \ gone(last - 1)
  <2>3. i \in ToSet(s) /\ i \in Samples /\ i \in gone(last)
    <3>1. last \in 1..Len(order)
      <4> HIDE DEF last, order
      <4> QED
        BY <1>1, <1>6, <2>1
    <3>2. i \in ToSet(order)
      <4> HIDE DEF order, last
      <4> QED
        BY <1>1, <3>1 DEF ToSet
    <3>3. i \in gone(last)
      <4> HIDE DEF order, last
      <4> QED
        BY <3>1
    <3> QED
      BY <1>1, <1>4, <3>2, <3>3
  <2>4. gone(last) = gone(last - 1) \cup {i}
    <3>1. last \in Nat /\ last > 0
      <4> HIDE DEF last, order
      <4> QED
        BY <1>1, <1>6, <2>1
    <3>2. 1..last = (1..(last - 1)) \cup {last}
      <4> HIDE DEF last
      <4> QED
        BY <3>1
    <3> HIDE DEF order, last
    <3> QED
      BY <3>2
  <2>5. ~(Weight[R] <= limit)
    BY <2>2
  <2>6. ToSet(t) = R \ {i}
    <3> HIDE DEF order, last, t, gone
    <3> QED
      BY <1>3, <2>4
  <2> HIDE DEF R, i, order, last, enough, gone, t, Fits
  <2>7. R \in SUBSET Samples
    BY <1>4 DEF R
  <2>8. Weight[R] = IF i \in R THEN Size[i] + Weight[ToSet(t)] ELSE Weight[ToSet(t)]
    <3>1. CASE i \in R
      BY <3>1, <2>6, <2>7, WeightIs DEF IsSum
    <3>2. CASE i \notin R
      <4>1. R \ {i} = R
        BY <3>2
      <4> QED
        BY <3>2, <2>6, <4>1
    <3> QED
      BY <3>1, <3>2
  <2>9. /\ Weight[ToSet(t)] \in Nat /\ Weight[R] \in Nat
        /\ Size[i] \in Nat /\ i \in ToSet(s) \ ToSet(t)
    BY <2>3, <2>6, <2>7, WeightIs, CacheAssumption
  <2> QED
    BY <2>5, <2>8, <2>9
<1>9. ToSet(s) \cap keep \subseteq ToSet(t)
  <2>1. gone(last) \subseteq ToSet(order)
    <3>1. 1..last \subseteq DOMAIN order
      <4> HIDE DEF last, order
      <4> QED
        BY <1>1, <1>6
    <3> HIDE DEF last, order
    <3> QED
      BY <3>1 DEF ToSet
  <2> HIDE DEF gone, last, order, t
  <2> QED
    BY <2>1, <1>1, <1>3
<1> QED
  BY <1>3, <1>7, <1>8, <1>9

-----------------------------------------------------------------------------
(* Types, and what each operation on a cache does to what it holds.        *)

MemType ==
  [lru : Seq(Samples), active : SUBSET Samples, inFlight : SUBSET Samples,
   reads : [Samples -> Nat], told : SUBSET Samples,
   notify : BOOLEAN, lit : BOOLEAN, lost : BOOLEAN]

StreamType ==
  [phase : {"idle", "mark", "opening", "ready", "sample", "clear"},
   handle : Nat, index : Caches \cup {0}, on : Caches \cup {0},
   at : 1..(N + 1), end : 1..(N + 1), began : 1..(N + 1),
   first : BOOLEAN, closed : BOOLEAN]

EntryType == [handle : Nat, of : Caches]

TypeOK ==
  /\ source \in [Caches -> [place : {"new", "listed", "disposed", "gone"}, handle : Nat]]
  /\ mem \in [Caches -> MemType]
  /\ reported \in [Caches -> Nat \cup {-1}] /\ total \in Int
  /\ pressure \in BOOLEAN /\ clearing \in BOOLEAN
  /\ reader \in [Readers -> StreamType]
  /\ indexes \in [Readers -> Seq(EntryType)]

LEMMA HeldIs ==
  ASSUME NEW m \in MemType
  PROVE  /\ m.lru \in Seq(Samples) /\ Held(m) \in SUBSET Samples
         /\ Bytes(m) = Weight[ToSet(m.lru)] /\ Bytes(m) \in Nat
<1>1. m.lru \in Seq(Samples)
  BY DEF MemType
<1>2. ToSet(m.lru) \in SUBSET Samples
  BY <1>1, SetOfSeq
<1> QED
  BY <1>1, <1>2, WeightIs DEF Held, Bytes

LEMMA TouchedIs ==
  ASSUME NEW m \in MemType, NEW i \in Samples, i \in Held(m)
  PROVE  /\ Touched(m, i) \in MemType
         /\ Held(Touched(m, i)) = Held(m)
         /\ \E s : Touched(m, i) = [m EXCEPT !.lru = s]
<1> DEFINE w == Without(m.lru, {i})
<1>1. w \in Seq(Samples) /\ ToSet(w) = ToSet(m.lru) \ {i}
  BY HeldIs, WithoutIs
<1>2. Append(w, i) \in Seq(Samples) /\ ToSet(Append(w, i)) = ToSet(w) \cup {i}
  <2> HIDE DEF w
  <2> QED
    BY <1>1, SetOfAppend
<1>3. Touched(m, i) = [m EXCEPT !.lru = Append(w, i)]
  BY DEF Touched
<1> HIDE DEF w
<1>4. Touched(m, i) \in MemType /\ Touched(m, i).lru = Append(w, i)
  BY <1>2, <1>3 DEF MemType
<1>5. Held(Touched(m, i)) = Held(m)
  BY <1>1, <1>2, <1>4 DEF Held
<1> QED
  BY <1>3, <1>4, <1>5

(* A cache that has evicted holds nothing new, no more than the hard       *)
(* ceiling, only what is pinned if the shared ceiling was broken, and has  *)
(* given up something pinned only when one sample more broke its ceiling.  *)
Evicts(m, over, e) ==
  /\ e \in MemType
  /\ \E q, S : e = [m EXCEPT !.lru = q, !.active = S]
  /\ Held(e) \subseteq Held(m)
  /\ Bytes(e) <= HardCeiling
  /\ over => Held(e) \subseteq e.active
  /\ (Held(m) \cap m.active) \ Held(e) # {} =>
       /\ Held(e) \subseteq e.active
       /\ \E i \in Samples \ Held(e) : Bytes(e) + Size[i] > HardCeiling

LEMMA EvictedIs ==
  ASSUME NEW m \in MemType, NEW over \in BOOLEAN
  PROVE  Evicts(m, over, Evicted(m, over))
<1> DEFINE limit == IF over THEN -1 ELSE Budget
           soft == Shrunk(m.lru, m.active, limit)
           hard == Shrunk(soft, {}, HardCeiling)
           pins == m.active \ (Held(m) \ ToSet(hard))
           e == Evicted(m, over)
<1>1. limit \in Int /\ (over => limit < 0) /\ limit <= HardCeiling
  BY CeilingIs
<1>2. m.lru \in Seq(Samples) /\ m.active \in SUBSET Samples
  BY DEF MemType
<1>3. /\ soft \in Seq(Samples) /\ ToSet(soft) \subseteq ToSet(m.lru)
      /\ ToSet(m.lru) \cap m.active \subseteq ToSet(soft)
      /\ Weight[ToSet(soft)] <= limit \/ ToSet(soft) \subseteq m.active
      /\ \/ ToSet(soft) = ToSet(m.lru)
         \/ \E i \in ToSet(m.lru) \ ToSet(soft) : Weight[ToSet(soft)] + Size[i] > limit
  <2> HIDE DEF limit
  <2> QED
    BY <1>1, <1>2, ShrunkIs
<1>4. /\ hard \in Seq(Samples) /\ ToSet(hard) \subseteq ToSet(soft)
      /\ Weight[ToSet(hard)] <= HardCeiling \/ ToSet(hard) \subseteq {}
      /\ \/ ToSet(hard) = ToSet(soft)
         \/ \E i \in ToSet(soft) \ ToSet(hard) : Weight[ToSet(hard)] + Size[i] > HardCeiling
  <2>1. HardCeiling \in Int
    BY CeilingIs
  <2> HIDE DEF soft
  <2> QED
    BY <1>3, <2>1, ShrunkIs
<1>5. e = [m EXCEPT !.lru = hard, !.active = pins]
  BY DEF Evicted
<1> HIDE DEF limit, soft, hard, e
<1>6. e \in MemType /\ e.lru = hard /\ e.active = pins
  BY <1>2, <1>4, <1>5 DEF MemType
<1>7. /\ Held(m) = ToSet(m.lru) /\ Held(e) = ToSet(hard) /\ Bytes(e) = Weight[ToSet(hard)]
      /\ ToSet(m.lru) \in SUBSET Samples
  BY <1>2, <1>6, SetOfSeq DEF Held, Bytes
<1>8. Bytes(e) <= HardCeiling
  <2>1. CASE ToSet(hard) \subseteq {}
    <3>1. Weight[{}] = 0
      BY WeightIs DEF IsSum
    <3>2. ToSet(hard) = {}
      BY <2>1
    <3> QED
      BY <3>1, <3>2, <1>7, CeilingIs
  <2> QED
    BY <2>1, <1>4, <1>7
<1>9. /\ Weight[ToSet(soft)] \in Nat /\ Weight[ToSet(hard)] \in Nat
      /\ ToSet(soft) \in SUBSET Samples
  BY <1>3, <1>4, <1>7, WeightIs
<1>10. ASSUME ToSet(soft) \subseteq m.active
       PROVE  Held(e) \subseteq e.active
  BY <1>4, <1>6, <1>7, <1>10
<1>11. over => Held(e) \subseteq e.active
  BY <1>1, <1>3, <1>9, <1>10
<1>12. ASSUME (Held(m) \cap m.active) \ Held(e) # {}
       PROVE  /\ Held(e) \subseteq e.active
              /\ \E i \in Samples \ Held(e) : Bytes(e) + Size[i] > HardCeiling
  <2>1. ToSet(hard) # ToSet(soft)
    BY <1>3, <1>7, <1>12
  <2>2. PICK i \in ToSet(soft) \ ToSet(hard) : Weight[ToSet(hard)] + Size[i] > HardCeiling
    BY <1>4, <2>1
  <2>3. Weight[ToSet(soft)] > HardCeiling
    <3> DEFINE both == ToSet(hard) \cup {i}
    <3>1. both \in SUBSET ToSet(soft) /\ both \in SUBSET Samples /\ both \ {i} = ToSet(hard)
      BY <1>4, <1>9, <2>2
    <3>2. Weight[both] = Size[i] + Weight[ToSet(hard)]
      <4>1. i \in both
        OBVIOUS
      <4> HIDE DEF both
      <4> QED
        BY <3>1, <4>1, WeightIs DEF IsSum
    <3>3. Weight[both] <= Weight[ToSet(soft)] /\ Weight[both] \in Nat
      <4> HIDE DEF both
      <4> QED
        BY <3>1, <1>9, WeightIs
    <3>4. Size[i] \in Nat
      BY <1>9, <2>2, CacheAssumption
    <3> HIDE DEF both
    <3> QED
      BY <2>2, <3>2, <3>3, <3>4, <1>9, CeilingIs
  <2>4. ToSet(soft) \subseteq m.active
    BY <1>1, <1>3, <1>9, <2>3, CeilingIs
  <2>5. i \in Samples \ Held(e) /\ Bytes(e) + Size[i] > HardCeiling
    BY <1>7, <1>9, <2>2
  <2> QED
    BY <1>10, <2>4, <2>5
<1>13. \E q, S : e = [m EXCEPT !.lru = q, !.active = S]
  BY <1>5
<1>14. Held(e) \subseteq Held(m)
  BY <1>3, <1>4, <1>7
<1>15. Evicted(m, over) = e
  BY DEF e
<1> HIDE DEF pins
<1> QED
  BY <1>6, <1>8, <1>11, <1>12, <1>13, <1>14, <1>15 DEF Evicts

Inserts(c, m, i, w) ==
  /\ w \in MemType
  /\ \E q, S : w = [m EXCEPT !.lru = q, !.active = S, !.notify = TRUE]
  /\ Held(w) \subseteq Held(m) \cup {i}
  /\ Bytes(w) <= HardCeiling
  /\ total + Bytes(w) - Known[c] <= Ceiling \/ Held(w) \subseteq w.active
  /\ (Held(m) \cap m.active) \ Held(w) # {} =>
       /\ Held(w) \subseteq w.active
       /\ \E j \in Samples \ Held(w) : Bytes(w) + Size[j] > HardCeiling

LEMMA InsertedIs ==
  ASSUME TypeOK, NEW c \in Caches, NEW m \in MemType, NEW i \in Samples
  PROVE  Inserts(c, m, i, Inserted(c, m, i))
<1> DEFINE with == [m EXCEPT !.lru = Append(@, i)]
           high == pressure \/ total + Bytes(with) - Known[c] > Ceiling
<1>0. PICK over \in BOOLEAN : over = high
  BY DEF TypeOK
<1> DEFINE e == Evicted(with, over)
           w == [e EXCEPT !.notify = TRUE]
<1>1. Inserted(c, m, i) = w
  BY <1>0 DEF Inserted
<1>2. m.lru \in Seq(Samples) /\ Held(m) \in SUBSET Samples
  BY HeldIs
<1>3. Append(m.lru, i) \in Seq(Samples) /\ ToSet(Append(m.lru, i)) = ToSet(m.lru) \cup {i}
  BY <1>2, SetOfAppend
<1>4. /\ with \in MemType /\ with.active = m.active
      /\ with.lru = Append(m.lru, i) /\ with = [m EXCEPT !.lru = Append(m.lru, i)]
  BY <1>3 DEF MemType
<1>5. Held(with) = Held(m) \cup {i}
  BY <1>3, <1>4 DEF Held
<1>6. Known[c] \in Nat /\ total \in Int
  BY DEF TypeOK, Known
<1> HIDE DEF with
<1>7. Evicts(with, over, e)
  BY <1>4, EvictedIs
<1> HIDE DEF e
<1>8. w \in MemType /\ w.lru = e.lru /\ w.active = e.active
  BY <1>7 DEF MemType, Evicts
<1>9. Held(w) = Held(e) /\ Bytes(w) = Bytes(e)
  BY <1>8 DEF Held, Bytes
<1>10. \E q, S : w = [m EXCEPT !.lru = q, !.active = S, !.notify = TRUE]
  <2>1. PICK q, S : e = [with EXCEPT !.lru = q, !.active = S]
    BY <1>7 DEF Evicts
  <2>2. w = [m EXCEPT !.lru = q, !.active = S, !.notify = TRUE]
    BY <1>4, <2>1 DEF MemType
  <2> QED
    BY <2>2
<1>11. total + Bytes(w) - Known[c] <= Ceiling \/ Held(w) \subseteq w.active
  <2>1. Bytes(e) <= Bytes(with) /\ Bytes(e) \in Nat /\ Bytes(with) \in Nat
    BY <1>4, <1>7, HeldIs, WeightIs DEF Bytes, Evicts
  <2>2. CASE over
    BY <2>2, <1>7, <1>8, <1>9 DEF Evicts
  <2>3. CASE ~over
    <3>1. ~(total + Bytes(with) - Known[c] > Ceiling)
      BY <2>3, <1>0
    <3> QED
      BY <2>1, <3>1, <1>6, <1>9, CeilingIs
  <2> QED
    BY <2>2, <2>3
<1> HIDE DEF w
<1>12. (Held(m) \cap m.active) \ Held(w) # {} =>
         /\ Held(w) \subseteq w.active
         /\ \E j \in Samples \ Held(w) : Bytes(w) + Size[j] > HardCeiling
  BY <1>4, <1>5, <1>7, <1>8, <1>9 DEF Evicts
<1> QED
  BY <1>1, <1>5, <1>7, <1>8, <1>9, <1>10, <1>11, <1>12 DEF Evicts, Inserts

LEMMA ReadEndedIs ==
  ASSUME NEW m \in MemType, NEW i \in Samples, m.reads[i] > 0
  PROVE  LET e == ReadEnded(m, i) IN
           /\ e \in MemType /\ Held(e) = Held(m)
           /\ e.reads = [m.reads EXCEPT ![i] = @ - 1] /\ e.inFlight = m.inFlight \ {i}
           /\ e.active = m.active /\ e.told = m.told /\ e.notify = m.notify
           /\ e.lit = m.lit /\ e.lost = m.lost
<1> DEFINE e == ReadEnded(m, i)
<1>1. m.reads \in [Samples -> Nat]
  BY DEF MemType
<1>2. PICK reads : reads = [m.reads EXCEPT ![i] = @ - 1]
  OBVIOUS
<1>3. reads \in [Samples -> Nat]
  BY <1>1, <1>2
<1>4. e = [m EXCEPT !.reads = reads, !.inFlight = m.inFlight \ {i}]
  BY <1>2 DEF ReadEnded
<1> HIDE DEF e
<1>5. /\ e \in MemType /\ e.lru = m.lru
      /\ e.reads = reads /\ e.inFlight = m.inFlight \ {i}
      /\ e.active = m.active /\ e.told = m.told /\ e.notify = m.notify
      /\ e.lit = m.lit /\ e.lost = m.lost
  BY <1>3, <1>4 DEF MemType
<1> QED
  BY <1>2, <1>5 DEF Held, e

LEMMA FetchingIs ==
  ASSUME NEW m \in MemType, NEW S \in SUBSET Samples
  PROVE  /\ Fetching(m, S) \in MemType
         /\ Fetching(m, S) =
              [m EXCEPT !.reads = [i \in Samples |-> IF i \in S \ (Held(m) \cup m.inFlight)
                                                     THEN m.reads[i] + 1 ELSE m.reads[i]],
                        !.inFlight = m.inFlight \cup (S \ Held(m))]
         /\ Held(Fetching(m, S)) = Held(m)
<1> DEFINE reads == [i \in Samples |-> IF i \in S \ (Held(m) \cup m.inFlight)
                                       THEN m.reads[i] + 1 ELSE m.reads[i]]
<1>1. Fetching(m, S) = [m EXCEPT !.reads = reads, !.inFlight = m.inFlight \cup (S \ Held(m))]
  BY DEF Fetching, MemType
<1>2. reads \in [Samples -> Nat]
  BY DEF MemType
<1> HIDE DEF reads
<1>3. Fetching(m, S) \in MemType /\ Fetching(m, S).lru = m.lru
  BY <1>1, <1>2 DEF MemType
<1> QED
  BY <1>1, <1>3 DEF Held, reads

LEMMA EmptyIs ==
  /\ Empty \in MemType /\ Held(Empty) = {} /\ Bytes(Empty) = 0
<1>1. Empty \in MemType /\ Empty.lru = <<>>
  BY DEF Empty, MemType
<1>2. ToSet(<<>>) = {}
  BY DEF ToSet
<1>3. Weight[{}] = 0
  BY WeightIs DEF IsSum
<1> QED
  BY <1>1, <1>2, <1>3 DEF Held, Bytes

-----------------------------------------------------------------------------
(* The streams.                                                            *)

(* A stream that is about to take a sample has one in front of it, and one *)
(* that has only just been opened awaits nothing.                          *)
StreamsOK ==
  \A r \in Readers :
    /\ reader[r].first \/ reader[r].phase \in {"mark", "opening"} => reader[r].at \in Samples
    /\ reader[r].phase = "mark" => reader[r].on = 0 /\ ~reader[r].closed

LEMMA ConstantsAre ==
  /\ N \in Nat /\ N > 0 /\ Samples = 1..N /\ Samples \subseteq 1..(N + 1)
  /\ 1 \in Samples /\ Keyframes \subseteq Samples
  /\ Batch \in Nat /\ Batch > 0 /\ Ahead \in Nat /\ IndexCap \in Nat /\ IndexCap > 0
  /\ IsFiniteSet(Caches) /\ Caches \subseteq Nat /\ 0 \notin Caches /\ Handles \subseteq Nat
<1>1. N \in Nat \ {0} /\ Keyframes \subseteq Samples
  BY CacheAssumption
<1>2. Ahead \in Nat /\ Batch \in Nat \ {0} /\ IndexCap \in Nat \ {0}
  BY CacheAssumption
<1>3. IsFiniteSet(Caches) /\ Caches \subseteq Nat \ {0} /\ Handles \subseteq Nat
  BY CacheAssumption
<1> QED
  BY <1>1, <1>2, <1>3 DEF Samples

LEMMA TookIs ==
  ASSUME NEW s \in StreamType, s.at \in Samples
  PROVE  /\ Took(s) \in StreamType
         /\ Took(s).first => Took(s).at \in Samples
         /\ Took(s).phase \in {"ready", "sample", "clear"}
         /\ Took(s).handle = s.handle /\ Took(s).closed = s.closed /\ Took(s).on = 0
<1>1. s.at \in 1..(N + 1) /\ s.at + 1 \in 1..(N + 1)
  BY ConstantsAre
<1>2. CASE s.phase = "opening"
  <2>1. Took(s) = [s EXCEPT !.phase = "ready", !.first = TRUE, !.on = 0]
    BY <1>2 DEF Took
  <2> QED
    BY <2>1, ConstantsAre DEF StreamType
<1>3. CASE s.phase # "opening"
  <2> DEFINE p == IF s.at = s.began THEN "clear" ELSE "sample"
  <2>1. Took(s) = [s EXCEPT !.at = s.at + 1, !.first = FALSE, !.on = 0, !.phase = p]
    BY <1>3 DEF Took, StreamType
  <2>2. p \in {"sample", "clear"}
    OBVIOUS
  <2> HIDE DEF p
  <2> QED
    BY <2>1, <2>2, <1>1 DEF StreamType
<1> QED
  BY <1>2, <1>3

LEMMA NoStreamIs ==
  NoStream \in StreamType /\ NoStream.phase = "idle" /\ ~NoStream.first
  BY ConstantsAre DEF NoStream, StreamType

LEMMA FailedIs ==
  ASSUME NEW s \in StreamType
  PROVE  /\ Failed(s) \in StreamType
         /\ Failed(s).first => s.first /\ Failed(s).at = s.at
         /\ Failed(s).phase \in {"idle", "ready"}
         /\ s.phase # "opening" /\ ~s.closed =>
              /\ Failed(s).phase = "ready" /\ Failed(s).handle = s.handle
              /\ ~Failed(s).closed /\ Failed(s).on = 0
<1>1. CASE s.phase = "opening" \/ s.closed
  BY <1>1, NoStreamIs DEF Failed
<1>2. CASE ~(s.phase = "opening" \/ s.closed)
  BY <1>2, ConstantsAre DEF Failed, StreamType
<1> QED
  BY <1>1, <1>2

(* The cache a handle finds, and the index it is remembered with.          *)
LEMMA FoundIs ==
  ASSUME TypeOK, NEW h, Found(h) # {}
  PROVE  Max(Found(h)) \in Found(h) /\ Found(h) \subseteq Caches
<1>1. Found(h) \subseteq Caches
  BY DEF Found, Listed
<1>2. Found(h) \in SUBSET Nat /\ IsFiniteSet(Found(h))
  BY <1>1, ConstantsAre, FS_Subset
<1> QED
  BY <1>1, <1>2, MaxIs

LEMMA IndexIs ==
  ASSUME TypeOK, NEW r \in Readers, NEW h \in Nat, Found(h) # {}
  PROVE  IndexFor(r, h) \in Caches /\ Remembered(r, h) \in Seq(EntryType)
<1> DEFINE known == indexes[r]
           hit == {i \in DOMAIN known : known[i].handle = h}
           others == Without(known, {e \in ToSet(known) : e.handle = h})
           room == IF Len(others) < IndexCap THEN others ELSE Tail(others)
<1>1. known \in Seq(EntryType)
  BY DEF TypeOK
<1>2. IndexFor(r, h) \in Caches
  <2>1. hit \in SUBSET Nat /\ IsFiniteSet(hit) /\ hit \subseteq DOMAIN known
    <3>1. DOMAIN known = 1..Len(known) /\ Len(known) \in Int
      BY <1>1
    <3>2. IsFiniteSet(DOMAIN known) /\ DOMAIN known \subseteq Nat
      BY <3>1, FS_Interval
    <3>3. hit \in SUBSET (DOMAIN known)
      OBVIOUS
    <3> HIDE DEF hit, known
    <3> QED
      BY <3>2, <3>3, FS_Subset
  <2>2. CASE hit # {}
    <3>1. Max(hit) \in DOMAIN known
      <4> HIDE DEF hit, known
      <4> QED
        BY <2>1, <2>2, MaxIs
    <3>2. known[Max(hit)] \in EntryType
      <4> HIDE DEF hit, known
      <4> QED
        BY <1>1, <3>1
    <3>3. IndexFor(r, h) = known[Max(hit)].of
      BY <2>2 DEF IndexFor
    <3> QED
      BY <3>2, <3>3 DEF EntryType
  <2>3. CASE hit = {}
    <3>1. IndexFor(r, h) = Max(Found(h))
      BY <2>3 DEF IndexFor
    <3> QED
      BY <3>1, FoundIs
  <2> QED
    BY <2>2, <2>3
<1>3. others \in Seq(EntryType)
  <2> HIDE DEF known
  <2> QED
    BY <1>1, WithoutIs
<1>4. room \in Seq(EntryType)
  <2> HIDE DEF others
  <2> QED
    BY <1>3, ConstantsAre
<1>5. [handle |-> h, of |-> IndexFor(r, h)] \in EntryType
  BY <1>2 DEF EntryType
<1>6. Remembered(r, h) = Append(room, [handle |-> h, of |-> IndexFor(r, h)])
  BY DEF Remembered
<1> HIDE DEF room
<1> QED
  BY <1>2, <1>4, <1>5, <1>6

-----------------------------------------------------------------------------
(* Every step keeps the types.                                             *)

LEMMA LitIs ==
  ASSUME TypeOK, NEW S, NEW on \in BOOLEAN
  PROVE  /\ Light(S, on) \in [Caches -> MemType]
         /\ \A c \in Caches :
              Light(S, on)[c] = IF c \in S /\ source[c].place = "listed"
                                THEN [mem[c] EXCEPT !.lit = on] ELSE mem[c]
  BY DEF Light, TypeOK, MemType

SourceType == [place : {"new", "listed", "disposed", "gone"}, handle : Nat]

LEMMA SameStreams ==
  ASSUME StreamsOK, UNCHANGED reader
  PROVE  StreamsOK'
  BY DEF StreamsOK

(* What the streams may do to a cache: sort what it holds, pin, light the  *)
(* spinner or put it out, and have a sample read that nobody reads yet.    *)
Asked(m, k) ==
  /\ k \in MemType
  /\ Held(k) = Held(m) /\ k.told = m.told /\ k.notify = m.notify /\ k.lost = m.lost
  /\ \A i \in Samples :
       \/ k.reads[i] = m.reads[i] /\ (i \in k.inFlight <=> i \in m.inFlight)
       \/ i \notin m.inFlight /\ i \in k.inFlight /\ k.reads[i] = m.reads[i] + 1

LEMMA AskedIs ==
  ASSUME NEW m \in MemType
  PROVE  /\ Asked(m, m)
         /\ \A i \in Held(m) : Asked(m, Touched(m, i)) /\ Touched(m, i).lit = m.lit
         /\ \A S \in SUBSET Samples : Asked(m, Fetching(m, S)) /\ Fetching(m, S).lit = m.lit
         /\ \A on \in BOOLEAN : Asked(m, [m EXCEPT !.lit = on])
         /\ \A S \in SUBSET Samples :
              /\ Asked(m, Fetching([m EXCEPT !.active = S], S))
              /\ Fetching([m EXCEPT !.active = S], S).lit = m.lit
<1>1. Asked(m, m)
  BY DEF Asked
<1>2. ASSUME NEW i \in Held(m)
      PROVE  Asked(m, Touched(m, i)) /\ Touched(m, i).lit = m.lit
  <2>1. Touched(m, i) \in MemType /\ Held(Touched(m, i)) = Held(m)
    BY <1>2, TouchedIs, HeldIs
  <2>2. PICK q : Touched(m, i) = [m EXCEPT !.lru = q]
    BY DEF Touched
  <2> QED
    BY <2>1, <2>2 DEF Asked, MemType
<1>3. ASSUME NEW S \in SUBSET Samples
      PROVE  Asked(m, Fetching(m, S)) /\ Fetching(m, S).lit = m.lit
  <2> DEFINE k == Fetching(m, S)
             reads == [i \in Samples |-> IF i \in S \ (Held(m) \cup m.inFlight)
                                         THEN m.reads[i] + 1 ELSE m.reads[i]]
             flight == m.inFlight \cup (S \ Held(m))
  <2>1. /\ k \in MemType /\ Held(k) = Held(m)
        /\ k = [m EXCEPT !.reads = reads, !.inFlight = flight]
    BY FetchingIs
  <2> HIDE DEF k
  <2>2. /\ k.reads = reads /\ k.inFlight = flight
        /\ k.told = m.told /\ k.notify = m.notify /\ k.lost = m.lost /\ k.lit = m.lit
    <3> HIDE DEF reads, flight
    <3> QED
      BY <2>1 DEF MemType
  <2>3. Asked(m, k)
    BY <2>1, <2>2 DEF Asked
  <2> QED
    BY <2>2, <2>3 DEF k
<1>4. ASSUME NEW on \in BOOLEAN
      PROVE  Asked(m, [m EXCEPT !.lit = on])
  BY DEF Asked, MemType, Held
<1>5. ASSUME NEW S \in SUBSET Samples
      PROVE  /\ Asked(m, Fetching([m EXCEPT !.active = S], S))
             /\ Fetching([m EXCEPT !.active = S], S).lit = m.lit
  <2> DEFINE p == [m EXCEPT !.active = S]
             k == Fetching(p, S)
             reads == [i \in Samples |-> IF i \in S \ (Held(p) \cup p.inFlight)
                                         THEN p.reads[i] + 1 ELSE p.reads[i]]
             flight == p.inFlight \cup (S \ Held(p))
  <2>1. /\ p \in MemType /\ p.lru = m.lru /\ p.told = m.told /\ p.notify = m.notify
        /\ p.lost = m.lost /\ p.lit = m.lit /\ p.reads = m.reads /\ p.inFlight = m.inFlight
    BY DEF MemType
  <2>2. Held(p) = Held(m)
    BY <2>1 DEF Held
  <2> HIDE DEF p
  <2>3. /\ k \in MemType /\ Held(k) = Held(p)
        /\ k = [p EXCEPT !.reads = reads, !.inFlight = flight]
    BY <2>1, FetchingIs
  <2> HIDE DEF k
  <2>4. /\ k.reads = reads /\ k.inFlight = flight
        /\ k.told = m.told /\ k.notify = m.notify /\ k.lost = m.lost /\ k.lit = m.lit
    <3> HIDE DEF reads, flight
    <3> QED
      BY <2>1, <2>3 DEF MemType
  <2>5. Asked(m, k)
    BY <2>1, <2>2, <2>3, <2>4 DEF Asked
  <2> QED
    BY <2>4, <2>5 DEF k, p
<1> QED
  BY <1>1, <1>2, <1>3, <1>4, <1>5

(* The batch a stream is about to take, and the window it pins.            *)
Take(s) == Min({Batch, N + 1 - s.at})
Window(s) == s.at..Min({N, s.at + Take(s) + Ahead})

LEMMA WindowIs ==
  ASSUME NEW s \in StreamType, s.at <= N
  PROVE  s.at \in Samples /\ s.at + Take(s) \in 1..(N + 1) /\ Window(s) \in SUBSET Samples
<1> DEFINE B == {Batch, N + 1 - s.at}
           E == {N, s.at + Take(s) + Ahead}
<1>1. s.at \in Nat /\ s.at \in Samples
  BY ConstantsAre DEF StreamType
<1>2. B \in SUBSET Nat /\ B # {} /\ \A x \in B : x > 0
  BY <1>1, ConstantsAre
<1>3. Take(s) \in B /\ \A y \in B : Take(s) <= y
  <2>1. \E x \in B : \A y \in B : x <= y
    <3> HIDE DEF B
    <3> QED
      BY <1>2, LeastNat
  <2>2. Take(s) = Min(B)
    BY DEF Take
  <2> HIDE DEF B
  <2> QED
    BY <2>1, <2>2 DEF Min
<1>4. Take(s) \in Nat /\ Take(s) > 0 /\ Take(s) <= N + 1 - s.at
  <2>1. Take(s) <= N + 1 - s.at
    BY <1>3
  <2> HIDE DEF B
  <2> QED
    BY <1>2, <1>3, <2>1
<1>5. s.at + Take(s) \in 1..(N + 1)
  BY <1>1, <1>4, ConstantsAre
<1>6. E \in SUBSET Nat /\ E # {}
  BY <1>1, <1>4, ConstantsAre
<1>7. Min(E) \in Nat /\ Min(E) <= N
  <2>1. \E x \in E : \A y \in E : x <= y
    <3> HIDE DEF E
    <3> QED
      BY <1>6, LeastNat
  <2>2. Min(E) \in E /\ \A y \in E : Min(E) <= y
    <3> HIDE DEF E
    <3> QED
      BY <2>1 DEF Min
  <2> QED
    BY <1>6, <2>2
<1>8. Window(s) = s.at..Min(E)
  BY DEF Window
<1> HIDE DEF E
<1>9. Window(s) \in SUBSET Samples
  BY <1>1, <1>7, <1>8, ConstantsAre
<1> QED
  BY <1>1, <1>5, <1>9

LEMMA BatchIs ==
  ASSUME TypeOK, NEW r \in Readers, NextBatch(r)
  PROVE  /\ reader[r].phase = "ready" /\ reader[r].at <= N
         /\ reader' = [reader EXCEPT ![r] =
              [reader[r] EXCEPT !.phase = "sample", !.began = reader[r].at,
                                !.end = reader[r].at + Take(reader[r])]]
         /\ \E f : mem' = [c \in Caches |-> f[c]]
         /\ \A c \in Caches :
              /\ Asked(mem[c], mem'[c]) /\ mem'[c].lit = mem[c].lit
              /\ c \notin Found(reader[r].handle) => mem'[c] = mem[c]
              /\ mem'[c] \in MemType
<1> DEFINE s == reader[r]
           W == Window(s)
<1>1. /\ s \in StreamType /\ s.phase = "ready" /\ s.at <= N
      /\ reader' = [reader EXCEPT ![r] = [s EXCEPT !.phase = "sample", !.began = s.at,
                                                   !.end = s.at + Take(s)]]
      /\ mem' = [c \in Caches |->
           IF c \in Found(s.handle)
           THEN Fetching(IF r \in Capturers THEN mem[c] ELSE [mem[c] EXCEPT !.active = W], W)
           ELSE mem[c]]
  BY DEF NextBatch, TypeOK, Set, Take, Window
<1>2. W \in SUBSET Samples
  BY <1>1, WindowIs
<1>3. ASSUME NEW c \in Caches
      PROVE  /\ Asked(mem[c], mem'[c]) /\ mem'[c].lit = mem[c].lit
             /\ c \notin Found(s.handle) => mem'[c] = mem[c]
             /\ mem'[c] \in MemType
  <2>1. mem[c] \in MemType
    BY DEF TypeOK
  <2>2. \/ mem'[c] = mem[c]
        \/ c \in Found(s.handle) /\ mem'[c] = Fetching(mem[c], W)
        \/ c \in Found(s.handle) /\ mem'[c] = Fetching([mem[c] EXCEPT !.active = W], W)
    <3> HIDE DEF s, W
    <3> QED
      BY <1>1
  <2> HIDE DEF s, W
  <2>3. Asked(mem[c], mem'[c]) /\ mem'[c].lit = mem[c].lit
    <3>1. CASE mem'[c] = mem[c]
      BY <3>1, <2>1, AskedIs
    <3>2. CASE mem'[c] = Fetching(mem[c], W)
      BY <3>2, <2>1, <1>2, AskedIs
    <3>3. CASE mem'[c] = Fetching([mem[c] EXCEPT !.active = W], W)
      BY <3>3, <2>1, <1>2, AskedIs
    <3> QED
      BY <2>2, <3>1, <3>2, <3>3
  <2> QED
    BY <2>2, <2>3 DEF Asked
<1>4. mem' = [c \in Caches |-> mem'[c]]
  <2> HIDE DEF s, W
  <2> QED
    BY <1>1
<1>5. \E f : mem' = [c \in Caches |-> f[c]]
  BY <1>4
<1> QED
  BY <1>1, <1>3, <1>5

(* A stream asks for a sample of the file.                                 *)
LEMMA AskedAt ==
  ASSUME TypeOK, StreamsOK, NEW r \in Readers, AskSample(r)
  PROVE  /\ reader[r].at \in Samples /\ reader[r].on = 0
         /\ reader[r].phase \in {"opening", "sample"}
<1>1. /\ reader[r] \in StreamType /\ reader[r].phase \in {"opening", "sample"}
      /\ reader[r].on = 0
      /\ ~reader[r].first /\ reader[r].phase = "sample" => reader[r].at < reader[r].end
  BY DEF AskSample, TypeOK
<1>2. CASE reader[r].first \/ reader[r].phase = "opening"
  BY <1>1, <1>2 DEF StreamsOK
<1>3. CASE ~reader[r].first /\ reader[r].phase = "sample"
  BY <1>1, <1>3, ConstantsAre DEF StreamType
<1> QED
  BY <1>1, <1>2, <1>3

LEMMA TypeStep ==
  ASSUME TypeOK, StreamsOK, [Next]_vars
  PROVE  TypeOK' /\ StreamsOK'
<1> USE DEF budget
<1>1. CASE FetchLands
  <2>1. PICK c \in Caches, i \in Samples :
          /\ mem[c].reads[i] > 0
          /\ LET m == ReadEnded(mem[c], i) IN
               IF i \in Held(m)
               THEN mem' = [mem EXCEPT ![c] = Touched(m, i)] /\ UNCHANGED budget
               ELSE LET kept == Inserted(c, m, i)
                    IN mem' = [mem EXCEPT ![c] = kept] /\ Report(c, Bytes(kept))
          /\ reader' = [r \in Readers |-> IF r \in Waiting(c, i) THEN Took(reader[r])
                                          ELSE reader[r]]
    BY <1>1 DEF FetchLands
  <2> DEFINE m == ReadEnded(mem[c], i)
  <2>2. m \in MemType
    BY <2>1, ReadEndedIs DEF TypeOK
  <2>3. mem' \in [Caches -> MemType] /\ reported' \in [Caches -> Nat \cup {-1}] /\ total' \in Int
    <3>1. CASE i \in Held(m)
      <4>1. Touched(m, i) \in MemType
        <5> HIDE DEF m
        <5> QED
          BY <2>2, <3>1, TouchedIs
      <4> QED
        BY <2>1, <3>1, <4>1 DEF TypeOK
    <3>2. CASE i \notin Held(m)
      <4>1. Inserts(c, m, i, Inserted(c, m, i))
        <5> HIDE DEF m
        <5> QED
          BY <2>2, InsertedIs
      <4>2. Inserted(c, m, i) \in MemType /\ Bytes(Inserted(c, m, i)) \in Nat
        BY <4>1, HeldIs DEF Inserts
      <4>3. mem' = [mem EXCEPT ![c] = Inserted(c, m, i)] /\ Report(c, Bytes(Inserted(c, m, i)))
        BY <2>1, <3>2
      <4>4. Known[c] \in Nat
        BY DEF TypeOK, Known
      <4> HIDE DEF m
      <4> QED
        BY <4>2, <4>3, <4>4 DEF TypeOK, Report
    <3> QED
      BY <3>1, <3>2
  <2>4. \A r \in Waiting(c, i) : reader[r] \in StreamType /\ reader[r].at \in Samples
    BY DEF Waiting, TypeOK
  <2>5. reader' \in [Readers -> StreamType]
    BY <2>1, <2>4, TookIs DEF TypeOK
  <2>6. StreamsOK'
    <3> SUFFICES ASSUME NEW r \in Readers
                 PROVE  /\ reader'[r].first \/ reader'[r].phase \in {"mark", "opening"} =>
                             reader'[r].at \in Samples
                        /\ reader'[r].phase = "mark" => reader'[r].on = 0 /\ ~reader'[r].closed
      BY DEF StreamsOK
    <3>1. CASE r \in Waiting(c, i)
      <4>1. reader'[r] = Took(reader[r])
        BY <2>1, <3>1
      <4> QED
        BY <2>4, <3>1, <4>1, TookIs
    <3>2. CASE r \notin Waiting(c, i)
      BY <2>1, <3>2 DEF StreamsOK
    <3> QED
      BY <3>1, <3>2
  <2> QED
    BY <1>1, <2>3, <2>5, <2>6 DEF TypeOK, FetchLands
<1>2. CASE FetchFails
  <2>1. PICK c \in Caches, i \in Samples :
          /\ mem[c].reads[i] > 0
          /\ LET m == ReadEnded(mem[c], i)
                 opens == {r \in Waiting(c, i) : reader[r].phase = "opening"}
             IN mem' = [mem EXCEPT ![c] = IF opens = {} THEN m ELSE [m EXCEPT !.lost = TRUE]]
          /\ reader' = [r \in Readers |-> IF r \in Waiting(c, i) THEN Failed(reader[r])
                                          ELSE reader[r]]
    BY <1>2 DEF FetchFails
  <2> DEFINE m == ReadEnded(mem[c], i)
  <2>2. m \in MemType
    BY <2>1, ReadEndedIs DEF TypeOK
  <2>3. mem' \in [Caches -> MemType]
    <3>1. mem' = [mem EXCEPT ![c] = m] \/ mem' = [mem EXCEPT ![c] = [m EXCEPT !.lost = TRUE]]
      BY <2>1
    <3>2. [m EXCEPT !.lost = TRUE] \in MemType
      <4> HIDE DEF m
      <4> QED
        BY <2>2 DEF MemType
    <3> HIDE DEF m
    <3> QED
      BY <2>2, <3>1, <3>2 DEF TypeOK
  <2>4. reader' \in [Readers -> StreamType]
    BY <2>1, FailedIs DEF TypeOK
  <2>5. StreamsOK'
    <3> SUFFICES ASSUME NEW r \in Readers
                 PROVE  /\ reader'[r].first \/ reader'[r].phase \in {"mark", "opening"} =>
                             reader'[r].at \in Samples
                        /\ reader'[r].phase = "mark" => reader'[r].on = 0 /\ ~reader'[r].closed
      BY DEF StreamsOK
    <3>1. CASE r \in Waiting(c, i)
      <4>1. reader'[r] = Failed(reader[r]) /\ reader[r] \in StreamType
        BY <2>1, <3>1 DEF TypeOK
      <4> QED
        BY <4>1, FailedIs DEF StreamsOK
    <3>2. CASE r \notin Waiting(c, i)
      BY <2>1, <3>2 DEF StreamsOK
    <3> QED
      BY <3>1, <3>2
  <2> QED
    BY <1>2, <2>3, <2>4, <2>5 DEF TypeOK, FetchFails
<1>3. CASE Notify
  <2>1. PICK c \in Caches :
          mem' = [mem EXCEPT ![c].notify = FALSE,
                             ![c].told = IF source[c].place = "listed" THEN Held(mem[c]) ELSE @]
    BY <1>3 DEF Notify
  <2>2. mem[c] \in MemType /\ Held(mem[c]) \in SUBSET Samples
    BY HeldIs DEF TypeOK
  <2>3. mem' \in [Caches -> MemType]
    BY <2>1, <2>2 DEF TypeOK, MemType
  <2> QED
    BY <1>3, <2>3 DEF TypeOK, StreamsOK, Notify
<1>4. CASE PressureChanges
  BY <1>4 DEF PressureChanges, TypeOK, StreamsOK
<1>5. CASE OpenSource
  <2> DEFINE new  == {c \in Caches : source[c].place = "new"}
             free == Handles \ {source[c].handle : c \in Listed}
  <2>1. /\ new # {} /\ free # {}
        /\ source' = [source EXCEPT ![Min(new)] = [place |-> "listed", handle |-> Min(free)]]
        /\ reported' = [reported EXCEPT ![Min(new)] = 0]
    BY <1>5 DEF OpenSource
  <2>2. Min(new) \in Caches /\ Min(free) \in Nat
    <3>1. new \in SUBSET Nat /\ free \in SUBSET Nat /\ new \subseteq Caches
      BY ConstantsAre
    <3> HIDE DEF new, free
    <3> QED
      BY <2>1, <3>1, MinIs
  <2> HIDE DEF new, free
  <2>3. [place |-> "listed", handle |-> Min(free)] \in SourceType
    BY <2>2 DEF SourceType
  <2>4. source' \in [Caches -> SourceType] /\ reported' \in [Caches -> Nat \cup {-1}]
    BY <2>1, <2>3 DEF TypeOK, SourceType
  <2> QED
    BY <1>5, <2>4, SameStreams DEF OpenSource, TypeOK, SourceType
<1>6. CASE RemoveSource
  <2>1. PICK c \in Listed :
          /\ source' = [source EXCEPT ![c].place = "gone"]
          /\ mem' = [mem EXCEPT ![c] = [Empty EXCEPT !.reads = mem[c].reads,
                                                     !.notify = mem[c].notify]]
          /\ reported' = [reported EXCEPT ![c] = -1]
          /\ total' = total - Known[c]
    BY <1>6 DEF RemoveSource
  <2>2. c \in Caches /\ mem[c] \in MemType
    BY DEF Listed, TypeOK
  <2>3. [Empty EXCEPT !.reads = mem[c].reads, !.notify = mem[c].notify] \in MemType
    BY <2>2, EmptyIs DEF MemType
  <2>4. Known[c] \in Nat
    BY <2>2 DEF TypeOK, Known
  <2>5. source' \in [Caches -> SourceType]
    BY <2>1, <2>2 DEF TypeOK, SourceType
  <2>6. /\ mem' \in [Caches -> MemType] /\ reported' \in [Caches -> Nat \cup {-1}]
        /\ total' \in Int
    BY <2>1, <2>2, <2>3, <2>4 DEF TypeOK
  <2> QED
    BY <1>6, <2>5, <2>6, SameStreams DEF RemoveSource, TypeOK, SourceType
<1>7. CASE StartClear
  BY <1>7 DEF StartClear, TypeOK, StreamsOK
<1>8. CASE ClearDisposes
  <2> DEFINE open == {c \in Caches : source[c].place = "listed"}
  <2>1. PICK c : c = Min(open)
    OBVIOUS
  <2>2. open # {} /\ source' = [source EXCEPT ![c].place = "disposed"] /\ Dispose(c)
    BY <1>8, <2>1 DEF ClearDisposes
  <2>3. c \in Caches /\ mem[c] \in MemType
    <3>1. open \in SUBSET Nat /\ open \subseteq Caches
      BY ConstantsAre
    <3>2. c \in open
      <4> HIDE DEF open
      <4> QED
        BY <2>1, <2>2, <3>1, MinIs
    <3> QED
      BY <3>1, <3>2 DEF TypeOK
  <2>4. [Empty EXCEPT !.reads = mem[c].reads, !.told = mem[c].told,
                      !.notify = mem[c].notify, !.lit = mem[c].lit] \in MemType
    BY <2>3, EmptyIs DEF MemType
  <2>5. Known[c] \in Nat
    BY <2>3 DEF TypeOK, Known
  <2> HIDE DEF open
  <2>6. source' \in [Caches -> SourceType]
    BY <2>2, <2>3 DEF TypeOK, SourceType
  <2>7. /\ mem' \in [Caches -> MemType] /\ reported' \in [Caches -> Nat \cup {-1}]
        /\ total' \in Int
    BY <2>2, <2>3, <2>4, <2>5 DEF TypeOK, Dispose
  <2> QED
    BY <1>8, <2>6, <2>7, SameStreams DEF ClearDisposes, TypeOK, SourceType
<1>9. CASE ClearEnds
  <2>1. mem' \in [Caches -> MemType]
    BY <1>9 DEF ClearEnds, TypeOK, MemType
  <2>2. source' \in [Caches -> [place : {"new", "listed", "disposed", "gone"}, handle : Nat]]
    BY <1>9 DEF ClearEnds, TypeOK
  <2> QED
    BY <1>9, <2>1, <2>2, SameStreams DEF ClearEnds, TypeOK
<1>10. ASSUME NEW r \in Readers, OpenStream(r)
       PROVE  TypeOK' /\ StreamsOK'
  <2>1. PICK c \in Listed, i \in Keyframes :
          /\ reader' = [reader EXCEPT ![r] =
               [NoStream EXCEPT !.phase = "mark", !.handle = source[c].handle,
                                !.index = IndexFor(r, source[c].handle), !.at = i]]
          /\ indexes' = [indexes EXCEPT ![r] = Remembered(r, source[c].handle)]
    BY <1>10 DEF OpenStream, Set
  <2> DEFINE h == source[c].handle
             s == [NoStream EXCEPT !.phase = "mark", !.handle = h,
                                   !.index = IndexFor(r, h), !.at = i]
  <2>2. c \in Found(h) /\ h \in Nat /\ i \in Samples
    BY ConstantsAre DEF Found, Listed, TypeOK
  <2>3. IndexFor(r, h) \in Caches /\ Remembered(r, h) \in Seq(EntryType)
    <3> HIDE DEF h
    <3> QED
      BY <2>2, IndexIs
  <2>4. s \in StreamType /\ s.phase = "mark" /\ s.on = 0 /\ ~s.closed /\ s.at = i /\ ~s.first
    <3> HIDE DEF h
    <3> QED
      BY <2>2, <2>3, ConstantsAre DEF NoStream, StreamType
  <2> HIDE DEF s
  <2>5. reader' = [reader EXCEPT ![r] = s]
    BY <2>1 DEF s
  <2>6. reader' \in [Readers -> StreamType] /\ indexes' \in [Readers -> Seq(EntryType)]
    BY <2>1, <2>3, <2>4, <2>5 DEF TypeOK
  <2>7. StreamsOK'
    BY <2>2, <2>4, <2>5 DEF StreamsOK, TypeOK
  <2> QED
    BY <1>10, <2>6, <2>7 DEF OpenStream, TypeOK
<1>11. ASSUME NEW r \in Readers, NEW s \in StreamType, reader' = [reader EXCEPT ![r] = s],
              s.phase = "mark" => s.on = 0 /\ ~s.closed,
              s.first \/ s.phase \in {"mark", "opening"} => s.at \in Samples
       PROVE  reader' \in [Readers -> StreamType] /\ StreamsOK'
  BY <1>11 DEF StreamsOK, TypeOK
<1>12. ASSUME NEW r \in Readers, MarkPending(r)
       PROVE  TypeOK' /\ StreamsOK'
  <2> DEFINE s == [reader[r] EXCEPT !.phase = "opening"]
  <2>1. reader[r].phase = "mark" /\ reader' = [reader EXCEPT ![r] = s]
    BY <1>12 DEF MarkPending, Set
  <2>2. s \in StreamType /\ s.phase = "opening" /\ s.at \in Samples
    BY <2>1 DEF TypeOK, StreamType, StreamsOK
  <2> HIDE DEF s
  <2>3. reader' \in [Readers -> StreamType] /\ StreamsOK'
    BY <1>11, <2>1, <2>2
  <2>4. mem' \in [Caches -> MemType]
    BY <1>12, LitIs DEF MarkPending
  <2> QED
    BY <1>12, <2>3, <2>4 DEF MarkPending, TypeOK
<1>13. ASSUME NEW r \in Readers, AskSample(r)
       PROVE  TypeOK' /\ StreamsOK'
  <2> DEFINE s == reader[r]
             found == Found(s.handle)
             c == Max(found)
  <2>1. /\ s \in StreamType /\ s.phase \in {"opening", "sample"} /\ s.on = 0
        /\ ~s.first /\ s.phase = "sample" => s.at < s.end
    BY <1>13 DEF AskSample, TypeOK
  <2>2. s.at \in Samples
    BY <1>13, AskedAt
  <2>3. \/ Set(r, Took(s)) /\ UNCHANGED mem
        \/ Set(r, Failed(s)) /\ UNCHANGED mem
        \/ /\ found # {} /\ Set(r, Took(s)) /\ s.at \in Held(mem[c])
           /\ mem' = [mem EXCEPT ![c] = Touched(@, s.at)]
        \/ /\ found # {} /\ Set(r, [s EXCEPT !.on = c])
           /\ mem' = [mem EXCEPT ![c] = Fetching(@, {s.at})]
    BY <1>13 DEF AskSample
  <2>4. found # {} => c \in Caches /\ mem[c] \in MemType
    BY FoundIs DEF TypeOK
  <2>5. Took(s) \in StreamType /\ Failed(s) \in StreamType
    BY <2>1, <2>2, TookIs, FailedIs
  <2>6. mem' \in [Caches -> MemType]
    <3> HIDE DEF c, s, found
    <3>1. CASE UNCHANGED mem
      BY <3>1 DEF TypeOK
    <3>2. CASE /\ found # {} /\ s.at \in Held(mem[c])
               /\ mem' = [mem EXCEPT ![c] = Touched(@, s.at)]
      <4>1. Touched(mem[c], s.at) \in MemType
        BY <3>2, <2>2, <2>4, TouchedIs
      <4> QED
        BY <3>2, <4>1, <2>4 DEF TypeOK
    <3>3. CASE found # {} /\ mem' = [mem EXCEPT ![c] = Fetching(@, {s.at})]
      <4>1. {s.at} \in SUBSET Samples
        BY <2>2
      <4>2. Fetching(mem[c], {s.at}) \in MemType
        BY <3>3, <4>1, <2>4, FetchingIs
      <4> QED
        BY <3>3, <4>2, <2>4 DEF TypeOK
    <3> QED
      BY <2>3, <3>1, <3>2, <3>3
  <2>7. reader' \in [Readers -> StreamType] /\ StreamsOK'
    <3> HIDE DEF c, s, found
    <3>1. CASE Set(r, Took(s))
      <4> DEFINE t == Took(s)
      <4>1. /\ t \in StreamType /\ t.phase # "mark" /\ t.phase # "opening"
            /\ t.first => t.at \in Samples
        BY <2>1, <2>2, TookIs
      <4>2. reader' = [reader EXCEPT ![r] = t]
        BY <3>1 DEF Set
      <4> HIDE DEF t
      <4> QED
        BY <4>1, <4>2, <1>11
    <3>2. CASE Set(r, Failed(s))
      <4> DEFINE t == Failed(s)
      <4>1. /\ t \in StreamType /\ t.phase # "mark" /\ t.phase # "opening"
            /\ t.first => t.at \in Samples
        BY <2>1, <2>2, FailedIs
      <4>2. reader' = [reader EXCEPT ![r] = t]
        BY <3>2 DEF Set
      <4> HIDE DEF t
      <4> QED
        BY <4>1, <4>2, <1>11
    <3>3. CASE found # {} /\ Set(r, [s EXCEPT !.on = c])
      <4> DEFINE t == [s EXCEPT !.on = c]
      <4>1. t \in StreamType /\ t.phase # "mark" /\ t.at \in Samples
        BY <2>1, <2>2, <2>4, <3>3 DEF StreamType
      <4>2. reader' = [reader EXCEPT ![r] = t]
        BY <3>3 DEF Set
      <4> HIDE DEF t
      <4> QED
        BY <4>1, <4>2, <1>11
    <3> QED
      BY <2>3, <3>1, <3>2, <3>3
  <2> QED
    BY <1>13, <2>6, <2>7 DEF AskSample, TypeOK
<1>14. ASSUME NEW r \in Readers, NextBatch(r)
       PROVE  TypeOK' /\ StreamsOK'
  <2> DEFINE s == reader[r]
             t == [s EXCEPT !.phase = "sample", !.began = s.at, !.end = s.at + Take(s)]
  <2>1. /\ s \in StreamType /\ s.phase = "ready" /\ s.at <= N
        /\ reader' = [reader EXCEPT ![r] = t]
    BY <1>14, BatchIs DEF TypeOK
  <2>2. s.at \in Samples /\ s.at + Take(s) \in 1..(N + 1)
    BY <2>1, WindowIs
  <2>3. t \in StreamType /\ t.phase = "sample" /\ t.at \in Samples
    <3> HIDE DEF s
    <3> QED
      BY <2>1, <2>2, ConstantsAre DEF StreamType
  <2> HIDE DEF t
  <2>4. reader' \in [Readers -> StreamType] /\ StreamsOK'
    BY <1>11, <2>1, <2>3
  <2>5. mem' \in [Caches -> MemType]
    <3>1. \A c \in Caches : mem'[c] \in MemType
      BY <1>14, BatchIs
    <3>2. \E f : mem' = [c \in Caches |-> f[c]]
      BY <1>14, BatchIs
    <3> QED
      BY <3>1, <3>2
  <2> QED
    BY <1>14, <2>4, <2>5 DEF NextBatch, TypeOK
<1>15. ASSUME NEW r \in Readers, ClearPending(r)
       PROVE  TypeOK' /\ StreamsOK'
  <2> DEFINE s == [reader[r] EXCEPT !.phase = "sample"]
  <2>1. reader' = [reader EXCEPT ![r] = s]
    BY <1>15 DEF ClearPending, Set
  <2>2. s \in StreamType /\ s.phase = "sample" /\ (s.first => s.at \in Samples)
    <3>1. reader[r] \in StreamType /\ (reader[r].first => reader[r].at \in Samples)
      BY DEF TypeOK, StreamsOK
    <3>2. /\ s \in StreamType /\ s.phase = "sample"
          /\ s.first = reader[r].first /\ s.at = reader[r].at
      BY <3>1 DEF StreamType
    <3> QED
      BY <3>1, <3>2
  <2> HIDE DEF s
  <2>3. reader' \in [Readers -> StreamType] /\ StreamsOK'
    BY <1>11, <2>1, <2>2
  <2>4. mem' \in [Caches -> MemType]
    BY <1>15, LitIs DEF ClearPending
  <2> QED
    BY <1>15, <2>3, <2>4 DEF ClearPending, TypeOK
<1>16. ASSUME NEW r \in Readers, NEW s, reader' = [reader EXCEPT ![r] = s],
              \/ s = NoStream
              \/ s = [reader[r] EXCEPT !.phase = "ready"]
              \/ s = [reader[r] EXCEPT !.closed = TRUE] /\ reader[r].phase \in {"sample", "clear"}
       PROVE  reader' \in [Readers -> StreamType] /\ StreamsOK'
  <2>0. reader[r] \in StreamType /\ (reader[r].first => reader[r].at \in Samples)
    BY DEF TypeOK, StreamsOK
  <2>1. /\ s \in StreamType /\ s.phase \notin {"mark", "opening"}
        /\ s.first => s.at \in Samples
    <3>1. CASE s = NoStream
      BY <3>1, NoStreamIs
    <3>2. CASE s = [reader[r] EXCEPT !.phase = "ready"]
      BY <3>2, <2>0 DEF StreamType
    <3>3. CASE s = [reader[r] EXCEPT !.closed = TRUE] /\ reader[r].phase \in {"sample", "clear"}
      BY <3>3, <2>0 DEF StreamType
    <3> QED
      BY <1>16, <3>1, <3>2, <3>3
  <2> QED
    BY <1>11, <1>16, <2>1
<1>17. ASSUME NEW r \in Readers, BatchEnds(r)
       PROVE  TypeOK' /\ StreamsOK'
  <2>1. reader' \in [Readers -> StreamType] /\ StreamsOK'
    <3>1. \/ reader' = [reader EXCEPT ![r] = NoStream]
          \/ reader' = [reader EXCEPT ![r] = [reader[r] EXCEPT !.phase = "ready"]]
      BY <1>17 DEF BatchEnds, Set
    <3> QED
      BY <3>1, <1>16
  <2> QED
    BY <1>17, <2>1 DEF BatchEnds, TypeOK
<1>18. ASSUME NEW r \in Readers, CloseStream(r)
       PROVE  TypeOK' /\ StreamsOK'
  <2>1. reader' \in [Readers -> StreamType] /\ StreamsOK'
    <3>1. \/ reader' = [reader EXCEPT ![r] = NoStream]
          \/ /\ reader' = [reader EXCEPT ![r] = [reader[r] EXCEPT !.closed = TRUE]]
             /\ reader[r].phase \in {"sample", "clear"}
      BY <1>18 DEF CloseStream, Set
    <3> QED
      BY <3>1, <1>16
  <2>2. mem' \in [Caches -> MemType]
    BY <1>18, LitIs DEF CloseStream
  <2> QED
    BY <1>18, <2>1, <2>2 DEF CloseStream, TypeOK
<1>19. CASE UNCHANGED vars
  BY <1>19, SameStreams DEF vars, TypeOK
<1> QED
  BY <1>1, <1>2, <1>3, <1>4, <1>5, <1>6, <1>7, <1>8, <1>9, <1>10, <1>12, <1>13, <1>14,
     <1>15, <1>17, <1>18, <1>19 DEF Next, StoreStep, ReaderStep
-----------------------------------------------------------------------------
(* The inductive invariant.                                                *)

(* What each cache keeps to, whatever the streams do.                      *)
CacheOK(c) ==
  /\ source[c].place = "new" => mem[c] = Empty /\ reported[c] = -1
  /\ Bytes(mem[c]) = Known[c]
  /\ Bytes(mem[c]) <= HardCeiling
  /\ source[c].place = "listed" =>
       \A i \in Samples : mem[c].reads[i] = IF i \in mem[c].inFlight THEN 1 ELSE 0
  /\ source[c].place = "listed" => mem[c].notify \/ mem[c].told = Held(mem[c])
  /\ source[c].place = "gone" => mem[c].told = {}

(* Sources that are listed at the same time have handles of their own.     *)
OwnHandles == \A c, d \in Listed : source[c].handle = source[d].handle => c = d

(* A stream that will put out the spinner of a cache: it reads through     *)
(* that cache, is not closed, and awaits a sample of no other cache.       *)
Owns(r, c) ==
  /\ reader[r].phase \notin {"idle", "mark"} /\ ~reader[r].closed
  /\ reader[r].handle = source[c].handle /\ reader[r].on \in {0, c}

LitOwned ==
  \A c \in Caches :
    mem[c].lit /\ source[c].place = "listed" => mem[c].lost \/ \E r \in Readers : Owns(r, c)

TotalOK == total = SumFunctionOnSet(Known, Caches)

IInv ==
  /\ TypeOK /\ StreamsOK /\ OwnHandles /\ LitOwned /\ TotalOK
  /\ \A c \in Caches : CacheOK(c)

(* A step of a stream changes nothing else.                                *)
LEMMA ReaderStepIs ==
  ASSUME TypeOK, StreamsOK, NEW r \in Readers, OpenStream(r) \/ ReaderStep(r)
  PROVE  /\ UNCHANGED <<source, reported, total>>
         /\ \A c \in Caches : /\ Asked(mem[c], mem'[c])
                              /\ c \notin Listed => mem'[c] = mem[c]
<1>1. \A c \in Caches : mem[c] \in MemType
  BY DEF TypeOK
<1>2. CASE UNCHANGED mem /\ UNCHANGED <<source, reported, total>>
  BY <1>1, <1>2, AskedIs
<1>3. ASSUME NEW S, NEW on \in BOOLEAN, mem' = Light(S, on)
      PROVE  \A c \in Caches : /\ Asked(mem[c], mem'[c])
                               /\ c \notin Listed => mem'[c] = mem[c]
  <2> SUFFICES ASSUME NEW c \in Caches
               PROVE  Asked(mem[c], mem'[c]) /\ (c \notin Listed => mem'[c] = mem[c])
    OBVIOUS
  <2>1. \/ mem'[c] = mem[c]
        \/ c \in Listed /\ mem'[c] = [mem[c] EXCEPT !.lit = on]
    BY <1>3, LitIs DEF Listed
  <2>2. Asked(mem[c], mem[c]) /\ Asked(mem[c], [mem[c] EXCEPT !.lit = on])
    BY <1>1, AskedIs
  <2> QED
    BY <2>1, <2>2
<1>4. CASE OpenStream(r) \/ BatchEnds(r)
  BY <1>2, <1>4 DEF OpenStream, BatchEnds, budget
<1>5. CASE MarkPending(r)
  BY <1>3, <1>5 DEF MarkPending, budget
<1>6. CASE ClearPending(r) \/ CloseStream(r)
  BY <1>3, <1>6 DEF ClearPending, CloseStream, budget
<1>7. CASE NextBatch(r)
  <2>1. UNCHANGED <<source, reported, total>>
    BY <1>7 DEF NextBatch, budget
  <2>2. \A c \in Caches : c \in Found(reader[r].handle) => c \in Listed
    BY DEF Found
  <2> QED
    BY <1>7, <2>1, <2>2, BatchIs
<1>8. CASE AskSample(r)
  <2> DEFINE s == reader[r]
             c == Max(Found(s.handle))
  <2>1. UNCHANGED <<source, reported, total>>
    BY <1>8 DEF AskSample, budget
  <2>2. s.at \in Samples
    BY <1>8, AskedAt
  <2>3. \/ UNCHANGED mem
        \/ /\ Found(s.handle) # {} /\ s.at \in Held(mem[c])
           /\ mem' = [mem EXCEPT ![c] = Touched(@, s.at)]
        \/ /\ Found(s.handle) # {}
           /\ mem' = [mem EXCEPT ![c] = Fetching(@, {s.at})]
    BY <1>8 DEF AskSample
  <2>4. Found(s.handle) # {} => c \in Listed
    BY FoundIs DEF Found
  <2> HIDE DEF c, s
  <2>5. CASE UNCHANGED mem
    BY <1>2, <2>1, <2>5
  <2>6. ASSUME NEW k, c \in Listed, Asked(mem[c], k), mem' = [mem EXCEPT ![c] = k]
        PROVE  \A d \in Caches : /\ Asked(mem[d], mem'[d])
                                 /\ d \notin Listed => mem'[d] = mem[d]
    BY <1>1, <2>6, AskedIs DEF TypeOK
  <2>7. c \in Listed => c \in Caches
    BY DEF Listed
  <2>8. CASE /\ Found(s.handle) # {} /\ s.at \in Held(mem[c])
             /\ mem' = [mem EXCEPT ![c] = Touched(@, s.at)]
    <3>1. Asked(mem[c], Touched(mem[c], s.at))
      BY <1>1, <2>4, <2>7, <2>8, AskedIs
    <3> QED
      BY <2>1, <2>4, <2>6, <2>8, <3>1
  <2>9. CASE Found(s.handle) # {} /\ mem' = [mem EXCEPT ![c] = Fetching(@, {s.at})]
    <3>1. {s.at} \in SUBSET Samples
      BY <2>2
    <3>2. Asked(mem[c], Fetching(mem[c], {s.at}))
      BY <1>1, <2>4, <2>7, <2>9, <3>1, AskedIs
    <3> QED
      BY <2>1, <2>4, <2>6, <2>9, <3>2
  <2> QED
    BY <2>3, <2>5, <2>8, <2>9
<1> QED
  BY <1>4, <1>5, <1>6, <1>7, <1>8 DEF ReaderStep

-----------------------------------------------------------------------------
(* Every step keeps what each cache keeps to.                              *)

LEMMA AskedKeeps ==
  ASSUME TypeOK, NEW c \in Caches, CacheOK(c), source'[c] = source[c],
         reported'[c] = reported[c], Asked(mem[c], mem'[c]),
         c \notin Listed => mem'[c] = mem[c]
  PROVE  CacheOK(c)'
<1> DEFINE m == mem[c]
           k == mem'[c]
<1>1. /\ Held(k) = Held(m) /\ k.told = m.told /\ k.notify = m.notify
      /\ Bytes(k) = Bytes(m)
  BY DEF Asked, Bytes
<1>2. Known'[c] = Known[c]
  BY DEF Known
<1>3. source[c].place = "listed" => \A i \in Samples : k.reads[i] = IF i \in k.inFlight THEN 1 ELSE 0
  BY DEF Asked, CacheOK
<1>4. source[c].place = "new" => mem'[c] = Empty /\ reported'[c] = -1
  BY DEF CacheOK, Listed
<1> QED
  BY <1>1, <1>2, <1>3, <1>4 DEF CacheOK

LEMMA CacheStep ==
  ASSUME TypeOK, StreamsOK, [Next]_vars, NEW c \in Caches, CacheOK(c)
  PROVE  CacheOK(c)'
<1>1. mem[c] \in MemType /\ Asked(mem[c], mem[c])
  BY AskedIs DEF TypeOK
<1>2. ASSUME source'[c] = source[c], reported'[c] = reported[c], mem'[c] = mem[c]
      PROVE  CacheOK(c)'
  BY <1>1, <1>2, AskedKeeps
<1>3. ASSUME NEW i \in Samples, mem[c].reads[i] > 0
      PROVE  /\ source[c].place # "new"
             /\ source[c].place = "listed" => mem[c].reads[i] = 1
             /\ source[c].place = "listed" =>
                  \A j \in Samples : ReadEnded(mem[c], i).reads[j] =
                                       IF j \in ReadEnded(mem[c], i).inFlight THEN 1 ELSE 0
  <2>1. Empty.reads[i] = 0
    BY DEF Empty
  <2>2. source[c].place # "new"
    BY <1>3, <2>1 DEF CacheOK
  <2>3. /\ ReadEnded(mem[c], i).reads = [mem[c].reads EXCEPT ![i] = @ - 1]
        /\ ReadEnded(mem[c], i).inFlight = mem[c].inFlight \ {i}
    BY <1>1, <1>3, ReadEndedIs
  <2>4. mem[c].reads \in [Samples -> Nat]
    BY <1>1 DEF MemType
  <2> QED
    BY <1>3, <2>2, <2>3, <2>4 DEF CacheOK
<1>4. CASE FetchLands
  <2>1. PICK d \in Caches, i \in Samples :
          /\ mem[d].reads[i] > 0
          /\ LET m == ReadEnded(mem[d], i) IN
               IF i \in Held(m)
               THEN mem' = [mem EXCEPT ![d] = Touched(m, i)] /\ UNCHANGED budget
               ELSE LET kept == Inserted(d, m, i)
                    IN mem' = [mem EXCEPT ![d] = kept] /\ Report(d, Bytes(kept))
    BY <1>4 DEF FetchLands
  <2>2. source' = source
    BY <1>4 DEF FetchLands
  <2>3. CASE d # c
    <3>1. mem'[c] = mem[c] /\ reported'[c] = reported[c]
      BY <2>1, <2>3 DEF TypeOK, Report, budget
    <3> QED
      BY <3>1, <2>2, <1>2
  <2>4. CASE d = c
    <3> DEFINE m == ReadEnded(mem[c], i)
    <3>1. /\ m \in MemType /\ Held(m) = Held(mem[c]) /\ m.told = mem[c].told
          /\ m.notify = mem[c].notify
      BY <1>1, <2>1, <2>4, ReadEndedIs
    <3>2. CASE i \in Held(m)
      <4>1. mem'[c] = Touched(m, i) /\ reported'[c] = reported[c]
        BY <2>1, <2>4, <3>2 DEF TypeOK, budget
      <4>2. /\ Held(mem'[c]) = Held(mem[c]) /\ mem'[c].told = mem[c].told
            /\ mem'[c].notify = mem[c].notify
            /\ mem'[c].reads = m.reads /\ mem'[c].inFlight = m.inFlight
        <5>1. PICK q : Touched(m, i) = [m EXCEPT !.lru = q]
          BY DEF Touched
        <5>2. Held(Touched(m, i)) = Held(m)
          <6> HIDE DEF m
          <6> QED
            BY <3>1, <3>2, TouchedIs
        <5> HIDE DEF m
        <5> QED
          BY <3>1, <4>1, <5>1, <5>2 DEF MemType
      <4>3. Known'[c] = Known[c] /\ Bytes(mem'[c]) = Bytes(mem[c])
        BY <4>1, <4>2 DEF Known, Bytes
      <4> QED
        BY <2>1, <2>2, <2>4, <4>2, <4>3, <1>3 DEF CacheOK
    <3>3. CASE i \notin Held(m)
      <4> DEFINE w == Inserted(c, m, i)
      <4>1. mem'[c] = w /\ Report(c, Bytes(w))
        BY <2>1, <2>4, <3>3 DEF TypeOK
      <4>2. Inserts(c, m, i, w)
        <5> HIDE DEF m
        <5> QED
          BY <3>1, InsertedIs
      <4>3. /\ w.reads = m.reads /\ w.inFlight = m.inFlight /\ w.told = m.told /\ w.notify
            /\ Bytes(w) <= HardCeiling /\ Bytes(w) \in Nat
        <5>1. PICK q, S : w = [m EXCEPT !.lru = q, !.active = S, !.notify = TRUE]
          BY <4>2 DEF Inserts
        <5>2. w \in MemType /\ Bytes(w) <= HardCeiling
          BY <4>2 DEF Inserts
        <5>3. Bytes(w) \in Nat
          <6> HIDE DEF w
          <6> QED
            BY <5>2, HeldIs
        <5> HIDE DEF m, w
        <5> QED
          BY <3>1, <5>1, <5>2, <5>3 DEF MemType
      <4>4. Known'[c] = Bytes(w)
        <5>1. reported'[c] = Bytes(w)
          BY <4>1 DEF Report, TypeOK
        <5> HIDE DEF w
        <5> QED
          BY <4>3, <5>1 DEF Known
      <4> HIDE DEF w
      <4> QED
        BY <2>1, <2>2, <2>4, <3>1, <4>1, <4>3, <4>4, <1>3 DEF CacheOK
    <3> QED
      BY <3>2, <3>3
  <2> QED
    BY <2>3, <2>4
<1>5. CASE FetchFails
  <2>1. PICK d \in Caches, i \in Samples :
          /\ mem[d].reads[i] > 0
          /\ LET m == ReadEnded(mem[d], i)
                 opens == {r \in Waiting(d, i) : reader[r].phase = "opening"}
             IN mem' = [mem EXCEPT ![d] = IF opens = {} THEN m ELSE [m EXCEPT !.lost = TRUE]]
    BY <1>5 DEF FetchFails
  <2>2. source' = source /\ reported' = reported
    BY <1>5 DEF FetchFails, budget
  <2>3. CASE d # c
    <3>1. mem'[c] = mem[c]
      BY <2>1, <2>3 DEF TypeOK
    <3> QED
      BY <3>1, <2>2, <1>2
  <2>4. CASE d = c
    <3> DEFINE m == ReadEnded(mem[c], i)
    <3>1. /\ m \in MemType /\ Held(m) = Held(mem[c]) /\ m.told = mem[c].told
          /\ m.notify = mem[c].notify
      BY <1>1, <2>1, <2>4, ReadEndedIs
    <3>2. mem'[c] = m \/ mem'[c] = [m EXCEPT !.lost = TRUE]
      BY <2>1, <2>4 DEF TypeOK
    <3>3. /\ mem'[c].lru = m.lru /\ mem'[c].told = m.told /\ mem'[c].notify = m.notify
          /\ mem'[c].reads = m.reads /\ mem'[c].inFlight = m.inFlight
      <4> HIDE DEF m
      <4> QED
        BY <3>1, <3>2 DEF MemType
    <3>4. /\ Held(mem'[c]) = Held(mem[c]) /\ Bytes(mem'[c]) = Bytes(mem[c])
          /\ Known'[c] = Known[c]
      BY <2>2, <3>1, <3>3 DEF Held, Bytes, Known
    <3> QED
      BY <2>1, <2>2, <2>4, <3>1, <3>3, <3>4, <1>3 DEF CacheOK
  <2> QED
    BY <2>3, <2>4
<1>6. CASE Notify
  <2>1. PICK d \in Caches :
          /\ mem[d].notify
          /\ mem' = [mem EXCEPT ![d].notify = FALSE,
                                ![d].told = IF source[d].place = "listed" THEN Held(mem[d]) ELSE @]
    BY <1>6 DEF Notify
  <2>2. source' = source /\ reported' = reported
    BY <1>6 DEF Notify, budget
  <2>3. CASE d # c
    <3>1. mem'[c] = mem[c]
      BY <2>1, <2>3 DEF TypeOK
    <3> QED
      BY <3>1, <2>2, <1>2
  <2>4. CASE d = c
    <3>1. mem'[c] = [mem[c] EXCEPT !.notify = FALSE,
                       !.told = IF source[c].place = "listed" THEN Held(mem[c]) ELSE @]
      BY <2>1, <2>4 DEF TypeOK
    <3>2. /\ mem'[c].lru = mem[c].lru /\ mem'[c].reads = mem[c].reads
          /\ mem'[c].inFlight = mem[c].inFlight
          /\ mem'[c].told = IF source[c].place = "listed" THEN Held(mem[c]) ELSE mem[c].told
      BY <1>1, <3>1 DEF MemType
    <3>3. /\ Held(mem'[c]) = Held(mem[c]) /\ Bytes(mem'[c]) = Bytes(mem[c])
          /\ Known'[c] = Known[c]
      BY <2>2, <3>2 DEF Held, Bytes, Known
    <3>4. source[c].place # "new"
      BY <2>1, <2>4 DEF CacheOK, Empty
    <3> QED
      BY <2>2, <3>2, <3>3, <3>4 DEF CacheOK
  <2> QED
    BY <2>3, <2>4
<1>7. CASE PressureChanges \/ StartClear \/ UNCHANGED vars
  BY <1>2, <1>7 DEF PressureChanges, StartClear, vars, budget
<1>8. CASE OpenSource
  <2> DEFINE new  == {d \in Caches : source[d].place = "new"}
  <2>1. PICK d, h : /\ d = Min(new) /\ new # {}
                    /\ source' = [source EXCEPT ![d] = [place |-> "listed", handle |-> h]]
                    /\ reported' = [reported EXCEPT ![d] = 0]
    BY <1>8 DEF OpenSource
  <2>2. d \in new
    <3>1. new \in SUBSET Nat
      BY ConstantsAre
    <3> HIDE DEF new
    <3> QED
      BY <2>1, <3>1, MinIs
  <2>3. mem' = mem
    BY <1>8 DEF OpenSource
  <2>4. CASE d # c
    BY <1>2, <2>1, <2>3, <2>4 DEF TypeOK
  <2>5. CASE d = c
    <3>1. mem'[c] = Empty /\ source'[c].place = "listed" /\ Known'[c] = 0
      BY <2>1, <2>2, <2>3, <2>5 DEF CacheOK, TypeOK, Known
    <3>2. Empty.inFlight = {} /\ Empty.told = {} /\ \A i \in Samples : Empty.reads[i] = 0
      BY DEF Empty
    <3>3. 0 <= HardCeiling
      BY CeilingIs
    <3> QED
      BY <3>1, <3>2, <3>3, EmptyIs DEF CacheOK
  <2> QED
    BY <2>4, <2>5
<1>9. ASSUME source'[c].place \in {"disposed", "gone"}, reported'[c] = -1,
             mem'[c].lru = <<>>, source'[c].place = "gone" => mem'[c].told = {}
      PROVE  CacheOK(c)'
  <2>1. Held(mem'[c]) = {} /\ Bytes(mem'[c]) = 0 /\ Known'[c] = 0
    BY <1>9, EmptyIs DEF Held, Bytes, Known, Empty
  <2> QED
    BY <1>9, <2>1, CeilingIs DEF CacheOK
<1>10. CASE RemoveSource
  <2>1. PICK d \in Listed :
          /\ source' = [source EXCEPT ![d].place = "gone"]
          /\ mem' = [mem EXCEPT ![d] = [Empty EXCEPT !.reads = mem[d].reads,
                                                     !.notify = mem[d].notify]]
          /\ reported' = [reported EXCEPT ![d] = -1]
    BY <1>10 DEF RemoveSource
  <2>2. CASE d # c
    BY <1>2, <2>1, <2>2 DEF TypeOK
  <2>3. CASE d = c
    <3>1. /\ source'[c].place = "gone" /\ reported'[c] = -1
          /\ mem'[c].lru = <<>> /\ mem'[c].told = {}
      BY <2>1, <2>3 DEF TypeOK, Empty
    <3> QED
      BY <3>1, <1>9
  <2> QED
    BY <2>2, <2>3
<1>11. CASE ClearDisposes
  <2>1. PICK d : source' = [source EXCEPT ![d].place = "disposed"] /\ Dispose(d)
    BY <1>11 DEF ClearDisposes
  <2>2. CASE d # c
    BY <1>2, <2>1, <2>2 DEF TypeOK, Dispose
  <2>3. CASE d = c
    <3>1. source'[c].place = "disposed" /\ reported'[c] = -1 /\ mem'[c].lru = <<>>
      BY <2>1, <2>3 DEF TypeOK, Empty, Dispose
    <3> QED
      BY <3>1, <1>9
  <2> QED
    BY <2>2, <2>3
<1>12. CASE ClearEnds
  <2>1. /\ source[c].place # "listed" /\ reported' = reported
        /\ source'[c] = IF c \in Listed THEN [source[c] EXCEPT !.place = "gone"] ELSE source[c]
        /\ mem'[c] = [mem[c] EXCEPT !.told = {}, !.lit = FALSE]
    BY <1>12 DEF ClearEnds, budget
  <2>2. mem'[c].lru = mem[c].lru /\ mem'[c].told = {}
    BY <1>1, <2>1 DEF MemType
  <2>3. /\ Bytes(mem'[c]) = Bytes(mem[c]) /\ Known'[c] = Known[c]
    BY <2>1, <2>2 DEF Held, Bytes, Known
  <2>4. CASE c \in Listed
    <3>1. source'[c].place = "gone"
      BY <2>1, <2>4 DEF TypeOK
    <3> QED
      BY <2>2, <2>3, <3>1 DEF CacheOK
  <2>5. CASE c \notin Listed
    <3>1. source'[c] = source[c]
      BY <2>1, <2>5
    <3>2. [Empty EXCEPT !.told = {}, !.lit = FALSE] = Empty
      <4>1. Empty \in MemType /\ Empty.told = {} /\ Empty.lit = FALSE
        BY EmptyIs DEF Empty
      <4> QED
        BY <4>1 DEF MemType
    <3>3. source[c].place = "new" => mem'[c] = Empty
      BY <2>1, <3>2 DEF CacheOK
    <3> QED
      BY <2>1, <2>2, <2>3, <3>1, <3>3 DEF CacheOK
  <2> QED
    BY <2>4, <2>5
<1>13. ASSUME NEW r \in Readers, OpenStream(r) \/ ReaderStep(r)
       PROVE  CacheOK(c)'
  <2>1. /\ source'[c] = source[c] /\ reported'[c] = reported[c]
        /\ Asked(mem[c], mem'[c]) /\ (c \notin Listed => mem'[c] = mem[c])
    BY <1>13, ReaderStepIs
  <2> QED
    BY <2>1, AskedKeeps
<1> QED
  BY <1>4, <1>5, <1>6, <1>7, <1>8, <1>10, <1>11, <1>12, <1>13 DEF Next, StoreStep

-----------------------------------------------------------------------------
(* The coordinator's total.                                                *)

LEMMA KnownIs ==
  ASSUME TypeOK
  PROVE  Known \in [Caches -> Int] /\ IsFiniteSet(Caches)
  BY ConstantsAre DEF TypeOK, Known

(* What one cache has reported, and what the total has moved by.           *)
Reported(c) ==
  /\ \A d \in Caches \ {c} : reported'[d] = reported[d]
  /\ total' = total + Known'[c] - Known[c]

LEMMA ReportIs ==
  ASSUME TypeOK, NEW c \in Caches, NEW bytes \in Nat, Report(c, bytes)
  PROVE  Reported(c)
  BY DEF Report, Reported, TypeOK, Known

LEMMA TotalStep ==
  ASSUME TypeOK, StreamsOK, [Next]_vars, \A c \in Caches : CacheOK(c), TotalOK
  PROVE  TotalOK'
<1>1. TypeOK' /\ Known \in [Caches -> Int] /\ IsFiniteSet(Caches)
  BY TypeStep, KnownIs
<1>2. Known' \in [Caches -> Int]
  BY <1>1 DEF TypeOK, Known
<1>3. ASSUME NEW c \in Caches, Reported(c)
      PROVE  TotalOK'
  <2>1. \A d \in Caches \ {c} : Known'[d] = Known[d]
    BY <1>3 DEF Reported, Known
  <2> DEFINE f == Known
             h == Known'
  <2>2. f \in [Caches -> Int] /\ h \in [Caches -> Int] /\ \A d \in Caches \ {c} : h[d] = f[d]
    BY <1>1, <1>2, <2>1
  <2>3. total = SumFunctionOnSet(f, Caches) /\ total' = total + h[c] - f[c]
    BY <1>3 DEF Reported, TotalOK
  <2>4. TotalOK' <=> total' = SumFunctionOnSet(h, Caches)
    BY DEF TotalOK
  <2> HIDE DEF f, h
  <2>5. SumFunctionOnSet(h, Caches) = SumFunctionOnSet(f, Caches) + h[c] - f[c]
    BY <1>1, <2>2, SumAt
  <2> QED
    BY <2>3, <2>4, <2>5
<1>4. ASSUME UNCHANGED <<reported, total>>
      PROVE  TotalOK'
  BY <1>4 DEF TotalOK, Known
<1>5. CASE FetchLands
  <2>1. PICK c \in Caches, i \in Samples :
          /\ mem[c].reads[i] > 0
          /\ LET m == ReadEnded(mem[c], i) IN
               IF i \in Held(m) THEN UNCHANGED budget
               ELSE Report(c, Bytes(Inserted(c, m, i)))
    BY <1>5 DEF FetchLands
  <2> DEFINE m == ReadEnded(mem[c], i)
             w == Inserted(c, m, i)
  <2>2. CASE UNCHANGED budget
    BY <1>4, <2>2 DEF budget
  <2>3. CASE Report(c, Bytes(w))
    <3>1. m \in MemType
      BY <2>1, ReadEndedIs DEF TypeOK
    <3>2. w \in MemType
      <4> HIDE DEF m
      <4> QED
        BY <3>1, InsertedIs DEF Inserts
    <3>3. Bytes(w) \in Nat
      <4> HIDE DEF w
      <4> QED
        BY <3>2, HeldIs
    <3> HIDE DEF w
    <3> QED
      BY <1>3, <2>3, <3>3, ReportIs
  <2> QED
    BY <2>1, <2>2, <2>3
<1>6. CASE FetchFails \/ Notify \/ PressureChanges \/ StartClear \/ ClearEnds \/ UNCHANGED vars
  BY <1>4, <1>6 DEF FetchFails, Notify, PressureChanges, StartClear, ClearEnds, vars, budget
<1>7. CASE OpenSource
  <2> DEFINE new  == {d \in Caches : source[d].place = "new"}
  <2>1. PICK d : /\ d = Min(new) /\ new # {}
                 /\ reported' = [reported EXCEPT ![d] = 0] /\ total' = total
    BY <1>7 DEF OpenSource
  <2>2. d \in new
    <3>1. new \in SUBSET Nat
      BY ConstantsAre
    <3> HIDE DEF new
    <3> QED
      BY <2>1, <3>1, MinIs
  <2>3. Known[d] = 0 /\ Known'[d] = 0 /\ d \in Caches
    BY <2>1, <2>2 DEF CacheOK, Known, TypeOK
  <2>4. Reported(d)
    BY <2>1, <2>3 DEF Reported, TypeOK
  <2> QED
    BY <1>3, <2>3, <2>4
<1>8. ASSUME NEW c \in Caches, reported' = [reported EXCEPT ![c] = -1], total' = total - Known[c]
      PROVE  TotalOK'
  <2>1. Known'[c] = 0 /\ Known[c] \in Int /\ total \in Int
    BY <1>1, <1>8 DEF TypeOK, Known
  <2>2. Reported(c)
    BY <1>8, <2>1 DEF Reported, TypeOK
  <2> QED
    BY <1>3, <2>2
<1>9. CASE RemoveSource
  BY <1>8, <1>9 DEF RemoveSource, Listed
<1>10. CASE ClearDisposes
  <2> DEFINE open == {c \in Caches : source[c].place = "listed"}
  <2>1. PICK c : c = Min(open) /\ open # {} /\ Dispose(c)
    BY <1>10 DEF ClearDisposes
  <2>2. c \in Caches
    <3>1. open \in SUBSET Nat /\ open \subseteq Caches
      BY ConstantsAre
    <3> HIDE DEF open
    <3> QED
      BY <2>1, <3>1, MinIs
  <2> QED
    BY <1>8, <2>1, <2>2 DEF Dispose
<1>11. ASSUME NEW r \in Readers, OpenStream(r) \/ ReaderStep(r)
       PROVE  TotalOK'
  BY <1>4, <1>11, ReaderStepIs
<1> QED
  BY <1>5, <1>6, <1>7, <1>9, <1>10, <1>11 DEF Next, StoreStep

-----------------------------------------------------------------------------
(* The slab.                                                               *)

LEMMA HandlesStep ==
  ASSUME TypeOK, StreamsOK, [Next]_vars, OwnHandles
  PROVE  OwnHandles'
<1>1. ASSUME \A c \in Caches :
               /\ source'[c].handle = source[c].handle
               /\ source'[c].place \in {"listed", "disposed"} =>
                    source[c].place \in {"listed", "disposed"}
      PROVE  OwnHandles'
  BY <1>1 DEF OwnHandles, Listed
<1>2. CASE FetchLands \/ FetchFails \/ Notify \/ PressureChanges \/ StartClear \/ UNCHANGED vars
  BY <1>1, <1>2 DEF FetchLands, FetchFails, Notify, PressureChanges, StartClear, vars
<1>3. ASSUME NEW r \in Readers, OpenStream(r) \/ ReaderStep(r)
      PROVE  OwnHandles'
  BY <1>1, <1>3, ReaderStepIs
<1>4. CASE RemoveSource
  BY <1>1, <1>4 DEF RemoveSource, Listed, TypeOK
<1>5. CASE ClearDisposes
  <2> DEFINE open == {c \in Caches : source[c].place = "listed"}
  <2>1. PICK d : d = Min(open) /\ open # {} /\ source' = [source EXCEPT ![d].place = "disposed"]
    BY <1>5 DEF ClearDisposes
  <2>2. d \in open
    <3>1. open \in SUBSET Nat
      BY ConstantsAre
    <3> HIDE DEF open
    <3> QED
      BY <2>1, <3>1, MinIs
  <2> QED
    BY <1>1, <2>1, <2>2 DEF TypeOK
<1>6. CASE ClearEnds
  BY <1>1, <1>6 DEF ClearEnds, Listed, TypeOK
<1>7. CASE OpenSource
  <2> DEFINE free == Handles \ {source[c].handle : c \in Listed}
  <2>1. PICK d, h : /\ h = Min(free) /\ free # {}
                    /\ source' = [source EXCEPT ![d] = [place |-> "listed", handle |-> h]]
    BY <1>7 DEF OpenSource
  <2>2. h \in free
    <3>1. free \in SUBSET Nat
      BY ConstantsAre
    <3> HIDE DEF free
    <3> QED
      BY <2>1, <3>1, MinIs
  <2>3. \A c \in Listed : source[c].handle # h
    BY <2>2
  <2>4. /\ Listed' \subseteq Listed \cup {d}
        /\ \A c \in Caches : c # d => source'[c] = source[c]
        /\ d \in Caches => source'[d].handle = h
    BY <2>1 DEF Listed, TypeOK
  <2> QED
    BY <2>3, <2>4 DEF OwnHandles, Listed
<1> QED
  BY <1>2, <1>3, <1>4, <1>5, <1>6, <1>7 DEF Next, StoreStep

-----------------------------------------------------------------------------
(* The spinner.                                                            *)

LEMMA LitStep ==
  ASSUME TypeOK, StreamsOK, [Next]_vars, OwnHandles, LitOwned,
         NEW c \in Caches, CacheOK(c), mem'[c].lit, source'[c].place = "listed"
  PROVE  mem'[c].lost \/ \E r \in Readers : Owns(r, c)'
<1>0. mem[c] \in MemType /\ \A r \in Readers : reader[r] \in StreamType
  BY DEF TypeOK
<1>1. ASSUME source'[c] = source[c], mem[c].lit, mem[c].lost => mem'[c].lost,
             \A r \in Readers : Owns(r, c) => Owns(r, c)' \/ mem'[c].lost
      PROVE  mem'[c].lost \/ \E r \in Readers : Owns(r, c)'
  BY <1>1 DEF LitOwned
<1>2. ASSUME source'[c] = source[c], mem'[c].lit = mem[c].lit, mem'[c].lost = mem[c].lost,
             UNCHANGED reader
      PROVE  mem'[c].lost \/ \E r \in Readers : Owns(r, c)'
  BY <1>1, <1>2 DEF Owns
<1>3. CASE FetchLands
  <2>1. PICK d \in Caches, i \in Samples :
          /\ mem[d].reads[i] > 0
          /\ LET m == ReadEnded(mem[d], i) IN
               IF i \in Held(m)
               THEN mem' = [mem EXCEPT ![d] = Touched(m, i)]
               ELSE mem' = [mem EXCEPT ![d] = Inserted(d, m, i)]
          /\ reader' = [r \in Readers |-> IF r \in Waiting(d, i) THEN Took(reader[r])
                                          ELSE reader[r]]
    BY <1>3 DEF FetchLands
  <2>2. source' = source
    BY <1>3 DEF FetchLands
  <2>3. mem'[c].lit = mem[c].lit /\ mem'[c].lost = mem[c].lost
    <3>1. CASE d # c
      BY <2>1, <3>1 DEF TypeOK
    <3>2. CASE d = c
      <4> DEFINE m == ReadEnded(mem[c], i)
                 w == Inserted(c, m, i)
      <4>1. m \in MemType /\ m.lit = mem[c].lit /\ m.lost = mem[c].lost
        BY <1>0, <2>1, <3>2, ReadEndedIs
      <4>2. mem'[c] = Touched(m, i) \/ mem'[c] = w
        BY <2>1, <3>2 DEF TypeOK
      <4> HIDE DEF m, w
      <4>3. PICK q : Touched(m, i) = [m EXCEPT !.lru = q]
        BY DEF Touched
      <4>4. Inserts(c, m, i, w)
        BY <4>1, InsertedIs DEF w
      <4>5. PICK p, S : w = [m EXCEPT !.lru = p, !.active = S, !.notify = TRUE]
        BY <4>4 DEF Inserts
      <4> QED
        BY <4>1, <4>2, <4>3, <4>5 DEF MemType
    <3> QED
      BY <3>1, <3>2
  <2>4. ASSUME NEW r \in Readers, Owns(r, c)
        PROVE  Owns(r, c)'
    <3>1. CASE r \in Waiting(d, i)
      <4> DEFINE s == reader[r]
      <4>1. s \in StreamType /\ s.at \in Samples /\ reader'[r] = Took(s)
        BY <1>0, <2>1, <3>1 DEF Waiting
      <4>2. /\ Took(s).phase \in {"ready", "sample", "clear"}
            /\ Took(s).handle = s.handle /\ Took(s).closed = s.closed /\ Took(s).on = 0
        <5> HIDE DEF s
        <5> QED
          BY <4>1, TookIs
      <4> QED
        BY <2>2, <2>4, <4>1, <4>2 DEF Owns
    <3>2. CASE r \notin Waiting(d, i)
      BY <2>1, <2>2, <2>4, <3>2 DEF Owns
    <3> QED
      BY <3>1, <3>2
  <2> QED
    BY <1>1, <2>2, <2>3, <2>4
<1>4. CASE FetchFails
  <2>1. PICK d \in Caches, i \in Samples :
          /\ mem[d].reads[i] > 0
          /\ LET m == ReadEnded(mem[d], i)
                 opens == {r \in Waiting(d, i) : reader[r].phase = "opening"}
             IN mem' = [mem EXCEPT ![d] = IF opens = {} THEN m ELSE [m EXCEPT !.lost = TRUE]]
          /\ reader' = [r \in Readers |-> IF r \in Waiting(d, i) THEN Failed(reader[r])
                                          ELSE reader[r]]
    BY <1>4 DEF FetchFails
  <2>2. source' = source
    BY <1>4 DEF FetchFails
  <2> DEFINE m == ReadEnded(mem[d], i)
             opens == {r \in Waiting(d, i) : reader[r].phase = "opening"}
  <2>3. /\ m \in MemType /\ m.lit = mem[d].lit /\ m.lost = mem[d].lost
    BY <2>1, ReadEndedIs DEF TypeOK
  <2>4. mem'[d] = IF opens = {} THEN m ELSE [m EXCEPT !.lost = TRUE]
    BY <2>1 DEF TypeOK
  <2>5. mem'[c].lit = mem[c].lit /\ (mem[c].lost => mem'[c].lost)
    <3>1. CASE d # c
      BY <2>1, <3>1 DEF TypeOK
    <3>2. CASE d = c
      <4> HIDE DEF m, opens
      <4> QED
        BY <2>3, <2>4, <3>2 DEF MemType
    <3> QED
      BY <3>1, <3>2
  <2>6. ASSUME NEW r \in Readers, Owns(r, c)
        PROVE  Owns(r, c)' \/ mem'[c].lost
    <3>1. CASE r \in Waiting(d, i)
      <4> DEFINE s == reader[r]
      <4>1. d = c
        BY <2>6, <3>1, ConstantsAre DEF Owns, Waiting
      <4>2. CASE s.phase = "opening"
        <5>1. opens # {}
          BY <3>1, <4>2
        <5> HIDE DEF m, opens
        <5> QED
          BY <2>3, <2>4, <4>1, <5>1 DEF MemType
      <4>3. CASE s.phase # "opening"
        <5>1. s \in StreamType /\ reader'[r] = Failed(s) /\ ~s.closed /\ s.handle = source[c].handle
          BY <1>0, <2>1, <2>6, <3>1 DEF Owns
        <5>2. /\ Failed(s).phase = "ready" /\ Failed(s).handle = s.handle
              /\ ~Failed(s).closed /\ Failed(s).on = 0
          <6> HIDE DEF s
          <6> QED
            BY <4>3, <5>1, FailedIs
        <5> QED
          BY <2>2, <5>1, <5>2 DEF Owns
      <4> QED
        BY <4>2, <4>3
    <3>2. CASE r \notin Waiting(d, i)
      BY <2>1, <2>2, <2>6, <3>2 DEF Owns
    <3> QED
      BY <3>1, <3>2
  <2> QED
    BY <1>1, <2>2, <2>5, <2>6
<1>5. CASE Notify
  <2>1. PICK d, S :
          d \in Caches /\ mem' = [mem EXCEPT ![d].notify = FALSE, ![d].told = S]
    BY <1>5 DEF Notify
  <2>2. mem'[c] = mem[c] \/ mem'[c] = [mem[c] EXCEPT !.notify = FALSE, !.told = S]
    BY <2>1 DEF TypeOK
  <2>3. mem'[c].lit = mem[c].lit /\ mem'[c].lost = mem[c].lost
    BY <1>0, <2>2 DEF MemType
  <2> QED
    BY <1>2, <1>5, <2>3 DEF Notify
<1>6. CASE PressureChanges \/ StartClear \/ UNCHANGED vars
  BY <1>2, <1>6 DEF PressureChanges, StartClear, vars
<1>7. CASE OpenSource
  <2>1. PICK d, h : source' = [source EXCEPT ![d] = [place |-> "listed", handle |-> h]]
    BY <1>7 DEF OpenSource
  <2>2. mem' = mem /\ reader' = reader
    BY <1>7 DEF OpenSource
  <2>3. source[c].place # "new"
    BY <2>2 DEF CacheOK, Empty
  <2>4. source'[c] = source[c]
    <3> DEFINE new  == {e \in Caches : source[e].place = "new"}
    <3>1. PICK e, g : /\ e = Min(new) /\ new # {}
                      /\ source' = [source EXCEPT ![e] = [place |-> "listed", handle |-> g]]
      BY <1>7 DEF OpenSource
    <3>2. e \in new
      <4>1. new \in SUBSET Nat
        BY ConstantsAre
      <4> HIDE DEF new
      <4> QED
        BY <3>1, <4>1, MinIs
    <3> QED
      BY <2>3, <3>1, <3>2 DEF TypeOK
  <2> QED
    BY <1>2, <2>2, <2>4
<1>8. CASE RemoveSource
  <2>1. PICK d, e :
          /\ d \in Listed
          /\ source' = [source EXCEPT ![d].place = "gone"] /\ mem' = [mem EXCEPT ![d] = e]
    BY <1>8 DEF RemoveSource
  <2>2. d # c
    BY <2>1 DEF TypeOK
  <2> QED
    BY <1>2, <1>8, <2>1, <2>2 DEF TypeOK, RemoveSource
<1>9. CASE ClearDisposes
  <2>1. PICK d, e : source' = [source EXCEPT ![d].place = "disposed"] /\ mem' = [mem EXCEPT ![d] = e]
    BY <1>9 DEF ClearDisposes, Dispose
  <2>2. d # c
    BY <2>1 DEF TypeOK
  <2> QED
    BY <1>2, <1>9, <2>1, <2>2 DEF TypeOK, ClearDisposes
<1>10. CASE ClearEnds
  <2>1. mem'[c] = [mem[c] EXCEPT !.told = {}, !.lit = FALSE]
    BY <1>10 DEF ClearEnds
  <2> QED
    BY <1>0, <2>1 DEF MemType
<1>11. ASSUME NEW r \in Readers, OpenStream(r) \/ ReaderStep(r)
       PROVE  mem'[c].lost \/ \E q \in Readers : Owns(q, c)'
  <2> DEFINE s == reader[r]
             t == reader'[r]
  <2>1. source'[c] = source[c] /\ mem'[c].lost = mem[c].lost
    BY <1>11, ReaderStepIs DEF Asked
  <2>2. \A q \in Readers : q # r => reader'[q] = reader[q]
    BY <1>11 DEF OpenStream, ReaderStep, MarkPending, AskSample, NextBatch, ClearPending,
                 BatchEnds, CloseStream, Set, TypeOK
  <2>3. ASSUME mem[c].lit, Owns(r, c) => Owns(r, c)'
        PROVE  mem'[c].lost \/ \E q \in Readers : Owns(q, c)'
    BY <1>1, <2>1, <2>2, <2>3 DEF Owns
  <2>4. source[c].place = "listed" /\ c \in Listed
    BY <2>1 DEF Listed
  <2>5. Owns(r, c) => c \in Found(s.handle)
    BY <2>4 DEF Owns, Found
  <2>6. CASE OpenStream(r)
    BY <2>3, <2>6 DEF OpenStream, Owns
  <2>7. ASSUME NEW on \in BOOLEAN, mem' = Light(Found(s.handle), on)
        PROVE  IF c \in Found(s.handle) THEN on ELSE mem'[c] = mem[c]
    <3>1. mem'[c] = IF c \in Found(s.handle) /\ source[c].place = "listed"
                    THEN [mem[c] EXCEPT !.lit = on] ELSE mem[c]
      BY <2>7, LitIs
    <3> QED
      BY <1>0, <2>4, <3>1 DEF MemType
  <2>8. CASE MarkPending(r)
    <3>1. s.phase = "mark" /\ mem' = Light(Found(s.handle), TRUE) /\ t = [s EXCEPT !.phase = "opening"]
      BY <2>8 DEF MarkPending, Set, TypeOK
    <3>2. CASE mem'[c] = mem[c]
      BY <2>3, <3>1, <3>2 DEF Owns
    <3>3. CASE c \in Found(s.handle)
      <4>1. t.phase = "opening" /\ ~t.closed /\ t.on = 0 /\ t.handle = s.handle
        BY <1>0, <3>1 DEF StreamsOK, StreamType
      <4> QED
        BY <2>1, <3>3, <4>1 DEF Owns, Found
    <3> QED
      BY <2>7, <3>1, <3>2, <3>3
  <2>9. CASE ClearPending(r)
    <3>1. mem' = Light(Found(s.handle), FALSE) /\ t = [s EXCEPT !.phase = "sample"]
      BY <2>9 DEF ClearPending, Set, TypeOK
    <3>2. mem'[c] = mem[c]
      BY <2>7, <3>1
    <3>3. Owns(r, c) => Owns(r, c)'
      BY <1>0, <2>1, <3>1 DEF Owns, StreamType
    <3> QED
      BY <2>3, <3>2, <3>3
  <2>10. CASE CloseStream(r)
    <3>1. mem' = Light(Found(s.handle), FALSE)
      BY <2>10 DEF CloseStream
    <3>2. c \notin Found(s.handle) /\ mem'[c] = mem[c]
      BY <2>7, <3>1
    <3> QED
      BY <2>3, <2>5, <3>2
  <2>11. CASE BatchEnds(r)
    <3>1. mem' = mem /\ t = IF s.closed THEN NoStream ELSE [s EXCEPT !.phase = "ready"]
      BY <2>11 DEF BatchEnds, Set, TypeOK
    <3>2. Owns(r, c) => Owns(r, c)'
      BY <1>0, <2>1, <3>1 DEF Owns, StreamType
    <3> QED
      BY <2>3, <3>1, <3>2
  <2>12. CASE NextBatch(r)
    <3>1. /\ mem'[c].lit = mem[c].lit
          /\ reader' = [reader EXCEPT ![r] = [s EXCEPT !.phase = "sample", !.began = s.at,
                                                       !.end = s.at + Take(s)]]
      BY <2>12, BatchIs
    <3>2. t.phase = "sample" /\ t.closed = s.closed /\ t.handle = s.handle /\ t.on = s.on
      BY <1>0, <3>1 DEF StreamType, TypeOK
    <3>3. Owns(r, c) => Owns(r, c)'
      BY <2>1, <3>2 DEF Owns
    <3> QED
      BY <2>3, <3>1, <3>3
  <2>13. CASE AskSample(r)
    <3> DEFINE found == Found(s.handle)
               d == Max(found)
    <3>1. \/ t = Took(s) /\ UNCHANGED mem
          \/ found = {} /\ UNCHANGED mem
          \/ /\ found # {} /\ t = Took(s) /\ s.at \in Held(mem[d])
             /\ mem' = [mem EXCEPT ![d] = Touched(@, s.at)]
          \/ /\ found # {} /\ t = [s EXCEPT !.on = d]
             /\ mem' = [mem EXCEPT ![d] = Fetching(@, {s.at})]
      BY <2>13 DEF AskSample, Set, TypeOK
    <3>2. found # {} => d \in found /\ d \in Caches /\ mem[d] \in MemType
      BY FoundIs DEF TypeOK
    <3>3. s \in StreamType /\ s.at \in Samples
      BY <1>0, <2>13, AskedAt
    <3>4. mem'[c].lit = mem[c].lit
      <4> HIDE DEF d, s, t, found
      <4>1. CASE UNCHANGED mem
        BY <4>1
      <4>2. CASE found # {} /\ s.at \in Held(mem[d]) /\ mem' = [mem EXCEPT ![d] = Touched(@, s.at)]
        <5>1. Touched(mem[d], s.at).lit = mem[d].lit
          BY <3>2, <4>2, AskedIs
        <5> QED
          BY <4>2, <5>1 DEF TypeOK
      <4>3. CASE found # {} /\ mem' = [mem EXCEPT ![d] = Fetching(@, {s.at})]
        <5>1. {s.at} \in SUBSET Samples
          BY <3>3
        <5>2. Fetching(mem[d], {s.at}).lit = mem[d].lit
          BY <3>2, <4>3, <5>1, AskedIs
        <5> QED
          BY <4>3, <5>2 DEF TypeOK
      <4> QED
        BY <3>1, <4>1, <4>2, <4>3
    <3>5. CASE t = Took(s)
      <4>1. /\ Took(s).phase \in {"ready", "sample", "clear"}
            /\ Took(s).handle = s.handle /\ Took(s).closed = s.closed /\ Took(s).on = 0
        <5> HIDE DEF s
        <5> QED
          BY <3>3, TookIs
      <4>2. Owns(r, c) => Owns(r, c)'
        BY <2>1, <3>5, <4>1 DEF Owns
      <4> QED
        BY <2>3, <3>4, <4>2
    <3>6. CASE found = {}
      BY <2>3, <2>5, <3>4, <3>6
    <3>7. CASE found # {} /\ t = [s EXCEPT !.on = d]
      <4>1. Owns(r, c) => d = c
        <5>1. ASSUME Owns(r, c)
              PROVE  d = c
          <6>1. c \in found /\ d \in found
            BY <2>5, <3>2, <3>7, <5>1
          <6> HIDE DEF d
          <6> QED
            BY <6>1 DEF OwnHandles, Found
        <5> QED
          BY <5>1
      <4>2. t.phase = s.phase /\ t.closed = s.closed /\ t.handle = s.handle /\ t.on = d
        <5> HIDE DEF d
        <5> QED
          BY <3>3, <3>7 DEF StreamType
      <4>3. Owns(r, c) => Owns(r, c)'
        BY <2>1, <4>1, <4>2 DEF Owns
      <4> QED
        BY <2>3, <3>4, <4>3
    <3> QED
      BY <3>1, <3>5, <3>6, <3>7
  <2> QED
    BY <1>11, <2>6, <2>8, <2>9, <2>10, <2>11, <2>12, <2>13 DEF ReaderStep
<1> QED
  BY <1>3, <1>4, <1>5, <1>6, <1>7, <1>8, <1>9, <1>10, <1>11 DEF Next, StoreStep

-----------------------------------------------------------------------------
(* What a step does to the samples a cache holds: nothing, or the cache is *)
(* disposed, or it takes in one sample and evicts.                         *)

TakesIn(c) ==
  \E m \in MemType, i \in Samples :
    /\ Held(m) = Held(mem[c]) /\ m.active = mem[c].active
    /\ Inserts(c, m, i, mem'[c])
    /\ total' = total + Bytes(mem'[c]) - Known[c]

LEMMA HeldStep ==
  ASSUME TypeOK, StreamsOK, [Next]_vars, NEW c \in Caches
  PROVE  \/ Held(mem'[c]) = Held(mem[c])
         \/ Held(mem'[c]) = {} /\ source'[c].place # source[c].place
         \/ TakesIn(c)
<1>0. mem[c] \in MemType
  BY DEF TypeOK
<1>1. CASE FetchLands
  <2>1. PICK d \in Caches, i \in Samples :
          /\ mem[d].reads[i] > 0
          /\ LET m == ReadEnded(mem[d], i) IN
               IF i \in Held(m)
               THEN mem' = [mem EXCEPT ![d] = Touched(m, i)]
               ELSE LET kept == Inserted(d, m, i)
                    IN mem' = [mem EXCEPT ![d] = kept] /\ Report(d, Bytes(kept))
    BY <1>1 DEF FetchLands
  <2>2. CASE d # c
    BY <2>1, <2>2 DEF TypeOK
  <2>3. CASE d = c
    <3> DEFINE m == ReadEnded(mem[c], i)
    <3>1. m \in MemType /\ Held(m) = Held(mem[c]) /\ m.active = mem[c].active
      BY <1>0, <2>1, <2>3, ReadEndedIs
    <3>2. CASE i \in Held(m)
      <4>1. mem'[c] = Touched(m, i)
        BY <2>1, <2>3, <3>2 DEF TypeOK
      <4> HIDE DEF m
      <4> QED
        BY <3>1, <3>2, <4>1, TouchedIs
    <3>3. CASE i \notin Held(m)
      <4>1. mem'[c] = Inserted(c, m, i) /\ Report(c, Bytes(Inserted(c, m, i)))
        BY <2>1, <2>3, <3>3 DEF TypeOK
      <4> HIDE DEF m
      <4>2. Inserts(c, m, i, mem'[c])
        BY <3>1, <4>1, InsertedIs
      <4> QED
        BY <3>1, <4>1, <4>2 DEF Report, TakesIn
    <3> QED
      BY <3>2, <3>3
  <2> QED
    BY <2>2, <2>3
<1>2. CASE FetchFails
  <2>1. PICK d \in Caches, i \in Samples :
          /\ mem[d].reads[i] > 0
          /\ \/ mem' = [mem EXCEPT ![d] = ReadEnded(mem[d], i)]
             \/ mem' = [mem EXCEPT ![d] = [ReadEnded(mem[d], i) EXCEPT !.lost = TRUE]]
    BY <1>2 DEF FetchFails
  <2>2. CASE d # c
    BY <2>1, <2>2 DEF TypeOK
  <2>3. CASE d = c
    <3> DEFINE m == ReadEnded(mem[c], i)
    <3>1. m \in MemType /\ Held(m) = Held(mem[c])
      BY <1>0, <2>1, <2>3, ReadEndedIs
    <3>2. mem'[c] = m \/ mem'[c] = [m EXCEPT !.lost = TRUE]
      BY <2>1, <2>3 DEF TypeOK
    <3> HIDE DEF m
    <3> QED
      BY <3>1, <3>2 DEF Held, MemType
  <2> QED
    BY <2>2, <2>3
<1>3. CASE Notify
  <2>1. PICK d, S : d \in Caches /\ mem' = [mem EXCEPT ![d].notify = FALSE, ![d].told = S]
    BY <1>3 DEF Notify
  <2>2. mem'[c] = mem[c] \/ mem'[c] = [mem[c] EXCEPT !.notify = FALSE, !.told = S]
    BY <2>1 DEF TypeOK
  <2> QED
    BY <1>0, <2>2 DEF Held, MemType
<1>4. CASE PressureChanges \/ StartClear \/ OpenSource \/ UNCHANGED vars
  BY <1>4 DEF PressureChanges, StartClear, OpenSource, vars
<1>5. CASE ClearEnds
  <2>1. mem'[c] = [mem[c] EXCEPT !.told = {}, !.lit = FALSE]
    BY <1>5 DEF ClearEnds
  <2> QED
    BY <1>0, <2>1 DEF Held, MemType
<1>6. CASE RemoveSource
  <2>1. PICK d \in Listed :
          /\ source' = [source EXCEPT ![d].place = "gone"]
          /\ mem' = [mem EXCEPT ![d] = [Empty EXCEPT !.reads = mem[d].reads,
                                                     !.notify = mem[d].notify]]
    BY <1>6 DEF RemoveSource
  <2>2. mem'[c] = mem[c] \/ d = c
    BY <2>1 DEF TypeOK
  <2>3. CASE d = c
    <3>1. source'[c].place # source[c].place
      BY <2>1, <2>3 DEF Listed, TypeOK
    <3>2. mem'[c].lru = Empty.lru
      BY <1>0, <2>1, <2>3 DEF TypeOK, Empty
    <3> QED
      BY <3>1, <3>2, EmptyIs DEF Held
  <2> QED
    BY <2>2, <2>3
<1>7. CASE ClearDisposes
  <2> DEFINE open == {d \in Caches : source[d].place = "listed"}
  <2>1. PICK d : /\ d = Min(open) /\ open # {}
                 /\ source' = [source EXCEPT ![d].place = "disposed"] /\ Dispose(d)
    BY <1>7 DEF ClearDisposes
  <2>2. d \in open
    <3>1. open \in SUBSET Nat
      BY ConstantsAre
    <3> HIDE DEF open
    <3> QED
      BY <2>1, <3>1, MinIs
  <2>3. CASE d = c
    <3>1. source'[c].place # source[c].place
      BY <2>1, <2>2, <2>3 DEF TypeOK
    <3>2. mem'[c].lru = Empty.lru
      BY <1>0, <2>1, <2>3 DEF TypeOK, Empty, Dispose
    <3> QED
      BY <3>1, <3>2, EmptyIs DEF Held
  <2>4. CASE d # c
    BY <2>1, <2>4 DEF Dispose, TypeOK
  <2> QED
    BY <2>3, <2>4
<1>8. ASSUME NEW r \in Readers, OpenStream(r) \/ ReaderStep(r)
      PROVE  Held(mem'[c]) = Held(mem[c])
  BY <1>8, ReaderStepIs DEF Asked
<1> QED
  BY <1>1, <1>2, <1>3, <1>4, <1>5, <1>6, <1>7, <1>8 DEF Next, StoreStep

-----------------------------------------------------------------------------
(* The theorems.                                                           *)

LEMMA InitOK == Init => IInv
<1> SUFFICES ASSUME Init
             PROVE  IInv
  OBVIOUS
<1>1. TypeOK
  <2>1. source \in [Caches -> [place : {"new", "listed", "disposed", "gone"}, handle : Nat]]
    BY DEF Init
  <2>2. mem \in [Caches -> MemType] /\ reported \in [Caches -> Nat \cup {-1}] /\ total \in Int
    BY EmptyIs DEF Init
  <2>3. reader \in [Readers -> StreamType] /\ indexes \in [Readers -> Seq(EntryType)]
    BY NoStreamIs DEF Init
  <2> QED
    BY <2>1, <2>2, <2>3 DEF Init, TypeOK
<1>2. StreamsOK
  <2>1. \A r \in Readers : reader[r] = NoStream
    BY DEF Init
  <2> QED
    BY <2>1, NoStreamIs DEF StreamsOK
<1>3. OwnHandles /\ LitOwned
  BY DEF Init, OwnHandles, LitOwned, Listed
<1>4. ASSUME NEW c \in Caches
      PROVE  CacheOK(c)
  <2>1. /\ source[c].place = "new" /\ mem[c] = Empty /\ reported[c] = -1
    BY DEF Init
  <2> QED
    BY <2>1, EmptyIs, CeilingIs DEF CacheOK, Known
<1>5. TotalOK
  <2>1. \A c \in Caches : Known[c] = 0
    BY DEF Init, Known
  <2> DEFINE f == Known
  <2>2. f \in [Caches -> Int] /\ IsFiniteSet(Caches) /\ \A c \in Caches : f[c] = 0
    BY <1>1, <2>1, KnownIs
  <2>3. total = 0
    BY DEF Init
  <2>4. TotalOK <=> total = SumFunctionOnSet(f, Caches)
    BY DEF TotalOK
  <2> HIDE DEF f
  <2> QED
    BY <2>2, <2>3, <2>4, SumZero
<1> QED
  BY <1>1, <1>2, <1>3, <1>4, <1>5 DEF IInv

LEMMA StepOK == IInv /\ [Next]_vars => IInv'
<1> SUFFICES ASSUME IInv, [Next]_vars
             PROVE  IInv'
  OBVIOUS
<1>1. /\ TypeOK /\ StreamsOK /\ OwnHandles /\ LitOwned /\ TotalOK
      /\ \A c \in Caches : CacheOK(c)
  BY DEF IInv
<1>2. TypeOK' /\ StreamsOK'
  BY <1>1, TypeStep
<1>3. OwnHandles' /\ TotalOK'
  BY <1>1, HandlesStep, TotalStep
<1>4. \A c \in Caches : CacheOK(c)'
  BY <1>1, CacheStep
<1>5. ASSUME NEW c \in Caches, mem'[c].lit, source'[c].place = "listed"
      PROVE  mem'[c].lost \/ \E r \in Readers : Owns(r, c)'
  BY <1>1, <1>5, LitStep
<1>6. LitOwned'
  BY <1>5 DEF LitOwned
<1> QED
  BY <1>2, <1>3, <1>4, <1>6 DEF IInv

(* What holds of every reachable state of the caches, the store and the    *)
(* readers: the conjuncts of IInv, which the theorems below rest on.       *)
THEOREM CachesInductive == Spec => []IInv
  BY InitOK, StepOK, PTL DEF Spec

(* The variables keep to their types: what is held, pinned, read and told  *)
(* are samples of the file, and the cursors stay within it.                *)
THEOREM CachesTypeOK == Spec => []TypeOK
<1>1. IInv => TypeOK
  BY DEF IInv
<1> QED
  BY <1>1, CachesInductive, PTL

(* memoryBudget.ts: for any number of caches, in whatever order reads land *)
(* and sources are opened, removed and cleared, each cache is counted with *)
(* the bytes it holds and the total is their sum.                          *)
THEOREM AccountIsExact == Spec => []AccountExact
<1>1. IInv => AccountExact
  BY DEF IInv, AccountExact, TotalOK, CacheOK
<1> QED
  BY <1>1, CachesInductive, PTL

(* evictIfNeeded: a cache never holds more than activeHardCeiling, however *)
(* large the window a stream pins.                                         *)
THEOREM CacheIsBounded == Spec => []Bounded
<1>1. IInv => Bounded
  BY DEF IInv, Bounded, CacheOK
<1> QED
  BY <1>1, CachesInductive, PTL

(* getSample, prefetchRange: no sample of a listed source is read from the *)
(* file twice at a time.                                                   *)
THEOREM SamplesReadOnce == Spec => []ReadOnce
<1>1. IInv => ReadOnce
  BY DEF IInv, ReadOnce, CacheOK
<1> QED
  BY <1>1, CachesInductive, PTL

(* scheduleRangesNotify: what the timeline shows as buffered is what the   *)
(* cache holds, unless a notification is on its way.                       *)
THEOREM TimelineIsTold == Spec => []RangesTold
<1>1. ASSUME TypeOK, \A c \in Caches : CacheOK(c)
      PROVE  RangesTold
  BY <1>1 DEF RangesTold, CacheOK
<1>2. IInv => RangesTold
  BY <1>1 DEF IInv
<1> QED
  BY <1>2, CachesInductive, PTL

(* markPendingFetch, clearPendingFetch: a spinner that is lit has a stream *)
(* that will put it out, unless the read its open waited for has failed.   *)
THEOREM SpinnerHasOwner == Spec => []SpinnerOwned
<1>1. IInv => SpinnerOwned
  BY DEF IInv, LitOwned, Owns, SpinnerOwned
<1> QED
  BY <1>1, CachesInductive, PTL

(* fetchSample with shouldEvictAll: a cache that takes in a sample leaves  *)
(* the caches within the ceiling they share, or keeps only what is pinned. *)
THEOREM CeilingIsShared == Spec => SharesCeiling
<1>1. ASSUME IInv, [Next]_vars, NEW c \in Caches, ~(Held(mem'[c]) \subseteq Held(mem[c]))
      PROVE  total' <= Ceiling \/ Held(mem'[c]) \subseteq mem'[c].active
  <2>1. TakesIn(c)
    BY <1>1, HeldStep DEF IInv
  <2> QED
    BY <2>1 DEF TakesIn, Inserts
<1>2. IInv /\ [Next]_vars =>
        [\A c \in Caches :
           ~(Held(mem[c])' \subseteq Held(mem[c])) =>
             total' <= Ceiling \/ Held(mem[c])' \subseteq mem[c].active']_vars
  BY <1>1 DEF Held
<1> QED
  BY <1>2, CachesInductive, PTL DEF Spec, SharesCeiling

(* evictIfNeeded's two passes: a pinned sample of a source that stays open *)
(* is given up only when nothing unpinned is left and one sample more      *)
(* would break the hard ceiling.                                           *)
THEOREM PinnedGoLast == Spec => PinnedLast
<1>1. ASSUME IInv, [Next]_vars, NEW c \in Caches,
             (Held(mem[c]) \cap mem[c].active) \ Held(mem'[c]) # {}
      PROVE  \/ source'[c].place # source[c].place
             \/ /\ Held(mem'[c]) \subseteq mem'[c].active
                /\ \E i \in Samples \ Held(mem'[c]) : Bytes(mem'[c]) + Size[i] > HardCeiling
  <2>1. source'[c].place # source[c].place \/ TakesIn(c)
    BY <1>1, HeldStep DEF IInv
  <2>2. CASE TakesIn(c)
    <3>1. PICK m \in MemType, i \in Samples :
            /\ Held(m) = Held(mem[c]) /\ m.active = mem[c].active
            /\ Inserts(c, m, i, mem'[c])
      BY <2>2 DEF TakesIn
    <3> QED
      BY <1>1, <3>1 DEF Inserts
  <2> QED
    BY <2>1, <2>2
<1>2. IInv /\ [Next]_vars =>
        [\A c \in Caches :
           (Held(mem[c]) \cap mem[c].active) \ Held(mem[c])' # {} =>
             \/ source[c].place' # source[c].place
             \/ /\ Held(mem[c])' \subseteq mem[c].active'
                /\ \E i \in Samples \ Held(mem[c])' : Bytes(mem[c])' + Size[i] > HardCeiling]_vars
  BY <1>1 DEF Held, Bytes
<1> QED
  BY <1>2, CachesInductive, PTL DEF Spec, PinnedLast
===============================================================================
