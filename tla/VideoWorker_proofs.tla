------------------------- MODULE VideoWorker_proofs --------------------------
(***************************************************************************)
(* Proofs about the video worker, for every stream, every plan of calls    *)
(* and failures, and every bound.                                          *)
(*                                                                         *)
(* An action applies a handler to the record of the worker's variables, so *)
(* the parts of the invariant are predicates of that record, and the       *)
(* lemmas say what each handler makes of them.                             *)
(***************************************************************************)
EXTENDS VideoWorker, FiniteFolds

-----------------------------------------------------------------------------
(* Sequences of samples: each later than the one before it and than lo,    *)
(* and if gapless each the next.                                           *)
Chain(s, lo, gapless) ==
  /\ \A k \in 1..Len(s) : s[k] > lo /\ (gapless => s[k] = lo + k)
  /\ \A j, k \in 1..Len(s) : j < k => s[j] < s[k]

(* The last of them, or lo.                                                *)
Tip(s, lo) == IF s = <<>> THEN lo ELSE s[Len(s)]

LEMMA SampleOf ==
  ASSUME NEW s \in Seq(Samples), NEW k \in 1..Len(s)
  PROVE  s[k] \in Samples /\ s[k] \in Nat
<1>1. s[k] \in Samples
  OBVIOUS
<1> QED
  BY <1>1, CountAssumption DEF Samples

LEMMA EmptyChain ==
  ASSUME NEW lo, NEW gapless
  PROVE  Chain(<<>>, lo, gapless) /\ Tip(<<>>, lo) = lo
BY DEF Chain, Tip

LEMMA TipIs ==
  ASSUME NEW s \in Seq(Samples), NEW lo \in Nat, NEW gapless \in BOOLEAN, Chain(s, lo, gapless)
  PROVE  /\ Tip(s, lo) \in Nat /\ Tip(s, lo) >= lo
         /\ s # <<>> => Tip(s, lo) \in Samples /\ Tip(s, lo) > lo
         /\ gapless => Tip(s, lo) = lo + Len(s)
         /\ \A k \in 1..Len(s) : s[k] <= Tip(s, lo)
<1>1. CASE s = <<>>
  BY <1>1 DEF Tip
<1>2. CASE s # <<>>
  <2>1. Len(s) \in 1..Len(s) /\ \A k \in 1..Len(s) : s[k] \in Samples
    BY <1>2
  <2>2. Tip(s, lo) = s[Len(s)] /\ s[Len(s)] \in Samples
    BY <1>2, <2>1 DEF Tip
  <2>3. \A k \in 1..Len(s) : s[k] <= s[Len(s)]
    <3> TAKE k \in 1..Len(s)
    <3>1. k = Len(s) \/ k < Len(s)
      OBVIOUS
    <3> QED
      BY <2>1, <3>1, CountAssumption DEF Chain, Samples
  <2> QED
    BY <1>2, <2>1, <2>2, <2>3, CountAssumption DEF Chain, Samples
<1> QED
  BY <1>1, <1>2

LEMMA ChainConcat ==
  ASSUME NEW s \in Seq(Samples), NEW t \in Seq(Samples), NEW lo \in Nat, NEW gapless \in BOOLEAN,
         Chain(s, lo, gapless), Chain(t, Tip(s, lo), gapless)
  PROVE  /\ Chain(s \o t, lo, gapless)
         /\ Tip(s \o t, lo) = Tip(t, Tip(s, lo))
<1> DEFINE r == s \o t
<1>1. /\ r \in Seq(Samples) /\ Len(r) = Len(s) + Len(t)
      /\ \A k \in 1..Len(s) : r[k] = s[k]
      /\ \A k \in Len(s)+1 .. Len(s)+Len(t) : r[k] = t[k - Len(s)]
  OBVIOUS
<1>2. /\ Tip(s, lo) \in Nat /\ Tip(s, lo) >= lo
      /\ gapless => Tip(s, lo) = lo + Len(s)
      /\ \A k \in 1..Len(s) : s[k] <= Tip(s, lo)
  BY TipIs
<1>3. /\ \A k \in 1..Len(s) : s[k] \in Nat
      /\ \A k \in 1..Len(t) : t[k] \in Nat
  BY SampleOf
<1> HIDE DEF r
<1>4. ASSUME NEW k \in 1..Len(r)
      PROVE  r[k] > lo /\ (gapless => r[k] = lo + k)
  <2>1. CASE k <= Len(s)
    <3>1. k \in 1..Len(s) /\ r[k] = s[k]
      BY <1>1, <2>1
    <3> QED
      BY <3>1 DEF Chain
  <2>2. CASE k > Len(s)
    <3>1. k - Len(s) \in 1..Len(t) /\ r[k] = t[k - Len(s)]
      BY <1>1, <2>2
    <3>2. t[k - Len(s)] > Tip(s, lo) /\ (gapless => t[k - Len(s)] = Tip(s, lo) + (k - Len(s)))
      BY <3>1 DEF Chain
    <3> QED
      BY <1>2, <1>3, <3>1, <3>2
  <2> QED
    BY <2>1, <2>2
<1>5. ASSUME NEW j \in 1..Len(r), NEW k \in 1..Len(r), j < k
      PROVE  r[j] < r[k]
  <2>1. CASE k <= Len(s)
    <3>1. j \in 1..Len(s) /\ k \in 1..Len(s) /\ r[j] = s[j] /\ r[k] = s[k]
      BY <1>1, <1>5, <2>1
    <3> QED
      BY <1>5, <3>1 DEF Chain
  <2>2. CASE j > Len(s)
    <3>1. j \in Len(s)+1 .. Len(s)+Len(t) /\ k \in Len(s)+1 .. Len(s)+Len(t)
      BY <1>1, <1>5, <2>2
    <3>2. j - Len(s) \in 1..Len(t) /\ k - Len(s) \in 1..Len(t) /\ j - Len(s) < k - Len(s)
      BY <1>5, <3>1
    <3>3. r[j] = t[j - Len(s)] /\ r[k] = t[k - Len(s)]
      BY <1>1, <3>1
    <3> QED
      BY <3>2, <3>3 DEF Chain
  <2>3. CASE j <= Len(s) /\ k > Len(s)
    <3>1. j \in 1..Len(s) /\ r[j] = s[j] /\ k - Len(s) \in 1..Len(t) /\ r[k] = t[k - Len(s)]
      <4>1. j \in 1..Len(s) /\ k \in Len(s)+1 .. Len(s)+Len(t) /\ k - Len(s) \in 1..Len(t)
        BY <1>1, <2>3
      <4> QED
        BY <1>1, <4>1
    <3>2. s[j] <= Tip(s, lo)
      BY <1>2, <3>1
    <3>3. t[k - Len(s)] > Tip(s, lo)
      BY <3>1 DEF Chain
    <3>4. s[j] \in Nat /\ t[k - Len(s)] \in Nat
      BY <1>3, <3>1
    <3> QED
      BY <1>2, <3>1, <3>2, <3>3, <3>4
  <2> QED
    BY <2>1, <2>2, <2>3
<1>6. Chain(r, lo, gapless)
  BY <1>4, <1>5 DEF Chain
<1>7. Tip(r, lo) = Tip(t, Tip(s, lo))
  <2>1. CASE t = <<>>
    <3>1. r = s
      BY <2>1 DEF r
    <3> QED
      BY <2>1, <3>1 DEF Tip
  <2>2. CASE t # <<>>
    <3>1. Len(t) \in Nat \ {0} /\ r # <<>>
      BY <1>1, <2>2
    <3>2. r[Len(r)] = t[Len(t)]
      BY <1>1, <3>1
    <3> QED
      BY <2>2, <3>1, <3>2 DEF Tip
  <2> QED
    BY <2>1, <2>2
<1> QED
  BY <1>6, <1>7 DEF r

(* A chain may be cut: its first n elements and the rest.                  *)
LEMMA ChainCut ==
  ASSUME NEW s \in Seq(Samples), NEW lo \in Nat, NEW gapless \in BOOLEAN,
         Chain(s, lo, gapless), NEW n \in 0..Len(s)
  PROVE  LET head == SubSeq(s, 1, n)
             rest == SubSeq(s, n + 1, Len(s))
         IN  /\ head \in Seq(Samples) /\ rest \in Seq(Samples)
             /\ Chain(head, lo, gapless)
             /\ Chain(rest, Tip(head, lo), gapless)
             /\ Tip(rest, Tip(head, lo)) = Tip(s, lo)
<1> DEFINE head == SubSeq(s, 1, n)
           rest == SubSeq(s, n + 1, Len(s))
<1>1. /\ head \in Seq(Samples) /\ Len(head) = n
      /\ \A k \in 1..n : head[k] = s[k]
      /\ rest \in Seq(Samples) /\ Len(rest) = Len(s) - n
      /\ \A k \in 1..(Len(s) - n) : rest[k] = s[n + k]
  <2>1. \A k \in 1..Len(s) : s[k] \in Samples
    OBVIOUS
  <2> QED
    BY <2>1
<1>2. \A k \in 1..Len(s) : s[k] \in Nat
  BY SampleOf
<1> HIDE DEF head, rest
<1>3. Chain(head, lo, gapless)
  <2>1. \A k \in 1..n : k \in 1..Len(s)
    OBVIOUS
  <2> QED
    BY <1>1, <2>1 DEF Chain
<1>4. /\ Tip(head, lo) \in Nat
      /\ gapless => Tip(head, lo) = lo + n
  BY <1>1, <1>3, TipIs
<1>5. n > 0 => Tip(head, lo) = s[n]
  BY <1>1 DEF Tip
<1>6. n = 0 => Tip(head, lo) = lo
  BY <1>1 DEF Tip
<1>7. Chain(rest, Tip(head, lo), gapless)
  <2>1. ASSUME NEW k \in 1..Len(rest)
        PROVE  rest[k] > Tip(head, lo) /\ (gapless => rest[k] = Tip(head, lo) + k)
    <3>1. rest[k] = s[n + k] /\ n + k \in 1..Len(s)
      BY <1>1
    <3>2. s[n + k] > lo /\ (gapless => s[n + k] = lo + (n + k))
      BY <3>1 DEF Chain
    <3>3. n > 0 => s[n] < s[n + k]
      BY <3>1 DEF Chain
    <3> QED
      BY <1>2, <1>4, <1>5, <1>6, <3>1, <3>2, <3>3
  <2>2. ASSUME NEW j \in 1..Len(rest), NEW k \in 1..Len(rest), j < k
        PROVE  rest[j] < rest[k]
    <3>1. rest[j] = s[n + j] /\ rest[k] = s[n + k] /\ n + j \in 1..Len(s) /\ n + k \in 1..Len(s) /\ n + j < n + k
      BY <1>1, <2>2
    <3> QED
      BY <3>1 DEF Chain
  <2> QED
    BY <2>1, <2>2 DEF Chain
<1>8. Tip(rest, Tip(head, lo)) = Tip(s, lo)
  <2>1. CASE n = Len(s)
    <3>1. rest = <<>>
      BY <1>1, <2>1
    <3> QED
      BY <1>5, <1>6, <2>1, <3>1 DEF Tip
  <2>2. CASE n < Len(s)
    <3>1. rest # <<>> /\ s # <<>> /\ rest[Len(rest)] = s[Len(s)]
      BY <1>1, <2>2
    <3> QED
      BY <3>1 DEF Tip
  <2> QED
    BY <2>1, <2>2
<1> QED
  BY <1>1, <1>3, <1>7, <1>8 DEF head, rest

LEMMA ChainAppend ==
  ASSUME NEW s \in Seq(Samples), NEW lo \in Nat, NEW gapless \in BOOLEAN,
         Chain(s, lo, gapless), NEW i \in Samples, i > Tip(s, lo),
         gapless => i = Tip(s, lo) + 1
  PROVE  /\ Append(s, i) \in Seq(Samples)
         /\ Chain(Append(s, i), lo, gapless)
         /\ Tip(Append(s, i), lo) = i
<1> DEFINE t == <<i>>
<1>1. t \in Seq(Samples) /\ Len(t) = 1 /\ t[1] = i /\ t # <<>>
  OBVIOUS
<1>2. Tip(s, lo) \in Nat
  BY TipIs
<1>3. Chain(t, Tip(s, lo), gapless) /\ Tip(t, Tip(s, lo)) = i
  BY <1>1, <1>2 DEF Chain, Tip
<1>4. Append(s, i) = s \o t /\ Append(s, i) \in Seq(Samples)
  OBVIOUS
<1> HIDE DEF t
<1>5. Chain(s \o t, lo, gapless) /\ Tip(s \o t, lo) = Tip(t, Tip(s, lo))
  BY <1>1, <1>3, ChainConcat
<1> QED
  BY <1>3, <1>4, <1>5

(* Consecutive samples.                                                    *)
LEMMA ChainOfRange ==
  ASSUME NEW p \in Nat \ {0}, NEW n \in Nat, p + n <= N + 1,
         NEW lo \in Nat, NEW gapless \in BOOLEAN, p > lo, gapless => p = lo + 1
  PROVE  LET s == [i \in 1..n |-> p + i - 1]
         IN  /\ s \in Seq(Samples) /\ Len(s) = n
             /\ Chain(s, lo, gapless)
             /\ p + n > Tip(s, lo)
             /\ gapless => p + n = Tip(s, lo) + 1
<1> DEFINE s == [i \in 1..n |-> p + i - 1]
<1>1. \A i \in 1..n : p + i - 1 \in Samples
  BY CountAssumption DEF Samples
<1>2. s \in Seq(Samples) /\ Len(s) = n /\ \A i \in 1..n : s[i] = p + i - 1
  BY <1>1
<1> HIDE DEF s
<1>3. Chain(s, lo, gapless)
  BY <1>2 DEF Chain
<1>4. Tip(s, lo) = IF n = 0 THEN lo ELSE p + n - 1
  BY <1>2 DEF Tip
<1> QED
  BY <1>2, <1>3, <1>4 DEF s

(* A chain without gaps is one with them, and lies behind what lies before *)
(* its lower end.                                                          *)
LEMMA ChainWeaken ==
  ASSUME NEW s \in Seq(Samples), NEW lo \in Nat, NEW gapless \in BOOLEAN, Chain(s, lo, gapless),
         NEW lower \in Nat, lower <= lo
  PROVE  Chain(s, lower, FALSE) /\ Tip(s, lower) <= Tip(s, lo)
<1>1. \A k \in 1..Len(s) : s[k] \in Nat
  BY SampleOf
<1> QED
  BY <1>1, TipIs DEF Chain, Tip

-----------------------------------------------------------------------------
(* The reader.  A call of `next` that has not been answered has taken on   *)
(* no more samples than there are, and reads where the reader stands.      *)
CallOK(rd, c) ==
  /\ c.phase # "reply" =>
       /\ Len(c.out) <= c.take
       /\ rd.pos + (c.take - Len(c.out)) <= N + 1
  /\ c.phase = "begin" => c.out = <<>> /\ c.take > 0
  /\ c.phase = "sample" => c.idx = rd.pos /\ Len(c.out) < c.take

(* What a call has read lies behind lo and before the reader.              *)
ReadUpTo(rd, c, lo, gapless) ==
  /\ Chain(c.out, lo, gapless)
  /\ rd.pos > Tip(c.out, lo)
  /\ gapless => rd.pos = Tip(c.out, lo) + 1

Before(rd, lo, gapless) == rd.pos > lo /\ (gapless => rd.pos = lo + 1)

LEMMA MinOfTwo ==
  ASSUME NEW x \in Nat, NEW y \in Nat
  PROVE  Min({x, y}) = IF x <= y THEN x ELSE y
<1>1. {x, y} \in SUBSET Nat /\ {x, y} # {}
  OBVIOUS
<1>2. Min({x, y}) \in {x, y} /\ Min({x, y}) <= x /\ Min({x, y}) <= y
  BY <1>1, MinIs, MinLeast
<1> QED
  BY <1>2

(* `next` takes on what is left of the stream, at most n.                  *)
LEMMA BeginNextOK ==
  ASSUME NEW rd \in ReaderState, NEW n \in Nat \ {0}
  PROVE  LET r == BeginNext(rd, n)
         IN  /\ r.reader \in ReaderState /\ r.reader.first = rd.first
             /\ r.call \in NextCall
             /\ r.call.phase \in {"begin", "reply"}
             /\ kind = "mcap" => r.call.phase = "reply"
             /\ kind # "mcap" => r.reader = rd
             /\ rd.pos <= N + 1 => r.reader.pos <= N + 1
             /\ CallOK(r.reader, r.call)
             /\ \A lo \in Nat, gapless \in BOOLEAN :
                  Before(rd, lo, gapless) => ReadUpTo(r.reader, r.call, lo, gapless)
<1> DEFINE r == BeginNext(rd, n)
           take == Min({n, N + 1 - rd.pos})
<1>1. rd.pos \in Nat \ {0} /\ rd.pos \in 1..(N + 2) /\ rd.first \in BOOLEAN
      /\ rd = [pos |-> rd.pos, first |-> rd.first]
  BY CountAssumption DEF ReaderState
<1>2. CASE rd.pos > N
  <2>1. r.reader = rd /\ r.call = [phase |-> "reply", take |-> 0, idx |-> 0, out |-> <<>>]
    BY <1>2 DEF BeginNext, NoCall
  <2>2. r.call \in NextCall
    BY <2>1, CountAssumption DEF NextCall
  <2> QED
    BY <1>1, <1>2, <2>1, <2>2, EmptyChain DEF CallOK, ReadUpTo, Before
<1>3. CASE rd.pos <= N
  <2>1. take \in Nat \ {0} /\ take <= N /\ rd.pos + take <= N + 1
    <3>1. N + 1 - rd.pos \in Nat
      BY <1>1, <1>3, CountAssumption
    <3>2. take = IF n <= N + 1 - rd.pos THEN n ELSE N + 1 - rd.pos
      BY <3>1, MinOfTwo
    <3> QED
      BY <1>1, <1>3, <3>2, CountAssumption
  <2> HIDE DEF take
  <2>2. CASE kind = "mcap"
    <3> DEFINE s == [i \in 1..take |-> rd.pos + i - 1]
    <3>1. /\ r.reader = [pos |-> rd.pos + take, first |-> rd.first]
          /\ r.call = [phase |-> "reply", take |-> take, idx |-> 0, out |-> s]
      <4>1. ~(rd.pos > N)
        BY <1>1, <1>3, CountAssumption
      <4>2. r = [reader |-> [rd EXCEPT !.pos = @ + take],
                 call   |-> [phase |-> "reply", take |-> take, idx |-> 0, out |-> s]]
        BY <2>2, <4>1 DEF BeginNext, take
      <4>3. [rd EXCEPT !.pos = @ + take] = [pos |-> rd.pos + take, first |-> rd.first]
        BY <1>1
      <4> QED
        BY <4>2, <4>3
    <3>2. r.reader \in ReaderState
      BY <1>1, <2>1, <3>1, CountAssumption DEF ReaderState
    <3>3. s \in Seq(Samples)
      <4>1. rd.pos > 0
        BY <1>1
      <4> QED
        BY <1>1, <2>1, <4>1, ChainOfRange
    <3>4. r.call \in NextCall
      BY <2>1, <3>1, <3>3, CountAssumption DEF NextCall
    <3>5. ASSUME NEW lo \in Nat, NEW gapless \in BOOLEAN, Before(rd, lo, gapless)
          PROVE  ReadUpTo(r.reader, r.call, lo, gapless)
      <4>1. rd.pos > lo /\ (gapless => rd.pos = lo + 1)
        BY <3>5 DEF Before
      <4>2. /\ Chain(s, lo, gapless)
            /\ rd.pos + take > Tip(s, lo)
            /\ gapless => rd.pos + take = Tip(s, lo) + 1
        BY <1>1, <2>1, <4>1, ChainOfRange
      <4> QED
        BY <3>1, <4>2 DEF ReadUpTo
    <3> QED
      BY <1>1, <2>1, <2>2, <3>1, <3>2, <3>4, <3>5 DEF CallOK
  <2>3. CASE kind # "mcap"
    <3>1. /\ r.reader = rd
          /\ r.call = [phase |-> "begin", take |-> take, idx |-> 0, out |-> <<>>]
      <4>1. ~(rd.pos > N)
        BY <1>1, <1>3, CountAssumption
      <4>2. r = [reader |-> rd, call |-> [NoCall EXCEPT !.phase = "begin", !.take = take]]
        BY <2>3, <4>1 DEF BeginNext, take
      <4>3. [NoCall EXCEPT !.phase = "begin", !.take = take]
              = [phase |-> "begin", take |-> take, idx |-> 0, out |-> <<>>]
        <5> DEFINE begun == [phase |-> "begin", take |-> 0, idx |-> 0, out |-> <<>>]
        <5>1. [NoCall EXCEPT !.phase = "begin"] = begun
          BY DEF NoCall
        <5>2. [NoCall EXCEPT !.phase = "begin", !.take = take]
                = [[NoCall EXCEPT !.phase = "begin"] EXCEPT !.take = take]
          OBVIOUS
        <5>3. [NoCall EXCEPT !.phase = "begin", !.take = take] = [begun EXCEPT !.take = take]
          BY <5>1, <5>2
        <5> QED
          BY <5>3
      <4> QED
        BY <4>2, <4>3
    <3>2. r.call \in NextCall
      BY <2>1, <3>1, CountAssumption DEF NextCall
    <3> QED
      BY <1>1, <1>3, <2>1, <2>3, <3>1, <3>2, EmptyChain DEF CallOK, ReadUpTo, Before
  <2> QED
    BY <2>2, <2>3
<1> QED
  BY <1>1, <1>2, <1>3, CountAssumption

(* A sample that arrives is kept, and the reader moves on.                 *)
LEMMA TakeSampleOK ==
  ASSUME NEW rd \in ReaderState, NEW c \in NextCall, NEW idx \in Samples, rd.pos <= N + 1
  PROVE  LET r == TakeSample(rd, c, idx)
         IN  /\ r.reader \in ReaderState /\ r.reader.pos = rd.pos + 1 /\ ~r.reader.first
             /\ r.call \in NextCall
             /\ r.call.take = c.take /\ r.call.out = Append(c.out, idx)
             /\ r.call.phase \in {"clear", "sample", "reply"}
             /\ r.call.phase = "sample" => r.call.idx = rd.pos + 1 /\ Len(c.out) + 1 # c.take
<1> DEFINE moved == [pos |-> rd.pos + 1, first |-> FALSE]
           kept  == [c EXCEPT !.out = Append(c.out, idx)]
           r == TakeSample(rd, c, idx)
<1>1. rd.pos \in Nat \ {0} /\ moved \in ReaderState /\ moved.pos = rd.pos + 1 /\ ~moved.first
  BY CountAssumption DEF ReaderState
<1>2. c.out \in Seq(Samples) /\ c.take \in 0..N /\ c.idx \in 0..(N + 2)
  BY DEF NextCall
<1>3. Append(c.out, idx) \in Seq(Samples) /\ Len(Append(c.out, idx)) = Len(c.out) + 1
  BY <1>2
<1>4. /\ kept \in NextCall /\ kept.out = Append(c.out, idx) /\ kept.take = c.take
  BY <1>3 DEF NextCall
<1>5. r.reader = moved /\ r.call = IF c.out = <<>> THEN [kept EXCEPT !.phase = "clear", !.idx = 0]
                                  ELSE ReadNext(moved, kept)
  BY DEF TakeSample
<1> HIDE DEF moved, kept
<1>6. CASE c.out = <<>>
  <2>1. r.call = [kept EXCEPT !.phase = "clear", !.idx = 0] /\ 0 \in 0..(N + 2)
    BY <1>5, <1>6, CountAssumption
  <2>2. /\ r.call \in NextCall /\ r.call.phase = "clear"
        /\ r.call.out = kept.out /\ r.call.take = kept.take
    BY <1>4, <2>1 DEF NextCall
  <2> QED
    BY <1>1, <1>4, <1>5, <2>2
<1>7. CASE c.out # <<>> /\ Len(kept.out) = kept.take
  <2>1. r.call = [kept EXCEPT !.phase = "reply", !.idx = 0]
    BY <1>5, <1>7 DEF ReadNext
  <2>2. /\ r.call \in NextCall /\ r.call.phase = "reply"
        /\ r.call.out = kept.out /\ r.call.take = kept.take
    <3>1. 0 \in 0..(N + 2)
      BY CountAssumption
    <3> QED
      BY <1>4, <2>1, <3>1 DEF NextCall
  <2> QED
    BY <1>1, <1>4, <1>5, <2>2
<1>8. CASE c.out # <<>> /\ Len(kept.out) # kept.take
  <2>1. r.call = [kept EXCEPT !.phase = "sample", !.idx = moved.pos]
    BY <1>5, <1>8 DEF ReadNext
  <2>2. moved.pos \in 0..(N + 2)
    BY <1>1, CountAssumption DEF ReaderState
  <2>3. r.call \in NextCall /\ r.call.phase = "sample" /\ r.call.idx = moved.pos
        /\ r.call.out = kept.out /\ r.call.take = kept.take
    BY <1>4, <2>1, <2>2 DEF NextCall
  <2> QED
    BY <1>1, <1>3, <1>4, <1>5, <1>8, <2>3
<1> QED
  BY <1>6, <1>7, <1>8

LEMMA ReadNextOK ==
  ASSUME NEW rd \in ReaderState, NEW c \in NextCall
  PROVE  LET r == ReadNext(rd, c)
         IN  /\ r \in NextCall /\ r.take = c.take /\ r.out = c.out
             /\ r.phase \in {"sample", "reply"}
             /\ r.phase = "sample" => r.idx = rd.pos /\ Len(c.out) # c.take
<1>1. rd.pos \in 0..(N + 2) /\ 0 \in 0..(N + 2)
  BY CountAssumption DEF ReaderState
<1>2. CASE Len(c.out) = c.take
  <2>1. ReadNext(rd, c) = [c EXCEPT !.phase = "reply", !.idx = 0]
    BY <1>2 DEF ReadNext
  <2> QED
    BY <1>1, <2>1 DEF NextCall
<1>3. CASE Len(c.out) # c.take
  <2>1. ReadNext(rd, c) = [c EXCEPT !.phase = "sample", !.idx = rd.pos]
    BY <1>3 DEF ReadNext
  <2> QED
    BY <1>1, <1>3, <2>1 DEF NextCall
<1> QED
  BY <1>2, <1>3

(* What two calls that share a position may do to it: a sample that exists *)
(* and has still to arrive.                                                *)
Pending(c) == c.phase = "sample" /\ c.idx <= N

(* Any step of a call keeps the reader within bounds.                      *)
LEMMA CallStepType ==
  ASSUME NEW rd \in ReaderState, NEW c \in NextCall,
         ~OutOfRange(c), c.phase = "sample" => c.idx # 0,
         rd.first => rd.pos <= N, Pending(c) => rd.pos <= N + 1
  PROVE  LET r == CallStep(rd, c)
         IN  /\ r.reader \in ReaderState /\ r.call \in NextCall
             /\ r.call.phase \in {"clear", "sample", "reply"}
             /\ r.call.phase = "sample" => r.call.idx = r.reader.pos
             /\ r.reader.first => r.reader = rd
             /\ \/ r.reader.pos = rd.pos
                \/ r.reader.pos = rd.pos + 1 /\ (Pending(c) \/ rd.pos <= N)
<1> DEFINE r == CallStep(rd, c)
<1>1. rd.pos \in Nat \ {0} /\ c.idx \in Nat
  BY CountAssumption DEF ReaderState, NextCall
<1>2. CASE c.phase = "begin" /\ rd.first
  <2>1. r = TakeSample(rd, c, rd.pos)
    BY <1>2 DEF CallStep
  <2>2. rd.pos \in Samples /\ rd.pos <= N + 1
    BY <1>1, <1>2, CountAssumption DEF Samples
  <2> QED
    BY <1>1, <1>2, <2>1, <2>2, TakeSampleOK
<1>3. CASE c.phase = "sample"
  <2>1. r = TakeSample(rd, c, c.idx)
    BY <1>3 DEF CallStep
  <2>2. c.idx \in Samples /\ Pending(c)
    BY <1>1, <1>3, CountAssumption DEF Samples, OutOfRange, Pending
  <2> QED
    BY <1>1, <1>3, <2>1, <2>2, TakeSampleOK
<1>4. CASE ~(c.phase = "begin" /\ rd.first) /\ c.phase # "sample"
  <2>1. r = [reader |-> rd, call |-> ReadNext(rd, c)]
    BY <1>4 DEF CallStep
  <2> QED
    BY <2>1, ReadNextOK
<1> QED
  BY <1>2, <1>3, <1>4

(* As long as the reader is one call's alone, that call reads on without a *)
(* gap and never past the last sample.                                     *)
LEMMA CallStepOK ==
  ASSUME NEW rd \in ReaderState, NEW c \in NextCall, c.phase # "reply", CallOK(rd, c)
  PROVE  /\ ~OutOfRange(c)
         /\ CallOK(CallStep(rd, c).reader, CallStep(rd, c).call)
         /\ \A lo \in Nat, gapless \in BOOLEAN :
              ReadUpTo(rd, c, lo, gapless) =>
                ReadUpTo(CallStep(rd, c).reader, CallStep(rd, c).call, lo, gapless)
<1> DEFINE r == CallStep(rd, c)
<1>1. rd.pos \in Nat \ {0} /\ c.idx \in Nat /\ c.take \in Nat /\ c.out \in Seq(Samples)
      /\ Len(c.out) \in Nat
  BY CountAssumption DEF ReaderState, NextCall
<1>2. Len(c.out) <= c.take /\ rd.pos + (c.take - Len(c.out)) <= N + 1
  BY DEF CallOK
<1>3. ~OutOfRange(c)
  BY <1>1, <1>2, CountAssumption DEF CallOK, OutOfRange
<1>4. CASE (c.phase = "begin" /\ rd.first) \/ c.phase = "sample"
  <2>1. r = TakeSample(rd, c, rd.pos) /\ Len(c.out) < c.take
    BY <1>1, <1>4 DEF CallStep, CallOK
  <2>2. rd.pos <= N /\ rd.pos \in Samples
    BY <1>1, <1>2, <2>1, CountAssumption DEF Samples
  <2>3. /\ r.reader.pos = rd.pos + 1
        /\ r.call.take = c.take /\ r.call.out = Append(c.out, rd.pos)
        /\ r.call.phase \in {"clear", "sample", "reply"}
        /\ r.call.phase = "sample" => r.call.idx = rd.pos + 1 /\ Len(c.out) + 1 # c.take
    BY <1>1, <2>1, <2>2, CountAssumption, TakeSampleOK
  <2>4. Len(r.call.out) = Len(c.out) + 1
    BY <1>1, <2>2, <2>3
  <2>5. CallOK(r.reader, r.call)
    <3> HIDE DEF r
    <3>1. Len(r.call.out) <= r.call.take
      BY <1>1, <2>1, <2>3, <2>4
    <3>2. r.reader.pos + (r.call.take - Len(r.call.out)) <= N + 1
      BY <1>1, <1>2, <2>3, <2>4, CountAssumption
    <3>3. r.call.phase # "begin"
      BY <2>3
    <3>4. r.call.phase = "sample" => Len(r.call.out) < r.call.take
      BY <1>1, <2>1, <2>3, <2>4
    <3> QED
      BY <2>3, <3>1, <3>2, <3>3, <3>4 DEF CallOK
  <2>6. ASSUME NEW lo \in Nat, NEW gapless \in BOOLEAN, ReadUpTo(rd, c, lo, gapless)
        PROVE  ReadUpTo(r.reader, r.call, lo, gapless)
    BY <1>1, <2>2, <2>3, <2>6, ChainAppend DEF ReadUpTo
  <2> QED
    BY <1>3, <2>5, <2>6
<1>5. CASE ~(c.phase = "begin" /\ rd.first) /\ c.phase # "sample"
  <2>1. r = [reader |-> rd, call |-> ReadNext(rd, c)]
    BY <1>5 DEF CallStep
  <2>2. CallOK(r.reader, r.call) /\ r.call.out = c.out /\ r.reader = rd
    BY <1>1, <1>2, <2>1, ReadNextOK DEF CallOK
  <2> QED
    BY <1>3, <2>2 DEF ReadUpTo
<1> QED
  BY <1>4, <1>5

-----------------------------------------------------------------------------
(* The frame path: what is shown or queued afterwards was before, or is    *)
(* the frame emitted.                                                      *)
Frames(x) == x.reorder \cup x.blit \cup {x.shown}

Keeps(x, y, new) ==
  /\ y \in BlitState
  /\ y.playing = x.playing /\ y.canvas = x.canvas /\ y.cursor = x.cursor
  /\ Frames(y) \subseteq Frames(x) \cup new

LEMMA BlitKeeps ==
  ASSUME NEW x \in BlitState
  PROVE  Keeps(x, BlitForCursor(x), {})
<1>1. CASE ~x.canvas \/ Due(x) = {}
  BY <1>1 DEF BlitForCursor, Keeps
<1>2. CASE x.canvas /\ Due(x) # {}
  <2>1. Due(x) \in SUBSET Nat /\ Due(x) \subseteq x.blit /\ x.blit \subseteq Pts
    BY PtsAssumption DEF Due, BlitState
  <2>2. IsFiniteSet(Due(x))
    BY <2>1, PtsAssumption, FS_Subset
  <2>3. Max(Due(x)) \in Due(x)
    BY <1>2, <2>1, <2>2, MaxIs
  <2> DEFINE top == Max(Due(x))
             sh  == IF top > x.shown THEN top ELSE x.shown
  <2>4. BlitForCursor(x) = [x EXCEPT !.blit = x.blit \ Due(x), !.shown = sh]
    BY <1>2 DEF BlitForCursor
  <2>5. sh \in x.blit \cup {x.shown} /\ sh \in Pts \cup {NoPts}
    BY <2>1, <2>3 DEF BlitState
  <2> HIDE DEF sh
  <2> QED
    BY <2>4, <2>5 DEF Keeps, Frames, BlitState
<1> QED
  BY <1>1, <1>2

LEMMA ReleaseKeeps ==
  ASSUME NEW x \in BlitState, NEW flushAll \in BOOLEAN
  PROVE  Keeps(x, ReleaseReordered(x, flushAll), {})
<1> DEFINE keep == IF flushAll THEN 0 ELSE REORDER_HOLD_FRAMES
           r == Release(x, keep)
<1>1. Releasable(x, keep) \subseteq x.reorder
  BY DEF Releasable
<1> HIDE DEF keep
<1>2. Keeps(x, r, {})
  BY <1>1 DEF Release, Keeps, Frames, BlitState
<1>3. ReleaseReordered(x, flushAll) = BlitForCursor(r)
  BY DEF ReleaseReordered, keep
<1> HIDE DEF r
<1>4. Keeps(r, BlitForCursor(r), {})
  BY <1>2, BlitKeeps DEF Keeps
<1> QED
  BY <1>2, <1>3, <1>4 DEF Keeps

LEMMA EmitKeeps ==
  ASSUME NEW x \in BlitState, NEW f \in Pts
  PROVE  Keeps(x, EmitFrame(x, f), {f})
<1>1. Victim(x) \subseteq Pts
  <2>1. CASE x.reorder = {}
    BY <2>1 DEF Victim
  <2>2. CASE x.reorder # {}
    <3>1. x.reorder \in SUBSET Nat /\ x.reorder \subseteq Pts
      BY PtsAssumption DEF BlitState
    <3>2. Max(x.reorder) \in x.reorder
      BY <2>2, <3>1, PtsAssumption, FS_Subset, MaxIs
    <3> QED
      BY <3>1, <3>2 DEF Victim
  <2> QED
    BY <2>1, <2>2
<1> DEFINE i == Insert(x, f)
<1>2. Keeps(x, i, {f})
  BY <1>1 DEF Insert, Keeps, Frames, BlitState
<1>3. EmitFrame(x, f) = ReleaseReordered(i, ~x.playing) /\ (~x.playing) \in BOOLEAN
  BY DEF EmitFrame
<1> HIDE DEF i
<1>4. Keeps(i, ReleaseReordered(i, ~x.playing), {})
  BY <1>2, <1>3, ReleaseKeeps DEF Keeps
<1> QED
  BY <1>2, <1>3, <1>4 DEF Keeps

(* The cursor and the play state move; no frame is added.                  *)
Moves(x, y, cursor) ==
  /\ y \in BlitState /\ y.canvas = x.canvas /\ y.cursor = cursor
  /\ Frames(y) \subseteq Frames(x)

LEMMA AtCursorKeeps ==
  ASSUME NEW x \in BlitState, NEW ns \in Nat
  PROVE  Moves(x, AtCursor(x, ns), ns) /\ AtCursor(x, ns).playing = x.playing
<1> DEFINE i == [x EXCEPT !.cursor = ns]
<1>1. i \in BlitState /\ Frames(i) = Frames(x) /\ i.canvas = x.canvas /\ i.cursor = ns
      /\ i.playing = x.playing
  BY DEF BlitState, Frames
<1>2. AtCursor(x, ns) = BlitForCursor(i)
  BY DEF AtCursor
<1> HIDE DEF i
<1> QED
  BY <1>1, <1>2, BlitKeeps DEF Keeps, Moves

LEMMA StartPlaybackKeeps ==
  ASSUME NEW x \in BlitState, NEW ns \in Nat
  PROVE  Moves(x, StartPlayback(x, ns), ns)
<1> DEFINE i == [x EXCEPT !.playing = TRUE]
<1>1. i \in BlitState /\ Frames(i) = Frames(x) /\ i.canvas = x.canvas
  BY DEF BlitState, Frames
<1>2. StartPlayback(x, ns) = AtCursor(i, ns)
  BY DEF StartPlayback
<1> HIDE DEF i
<1> QED
  BY <1>1, <1>2, AtCursorKeeps DEF Moves

LEMMA StopPlaybackKeeps ==
  ASSUME NEW x \in BlitState, NEW ns \in Nat
  PROVE  Moves(x, StopPlayback(x, ns), ns) /\ ~StopPlayback(x, ns).playing
<1> DEFINE i == [x EXCEPT !.playing = FALSE, !.cursor = ns, !.ordered = FALSE]
<1>1. i \in BlitState /\ Frames(i) = Frames(x) /\ i.canvas = x.canvas /\ i.cursor = ns
      /\ ~i.playing
  BY DEF BlitState, Frames
<1>2. StopPlayback(x, ns) = ReleaseReordered(i, TRUE)
  BY DEF StopPlayback
<1> HIDE DEF i
<1> QED
  BY <1>1, <1>2, ReleaseKeeps DEF Keeps, Moves

LEMMA AttachKeeps ==
  ASSUME NEW x \in BlitState
  PROVE  LET y == AttachCanvas(x)
         IN  /\ y \in BlitState /\ y.cursor = x.cursor /\ y.playing = x.playing
             /\ Frames(y) \subseteq Frames(x)
<1> DEFINE i == [x EXCEPT !.canvas = TRUE]
<1>1. i \in BlitState /\ Frames(i) = Frames(x) /\ i.cursor = x.cursor /\ i.playing = x.playing
  BY DEF BlitState, Frames
<1>2. AttachCanvas(x) = BlitForCursor(i)
  BY DEF AttachCanvas
<1> HIDE DEF i
<1> QED
  BY <1>1, <1>2, BlitKeeps DEF Keeps

LEMMA ReseedKeeps ==
  ASSUME NEW x \in BlitState, NEW t \in Nat
  PROVE  /\ Moves(x, Reseed(x, t), IF x.cursor < t THEN t ELSE x.cursor)
         /\ Reseed(x, t).playing = x.playing
BY DEF Reseed, Moves, Frames, BlitState

LEMMA FlushKeeps ==
  ASSUME NEW x \in BlitState
  PROVE  LET y == FlushBlitQueue(x)
         IN  /\ y \in BlitState /\ y.cursor = x.cursor /\ y.playing = x.playing
             /\ y.canvas = x.canvas /\ Frames(y) = {NoPts}
BY DEF FlushBlitQueue, Frames, BlitState

-----------------------------------------------------------------------------
(* The record of the worker's variables.                                   *)
HealState == [error : BOOLEAN, inFlight : BOOLEAN, count : 0..MAX_SELF_HEAL_ATTEMPTS]

RingState == [chunks : Seq(Samples), ended : BOOLEAN]

PumpState == [call : NextCall, live : BOOLEAN]

LEMMA Fields ==
  ASSUME NEW w \in WorldState
  PROVE  /\ w.b \in BlitState /\ w.session \in SessionState /\ w.decoder \in DecoderState
         /\ w.ring \in RingState /\ w.reader \in ReaderState /\ w.pump \in PumpState
         /\ w.heal \in HealState /\ w.ops \in Seq(OperationType) /\ w.wanted \in Nat \cup {NoPts}
         /\ w = [b |-> w.b, session |-> w.session, decoder |-> w.decoder, ring |-> w.ring,
                 reader |-> w.reader, pump |-> w.pump, heal |-> w.heal, ops |-> w.ops,
                 wanted |-> w.wanted]
BY DEF WorldState, HealState, RingState, PumpState

LEMMA WorldFields ==
  /\ World.b = b /\ World.session = session /\ World.decoder = decoder /\ World.ring = ring
  /\ World.reader = reader /\ World.pump = pump /\ World.heal = heal /\ World.ops = ops
  /\ World.wanted = wanted
BY DEF World

LEMMA Built ==
  ASSUME NEW xb \in BlitState, NEW xsession \in SessionState, NEW xdecoder \in DecoderState,
         NEW xring \in RingState, NEW xreader \in ReaderState, NEW xpump \in PumpState,
         NEW xheal \in HealState, NEW xops \in Seq(OperationType), NEW xwanted \in Nat \cup {NoPts}
  PROVE  [b |-> xb, session |-> xsession, decoder |-> xdecoder, ring |-> xring,
          reader |-> xreader, pump |-> xpump, heal |-> xheal, ops |-> xops,
          wanted |-> xwanted] \in WorldState
BY DEF WorldState, HealState, RingState, PumpState

LEMMA BecomesIs ==
  ASSUME NEW w \in WorldState, Becomes(w)
  PROVE  World' = w /\ kind' = kind
<1>1. World' = [b |-> w.b, session |-> w.session, decoder |-> w.decoder, ring |-> w.ring,
                reader |-> w.reader, pump |-> w.pump, heal |-> w.heal, ops |-> w.ops,
                wanted |-> w.wanted]
  BY DEF Becomes, World
<1> QED
  BY <1>1, Fields DEF Becomes

-----------------------------------------------------------------------------
(***************************************************************************)
(* The parts of the invariant that speak of this record.                   *)
(*                                                                         *)
(* ChainOK: the operations that wait, and among them a self-heal exactly   *)
(* while selfHealInFlight says so.                                         *)
(***************************************************************************)
UserOrHeal(o) ==
  /\ o.op \in {"open", "seek"} => o.target \in Cursors
  /\ o.heal => o.op = "seek" /\ o.force

ChainOK(w) ==
  /\ \A k \in 1..Len(w.ops) : UserOrHeal(w.ops[k])
  /\ w.heal.inFlight <=> \E k \in 1..Len(w.ops) : w.ops[k].heal
  /\ \A j, k \in 1..Len(w.ops) : w.ops[j].heal /\ w.ops[k].heal => j = k

CursorOK(w) ==
  /\ w.b.cursor \in Cursors \cup {0}
  /\ IsOpen(w) => w.b.cursor \in Cursors

(* A stream that is not open leaves nothing behind but a call of its       *)
(* reader; one that has ended drains once.                                 *)
AliveOK(w) ==
  /\ ~IsOpen(w) => w.session = NoSession /\ w.decoder = NoDecoder
  /\ ~IsOpen(w) \/ w.pump.call = NoCall => ~w.pump.live
  /\ IsOpen(w) => w.decoder.state # "none"
  /\ w.decoder.state = "unconfigured" => w.decoder = [NoDecoder EXCEPT !.state = "unconfigured"]
  /\ w.decoder.state = "configured" /\ ~w.session.ended => w.decoder.fed # 0
  /\ w.decoder.state = "closed" => w.session.ended
  /\ w.decoder.flushing => w.session.ended /\ ~w.session.drained
  /\ w.session.drained => w.session.ended

StreamOK(w) ==
  /\ AliveOK(w)
  /\ IsOpen(w) /\ w.ring.ended /\ w.ring.chunks = <<>> => w.session.ended

(* A latched error has closed the decoder and has a self-heal on its way,  *)
(* or has had its attempts.                                                *)
HealDue(w) ==
  w.heal.error /\ IsOpen(w) =>
    /\ w.decoder.state = "closed"
    /\ w.heal.inFlight \/ w.heal.count = MAX_SELF_HEAL_ATTEMPTS

FramesOK(w) == Frames(w.b) \cup {w.session.pre} \subseteq w.session.out \cup {NoPts}

(* The way of the chunks, from the decoder backwards: what was fed, the    *)
(* ring, the batch the pump is reading, the reader.  Each lies behind the  *)
(* one before it.                                                          *)
AheadOK(w, fed, gapless) ==
  /\ Chain(w.ring.chunks, fed, gapless)
  /\ IF w.pump.live
     THEN /\ CallOK(w.reader, w.pump.call)
          /\ ReadUpTo(w.reader, w.pump.call, Tip(w.ring.chunks, fed), gapless)
     ELSE Before(w.reader, Tip(w.ring.chunks, fed), gapless)

(* What the decoder still has to consume lies behind what it holds and     *)
(* what it has output, and of what it holds nothing has been output or     *)
(* will be overtaken by more than the stream's own order displaces.        *)
Output(w) == {i \in Samples : PtsOf[i] \in w.session.out}

OrderOK(w) ==
  /\ \A i \in {0} \cup w.decoder.held \cup Output(w) :
       Chain(w.decoder.queue, i, FALSE) /\ Tip(w.decoder.queue, i) <= w.decoder.fed
  /\ w.decoder.held \cap Output(w) = {}
  /\ \A j \in Output(w), i \in w.decoder.held :
       DECODER_ORDER = "decode" \/ PtsOf[j] > PtsOf[i] => j < i

-----------------------------------------------------------------------------
(* Feeding the decoder.                                                    *)
LEMMA DecodeOK ==
  ASSUME NEW d \in DecoderState, NEW c \in Seq(Samples)
  PROVE  LET r == Decode(d, c)
         IN  /\ r \in DecoderState
             /\ r.queue = d.queue \o c /\ r.fed = Tip(c, d.fed)
             /\ r.state = d.state /\ r.held = d.held /\ r.flushing = d.flushing
             /\ c = <<>> => r = d
             /\ c # <<>> => r.fed # 0
             /\ d.intact /\ Chain(c, d.fed, TRUE) /\ d.fed # 0 => r.intact
             /\ /\ d.intact /\ d.fed = 0 /\ c # <<>> /\ c[1] \in SyncSamples
                /\ Chain(c, c[1] - 1, TRUE)
                => r.intact
<1> DEFINE r == Decode(d, c)
<1>0. d.queue \in Seq(Samples) /\ d.fed \in 0..N /\ d.intact \in BOOLEAN
  BY DEF DecoderState
<1>1. CASE c = <<>>
  <2>1. r = d /\ d.queue \o c = d.queue
    BY <1>0, <1>1 DEF Decode
  <2> QED
    BY <1>1, <2>1 DEF Tip
<1>2. CASE c # <<>>
  <2> DEFINE ok == /\ d.intact
                   /\ \A k \in 1..Len(c) : Follows(IF k = 1 THEN d.fed ELSE c[k - 1], c[k])
  <2>1. r = [d EXCEPT !.queue = d.queue \o c, !.fed = c[Len(c)], !.intact = ok]
    BY <1>2 DEF Decode
  <2>2. Len(c) \in 1..Len(c) /\ c[Len(c)] \in Samples /\ c[Len(c)] \in 0..N /\ c[Len(c)] # 0
    <3>1. Len(c) \in 1..Len(c)
      BY <1>2
    <3> QED
      BY <3>1, SampleOf, CountAssumption DEF Samples
  <2>3. ok \in BOOLEAN /\ d.queue \o c \in Seq(Samples)
    BY <1>0
  <2>4. ASSUME \A k \in 2..Len(c) : c[k] = c[k - 1] + 1, d.intact, Follows(d.fed, c[1])
        PROVE  ok
    <3>1. ASSUME NEW k \in 1..Len(c), k # 1
          PROVE  Follows(c[k - 1], c[k])
      <4>1. k \in 2..Len(c) /\ k - 1 \in 1..Len(c)
        BY <3>1
      <4>2. c[k] = c[k - 1] + 1 /\ c[k - 1] # 0
        BY <2>4, <4>1, SampleOf, CountAssumption DEF Samples
      <4> QED
        BY <4>2 DEF Follows
    <3> QED
      BY <2>4, <3>1
  <2>5. ASSUME NEW lo \in Nat, Chain(c, lo, TRUE)
        PROVE  c[1] = lo + 1 /\ \A k \in 2..Len(c) : c[k] = c[k - 1] + 1
    <3>1. \A k \in 1..Len(c) : c[k] = lo + k
      BY <2>5 DEF Chain
    <3>2. \A k \in 2..Len(c) : k \in 1..Len(c) /\ k - 1 \in 1..Len(c)
      OBVIOUS
    <3>3. 1 \in 1..Len(c)
      BY <2>2
    <3> QED
      BY <3>1, <3>2, <3>3
  <2>6. d.intact /\ Chain(c, d.fed, TRUE) /\ d.fed # 0 => ok
    <3>1. d.fed \in Nat
      BY <1>0, CountAssumption
    <3> QED
      BY <2>4, <2>5, <3>1 DEF Follows
  <2>7. d.intact /\ d.fed = 0 /\ c[1] \in SyncSamples /\ Chain(c, c[1] - 1, TRUE) => ok
    <3>1. c[1] - 1 \in Nat
      <4>1. 1 \in 1..Len(c)
        BY <2>2
      <4> QED
        BY <4>1, SampleOf, CountAssumption DEF Samples
    <3> QED
      BY <2>4, <2>5, <3>1 DEF Follows
  <2> HIDE DEF ok
  <2>8. /\ r \in DecoderState /\ r.queue = d.queue \o c /\ r.fed = c[Len(c)] /\ r.intact = ok
        /\ r.state = d.state /\ r.held = d.held /\ r.flushing = d.flushing
    BY <2>1, <2>2, <2>3 DEF DecoderState
  <2> QED
    BY <1>2, <2>2, <2>6, <2>7, <2>8 DEF Tip
<1> QED
  BY <1>1, <1>2

FeedFrom(w, n) ==
  [w EXCEPT !.decoder = Decode(@, SubSeq(w.ring.chunks, 1, n)),
            !.ring.chunks = SubSeq(@, n + 1, Len(@))]

LEMMA FeedFromOK ==
  ASSUME NEW w \in WorldState, NEW n \in 0..Len(w.ring.chunks)
  PROVE  LET r == FeedFrom(w, n)
         IN  /\ r \in WorldState
             /\ r.decoder = Decode(w.decoder, SubSeq(w.ring.chunks, 1, n))
             /\ r.ring.chunks = SubSeq(w.ring.chunks, n + 1, Len(w.ring.chunks))
             /\ r.ring.ended = w.ring.ended
             /\ r.b = w.b /\ r.session = w.session /\ r.reader = w.reader /\ r.pump = w.pump
             /\ r.heal = w.heal /\ r.ops = w.ops /\ r.wanted = w.wanted
<1>1. w.ring.chunks \in Seq(Samples) /\ w.ring \in RingState /\ w.decoder \in DecoderState
  BY Fields DEF RingState
<1>2. /\ SubSeq(w.ring.chunks, 1, n) \in Seq(Samples)
      /\ SubSeq(w.ring.chunks, n + 1, Len(w.ring.chunks)) \in Seq(Samples)
  <2>1. \A k \in 1..Len(w.ring.chunks) : w.ring.chunks[k] \in Samples
    BY <1>1
  <2> QED
    BY <1>1, <2>1
<1> DEFINE decoded == Decode(w.decoder, SubSeq(w.ring.chunks, 1, n))
           rest == SubSeq(w.ring.chunks, n + 1, Len(w.ring.chunks))
<1>3. decoded \in DecoderState
  BY <1>1, <1>2, DecodeOK
<1> HIDE DEF decoded
<1>4. FeedFrom(w, n) = [w EXCEPT !.decoder = decoded, !.ring.chunks = rest] /\ rest \in Seq(Samples)
  BY <1>2 DEF FeedFrom, decoded
<1> HIDE DEF rest
<1>5. /\ [w EXCEPT !.decoder = decoded, !.ring.chunks = rest] \in WorldState
      /\ LET r == [w EXCEPT !.decoder = decoded, !.ring.chunks = rest]
         IN  /\ r.decoder = decoded /\ r.ring.chunks = rest /\ r.ring.ended = w.ring.ended
             /\ r.b = w.b /\ r.session = w.session /\ r.reader = w.reader /\ r.pump = w.pump
             /\ r.heal = w.heal /\ r.ops = w.ops /\ r.wanted = w.wanted
  BY <1>3, <1>4 DEF WorldState
<1> QED
  BY <1>4, <1>5 DEF decoded, rest

(* The frame held before the target is shown first.                        *)
LEMMA EmitPreOK ==
  ASSUME NEW w \in WorldState
  PROVE  LET r == EmitPre(w)
         IN  /\ r \in WorldState
             /\ r.b = EmitIfAny(w.b, w.session.pre) /\ Keeps(w.b, r.b, {w.session.pre})
             /\ r.session.pre = NoPts
             /\ r.session.from = w.session.from /\ r.session.ended = w.session.ended
             /\ r.session.out = w.session.out /\ r.session.drained = w.session.drained
             /\ r.decoder = w.decoder /\ r.ring = w.ring /\ r.reader = w.reader
             /\ r.pump = w.pump /\ r.heal = w.heal /\ r.ops = w.ops /\ r.wanted = w.wanted
<1>1. CASE w.session.pre = NoPts
  BY <1>1, Fields DEF EmitPre, EmitIfAny, Keeps
<1>2. CASE w.session.pre # NoPts
  <2>1. w.b \in BlitState /\ w.session.pre \in Pts /\ w.session \in SessionState
    BY <1>2, Fields DEF SessionState
  <2> DEFINE e == EmitFrame(w.b, w.session.pre)
             pre == w.session.pre
  <2>2. Keeps(w.b, e, {pre})
    BY <2>1, EmitKeeps
  <2>3. EmitPre(w) = [w EXCEPT !.b = e, !.session.last = pre, !.session.pre = NoPts]
    BY <1>2 DEF EmitPre
  <2>4. EmitIfAny(w.b, pre) = e /\ e \in BlitState /\ pre \in Pts
    BY <1>2, <2>1, <2>2 DEF EmitIfAny, Keeps
  <2> HIDE DEF e, pre
  <2>5. [w.session EXCEPT !.last = pre, !.pre = NoPts] \in SessionState
    BY <2>1, <2>4 DEF SessionState
  <2>6. LET r == [w EXCEPT !.b = e, !.session.last = pre, !.session.pre = NoPts]
        IN  /\ r \in WorldState /\ r.b = e
            /\ r.session.pre = NoPts
            /\ r.session.from = w.session.from /\ r.session.ended = w.session.ended
            /\ r.session.out = w.session.out /\ r.session.drained = w.session.drained
            /\ r.decoder = w.decoder /\ r.ring = w.ring /\ r.reader = w.reader
            /\ r.pump = w.pump /\ r.heal = w.heal /\ r.ops = w.ops /\ r.wanted = w.wanted
    BY <2>4, <2>5 DEF WorldState, SessionState
  <2> QED
    BY <2>2, <2>3, <2>4, <2>6 DEF pre
<1> QED
  BY <1>1, <1>2

LEMMA DrainedOK ==
  ASSUME NEW w \in WorldState
  PROVE  LET r == Drained(w)
         IN  /\ r \in WorldState
             /\ r.b = ReleaseReordered(EmitIfAny(w.b, w.session.pre), TRUE)
             /\ Keeps(w.b, r.b, {w.session.pre})
             /\ r.session.pre = NoPts /\ r.session.drained
             /\ r.session.from = w.session.from /\ r.session.ended = w.session.ended
             /\ r.session.out = w.session.out
             /\ r.decoder = [w.decoder EXCEPT !.flushing = FALSE]
             /\ r.ring = w.ring /\ r.reader = w.reader
             /\ r.pump = w.pump /\ r.heal = w.heal /\ r.ops = w.ops /\ r.wanted = w.wanted
<1> DEFINE e == EmitPre(w)
           x == ReleaseReordered(e.b, TRUE)
<1>1. /\ e \in WorldState
      /\ e.b = EmitIfAny(w.b, w.session.pre) /\ Keeps(w.b, e.b, {w.session.pre})
      /\ e.session.pre = NoPts
      /\ e.session.from = w.session.from /\ e.session.ended = w.session.ended
      /\ e.session.out = w.session.out
      /\ e.decoder = w.decoder /\ e.ring = w.ring /\ e.reader = w.reader
      /\ e.pump = w.pump /\ e.heal = w.heal /\ e.ops = w.ops /\ e.wanted = w.wanted
  BY EmitPreOK
<1>2. Keeps(e.b, x, {})
  BY <1>1, ReleaseKeeps DEF Keeps
<1>3. Drained(w) = [e EXCEPT !.b = x, !.session.drained = TRUE, !.decoder.flushing = FALSE]
  BY DEF Drained
<1>4. x \in BlitState /\ Keeps(w.b, x, {w.session.pre})
  BY <1>1, <1>2 DEF Keeps
<1>5. x = ReleaseReordered(EmitIfAny(w.b, w.session.pre), TRUE)
  BY <1>1
<1> HIDE DEF e, x
<1>6. LET r == [e EXCEPT !.b = x, !.session.drained = TRUE, !.decoder.flushing = FALSE]
      IN  /\ r \in WorldState /\ r.b = x
          /\ r.session.drained /\ r.session.pre = e.session.pre
          /\ r.session.from = e.session.from /\ r.session.ended = e.session.ended
          /\ r.session.out = e.session.out
          /\ r.decoder = [e.decoder EXCEPT !.flushing = FALSE] /\ r.ring = e.ring
          /\ r.reader = e.reader
          /\ r.pump = e.pump /\ r.heal = e.heal /\ r.ops = e.ops /\ r.wanted = e.wanted
  <2> DEFINE s == [e.session EXCEPT !.drained = TRUE]
             d == [e.decoder EXCEPT !.flushing = FALSE]
  <2>1. /\ s \in SessionState /\ s.drained /\ s.pre = e.session.pre /\ s.from = e.session.from
        /\ s.ended = e.session.ended /\ s.out = e.session.out
    BY <1>1, Fields DEF SessionState
  <2>2. d \in DecoderState
    BY <1>1, Fields DEF DecoderState
  <2>3. [e EXCEPT !.b = x, !.session.drained = TRUE, !.decoder.flushing = FALSE]
          = [e EXCEPT !.b = x, !.session = s, !.decoder = d]
    OBVIOUS
  <2> HIDE DEF s, d
  <2>4. LET r == [e EXCEPT !.b = x, !.session = s, !.decoder = d]
        IN  /\ r \in WorldState /\ r.b = x /\ r.session = s /\ r.decoder = d
            /\ r.ring = e.ring /\ r.reader = e.reader
            /\ r.pump = e.pump /\ r.heal = e.heal /\ r.ops = e.ops /\ r.wanted = e.wanted
    BY <1>1, <1>4, <2>1, <2>2 DEF WorldState
  <2> QED
    BY <2>1, <2>3, <2>4 DEF d
<1> QED
  BY <1>1, <1>3, <1>4, <1>5, <1>6

(* What feeding leaves alone.                                              *)
Aside(w, r) ==
  /\ r \in WorldState
  /\ r.heal = w.heal /\ r.ops = w.ops /\ r.wanted = w.wanted
  /\ r.session.from = w.session.from /\ r.session.out = w.session.out
  /\ r.decoder.state = w.decoder.state /\ r.decoder.held = w.decoder.held
  /\ r.b.cursor = w.b.cursor /\ r.b.playing = w.b.playing /\ r.b.canvas = w.b.canvas

(* What shows stays; or the stream drains at its end.                      *)
SameShow(w, r) ==
  r.b = w.b /\ r.session.pre = w.session.pre /\ r.session.drained = w.session.drained

DrainShow(w, r) ==
  /\ IsOpen(w) /\ ~w.session.ended
  /\ r.b = ReleaseReordered(EmitIfAny(w.b, w.session.pre), TRUE)
  /\ r.session.pre = NoPts /\ r.session.drained

(* The last chunk has been fed.                                            *)
LEMMA DrainAtEndOK ==
  ASSUME NEW w \in WorldState, AliveOK(w), FramesOK(w), IsOpen(w), ~w.session.ended,
         w.ring.chunks = <<>>
  PROVE  LET r == DrainAtEnd([w EXCEPT !.session.ended = TRUE])
         IN  /\ Aside(w, r) /\ r.ring = w.ring /\ r.reader = w.reader /\ r.pump = w.pump
             /\ r.session.ended
             /\ r.decoder = [w.decoder EXCEPT !.flushing = r.decoder.flushing]
             /\ FramesOK(r) /\ StreamOK(r)
             /\ IF w.decoder.state = "configured" THEN SameShow(w, r) ELSE DrainShow(w, r)
<1> DEFINE e == [w EXCEPT !.session.ended = TRUE]
           r == DrainAtEnd(e)
<1>0. w.decoder \in DecoderState /\ w.session \in SessionState
  BY Fields
<1>1. /\ e \in WorldState /\ e.session = [w.session EXCEPT !.ended = TRUE] /\ e.session.ended
      /\ e.session.from = w.session.from /\ e.session.pre = w.session.pre
      /\ e.session.out = w.session.out /\ e.session.drained = w.session.drained
      /\ e.b = w.b
      /\ e.decoder = w.decoder /\ e.ring = w.ring /\ e.reader = w.reader
      /\ e.pump = w.pump /\ e.heal = w.heal /\ e.ops = w.ops /\ e.wanted = w.wanted
  BY DEF WorldState, SessionState
<1>2. ~w.session.drained /\ ~w.decoder.flushing
  BY DEF AliveOK
<1> HIDE DEF e
<1>3. CASE w.decoder.state = "configured"
  <2>1. r = [e EXCEPT !.decoder.flushing = TRUE]
    BY <1>1, <1>3 DEF DrainAtEnd
  <2>2. /\ r \in WorldState /\ r.b = w.b /\ r.session = e.session
        /\ r.decoder = [w.decoder EXCEPT !.flushing = TRUE]
        /\ r.ring = w.ring /\ r.reader = w.reader
        /\ r.pump = w.pump /\ r.heal = w.heal /\ r.ops = w.ops /\ r.wanted = w.wanted
    <3> DEFINE d == [w.decoder EXCEPT !.flushing = TRUE]
    <3>1. d \in DecoderState
      BY <1>0 DEF DecoderState
    <3>2. r = [e EXCEPT !.decoder = d]
      BY <1>1, <2>1
    <3> HIDE DEF d
    <3>3. LET y == [e EXCEPT !.decoder = d]
          IN  /\ y \in WorldState /\ y.b = e.b /\ y.session = e.session /\ y.decoder = d
              /\ y.ring = e.ring /\ y.reader = e.reader
              /\ y.pump = e.pump /\ y.heal = e.heal /\ y.ops = e.ops /\ y.wanted = e.wanted
      BY <1>1, <3>1 DEF WorldState
    <3> QED
      BY <1>1, <3>2, <3>3 DEF d
  <2>3. r.decoder.flushing /\ r.decoder.state = "configured" /\ r.decoder.held = w.decoder.held
    BY <1>0, <1>3, <2>2 DEF DecoderState
  <2> HIDE DEF r
  <2>4. Aside(w, r)
    BY <1>1, <1>3, <2>2, <2>3 DEF Aside
  <2>5. FramesOK(r)
    BY <1>1, <2>2 DEF FramesOK
  <2>6. StreamOK(r)
    BY <1>1, <1>2, <2>2, <2>3 DEF StreamOK, AliveOK, IsOpen
  <2> QED
    BY <1>1, <1>3, <2>2, <2>3, <2>4, <2>5, <2>6 DEF SameShow, r, e
<1>4. CASE w.decoder.state # "configured"
  <2>1. r = Drained(e)
    BY <1>1, <1>4 DEF DrainAtEnd
  <2>2. /\ r \in WorldState
        /\ r.b = ReleaseReordered(EmitIfAny(w.b, w.session.pre), TRUE)
        /\ Keeps(w.b, r.b, {w.session.pre})
        /\ r.session.pre = NoPts /\ r.session.drained /\ r.session.ended
        /\ r.session.from = w.session.from /\ r.session.out = w.session.out
        /\ r.decoder = [w.decoder EXCEPT !.flushing = FALSE]
        /\ r.ring = w.ring /\ r.reader = w.reader
        /\ r.pump = w.pump /\ r.heal = w.heal /\ r.ops = w.ops /\ r.wanted = w.wanted
    <3> HIDE DEF r
    <3>1. LET y == Drained(e)
          IN  /\ y \in WorldState
              /\ y.b = ReleaseReordered(EmitIfAny(e.b, e.session.pre), TRUE)
              /\ Keeps(e.b, y.b, {e.session.pre})
              /\ y.session.pre = NoPts /\ y.session.drained
              /\ y.session.from = e.session.from /\ y.session.ended = e.session.ended
              /\ y.session.out = e.session.out
              /\ y.decoder = [e.decoder EXCEPT !.flushing = FALSE]
              /\ y.ring = e.ring /\ y.reader = e.reader
              /\ y.pump = e.pump /\ y.heal = e.heal /\ y.ops = e.ops /\ y.wanted = e.wanted
      BY <1>1, DrainedOK
    <3> QED
      BY <1>1, <2>1, <3>1
  <2>3. /\ ~r.decoder.flushing /\ r.decoder = w.decoder
        /\ r.decoder.state = w.decoder.state /\ r.decoder.held = w.decoder.held
    <3>1. [w.decoder EXCEPT !.flushing = FALSE] = w.decoder
      BY <1>0, <1>2 DEF DecoderState
    <3> QED
      BY <1>2, <2>2, <3>1
  <2> HIDE DEF r
  <2>4. Aside(w, r)
    BY <2>2, <2>3 DEF Aside, Keeps
  <2>5. FramesOK(r)
    BY <2>2 DEF FramesOK, Keeps
  <2>6. StreamOK(r)
    BY <1>1, <1>4, <2>2, <2>3 DEF StreamOK, AliveOK, IsOpen
  <2>7. DrainShow(w, r)
    BY <2>2 DEF DrainShow
  <2> QED
    BY <1>4, <2>2, <2>3, <2>4, <2>5, <2>6, <2>7 DEF r, e
<1> QED
  BY <1>3, <1>4

LEMMA FeedCountOK ==
  ASSUME NEW w \in WorldState
  PROVE  FeedCount(w) \in 0..Len(w.ring.chunks)
<1>1. /\ Len(w.ring.chunks) \in Nat /\ Len(w.decoder.queue) \in Nat /\ REFILL_LOW_WATER \in Nat
  BY Fields, WorkerAssumption DEF RingState, DecoderState
<1>2. CASE MayFeed(w) /\ Len(w.decoder.queue) < REFILL_LOW_WATER
  <2>1. REFILL_LOW_WATER - Len(w.decoder.queue) \in Nat
    BY <1>1, <1>2
  <2>2. FeedCount(w) = Min({Len(w.ring.chunks), REFILL_LOW_WATER - Len(w.decoder.queue)})
    BY <1>2 DEF FeedCount
  <2>3. FeedCount(w) \in {Len(w.ring.chunks), REFILL_LOW_WATER - Len(w.decoder.queue)}
        /\ FeedCount(w) <= Len(w.ring.chunks)
    <3>1. \A x, y \in Nat : Min({x, y}) \in {x, y} /\ Min({x, y}) <= x
      BY MinOfTwo
    <3> QED
      BY <1>1, <2>1, <2>2, <3>1
  <2> QED
    BY <1>1, <2>1, <2>3
<1>3. CASE ~(MayFeed(w) /\ Len(w.decoder.queue) < REFILL_LOW_WATER)
  BY <1>1, <1>3 DEF FeedCount
<1> QED
  BY <1>2, <1>3

LEMMA FeedNothing ==
  ASSUME NEW w \in WorldState
  PROVE  FeedFrom(w, 0) = w
<1> DEFINE r == FeedFrom(w, 0)
           chunks == w.ring.chunks
<1>1. chunks \in Seq(Samples) /\ w.ring \in RingState /\ w.decoder \in DecoderState
  BY Fields DEF RingState
<1>2. SubSeq(chunks, 1, 0) = <<>> /\ SubSeq(chunks, 0 + 1, Len(chunks)) = chunks
  BY <1>1
<1>3. 0 \in 0..Len(chunks)
  BY <1>1
<1>4. Decode(w.decoder, <<>>) = w.decoder
  BY DEF Decode
<1>5. /\ r \in WorldState /\ r.decoder = w.decoder /\ r.ring.chunks = chunks
      /\ r.ring.ended = w.ring.ended
      /\ r.b = w.b /\ r.session = w.session /\ r.reader = w.reader /\ r.pump = w.pump
      /\ r.heal = w.heal /\ r.ops = w.ops /\ r.wanted = w.wanted
  BY <1>2, <1>3, <1>4, FeedFromOK
<1> HIDE DEF r
<1>6. r.ring = w.ring
  <2>1. r.ring \in RingState
    BY <1>5, Fields
  <2> QED
    BY <1>1, <1>5, <2>1 DEF RingState
<1> QED
  BY <1>5, <1>6, Fields DEF r

(* The loop of feedFromRing: it does nothing, feeds a prefix of the ring,  *)
(* or feeds all of it and ends the stream.                                 *)
LEMMA FeedCases ==
  ASSUME NEW w \in WorldState
  PROVE  LET r == FeedFromRing(w)
         IN  \/ /\ r = w
                /\ \/ ~IsOpen(w) \/ w.session.ended
                   \/ w.decoder.state # "configured"
                      /\ ~(w.ring.chunks = <<>> /\ w.ring.ended)
             \/ /\ IsOpen(w) /\ ~w.session.ended
                /\ \E n \in 0..Len(w.ring.chunks) :
                     LET fed == FeedFrom(w, n)
                     IN  /\ w.decoder.state # "configured" => n = 0
                         /\ IF fed.ring.chunks = <<>> /\ fed.ring.ended
                            THEN r = DrainAtEnd([fed EXCEPT !.session.ended = TRUE])
                            ELSE r = fed /\ w.decoder.state = "configured"
<1> DEFINE n == FeedCount(w)
           fed == FeedFrom(w, n)
<1>1. n \in 0..Len(w.ring.chunks) /\ Len(w.ring.chunks) \in Nat
  BY FeedCountOK, Fields DEF RingState
<1>2. FeedFromRing(w) = IF ~IsOpen(w) \/ w.session.ended THEN w
                        ELSE IF n > 0 /\ w.decoder.state # "configured" THEN w
                        ELSE IF fed.ring.chunks = <<>> /\ fed.ring.ended
                        THEN DrainAtEnd([fed EXCEPT !.session.ended = TRUE])
                        ELSE fed
  BY DEF FeedFromRing, FeedFrom
<1>3. n = 0 => fed = w
  BY FeedNothing
<1>4. n > 0 => w.ring.chunks # <<>>
  BY <1>1
<1> HIDE DEF n, fed
<1>5. CASE ~IsOpen(w) \/ w.session.ended
  BY <1>2, <1>5
<1>6. CASE IsOpen(w) /\ ~w.session.ended /\ n > 0 /\ w.decoder.state # "configured"
  BY <1>2, <1>4, <1>6
<1>7. CASE IsOpen(w) /\ ~w.session.ended /\ ~(n > 0 /\ w.decoder.state # "configured")
  <2>1. w.decoder.state # "configured" => n = 0
    BY <1>1, <1>7
  <2>2. CASE fed.ring.chunks = <<>> /\ fed.ring.ended
    BY <1>1, <1>2, <1>7, <2>1, <2>2 DEF fed
  <2>3. CASE ~(fed.ring.chunks = <<>> /\ fed.ring.ended) /\ w.decoder.state = "configured"
    BY <1>1, <1>2, <1>7, <2>1, <2>3 DEF fed
  <2>4. CASE ~(fed.ring.chunks = <<>> /\ fed.ring.ended) /\ w.decoder.state # "configured"
    BY <1>2, <1>3, <1>7, <2>1, <2>4
  <2> QED
    BY <2>2, <2>3, <2>4
<1> QED
  BY <1>5, <1>6, <1>7

LEMMA FeedWorks ==
  ASSUME NEW w \in WorldState, AliveOK(w), FramesOK(w)
  PROVE  LET r == FeedFromRing(w)
         IN  /\ Aside(w, r) /\ r.reader = w.reader /\ r.pump = w.pump
             /\ w.session.ended => r.session.ended
             /\ StreamOK(r) /\ FramesOK(r)
             /\ \/ SameShow(w, r)
                \/ DrainShow(w, r) /\ w.ring.ended /\ w.ring.chunks = <<>>
<1> DEFINE r == FeedFromRing(w)
<1>1. CASE /\ r = w
           /\ \/ ~IsOpen(w) \/ w.session.ended
              \/ w.decoder.state # "configured" /\ ~(w.ring.chunks = <<>> /\ w.ring.ended)
  <2>1. AliveOK(w) => StreamOK(w)
    BY <1>1 DEF StreamOK, AliveOK, IsOpen, NoSession, NoDecoder
  <2> QED
    BY <1>1, <2>1 DEF Aside, SameShow
<1>2. ASSUME NEW n \in 0..Len(w.ring.chunks), IsOpen(w), ~w.session.ended,
             w.decoder.state # "configured" => n = 0,
             IF FeedFrom(w, n).ring.chunks = <<>> /\ FeedFrom(w, n).ring.ended
             THEN r = DrainAtEnd([FeedFrom(w, n) EXCEPT !.session.ended = TRUE])
             ELSE r = FeedFrom(w, n) /\ w.decoder.state = "configured"
      PROVE  /\ Aside(w, r) /\ r.reader = w.reader /\ r.pump = w.pump
             /\ StreamOK(r) /\ FramesOK(r)
             /\ \/ SameShow(w, r)
                \/ DrainShow(w, r) /\ w.ring.ended /\ w.ring.chunks = <<>>
  <2> DEFINE fed == FeedFrom(w, n)
             head == SubSeq(w.ring.chunks, 1, n)
  <2>1. head \in Seq(Samples) /\ w.decoder \in DecoderState /\ w.ring.chunks \in Seq(Samples)
    <3>1. w.ring.chunks \in Seq(Samples) /\ w.decoder \in DecoderState
      BY Fields DEF RingState
    <3>2. \A k \in 1..Len(w.ring.chunks) : w.ring.chunks[k] \in Samples
      BY <3>1
    <3> QED
      BY <3>1, <3>2
  <2>2. /\ fed \in WorldState
        /\ fed.decoder = Decode(w.decoder, head)
        /\ fed.ring.ended = w.ring.ended
        /\ fed.b = w.b /\ fed.session = w.session /\ fed.reader = w.reader /\ fed.pump = w.pump
        /\ fed.heal = w.heal /\ fed.ops = w.ops /\ fed.wanted = w.wanted
    BY FeedFromOK
  <2>3. /\ fed.decoder.state = w.decoder.state /\ fed.decoder.held = w.decoder.held
        /\ fed.decoder.flushing = w.decoder.flushing
        /\ n = 0 => fed.decoder = w.decoder /\ fed = w
        /\ w.decoder.fed # 0 => fed.decoder.fed # 0
    <3>1. n = 0 => head = <<>>
      BY <2>1
    <3>2. head = <<>> => fed.decoder = w.decoder
      BY <2>2 DEF Decode
    <3> HIDE DEF fed
    <3>3. /\ fed.decoder.state = w.decoder.state /\ fed.decoder.held = w.decoder.held
          /\ fed.decoder.flushing = w.decoder.flushing
          /\ head # <<>> => fed.decoder.fed # 0
      <4> HIDE DEF head
      <4>1. LET y == Decode(w.decoder, head)
            IN  /\ y.state = w.decoder.state /\ y.held = w.decoder.held
                /\ y.flushing = w.decoder.flushing
                /\ head # <<>> => y.fed # 0
        BY <2>1, DecodeOK
      <4> QED
        BY <2>2, <4>1
    <3>4. n = 0 => fed = w
      BY FeedNothing DEF fed
    <3> QED
      BY <3>1, <3>2, <3>3, <3>4
  <2> HIDE DEF fed, head
  <2>4. AliveOK(fed)
    <3>1. w.decoder.state = "unconfigured" => fed.decoder = w.decoder
      BY <1>2, <2>3
    <3> QED
      BY <1>2, <2>2, <2>3, <3>1 DEF AliveOK, IsOpen
  <2>5. FramesOK(fed)
    BY <2>2 DEF FramesOK
  <2>6. CASE fed.ring.chunks = <<>> /\ fed.ring.ended
    <3>1. r = DrainAtEnd([fed EXCEPT !.session.ended = TRUE])
      BY <1>2, <2>6 DEF fed
    <3>2. IsOpen(fed) /\ ~fed.session.ended
      BY <1>2, <2>2 DEF IsOpen
    <3>3. /\ Aside(fed, r) /\ r.reader = fed.reader /\ r.pump = fed.pump
          /\ FramesOK(r) /\ StreamOK(r)
          /\ IF fed.decoder.state = "configured" THEN SameShow(fed, r) ELSE DrainShow(fed, r)
      BY <2>2, <2>4, <2>5, <2>6, <3>1, <3>2, DrainAtEndOK
    <3>4. SameShow(fed, r) => SameShow(w, r)
      BY <2>2 DEF SameShow
    <3>5. CASE fed.decoder.state # "configured"
      <4>1. fed = w
        BY <1>2, <2>3, <3>5
      <4> QED
        BY <2>6, <3>3, <3>5, <4>1
    <3> QED
      BY <2>2, <2>3, <3>3, <3>4, <3>5 DEF Aside
  <2>7. CASE ~(fed.ring.chunks = <<>> /\ fed.ring.ended)
    <3>1. r = fed
      BY <1>2, <2>7 DEF fed
    <3>2. StreamOK(fed)
      BY <2>4, <2>7 DEF StreamOK
    <3> QED
      BY <2>2, <2>3, <2>5, <3>1, <3>2 DEF Aside, SameShow
  <2> QED
    BY <2>6, <2>7
<1>3. \/ /\ r = w
         /\ \/ ~IsOpen(w) \/ w.session.ended
            \/ w.decoder.state # "configured" /\ ~(w.ring.chunks = <<>> /\ w.ring.ended)
      \/ /\ IsOpen(w) /\ ~w.session.ended
         /\ \E n \in 0..Len(w.ring.chunks) :
              /\ w.decoder.state # "configured" => n = 0
              /\ IF FeedFrom(w, n).ring.chunks = <<>> /\ FeedFrom(w, n).ring.ended
                 THEN r = DrainAtEnd([FeedFrom(w, n) EXCEPT !.session.ended = TRUE])
                 ELSE r = FeedFrom(w, n) /\ w.decoder.state = "configured"
  BY FeedCases
<1> HIDE DEF r
<1> QED
  BY <1>1, <1>2, <1>3 DEF r

(* The chunks on their way, of a stream that has not ended.  fed is the    *)
(* last of the priming batch while that has still to be decoded.           *)
FedPos(w, fed) == IF w.decoder.state = "configured" THEN w.decoder.fed ELSE fed

Flow(w, fed, gapless, intact) ==
  /\ OrderOK(w)
  /\ IsOpen(w) /\ ~w.session.ended => AheadOK(w, FedPos(w, fed), gapless)
  /\ intact => w.decoder.intact

LEMMA FedPosIs ==
  ASSUME NEW w \in WorldState, NEW fed \in Nat
  PROVE  FedPos(w, fed) \in Nat
<1>1. w.decoder.fed \in 0..N
  BY Fields DEF DecoderState
<1> QED
  BY <1>1, CountAssumption DEF FedPos

(* What is put behind a queue in order leaves it in order.                 *)
LEMMA OrderExtends ==
  ASSUME NEW w \in WorldState, NEW r \in WorldState, NEW c \in Seq(Samples), NEW gapless \in BOOLEAN,
         OrderOK(w), Chain(c, w.decoder.fed, gapless),
         r.decoder.queue = w.decoder.queue \o c, r.decoder.fed = Tip(c, w.decoder.fed),
         r.decoder.held = w.decoder.held, r.session.out = w.session.out
  PROVE  OrderOK(r)
<1>1. w.decoder.fed \in Nat /\ w.decoder.queue \in Seq(Samples) /\ w.decoder.held \subseteq Samples
  BY Fields, CountAssumption DEF DecoderState
<1>2. Output(r) = Output(w) /\ Output(w) \subseteq Samples
  BY DEF Output
<1>3. ASSUME NEW i \in {0} \cup w.decoder.held \cup Output(w)
      PROVE  Chain(r.decoder.queue, i, FALSE) /\ Tip(r.decoder.queue, i) <= r.decoder.fed
  <2>1. i \in Nat
    BY <1>1, <1>2, CountAssumption DEF Samples
  <2>2. Chain(w.decoder.queue, i, FALSE) /\ Tip(w.decoder.queue, i) <= w.decoder.fed
    BY DEF OrderOK
  <2>3. Tip(w.decoder.queue, i) \in Nat
    BY <1>1, <2>1, <2>2, TipIs
  <2>4. Chain(c, Tip(w.decoder.queue, i), FALSE) /\ Tip(c, Tip(w.decoder.queue, i)) <= Tip(c, w.decoder.fed)
    BY <1>1, <2>2, <2>3, ChainWeaken
  <2>5. /\ Chain(w.decoder.queue \o c, i, FALSE)
        /\ Tip(w.decoder.queue \o c, i) = Tip(c, Tip(w.decoder.queue, i))
    BY <1>1, <2>1, <2>2, <2>4, ChainConcat
  <2> QED
    BY <2>4, <2>5
<1> QED
  BY <1>2, <1>3 DEF OrderOK

LEMMA FeedFromFlow ==
  ASSUME NEW w \in WorldState, NEW n \in 0..Len(w.ring.chunks), NEW gapless \in BOOLEAN,
         NEW intact \in BOOLEAN, intact => gapless,
         IsOpen(w), ~w.session.ended, w.decoder.state = "configured", AliveOK(w), NEW fed,
         Flow(w, fed, gapless, intact)
  PROVE  Flow(FeedFrom(w, n), fed, gapless, intact)
<1> DEFINE r == FeedFrom(w, n)
           head == SubSeq(w.ring.chunks, 1, n)
           rest == SubSeq(w.ring.chunks, n + 1, Len(w.ring.chunks))
<1>1. w.ring.chunks \in Seq(Samples) /\ w.decoder \in DecoderState /\ w.decoder.fed \in Nat
  BY Fields, CountAssumption DEF RingState, DecoderState
<1>2. w.decoder.fed # 0
  BY DEF AliveOK
<1>3. AheadOK(w, w.decoder.fed, gapless) /\ OrderOK(w) /\ (intact => w.decoder.intact)
  BY DEF Flow, FedPos
<1>4. /\ head \in Seq(Samples) /\ rest \in Seq(Samples)
      /\ Chain(head, w.decoder.fed, gapless)
      /\ Chain(rest, Tip(head, w.decoder.fed), gapless)
      /\ Tip(rest, Tip(head, w.decoder.fed)) = Tip(w.ring.chunks, w.decoder.fed)
  <2>1. Chain(w.ring.chunks, w.decoder.fed, gapless)
    BY <1>3 DEF AheadOK
  <2> QED
    BY <1>1, <2>1, ChainCut
<1>5. /\ r \in WorldState /\ r.decoder = Decode(w.decoder, head) /\ r.ring.chunks = rest
      /\ r.session = w.session /\ r.reader = w.reader /\ r.pump = w.pump
  BY FeedFromOK
<1> HIDE DEF r, head, rest
<1>6. /\ r.decoder.queue = w.decoder.queue \o head /\ r.decoder.fed = Tip(head, w.decoder.fed)
      /\ r.decoder.state = "configured" /\ r.decoder.held = w.decoder.held
      /\ w.decoder.intact /\ gapless => r.decoder.intact
  <2>1. LET y == Decode(w.decoder, head)
        IN  /\ y.queue = w.decoder.queue \o head /\ y.fed = Tip(head, w.decoder.fed)
            /\ y.state = w.decoder.state /\ y.held = w.decoder.held
            /\ w.decoder.intact /\ Chain(head, w.decoder.fed, TRUE) /\ w.decoder.fed # 0 => y.intact
    BY <1>1, <1>4, DecodeOK
  <2>2. gapless => Chain(head, w.decoder.fed, TRUE)
    BY <1>4 DEF Chain
  <2> QED
    BY <1>2, <1>5, <2>1, <2>2
<1>7. OrderOK(r)
  <2>1. r.session.out = w.session.out
    BY <1>5
  <2> QED
    <3>1. OrderOK(w)
      BY <1>3
    <3>2. head \in Seq(Samples) /\ Chain(head, w.decoder.fed, gapless)
      BY <1>4
    <3>3. /\ r \in WorldState
          /\ r.decoder.queue = w.decoder.queue \o head /\ r.decoder.fed = Tip(head, w.decoder.fed)
          /\ r.decoder.held = w.decoder.held /\ r.session.out = w.session.out
      BY <1>5, <1>6
    <3> QED
      BY <3>1, <3>2, <3>3, OrderExtends
<1>8. AheadOK(r, r.decoder.fed, gapless)
  BY <1>3, <1>4, <1>5, <1>6 DEF AheadOK
<1> QED
  BY <1>3, <1>6, <1>7, <1>8 DEF Flow, FedPos, r

LEMMA FeedFlow ==
  ASSUME NEW w \in WorldState, NEW gapless \in BOOLEAN, NEW intact \in BOOLEAN,
         intact /\ w.decoder.state = "configured" => gapless,
         AliveOK(w), FramesOK(w), NEW fed \in Nat, Flow(w, fed, gapless, intact)
  PROVE  Flow(FeedFromRing(w), fed, gapless, intact)
<1> DEFINE r == FeedFromRing(w)
<1>1. ASSUME NEW n \in 0..Len(w.ring.chunks), IsOpen(w), ~w.session.ended,
             w.decoder.state # "configured" => n = 0
      PROVE  LET y == FeedFrom(w, n)
             IN  /\ y \in WorldState /\ Flow(y, fed, gapless, intact)
                 /\ y.ring.chunks = <<>> =>
                      Flow(DrainAtEnd([y EXCEPT !.session.ended = TRUE]), fed, gapless, intact)
  <2> DEFINE y == FeedFrom(w, n)
             e == DrainAtEnd([y EXCEPT !.session.ended = TRUE])
             head == SubSeq(w.ring.chunks, 1, n)
  <2>1. y \in WorldState /\ Flow(y, fed, gapless, intact)
    <3>1. CASE w.decoder.state = "configured"
      BY <1>1, <3>1, FeedFromOK, FeedFromFlow
    <3>2. CASE w.decoder.state # "configured"
      BY <1>1, <3>2, FeedNothing
    <3> QED
      BY <3>1, <3>2
  <2>2. ASSUME y.ring.chunks = <<>>
        PROVE  Flow(e, fed, gapless, intact)
    <3>1. /\ y.session = w.session /\ y.b = w.b /\ y.pump = w.pump
          /\ y.decoder = Decode(w.decoder, head)
      BY FeedFromOK
    <3>2. head \in Seq(Samples) /\ w.decoder \in DecoderState
      <4>1. w.ring.chunks \in Seq(Samples) /\ w.decoder \in DecoderState
        BY Fields DEF RingState
      <4>2. \A k \in 1..Len(w.ring.chunks) : w.ring.chunks[k] \in Samples
        BY <4>1
      <4> QED
        BY <4>1, <4>2
    <3>3. FramesOK(y) /\ IsOpen(y) /\ ~y.session.ended
      BY <1>1, <3>1 DEF FramesOK, IsOpen
    <3>4. AliveOK(y)
      <4>1. CASE w.decoder.state = "configured"
        <5> HIDE DEF y, head
        <5>1. head = <<>> => Decode(w.decoder, head) = w.decoder
          BY DEF Decode
        <5>2. LET z == Decode(w.decoder, head)
              IN  /\ z.state = w.decoder.state /\ z.flushing = w.decoder.flushing
                  /\ head # <<>> => z.fed # 0
          BY <3>2, DecodeOK
        <5> QED
          BY <1>1, <3>1, <3>3, <4>1, <5>1, <5>2 DEF AliveOK, IsOpen
      <4>2. CASE w.decoder.state # "configured"
        BY <1>1, <4>2, FeedNothing
      <4> QED
        BY <4>1, <4>2
    <3> HIDE DEF y, e, head
    <3>5. /\ Aside(y, e) /\ e.session.ended
          /\ e.decoder = [y.decoder EXCEPT !.flushing = e.decoder.flushing]
      BY <2>1, <2>2, <3>3, <3>4, DrainAtEndOK DEF e
    <3>6. /\ e.decoder.queue = y.decoder.queue /\ e.decoder.fed = y.decoder.fed
          /\ e.decoder.intact = y.decoder.intact
      <4>1. y.decoder \in DecoderState
        BY <2>1, Fields
      <4> QED
        BY <3>5, <4>1 DEF DecoderState
    <3>7. OrderOK(e)
      BY <2>1, <3>5, <3>6 DEF Flow, OrderOK, Output, Aside
    <3> QED
      BY <2>1, <3>5, <3>6, <3>7 DEF Flow
  <2> QED
    BY <2>1, <2>2
<1>2. \/ r = w
      \/ /\ IsOpen(w) /\ ~w.session.ended
         /\ \E n \in 0..Len(w.ring.chunks) :
              /\ w.decoder.state # "configured" => n = 0
              /\ \/ r = FeedFrom(w, n)
                 \/ /\ FeedFrom(w, n).ring.chunks = <<>>
                    /\ r = DrainAtEnd([FeedFrom(w, n) EXCEPT !.session.ended = TRUE])
  BY FeedCases
<1> HIDE DEF r
<1> QED
  BY <1>1, <1>2 DEF r

-----------------------------------------------------------------------------
(* The reader within its bounds.  Two calls may share it: one of the       *)
(* operation that opens the stream (p) and one of the pump.                *)
ReaderOK(k, w, p) ==
  /\ k = "mcap" => /\ ~w.reader.first /\ w.reader.pos <= N + 1
                   /\ w.pump.call.phase # "reply" => w.pump.call = NoCall
                   /\ p.phase \in {"none", "reply"}
  /\ w.reader.first => w.reader.pos <= N
  /\ p.phase = "sample" => p.idx # 0
  /\ w.pump.live /\ w.pump.call.phase = "sample" => w.pump.call.idx # 0
  /\ w.reader.pos = N + 2 => ~Pending(p) /\ ~(w.pump.live /\ Pending(w.pump.call))
  /\ w.reader.pos = N + 1 => ~(Pending(p) /\ w.pump.live /\ Pending(w.pump.call))

(* The pump starts a call, or nothing happens.                             *)
LEMMA PumpEncodedCases ==
  ASSUME NEW w \in WorldState
  PROVE  LET r    == PumpEncoded(w)
             next == BeginNext(w.reader, ENCODED_RING_BATCH)
         IN  \/ r = w
             \/ /\ IsOpen(w) /\ ~w.session.ended /\ ~w.ring.ended /\ w.pump.call = NoCall
                /\ r \in WorldState
                /\ r.reader = next.reader /\ r.pump = [call |-> next.call, live |-> TRUE]
                /\ r.b = w.b /\ r.session = w.session /\ r.decoder = w.decoder
                /\ r.ring = w.ring /\ r.heal = w.heal /\ r.ops = w.ops /\ r.wanted = w.wanted
<1> DEFINE next == BeginNext(w.reader, ENCODED_RING_BATCH)
           x == next.reader
           y == [call |-> next.call, live |-> TRUE]
<1>1. x \in ReaderState /\ y \in PumpState
  <2>1. w.reader \in ReaderState /\ ENCODED_RING_BATCH \in Nat \ {0}
    BY Fields, WorkerAssumption
  <2>2. next.reader \in ReaderState /\ next.call \in NextCall
    BY <2>1, BeginNextOK
  <2> QED
    BY <2>2 DEF PumpState
<1>2. \/ PumpEncoded(w) = w
      \/ /\ IsOpen(w) /\ ~w.session.ended /\ ~w.ring.ended /\ w.pump.call = NoCall
         /\ PumpEncoded(w) = [w EXCEPT !.reader = x, !.pump = y]
  BY DEF PumpEncoded
<1> HIDE DEF x, y
<1>3. LET r == [w EXCEPT !.reader = x, !.pump = y]
      IN  /\ r \in WorldState /\ r.reader = x /\ r.pump = y
          /\ r.b = w.b /\ r.session = w.session /\ r.decoder = w.decoder
          /\ r.ring = w.ring /\ r.heal = w.heal /\ r.ops = w.ops /\ r.wanted = w.wanted
  BY <1>1 DEF WorldState, PumpState
<1> QED
  BY <1>2, <1>3 DEF x, y

LEMMA PumpEncodedOK ==
  ASSUME NEW w \in WorldState, StreamOK(w)
  PROVE  LET r == PumpEncoded(w)
         IN  /\ Aside(w, r) /\ SameShow(w, r) /\ StreamOK(r)
             /\ r.session = w.session /\ r.decoder = w.decoder /\ r.ring = w.ring
             /\ FramesOK(w) => FramesOK(r)
             /\ \A p \in NextCall : ReaderOK(kind, w, p) => ReaderOK(kind, r, p)
             /\ \A fed \in Nat, gapless \in BOOLEAN, intact \in BOOLEAN :
                  Flow(w, fed, gapless, intact) => Flow(r, fed, gapless, intact)
<1> DEFINE r == PumpEncoded(w)
           next == BeginNext(w.reader, ENCODED_RING_BATCH)
<1>1. CASE r = w
  BY <1>1 DEF Aside, SameShow
<1>2. CASE /\ IsOpen(w) /\ ~w.session.ended /\ ~w.ring.ended /\ w.pump.call = NoCall
           /\ r \in WorldState
           /\ r.reader = next.reader /\ r.pump = [call |-> next.call, live |-> TRUE]
           /\ r.b = w.b /\ r.session = w.session /\ r.decoder = w.decoder
           /\ r.ring = w.ring /\ r.heal = w.heal /\ r.ops = w.ops /\ r.wanted = w.wanted
  <2>1. w.reader \in ReaderState /\ ENCODED_RING_BATCH \in Nat \ {0}
    BY Fields, WorkerAssumption
  <2>2. /\ next.reader \in ReaderState /\ next.reader.first = w.reader.first
        /\ next.call \in NextCall /\ next.call.phase \in {"begin", "reply"}
        /\ kind = "mcap" => next.call.phase = "reply"
        /\ kind # "mcap" => next.reader = w.reader
        /\ w.reader.pos <= N + 1 => next.reader.pos <= N + 1
        /\ CallOK(next.reader, next.call)
        /\ \A lo \in Nat, gapless \in BOOLEAN :
             Before(w.reader, lo, gapless) => ReadUpTo(next.reader, next.call, lo, gapless)
    BY <2>1, BeginNextOK
  <2> HIDE DEF next, r
  <2>3. r.pump.call = next.call /\ r.pump.live
    BY <1>2
  <2>4. next.call # NoCall /\ ~w.pump.live
    BY <1>2, <2>2 DEF NoCall, StreamOK, AliveOK
  <2>5. StreamOK(r)
    BY <1>2, <2>3, <2>4 DEF StreamOK, AliveOK, IsOpen
  <2>6. ASSUME NEW p \in NextCall, ReaderOK(kind, w, p)
        PROVE  ReaderOK(kind, r, p)
    BY <1>2, <2>2, <2>3, <2>6 DEF ReaderOK, Pending
  <2>7. ASSUME NEW fed \in Nat, NEW gapless \in BOOLEAN, NEW intact \in BOOLEAN,
               Flow(w, fed, gapless, intact)
        PROVE  Flow(r, fed, gapless, intact)
    <3>1. AheadOK(w, FedPos(w, fed), gapless) /\ FedPos(r, fed) = FedPos(w, fed)
          /\ FedPos(w, fed) \in Nat
      BY <1>2, <2>7, FedPosIs DEF Flow, FedPos
    <3>2. /\ Chain(w.ring.chunks, FedPos(w, fed), gapless)
          /\ Before(w.reader, Tip(w.ring.chunks, FedPos(w, fed)), gapless)
      BY <2>4, <3>1 DEF AheadOK
    <3>3. Tip(w.ring.chunks, FedPos(w, fed)) \in Nat
      BY <3>1, <3>2, TipIs, Fields DEF RingState
    <3>4. AheadOK(r, FedPos(r, fed), gapless)
      BY <1>2, <2>2, <2>3, <3>1, <3>2, <3>3 DEF AheadOK
    <3>5. OrderOK(r)
      BY <1>2, <2>7 DEF Flow, OrderOK, Output
    <3> QED
      BY <1>2, <2>7, <3>4, <3>5 DEF Flow
  <2> QED
    BY <1>2, <2>5, <2>6, <2>7 DEF Aside, SameShow, FramesOK, r
<1>3. r = w \/
        /\ IsOpen(w) /\ ~w.session.ended /\ ~w.ring.ended /\ w.pump.call = NoCall
        /\ r \in WorldState
        /\ r.reader = next.reader /\ r.pump = [call |-> next.call, live |-> TRUE]
        /\ r.b = w.b /\ r.session = w.session /\ r.decoder = w.decoder
        /\ r.ring = w.ring /\ r.heal = w.heal /\ r.ops = w.ops /\ r.wanted = w.wanted
  BY PumpEncodedCases
<1> QED
  BY <1>1, <1>2, <1>3

(* A refill moves chunks and changes nothing that is seen.                 *)
LEMMA MaybeRefillOK ==
  ASSUME NEW w \in WorldState, StreamOK(w), FramesOK(w)
  PROVE  LET r == MaybeRefill(w)
         IN  /\ Aside(w, r) /\ SameShow(w, r) /\ StreamOK(r) /\ FramesOK(r)
             /\ w.session.ended => r.session.ended
             /\ \A p \in NextCall : ReaderOK(kind, w, p) => ReaderOK(kind, r, p)
             /\ \A fed \in Nat, gapless \in BOOLEAN :
                  Flow(w, fed, gapless, gapless) => Flow(r, fed, gapless, gapless)
<1> DEFINE r == MaybeRefill(w)
           f == FeedFromRing(w)
           r2 == PumpEncoded(f)
<1>1. CASE ~IsOpen(w) \/ w.session.ended
  <2>1. r = w
    BY <1>1 DEF MaybeRefill
  <2> QED
    BY <2>1 DEF Aside, SameShow
<1>2. CASE IsOpen(w) /\ ~w.session.ended
  <2>1. r = r2
    BY <1>2 DEF MaybeRefill
  <2>2. AliveOK(w)
    BY DEF StreamOK
  <2>3. /\ Aside(w, f) /\ f.reader = w.reader /\ f.pump = w.pump
        /\ StreamOK(f) /\ FramesOK(f)
        /\ SameShow(w, f) \/ (DrainShow(w, f) /\ w.ring.ended /\ w.ring.chunks = <<>>)
    BY <2>2, FeedWorks
  <2>4. SameShow(w, f)
    BY <1>2, <2>3 DEF StreamOK
  <2>5. \A fed \in Nat, gapless \in BOOLEAN :
          Flow(w, fed, gapless, gapless) => Flow(f, fed, gapless, gapless)
    BY <2>2, FeedFlow
  <2> HIDE DEF f
  <2>6. f \in WorldState
    BY <2>3 DEF Aside
  <2>7. /\ Aside(f, r2) /\ SameShow(f, r2) /\ StreamOK(r2)
        /\ FramesOK(f) => FramesOK(r2)
        /\ \A p \in NextCall : ReaderOK(kind, f, p) => ReaderOK(kind, r2, p)
        /\ \A fed \in Nat, gapless \in BOOLEAN, intact \in BOOLEAN :
             Flow(f, fed, gapless, intact) => Flow(r2, fed, gapless, intact)
    BY <2>3, <2>6, PumpEncodedOK
  <2> HIDE DEF r, r2
  <2>8. \A p \in NextCall : ReaderOK(kind, w, p) => ReaderOK(kind, f, p)
    BY <2>3 DEF ReaderOK
  <2>9. Aside(w, r) /\ SameShow(w, r)
    BY <2>1, <2>3, <2>4, <2>7 DEF Aside, SameShow
  <2> QED
    BY <1>2, <2>1, <2>3, <2>5, <2>7, <2>8, <2>9 DEF r
<1> QED
  BY <1>1, <1>2

(* Nothing in the ring: there is nothing to feed.                          *)
LEMMA RefillEmpty ==
  ASSUME NEW w \in WorldState, StreamOK(w), IsOpen(w), ~w.session.ended,
         w.ring = [chunks |-> <<>>, ended |-> FALSE]
  PROVE  MaybeRefill(w).session = w.session /\ MaybeRefill(w).ring = w.ring
<1>1. FeedCount(w) \in 0..Len(w.ring.chunks) /\ Len(w.ring.chunks) = 0
  BY FeedCountOK
<1>2. FeedCount(w) = 0
  BY <1>1
<1>3. FeedFrom(w, 0) = w
  BY FeedNothing
<1>4. FeedFromRing(w) = w
  BY <1>2, <1>3 DEF FeedFromRing, FeedFrom
<1>5. MaybeRefill(w) = PumpEncoded(w)
  BY <1>4 DEF MaybeRefill
<1> QED
  BY <1>5, PumpEncodedOK

(* A batch of the pump arrives.                                            *)
LEMMA PumpReturnsOK ==
  ASSUME NEW w \in WorldState, StreamOK(w), FramesOK(w), NEW batch \in Seq(Samples)
  PROVE  LET r == PumpReturns(w, batch)
         IN  /\ Aside(w, r) /\ StreamOK(r) /\ FramesOK(r)
             /\ r.pump = NoPump /\ r.reader = w.reader
             /\ w.session.ended => r.session.ended
             /\ SameShow(w, r) \/ DrainShow(w, r)
             /\ \A p \in NextCall : ReaderOK(kind, w, p) => ReaderOK(kind, r, p)
             /\ ~w.pump.live => r.session = w.session /\ r.decoder = w.decoder /\ r.ring = w.ring
             /\ \A fed \in Nat, gapless \in BOOLEAN :
                  w.pump.live => (batch = w.pump.call.out =>
                    (Flow(w, fed, gapless, gapless) => Flow(r, fed, gapless, gapless)))
             /\ \A fed \in Nat, gapless \in BOOLEAN :
                  ~w.pump.live => (Flow(w, fed, gapless, gapless) => Flow(r, fed, gapless, gapless))
<1> DEFINE r == PumpReturns(w, batch)
           ring2 == IF batch = <<>> THEN [w.ring EXCEPT !.ended = TRUE]
                    ELSE [w.ring EXCEPT !.chunks = w.ring.chunks \o batch]
           idle == [w EXCEPT !.pump = NoPump]
           put == [w EXCEPT !.pump = NoPump, !.ring = ring2]
<1>1. w.ring \in RingState /\ w.ring.chunks \in Seq(Samples) /\ NoPump \in PumpState
  <2>1. NoCall \in NextCall
    BY CountAssumption DEF NoCall, NextCall
  <2> QED
    BY <2>1, Fields DEF RingState, PumpState, NoPump
<1>2. /\ ring2 \in RingState
      /\ ring2.chunks = w.ring.chunks \o batch
      /\ batch # <<>> => ring2.ended = w.ring.ended
  <2>1. w.ring.chunks \o batch \in Seq(Samples)
    BY <1>1
  <2>2. batch = <<>> => w.ring.chunks \o batch = w.ring.chunks
    BY <1>1
  <2> QED
    BY <1>1, <2>1, <2>2 DEF RingState
<1>3. r = IF ~w.pump.live \/ w.session.ended THEN idle ELSE FeedFromRing(put)
  <2> DEFINE arrived == IF batch = <<>>
                        THEN [idle EXCEPT !.ring.ended = TRUE]
                        ELSE [idle EXCEPT !.ring.chunks = @ \o batch]
  <2>1. arrived = put
    <3>1. CASE batch = <<>>
      <4>1. [idle EXCEPT !.ring.ended = TRUE] = [w EXCEPT !.pump = NoPump, !.ring = [w.ring EXCEPT !.ended = TRUE]]
        BY DEF WorldState
      <4> QED
        BY <3>1, <4>1
    <3>2. CASE batch # <<>>
      <4>1. [idle EXCEPT !.ring.chunks = @ \o batch]
              = [w EXCEPT !.pump = NoPump, !.ring = [w.ring EXCEPT !.chunks = w.ring.chunks \o batch]]
        BY DEF WorldState
      <4> QED
        BY <3>2, <4>1
    <3> QED
      BY <3>1, <3>2
  <2>2. r = IF ~w.pump.live \/ w.session.ended THEN idle ELSE FeedFromRing(arrived)
    BY DEF PumpReturns
  <2> HIDE DEF arrived, put, idle
  <2> QED
    BY <2>1, <2>2
<1> HIDE DEF ring2
<1>4. /\ idle \in WorldState /\ idle.pump = NoPump /\ idle.reader = w.reader
      /\ idle.b = w.b /\ idle.session = w.session /\ idle.decoder = w.decoder
      /\ idle.ring = w.ring /\ idle.heal = w.heal /\ idle.ops = w.ops /\ idle.wanted = w.wanted
  BY <1>1 DEF WorldState, PumpState
<1>5. /\ put \in WorldState /\ put.pump = NoPump /\ put.reader = w.reader
      /\ put.b = w.b /\ put.session = w.session /\ put.decoder = w.decoder
      /\ put.ring = ring2 /\ put.heal = w.heal /\ put.ops = w.ops /\ put.wanted = w.wanted
  BY <1>1, <1>2 DEF WorldState, PumpState, RingState
<1>6. NoPump.call = NoCall /\ ~NoPump.live /\ NoCall.phase = "none" /\ NoCall.out = <<>>
  BY DEF NoPump, NoCall
<1> HIDE DEF idle, put
<1>7. CASE ~w.pump.live \/ w.session.ended
  <2>1. r = idle
    BY <1>3, <1>7
  <2>2. StreamOK(r)
    BY <1>4, <1>6, <2>1 DEF StreamOK, AliveOK, IsOpen
  <2>3. \A p \in NextCall : ReaderOK(kind, w, p) => ReaderOK(kind, r, p)
    BY <1>4, <1>6, <2>1 DEF ReaderOK
  <2>4. ASSUME NEW fed \in Nat, NEW gapless \in BOOLEAN, Flow(w, fed, gapless, gapless)
        PROVE  Flow(r, fed, gapless, gapless)
    <3>1. OrderOK(r) /\ FedPos(r, fed) = FedPos(w, fed)
      BY <1>4, <2>1, <2>4 DEF Flow, OrderOK, Output, FedPos
    <3>2. IsOpen(r) /\ ~r.session.ended => AheadOK(r, FedPos(r, fed), gapless)
      BY <1>4, <1>6, <1>7, <2>1, <2>4, <3>1 DEF Flow, AheadOK, IsOpen
    <3> QED
      BY <1>4, <2>1, <2>4, <3>1, <3>2 DEF Flow
  <2> QED
    BY <1>4, <2>1, <2>2, <2>3, <2>4 DEF Aside, SameShow, FramesOK
<1>8. CASE w.pump.live /\ ~w.session.ended
  <2>1. r = FeedFromRing(put)
    BY <1>3, <1>8
  <2>2. AliveOK(put)
    BY <1>5, <1>6 DEF StreamOK, AliveOK, IsOpen
  <2>3. FramesOK(put)
    BY <1>5 DEF FramesOK
  <2> DEFINE q == FeedFromRing(put)
  <2>4. /\ Aside(put, q) /\ q.reader = put.reader /\ q.pump = put.pump
        /\ StreamOK(q) /\ FramesOK(q)
        /\ SameShow(put, q) \/ DrainShow(put, q)
    BY <1>5, <2>2, <2>3, FeedWorks
  <2>5. \A fed \in Nat, gapless \in BOOLEAN :
          Flow(put, fed, gapless, gapless) => Flow(q, fed, gapless, gapless)
    BY <1>5, <2>2, <2>3, FeedFlow
  <2> HIDE DEF q
  <2>6. r = q
    BY <2>1 DEF q
  <2> HIDE DEF r
  <2>7. Aside(w, r) /\ (SameShow(w, r) \/ DrainShow(w, r))
    BY <1>5, <2>4, <2>6 DEF Aside, SameShow, DrainShow, IsOpen
  <2>8. \A p \in NextCall : ReaderOK(kind, w, p) => ReaderOK(kind, r, p)
    BY <1>5, <1>6, <2>4, <2>6 DEF ReaderOK
  <2>9. ASSUME NEW fed \in Nat, NEW gapless \in BOOLEAN, batch = w.pump.call.out,
               Flow(w, fed, gapless, gapless)
        PROVE  Flow(r, fed, gapless, gapless)
    <3> DEFINE pos == FedPos(w, fed)
               tip == Tip(w.ring.chunks, pos)
    <3>1. IsOpen(w)
      BY <1>8 DEF StreamOK, AliveOK
    <3>2. pos \in Nat /\ FedPos(put, fed) = pos
      BY <1>5, FedPosIs DEF FedPos
    <3>3. AheadOK(w, pos, gapless)
      BY <1>8, <2>9, <3>1 DEF Flow
    <3>4. /\ Chain(w.ring.chunks, pos, gapless) /\ Chain(batch, tip, gapless)
          /\ w.reader.pos > Tip(batch, tip)
          /\ gapless => w.reader.pos = Tip(batch, tip) + 1
      BY <1>8, <2>9, <3>3 DEF AheadOK, ReadUpTo
    <3> HIDE DEF pos
    <3>5. /\ Chain(w.ring.chunks \o batch, pos, gapless)
          /\ Tip(w.ring.chunks \o batch, pos) = Tip(batch, tip)
      BY <1>1, <3>2, <3>4, ChainConcat
    <3>6. AheadOK(put, pos, gapless)
      BY <1>2, <1>5, <1>6, <3>4, <3>5 DEF AheadOK, Before
    <3>7. Flow(put, fed, gapless, gapless)
      BY <1>5, <2>9, <3>2, <3>6 DEF Flow, OrderOK, Output, pos
    <3> QED
      BY <2>5, <2>6, <3>7
  <2> QED
    BY <1>5, <1>8, <2>4, <2>6, <2>7, <2>8, <2>9 DEF r
<1> QED
  BY <1>7, <1>8

-----------------------------------------------------------------------------
(* A frame comes out of the decoder.                                       *)
Shown(w, f) ==
  IF f < w.session.from \/ ~w.b.canvas THEN w.b
  ELSE EmitFrame(EmitIfAny(w.b, w.session.pre), f)

LEMMA OnFrameOK ==
  ASSUME NEW w \in WorldState, StreamOK(w), FramesOK(w), IsOpen(w), NEW f \in Pts
  PROVE  LET r == OnFrame(w, f)
         IN  /\ r \in WorldState /\ StreamOK(r) /\ FramesOK(r)
             /\ r.heal = [w.heal EXCEPT !.count = 0] /\ r.ops = w.ops /\ r.wanted = w.wanted
             /\ r.session.from = w.session.from /\ r.session.out = w.session.out \cup {f}
             /\ r.session.drained = w.session.drained
             /\ r.session.pre = IF f < w.session.from THEN f ELSE NoPts
             /\ r.decoder.state = w.decoder.state /\ r.decoder.held = w.decoder.held
             /\ r.b.cursor = w.b.cursor /\ r.b.playing = w.b.playing /\ r.b.canvas = w.b.canvas
             /\ r.b = Shown(w, f)
             /\ \A p \in NextCall : ReaderOK(kind, w, p) => ReaderOK(kind, r, p)
             /\ \A fed \in Nat, gapless \in BOOLEAN :
                  Flow([w EXCEPT !.session.out = @ \cup {f}], fed, gapless, gapless) =>
                    Flow(r, fed, gapless, gapless)
<1> DEFINE r == OnFrame(w, f)
           s == [w.session EXCEPT !.out = w.session.out \cup {f}]
           h == [w.heal EXCEPT !.count = 0]
           alive == [w EXCEPT !.heal = h, !.session = s]
           late == [w EXCEPT !.session.out = @ \cup {f}]
<1>1. w.session \in SessionState /\ w.heal \in HealState /\ w.b \in BlitState
  BY Fields
<1>2. /\ s \in SessionState /\ s.out = w.session.out \cup {f} /\ s.from = w.session.from
      /\ s.pre = w.session.pre /\ s.ended = w.session.ended /\ s.drained = w.session.drained
  BY <1>1 DEF SessionState
<1>3. h \in HealState
  BY <1>1, WorkerAssumption DEF HealState
<1>4. /\ alive = [w EXCEPT !.heal.count = 0, !.session.out = @ \cup {f}]
      /\ late = [w EXCEPT !.session = s]
  BY DEF WorldState
<1> HIDE DEF s, h
<1>5. /\ alive \in WorldState /\ alive.b = w.b /\ alive.session = s /\ alive.decoder = w.decoder
      /\ alive.ring = w.ring /\ alive.reader = w.reader /\ alive.pump = w.pump
      /\ alive.heal = h /\ alive.ops = w.ops /\ alive.wanted = w.wanted
  BY <1>2, <1>3 DEF WorldState, HealState
<1>6. /\ late.session = s /\ late.decoder = w.decoder /\ late.ring = w.ring
      /\ late.reader = w.reader /\ late.pump = w.pump
  BY <1>4 DEF WorldState
<1> HIDE DEF alive, late
<1> DEFINE last == IF f < w.session.from \/ ~w.b.canvas THEN w.session.last ELSE f
           pre  == IF f < w.session.from THEN f ELSE NoPts
           s2   == [s EXCEPT !.last = last, !.pre = pre]
           x    == Shown(w, f)
           w2   == [alive EXCEPT !.b = x, !.session = s2]
<1>7. /\ s2 \in SessionState /\ s2.out = s.out /\ s2.from = s.from /\ s2.pre = pre
      /\ s2.ended = s.ended /\ s2.drained = s.drained
  BY <1>1, <1>2 DEF SessionState
<1>8. /\ x \in BlitState /\ x.playing = w.b.playing /\ x.canvas = w.b.canvas
      /\ x.cursor = w.b.cursor
      /\ Frames(x) \subseteq Frames(w.b) \cup {w.session.pre, f}
  <2>1. CASE f < w.session.from \/ ~w.b.canvas
    BY <1>1, <2>1 DEF Shown
  <2>2. CASE ~(f < w.session.from \/ ~w.b.canvas)
    <3> DEFINE y == EmitIfAny(w.b, w.session.pre)
    <3>1. Keeps(w.b, y, {w.session.pre})
      <4>1. EmitPre(w).b = y /\ Keeps(w.b, EmitPre(w).b, {w.session.pre})
        BY EmitPreOK
      <4> QED
        BY <4>1
    <3> HIDE DEF y
    <3>2. Keeps(y, EmitFrame(y, f), {f})
      BY <3>1, EmitKeeps DEF Keeps
    <3>3. x = EmitFrame(y, f)
      BY <2>2 DEF Shown, y
    <3> QED
      BY <3>1, <3>2, <3>3 DEF Keeps
  <2> QED
    BY <2>1, <2>2
<1>9. r = MaybeRefill(w2)
  <2>1. CASE f < w.session.from
    <3>1. r = MaybeRefill([alive EXCEPT !.session.pre = f])
      BY <1>4, <2>1 DEF OnFrame
    <3>2. [alive EXCEPT !.session.pre = f] = w2
      <4>1. x = alive.b /\ last = s.last /\ pre = f
        BY <1>2, <1>5, <2>1 DEF Shown, s
      <4>2. s2 = [s EXCEPT !.pre = f]
        BY <1>2, <4>1 DEF SessionState
      <4> HIDE DEF s2, x
      <4>3. w2 = [alive EXCEPT !.session = s2]
        BY <1>5, <4>1 DEF WorldState
      <4> QED
        BY <1>5, <4>2, <4>3
    <3> QED
      BY <3>1, <3>2
  <2>2. CASE ~(f < w.session.from) /\ ~w.b.canvas
    <3>1. r = MaybeRefill([alive EXCEPT !.session.pre = NoPts])
      BY <1>4, <2>2 DEF OnFrame
    <3>2. [alive EXCEPT !.session.pre = NoPts] = w2
      <4>1. x = alive.b /\ last = s.last /\ pre = NoPts
        BY <1>2, <1>5, <2>2 DEF Shown, s
      <4>2. s2 = [s EXCEPT !.pre = NoPts]
        BY <1>2, <4>1 DEF SessionState
      <4> HIDE DEF s2, x
      <4>3. w2 = [alive EXCEPT !.session = s2]
        BY <1>5, <4>1 DEF WorldState
      <4> QED
        BY <1>5, <4>2, <4>3
    <3> QED
      BY <3>1, <3>2
  <2>3. CASE ~(f < w.session.from) /\ w.b.canvas
    <3> DEFINE e == EmitPre(alive)
    <3>1. r = MaybeRefill([e EXCEPT !.b = EmitFrame(e.b, f), !.session.last = f])
      BY <1>4, <2>3 DEF OnFrame, Emit
    <3>2. /\ e \in WorldState /\ e.b = EmitIfAny(w.b, w.session.pre)
          /\ e.session.pre = NoPts
          /\ e.session.from = s.from /\ e.session.ended = s.ended
          /\ e.session.out = s.out /\ e.session.drained = s.drained
          /\ e.decoder = alive.decoder /\ e.ring = alive.ring /\ e.reader = alive.reader
          /\ e.pump = alive.pump /\ e.heal = alive.heal /\ e.ops = alive.ops
          /\ e.wanted = alive.wanted
      <4>1. LET y == EmitPre(alive)
            IN  /\ y \in WorldState /\ y.b = EmitIfAny(alive.b, alive.session.pre)
                /\ y.session.pre = NoPts
                /\ y.session.from = alive.session.from /\ y.session.ended = alive.session.ended
                /\ y.session.out = alive.session.out /\ y.session.drained = alive.session.drained
                /\ y.decoder = alive.decoder /\ y.ring = alive.ring /\ y.reader = alive.reader
                /\ y.pump = alive.pump /\ y.heal = alive.heal /\ y.ops = alive.ops
                /\ y.wanted = alive.wanted
        BY <1>5, EmitPreOK
      <4> QED
        BY <1>2, <1>5, <4>1
    <3> HIDE DEF e
    <3>3. x = EmitFrame(e.b, f) /\ last = f /\ pre = NoPts
      BY <2>3, <3>2 DEF Shown
    <3> HIDE DEF x
    <3>4. [e.session EXCEPT !.last = f] = s2
      BY <1>2, <3>2, <3>3, Fields DEF SessionState
    <3>5. [e EXCEPT !.b = x, !.session.last = f] = [e EXCEPT !.b = x, !.session = s2]
      BY <3>4
    <3> HIDE DEF s2
    <3>6. [e EXCEPT !.b = x, !.session = s2] = w2
      BY <1>5, <3>2 DEF WorldState
    <3> QED
      BY <3>1, <3>3, <3>5, <3>6
  <2> QED
    BY <2>1, <2>2, <2>3
<1> HIDE DEF s2, x
<1>10. /\ w2 \in WorldState /\ w2.b = x /\ w2.session = s2 /\ w2.decoder = w.decoder
       /\ w2.ring = w.ring /\ w2.reader = w.reader /\ w2.pump = w.pump
       /\ w2.heal = h /\ w2.ops = w.ops /\ w2.wanted = w.wanted
  BY <1>5, <1>7, <1>8 DEF WorldState
<1> HIDE DEF w2
<1>11. StreamOK(w2) /\ w2.session.from = w.session.from
  BY <1>2, <1>7, <1>10 DEF StreamOK, AliveOK, IsOpen
<1>12. FramesOK(w2)
  BY <1>2, <1>7, <1>8, <1>10 DEF FramesOK
<1>13. \A p \in NextCall : ReaderOK(kind, w, p) => ReaderOK(kind, w2, p)
  BY <1>10 DEF ReaderOK
<1>14. \A fed \in Nat, gapless \in BOOLEAN :
         Flow(late, fed, gapless, gapless) => Flow(w2, fed, gapless, gapless)
  BY <1>2, <1>6, <1>7, <1>10 DEF Flow, OrderOK, Output, AheadOK, FedPos, IsOpen
<1> DEFINE q == MaybeRefill(w2)
<1>15. /\ Aside(w2, q) /\ SameShow(w2, q) /\ StreamOK(q) /\ FramesOK(q)
       /\ \A p \in NextCall : ReaderOK(kind, w2, p) => ReaderOK(kind, q, p)
       /\ \A fed \in Nat, gapless \in BOOLEAN :
            Flow(w2, fed, gapless, gapless) => Flow(q, fed, gapless, gapless)
  BY <1>10, <1>11, <1>12, MaybeRefillOK
<1> HIDE DEF q
<1>16. r = q
  BY <1>9 DEF q
<1> HIDE DEF r
<1>17. /\ r.b = x /\ r.session.pre = pre /\ r.session.drained = s.drained /\ r.session.out = s.out
       /\ r.session.from = w.session.from
  BY <1>7, <1>10, <1>11, <1>15, <1>16 DEF Aside, SameShow
<1> QED
  BY <1>2, <1>8, <1>10, <1>13, <1>14, <1>15, <1>16, <1>17 DEF Aside, r, x, h, late

-----------------------------------------------------------------------------
(* Steps that leave the stream and its chunks alone.                       *)
Still(w, r) ==
  /\ r.session = w.session /\ r.decoder = w.decoder /\ r.ring = w.ring
  /\ r.reader = w.reader /\ r.pump = w.pump

LEMMA StillKeeps ==
  ASSUME NEW w, NEW r, Still(w, r)
  PROVE  /\ IsOpen(r) = IsOpen(w)
         /\ StreamOK(w) => StreamOK(r)
         /\ FramesOK(w) /\ Frames(r.b) \subseteq Frames(w.b) \cup {NoPts} => FramesOK(r)
         /\ \A p : ReaderOK(kind, w, p) => ReaderOK(kind, r, p)
         /\ \A fed, gapless, intact : Flow(w, fed, gapless, intact) => Flow(r, fed, gapless, intact)
<1>1. IsOpen(r) = IsOpen(w)
  BY DEF Still, IsOpen
<1>2. StreamOK(w) => StreamOK(r)
  BY DEF Still, StreamOK, AliveOK, IsOpen
<1>3. FramesOK(w) /\ Frames(r.b) \subseteq Frames(w.b) \cup {NoPts} => FramesOK(r)
  BY DEF Still, FramesOK
<1>4. ASSUME NEW p, ReaderOK(kind, w, p)
      PROVE  ReaderOK(kind, r, p)
  BY <1>4 DEF Still, ReaderOK
<1>5. ASSUME NEW fed, NEW gapless, NEW intact, Flow(w, fed, gapless, intact)
      PROVE  Flow(r, fed, gapless, intact)
  BY <1>5 DEF Still, Flow, OrderOK, Output, AheadOK, FedPos, IsOpen
<1> QED
  BY <1>1, <1>2, <1>3, <1>4, <1>5

(* Without output and without a stream nothing is out of order.            *)
LEMMA NoFlow ==
  ASSUME NEW w, w.session.out = {}, w.decoder.queue = <<>>, w.decoder.held = {},
         w.decoder.fed \in Nat, w.decoder.intact
  PROVE  /\ OrderOK(w)
         /\ ~IsOpen(w) => \A fed, gapless, intact : Flow(w, fed, gapless, intact)
<1>1. Output(w) = {}
  BY DEF Output
<1>2. OrderOK(w)
  <2>1. Chain(<<>>, 0, FALSE) /\ Tip(<<>>, 0) = 0
    BY EmptyChain
  <2>2. \A i \in {0} \cup w.decoder.held \cup Output(w) : i = 0
    BY <1>1
  <2>3. \A i \in {0} \cup w.decoder.held \cup Output(w) :
          Chain(w.decoder.queue, i, FALSE) /\ Tip(w.decoder.queue, i) <= w.decoder.fed
    <3> TAKE i \in {0} \cup w.decoder.held \cup Output(w)
    <3>1. i = 0
      BY <2>2
    <3>2. Chain(w.decoder.queue, 0, FALSE) /\ Tip(w.decoder.queue, 0) = 0
      BY <2>1
    <3>3. 0 <= w.decoder.fed
      OBVIOUS
    <3> QED
      BY <3>1, <3>2, <3>3
  <2> QED
    BY <1>1, <2>3 DEF OrderOK
<1> QED
  BY <1>2 DEF Flow

LEMMA NoStreamType ==
  /\ NoSession \in SessionState /\ NoDecoder \in DecoderState
  /\ NoCall \in NextCall /\ NoPump \in PumpState
  /\ NoSession.from = NoPts /\ NoSession.pre = NoPts /\ NoSession.out = {} /\ ~NoSession.ended
  /\ NoDecoder.queue = <<>> /\ NoDecoder.held = {} /\ NoDecoder.fed = 0 /\ NoDecoder.intact
  /\ NoDecoder.state = "none" /\ ~NoDecoder.flushing
BY CountAssumption DEF NoSession, NoDecoder, NoCall, NoPump, SessionState, DecoderState, NextCall, PumpState

(* An operation joins the chain.                                           *)
LEMMA Joins ==
  ASSUME NEW w \in WorldState, ChainOK(w), NEW r \in WorldState, NEW o \in OperationType,
         UserOrHeal(o), r.ops = Append(w.ops, o),
         IF o.heal THEN ~w.heal.inFlight /\ r.heal.inFlight ELSE r.heal.inFlight = w.heal.inFlight
  PROVE  ChainOK(r)
<1>1. w.ops \in Seq(OperationType)
  BY Fields
<1>2. /\ Len(r.ops) = Len(w.ops) + 1 /\ Len(w.ops) \in Nat
      /\ \A k \in 1..Len(w.ops) : r.ops[k] = w.ops[k]
      /\ r.ops[Len(w.ops) + 1] = o
  BY <1>1
<1>3. \A k \in 1..Len(r.ops) : k \in 1..Len(w.ops) \/ k = Len(w.ops) + 1
  BY <1>2
<1>4. \A k \in 1..Len(w.ops) : k \in 1..Len(r.ops)
  BY <1>2
<1>5. Len(w.ops) + 1 \in 1..Len(r.ops)
  BY <1>2
<1>6. \A k \in 1..Len(r.ops) : UserOrHeal(r.ops[k])
  BY <1>2, <1>3 DEF ChainOK
<1>7. CASE o.heal
  <2>1. \A k \in 1..Len(w.ops) : ~w.ops[k].heal
    BY <1>7 DEF ChainOK
  <2>2. \A k \in 1..Len(r.ops) : r.ops[k].heal => k = Len(w.ops) + 1
    BY <1>2, <1>3, <2>1
  <2> QED
    BY <1>2, <1>5, <1>6, <1>7, <2>2 DEF ChainOK
<1>8. CASE ~o.heal
  <2>1. \A k \in 1..Len(r.ops) : r.ops[k].heal => k \in 1..Len(w.ops)
    BY <1>2, <1>3, <1>8
  <2>2. (\E k \in 1..Len(r.ops) : r.ops[k].heal) <=> (\E k \in 1..Len(w.ops) : w.ops[k].heal)
    BY <1>2, <1>4, <2>1
  <2> QED
    BY <1>2, <1>6, <1>8, <2>1, <2>2 DEF ChainOK
<1> QED
  BY <1>7, <1>8

(* The head of the chain leaves it.                                        *)
LEMMA Leaves ==
  ASSUME NEW w \in WorldState, ChainOK(w), NEW r \in WorldState, w.ops # <<>>,
         r.ops = Tail(w.ops), r.heal.inFlight = (w.heal.inFlight /\ ~w.ops[1].heal)
  PROVE  ChainOK(r)
<1>1. w.ops \in Seq(OperationType) /\ Len(w.ops) \in Nat \ {0}
  BY Fields
<1>2. /\ Len(r.ops) = Len(w.ops) - 1 /\ Len(r.ops) \in Nat
      /\ \A k \in 1..Len(r.ops) : r.ops[k] = w.ops[k + 1] /\ k + 1 \in 1..Len(w.ops) /\ k + 1 # 1
  BY <1>1
<1>3. \A k \in 1..Len(w.ops) : k # 1 => k - 1 \in 1..Len(r.ops) /\ r.ops[k - 1] = w.ops[k]
  BY <1>1, <1>2
<1>4. 1 \in 1..Len(w.ops)
  BY <1>1
<1>5. \A k \in 1..Len(r.ops) : UserOrHeal(r.ops[k])
  BY <1>2 DEF ChainOK
<1>6. \A j, k \in 1..Len(r.ops) : r.ops[j].heal /\ r.ops[k].heal => j = k
  <2> TAKE j, k \in 1..Len(r.ops)
  <2> HAVE r.ops[j].heal /\ r.ops[k].heal
  <2>1. w.ops[j + 1].heal /\ w.ops[k + 1].heal /\ j + 1 \in 1..Len(w.ops) /\ k + 1 \in 1..Len(w.ops)
    BY <1>2
  <2>2. j + 1 = k + 1
    BY <2>1 DEF ChainOK
  <2> QED
    BY <2>2
<1>7. w.heal.inFlight <=> \E k \in 1..Len(w.ops) : w.ops[k].heal
  BY DEF ChainOK
<1>8. r.heal.inFlight <=> \E k \in 1..Len(r.ops) : r.ops[k].heal
  <2>1. CASE w.ops[1].heal
    <3>1. ASSUME NEW k \in 1..Len(r.ops), r.ops[k].heal
          PROVE  FALSE
      <4>1. k + 1 = 1
        BY <1>2, <1>4, <2>1, <3>1 DEF ChainOK
      <4> QED
        BY <4>1
    <3> QED
      BY <2>1, <3>1
  <2>2. CASE ~w.ops[1].heal
    <3>1. ASSUME w.heal.inFlight
          PROVE  \E k \in 1..Len(r.ops) : r.ops[k].heal
      <4>1. PICK k \in 1..Len(w.ops) : w.ops[k].heal
        BY <1>7, <3>1
      <4>2. k # 1
        BY <2>2, <4>1
      <4> QED
        BY <1>3, <4>1, <4>2
    <3>2. ASSUME NEW k \in 1..Len(r.ops), r.ops[k].heal
          PROVE  w.heal.inFlight
      BY <1>2, <1>7, <3>2
    <3> QED
      BY <2>2, <3>1, <3>2
  <2> QED
    BY <2>1, <2>2
<1> QED
  BY <1>5, <1>6, <1>8 DEF ChainOK

-----------------------------------------------------------------------------
(* What the handlers make of the record.                                   *)
LEMMA SettledIs ==
  ASSUME NEW w \in WorldState, ChainOK(w), w.ops # <<>>, w.ops[1] = Head1
  PROVE  LET r == Settled(w)
         IN  /\ r \in WorldState /\ ChainOK(r) /\ Still(w, r)
             /\ r.b = w.b /\ r.wanted = w.wanted /\ r.ops = Tail(w.ops)
             /\ r.heal.error = w.heal.error /\ r.heal.count = w.heal.count
             /\ ~Head1.heal => r.heal.inFlight = w.heal.inFlight
<1> DEFINE inFlight == w.heal.inFlight /\ ~Head1.heal
           r == [w EXCEPT !.ops = Tail(w.ops), !.heal.inFlight = inFlight]
<1>1. w.ops \in Seq(OperationType) /\ w.heal \in HealState
  BY Fields
<1>2. Tail(w.ops) \in Seq(OperationType) /\ inFlight \in BOOLEAN
  BY <1>1
<1>3. inFlight = (w.heal.inFlight /\ ~w.ops[1].heal) /\ (~Head1.heal => inFlight = w.heal.inFlight)
  BY <1>1 DEF HealState
<1>4. Settled(w) = r
  BY DEF Settled
<1> HIDE DEF inFlight
<1>5. /\ r \in WorldState /\ r.ops = Tail(w.ops) /\ r.heal.inFlight = inFlight
      /\ r.heal.error = w.heal.error /\ r.heal.count = w.heal.count
      /\ r.b = w.b /\ r.wanted = w.wanted /\ Still(w, r)
  BY <1>2 DEF WorldState, Still
<1> HIDE DEF r
<1>6. ChainOK(r)
  BY <1>3, <1>5, Leaves
<1> QED
  BY <1>3, <1>4, <1>5, <1>6

LEMMA OnDecoderErrorIs ==
  ASSUME NEW w \in WorldState, ChainOK(w), w.b.cursor \in Cursors
  PROVE  LET r == OnDecoderError(w)
         IN  /\ r \in WorldState /\ ChainOK(r) /\ r.b = w.b /\ r.decoder = w.decoder
             /\ r.ring = w.ring /\ r.reader = w.reader /\ r.pump = w.pump
             /\ r.session = [w.session EXCEPT !.ended = TRUE, !.pre = NoPts]
             /\ r.heal.error
             /\ r.heal.inFlight \/ r.heal.count = MAX_SELF_HEAL_ATTEMPTS
             /\ \/ r.ops = w.ops /\ r.wanted = w.wanted
                \/ /\ r.ops = Append(w.ops, Op("seek", w.b.cursor, TRUE, TRUE))
                   /\ r.wanted = w.b.cursor
<1> DEFINE s == [w.session EXCEPT !.ended = TRUE, !.pre = NoPts]
           h == [w.heal EXCEPT !.error = TRUE]
           latched == [w EXCEPT !.heal = h, !.session = s]
           o == Op("seek", w.b.cursor, TRUE, TRUE)
<1>1. /\ w.session \in SessionState /\ w.heal \in HealState /\ w.ops \in Seq(OperationType)
      /\ w.b.cursor \in Nat
  BY Fields, WorkerAssumption
<1>2. s \in SessionState
  BY <1>1 DEF SessionState
<1>3. h \in HealState /\ h.error /\ h.inFlight = w.heal.inFlight /\ h.count = w.heal.count
  BY <1>1 DEF HealState
<1>4. latched = [w EXCEPT !.heal.error = TRUE, !.session.ended = TRUE, !.session.pre = NoPts]
  BY DEF WorldState
<1>5. o \in OperationType /\ o.heal /\ UserOrHeal(o)
  BY <1>1 DEF Op, OperationType, UserOrHeal
<1> HIDE DEF s, h
<1>6. /\ latched \in WorldState /\ latched.session = s /\ latched.heal = h
      /\ latched.b = w.b /\ latched.decoder = w.decoder /\ latched.ring = w.ring
      /\ latched.reader = w.reader /\ latched.pump = w.pump
      /\ latched.ops = w.ops /\ latched.wanted = w.wanted
  BY <1>2, <1>3 DEF WorldState, HealState
<1> HIDE DEF latched
<1>7. CASE w.heal.inFlight \/ w.heal.count >= MAX_SELF_HEAL_ATTEMPTS
  <2>1. OnDecoderError(w) = latched
    BY <1>4, <1>7 DEF OnDecoderError
  <2>2. w.heal.inFlight \/ w.heal.count = MAX_SELF_HEAL_ATTEMPTS
    BY <1>1, <1>7, WorkerAssumption DEF HealState
  <2>3. ChainOK(latched)
    BY <1>3, <1>6 DEF ChainOK
  <2> QED
    BY <1>3, <1>6, <2>1, <2>2, <2>3 DEF s
<1>8. CASE ~(w.heal.inFlight \/ w.heal.count >= MAX_SELF_HEAL_ATTEMPTS)
  <2> DEFINE h2 == [h EXCEPT !.inFlight = TRUE, !.count = h.count + 1]
             q == Append(w.ops, o)
             r == [latched EXCEPT !.heal = h2, !.ops = q, !.wanted = w.b.cursor]
  <2>1. h2 \in HealState /\ h2.inFlight /\ h2.error
    <3>1. h.count + 1 \in 0..MAX_SELF_HEAL_ATTEMPTS
      BY <1>1, <1>3, <1>8, WorkerAssumption DEF HealState
    <3> QED
      BY <1>3, <3>1 DEF HealState
  <2>2. q \in Seq(OperationType)
    <3>1. \A x \in Seq(OperationType), y \in OperationType : Append(x, y) \in Seq(OperationType)
      OBVIOUS
    <3> QED
      BY <1>1, <1>5, <3>1
  <2>3. OnDecoderError(w) = r
    <3>1. OnDecoderError(w) = [latched EXCEPT !.heal.inFlight = TRUE, !.heal.count = @ + 1,
                                             !.ops = Append(@, o), !.wanted = w.b.cursor]
      BY <1>4, <1>8 DEF OnDecoderError
    <3>2. latched.heal = h /\ latched.ops = w.ops
      BY <1>6
    <3>3. [latched EXCEPT !.heal.inFlight = TRUE, !.heal.count = @ + 1,
                          !.ops = Append(@, o), !.wanted = w.b.cursor] = r
      BY <1>3, <3>2 DEF HealState
    <3> QED
      BY <3>1, <3>3
  <2> HIDE DEF h2, q
  <2>4. /\ r \in WorldState /\ r.session = s /\ r.heal = h2 /\ r.ops = q /\ r.wanted = w.b.cursor
        /\ r.b = w.b /\ r.decoder = w.decoder /\ r.ring = w.ring
        /\ r.reader = w.reader /\ r.pump = w.pump
    BY <1>1, <1>6, <2>1, <2>2 DEF WorldState, HealState
  <2> HIDE DEF r
  <2>5. ChainOK(r)
    <3>1. r.ops = Append(w.ops, o)
      BY <2>4 DEF q
    <3> HIDE DEF o
    <3>2. ~w.heal.inFlight /\ r.heal.inFlight
      BY <1>8, <2>1, <2>4
    <3> QED
      BY <1>5, <2>4, <3>1, <3>2, Joins
  <2> QED
    BY <2>1, <2>3, <2>4, <2>5 DEF s, q
<1> QED
  BY <1>7, <1>8

(* Of the record all that holds at any time; p is the call of the opening  *)
(* operation.                                                              *)
WorldInv(w, p) ==
  /\ w \in WorldState
  /\ ChainOK(w) /\ CursorOK(w) /\ StreamOK(w) /\ FramesOK(w)
  /\ ReaderOK(kind, w, p)

LEMMA TeardownIs ==
  ASSUME NEW w, NEW p, WorldInv(w, p)
  PROVE  LET r == Teardown(w)
         IN  /\ WorldInv(r, p) /\ ~IsOpen(r)
             /\ r.session = NoSession /\ r.decoder = NoDecoder /\ r.b = FlushBlitQueue(w.b)
             /\ r.b.cursor = w.b.cursor /\ r.b.playing = w.b.playing
             /\ r.pump.call = w.pump.call /\ r.ring = w.ring /\ r.reader = w.reader
             /\ r.heal = w.heal /\ r.ops = w.ops /\ r.wanted = w.wanted
             /\ \A fed, gapless, intact : Flow(r, fed, gapless, intact)
<1> DEFINE x == FlushBlitQueue(w.b)
           y == [w.pump EXCEPT !.live = FALSE]
           r == [w EXCEPT !.b = x, !.session = NoSession, !.decoder = NoDecoder, !.pump = y]
<1>1. w \in WorldState /\ w.b \in BlitState /\ w.pump \in PumpState
  BY Fields DEF WorldInv
<1>2. x \in BlitState /\ Frames(x) = {NoPts} /\ x.cursor = w.b.cursor /\ x.playing = w.b.playing
  BY <1>1, FlushKeeps
<1>3. y \in PumpState /\ ~y.live /\ y.call = w.pump.call
  BY <1>1 DEF PumpState
<1>4. Teardown(w) = r
  BY DEF Teardown
<1> HIDE DEF x, y
<1>5. /\ r \in WorldState /\ r.b = x /\ r.session = NoSession /\ r.decoder = NoDecoder
      /\ r.pump = y /\ r.ring = w.ring /\ r.reader = w.reader
      /\ r.heal = w.heal /\ r.ops = w.ops /\ r.wanted = w.wanted
  BY <1>1, <1>2, <1>3, NoStreamType DEF WorldState, PumpState
<1> HIDE DEF r
<1>6. ~IsOpen(r)
  BY <1>5, NoStreamType DEF IsOpen
<1>7. ChainOK(r) /\ CursorOK(r) /\ FramesOK(r)
  BY <1>2, <1>5, <1>6, NoStreamType DEF WorldInv, ChainOK, CursorOK, FramesOK
<1>8. StreamOK(r)
  BY <1>3, <1>5, <1>6, NoStreamType DEF StreamOK, AliveOK, NoSession
<1>9. ReaderOK(kind, r, p)
  BY <1>3, <1>5 DEF WorldInv, ReaderOK
<1>10. \A fed, gapless, intact : Flow(r, fed, gapless, intact)
  BY <1>5, <1>6, NoStreamType, NoFlow
<1> QED
  BY <1>2, <1>3, <1>4, <1>5, <1>6, <1>7, <1>8, <1>9, <1>10 DEF WorldInv, x

LEMMA CloseFirstIs ==
  ASSUME NEW w, NEW p, WorldInv(w, p)
  PROVE  LET r == CloseFirst(w)
         IN  /\ WorldInv(r, p) /\ ~IsOpen(r)
             /\ r.session = NoSession /\ r.decoder = NoDecoder /\ r.b = FlushBlitQueue(w.b)
             /\ r.b.cursor = w.b.cursor /\ r.b.playing = w.b.playing
             /\ r.heal = w.heal /\ r.ops = w.ops /\ r.wanted = w.wanted
             /\ \A fed, gapless, intact : Flow(r, fed, gapless, intact)
<1> DEFINE t == Teardown(w)
           empty == [chunks |-> <<>>, ended |-> FALSE]
           r == [t EXCEPT !.ring = empty]
<1>1. /\ WorldInv(t, p) /\ ~IsOpen(t)
      /\ t.session = NoSession /\ t.decoder = NoDecoder /\ t.b = FlushBlitQueue(w.b)
      /\ t.b.cursor = w.b.cursor /\ t.b.playing = w.b.playing
      /\ t.heal = w.heal /\ t.ops = w.ops /\ t.wanted = w.wanted
  BY TeardownIs
<1>2. CloseFirst(w) = r
  BY DEF CloseFirst
<1> HIDE DEF t
<1>3. empty \in RingState
  BY DEF RingState
<1> HIDE DEF empty
<1>4. /\ r \in WorldState /\ r.ring = empty /\ r.b = t.b /\ r.session = t.session
      /\ r.decoder = t.decoder /\ r.pump = t.pump /\ r.reader = t.reader
      /\ r.heal = t.heal /\ r.ops = t.ops /\ r.wanted = t.wanted
  BY <1>1, <1>3 DEF WorldInv, WorldState, RingState
<1> HIDE DEF r
<1>5. ~IsOpen(r) /\ ChainOK(r) /\ CursorOK(r) /\ FramesOK(r)
  BY <1>1, <1>4 DEF WorldInv, IsOpen, ChainOK, CursorOK, FramesOK
<1>6. StreamOK(r)
  BY <1>1, <1>4, <1>5 DEF WorldInv, StreamOK, AliveOK, IsOpen
<1>7. ReaderOK(kind, r, p)
  BY <1>1, <1>4 DEF WorldInv, ReaderOK
<1>8. \A fed, gapless, intact : Flow(r, fed, gapless, intact)
  BY <1>1, <1>4, <1>5, NoStreamType, NoFlow
<1> QED
  BY <1>1, <1>2, <1>4, <1>5, <1>6, <1>7, <1>8 DEF WorldInv

LEMMA BeginOpenIs ==
  ASSUME NEW w, NEW p, WorldInv(w, p), ~IsOpen(w), Head1.target \in Cursors
  PROVE  LET r == BeginOpen(w)
         IN  /\ WorldInv(r, p) /\ Still(w, r) /\ ~IsOpen(r)
             /\ r.b = Reseed(w.b, Head1.target)
             /\ r.b.cursor \in Cursors /\ r.b.playing = w.b.playing
             /\ r.b.cursor = IF w.b.cursor < Head1.target THEN Head1.target ELSE w.b.cursor
             /\ ~r.heal.error /\ r.heal.inFlight = w.heal.inFlight /\ r.ops = w.ops
             /\ r.wanted = w.wanted
<1> DEFINE x == Reseed(w.b, Head1.target)
           h == [w.heal EXCEPT !.error = FALSE]
           r == [w EXCEPT !.heal = h, !.b = x]
<1>1. w \in WorldState /\ w.b \in BlitState /\ w.heal \in HealState /\ Head1.target \in Nat
      /\ w.b.cursor \in Nat
  BY Fields, WorkerAssumption DEF WorldInv, BlitState
<1>2. /\ x \in BlitState /\ Frames(x) \subseteq Frames(w.b) /\ x.playing = w.b.playing
      /\ x.cursor = IF w.b.cursor < Head1.target THEN Head1.target ELSE w.b.cursor
  BY <1>1, ReseedKeeps DEF Moves
<1>3. x.cursor \in Cursors
  <2>1. w.b.cursor \in Cursors \cup {0}
    BY DEF WorldInv, CursorOK
  <2>2. w.b.cursor = 0 /\ ~(w.b.cursor < Head1.target) => Head1.target = 0
    BY <1>1
  <2> QED
    BY <1>2, <2>1, <2>2
<1>4. h \in HealState /\ ~h.error /\ h.inFlight = w.heal.inFlight
  BY <1>1 DEF HealState
<1>5. BeginOpen(w) = r
  BY DEF BeginOpen
<1> HIDE DEF x, h
<1>6. /\ r \in WorldState /\ r.b = x /\ r.heal = h /\ r.ops = w.ops /\ r.wanted = w.wanted
      /\ Still(w, r)
  BY <1>1, <1>2, <1>4 DEF WorldState, HealState, Still
<1> HIDE DEF r
<1>7. ~IsOpen(r) /\ StreamOK(r) /\ FramesOK(r) /\ ReaderOK(kind, r, p)
  BY <1>2, <1>6, StillKeeps DEF WorldInv
<1>8. ChainOK(r) /\ CursorOK(r)
  BY <1>3, <1>4, <1>6 DEF WorldInv, ChainOK, CursorOK
<1> QED
  BY <1>2, <1>3, <1>4, <1>5, <1>6, <1>7, <1>8 DEF WorldInv, x

(* The keyframe a stream is opened at.                                     *)
LEMMA StartSampleOK ==
  ASSUME NEW t
  PROVE  StartSample(t) \in SyncSamples /\ StartSample(t) \in Samples /\ StartSample(t) - 1 \in Nat
<1> DEFINE before == {i \in Samples : PtsOf[i] <= t}
           cand   == CHOOSE i \in before : \A j \in before : PtsOf[j] <= PtsOf[i]
           syncs  == {i \in SyncSamples : before # {} /\ i <= cand}
<1>1. SyncSamples \in SUBSET Nat /\ SyncSamples # {} /\ SyncSamples \subseteq Samples
  BY SyncAssumption, CountAssumption DEF Samples
<1>2. StartSample(t) = IF syncs = {} THEN Min(SyncSamples) ELSE Max(syncs)
  BY DEF StartSample
<1>3. syncs \subseteq SyncSamples
  OBVIOUS
<1> HIDE DEF syncs
<1>4. Min(SyncSamples) \in SyncSamples
  BY <1>1, MinIs
<1>5. syncs # {} => Max(syncs) \in syncs
  <2>1. IsFiniteSet(Samples)
    BY FS_Interval, CountAssumption DEF Samples
  <2>2. IsFiniteSet(syncs) /\ syncs \in SUBSET Nat
    BY <1>1, <1>3, <2>1, FS_Subset
  <2> QED
    BY <2>2, MaxIs
<1>6. StartSample(t) \in SyncSamples
  BY <1>2, <1>3, <1>4, <1>5
<1>7. \A i \in Samples : i - 1 \in Nat
  BY CountAssumption DEF Samples
<1>8. StartSample(t) \in Samples
  BY <1>1, <1>6
<1> QED
  BY <1>6, <1>7, <1>8

(* The stream exists, its first batch is being read.                       *)
OpenedWith(w, reader0) ==
  [w EXCEPT !.session = [NoSession EXCEPT !.from = Head1.target],
            !.decoder = [NoDecoder EXCEPT !.state = "unconfigured"],
            !.ring = [chunks |-> <<>>, ended |-> FALSE],
            !.reader = reader0]

LEMMA OpenedIs ==
  ASSUME NEW w, NEW p, WorldInv(w, p), ~IsOpen(w), Head1.target \in Cursors, w.b.cursor \in Cursors,
         kind \in {"mcap", "mp4"}
  PROVE  LET next == BeginNext(OpenReader(Head1.target), PRIMING_BATCH)
             r    == OpenedWith(w, next.reader)
             lo   == StartSample(Head1.target) - 1
         IN  /\ WorldInv(r, next.call) /\ next.call \in NextCall
             /\ next.call.phase \in {"begin", "reply"}
             /\ r.b = w.b /\ r.heal = w.heal /\ r.ops = w.ops /\ r.wanted = w.wanted
             /\ r.session = [NoSession EXCEPT !.from = Head1.target]
             /\ r.session.from = Head1.target /\ ~r.session.ended
             /\ r.decoder.state = "unconfigured" /\ ~r.pump.live
             /\ r.ring = [chunks |-> <<>>, ended |-> FALSE]
             /\ CallOK(r.reader, next.call)
             /\ \A gapless \in BOOLEAN :
                  /\ Chain(next.call.out, lo, gapless)
                  /\ Flow(r, Tip(next.call.out, lo), gapless, gapless)
<1> DEFINE rd   == OpenReader(Head1.target)
           next == BeginNext(rd, PRIMING_BATCH)
           s    == [NoSession EXCEPT !.from = Head1.target]
           d    == [NoDecoder EXCEPT !.state = "unconfigured"]
           ring0 == [chunks |-> <<>>, ended |-> FALSE]
           lo   == StartSample(Head1.target) - 1
           r    == [w EXCEPT !.session = s, !.decoder = d, !.ring = ring0, !.reader = next.reader]
<1>1. w \in WorldState /\ Head1.target \in Nat /\ Head1.target # NoPts
  <2>1. Head1.target \in Nat
    BY WorkerAssumption
  <2>2. \A t \in Nat : t # NoPts
    BY DEF NoPts
  <2> QED
    BY <2>1, <2>2 DEF WorldInv
<1>2. /\ kind = "mcap" => ~rd.first
      /\ rd.pos \in Samples /\ lo \in Nat /\ rd \in ReaderState
      /\ \A gapless \in BOOLEAN : Before(rd, lo, gapless)
  <2>1. StartSample(Head1.target) \in Samples /\ lo \in Nat
    BY StartSampleOK
  <2>2. rd = [pos |-> StartSample(Head1.target), first |-> kind = "mp4"]
    BY DEF OpenReader
  <2>3. kind = "mcap" => ~rd.first
    <3>1. ASSUME kind = "mcap"
          PROVE  (kind = "mp4") = FALSE
      BY <3>1
    <3>2. ASSUME kind = "mcap"
          PROVE  rd = [pos |-> StartSample(Head1.target), first |-> FALSE]
      BY <2>2, <3>1, <3>2, Zenon
    <3> HIDE DEF rd
    <3> QED
      BY <3>2
  <2> QED
    BY <2>1, <2>2, <2>3, CountAssumption DEF Before, ReaderState, Samples
<1> HIDE DEF rd, lo
<1>3. /\ next.reader \in ReaderState /\ next.reader.first = rd.first
      /\ next.call \in NextCall /\ next.call.phase \in {"begin", "reply"}
      /\ kind = "mcap" => next.call.phase = "reply"
      /\ kind # "mcap" => next.reader = rd
      /\ rd.pos <= N + 1 => next.reader.pos <= N + 1
      /\ CallOK(next.reader, next.call)
      /\ \A gapless \in BOOLEAN : ReadUpTo(next.reader, next.call, lo, gapless)
  <2>1. PRIMING_BATCH \in Nat \ {0}
    BY WorkerAssumption
  <2> DEFINE x == BeginNext(rd, PRIMING_BATCH)
  <2>2. /\ x.reader \in ReaderState /\ x.reader.first = rd.first
        /\ x.call \in NextCall
        /\ x.call.phase \in {"begin", "reply"}
        /\ kind = "mcap" => x.call.phase = "reply"
        /\ kind # "mcap" => x.reader = rd
        /\ rd.pos <= N + 1 => x.reader.pos <= N + 1
        /\ CallOK(x.reader, x.call)
        /\ \A l \in Nat, gapless \in BOOLEAN :
             Before(rd, l, gapless) => ReadUpTo(x.reader, x.call, l, gapless)
    BY <1>2, <2>1, BeginNextOK
  <2> HIDE DEF x
  <2> QED
    BY <1>2, <2>2 DEF x
<1> HIDE DEF next
<1>4. s \in SessionState /\ s.from = Head1.target /\ s.pre = NoPts /\ s.out = {} /\ ~s.ended
      /\ ~s.drained
  BY <1>1 DEF NoSession, SessionState
<1>5. /\ d \in DecoderState /\ d.state = "unconfigured" /\ d.queue = <<>> /\ d.held = {}
      /\ d.fed = 0 /\ d.intact /\ ~d.flushing
  <2>1. NoDecoder \in DecoderState
    BY NoStreamType
  <2>2. d = [state |-> "unconfigured", queue |-> NoDecoder.queue, held |-> NoDecoder.held,
             flushing |-> NoDecoder.flushing, fed |-> NoDecoder.fed, intact |-> NoDecoder.intact]
    BY <2>1 DEF DecoderState
  <2> HIDE DEF d
  <2>3. d \in DecoderState
    BY <2>1, <2>2 DEF DecoderState
  <2> QED
    BY <2>2, <2>3, NoStreamType
<1>6. ring0 \in RingState /\ ring0.chunks = <<>> /\ ~ring0.ended
  BY DEF RingState
<1>7. d = [NoDecoder EXCEPT !.state = "unconfigured"]
  OBVIOUS
<1> HIDE DEF s, d, ring0
<1>8. /\ r \in WorldState /\ r.session = s /\ r.decoder = d /\ r.ring = ring0
      /\ r.reader = next.reader /\ r.b = w.b /\ r.pump = w.pump
      /\ r.heal = w.heal /\ r.ops = w.ops /\ r.wanted = w.wanted
  BY <1>1, <1>3, <1>4, <1>5, <1>6 DEF WorldState, RingState
<1>9. OpenedWith(w, next.reader) = r
  BY DEF OpenedWith, s, d, ring0
<1> HIDE DEF r
<1>10. ~w.pump.live
  BY DEF WorldInv, StreamOK, AliveOK
<1>11. IsOpen(r) /\ ChainOK(r) /\ CursorOK(r)
  BY <1>1, <1>4, <1>8 DEF WorldInv, IsOpen, ChainOK, CursorOK
<1>12. FramesOK(r)
  <2>1. w.session = NoSession
    BY DEF WorldInv, StreamOK, AliveOK
  <2> QED
    BY <1>4, <1>8, <2>1, NoStreamType DEF WorldInv, FramesOK
<1>13. StreamOK(r)
  BY <1>4, <1>5, <1>6, <1>7, <1>8, <1>10, <1>11 DEF StreamOK, AliveOK
<1>14. ReaderOK(kind, r, next.call)
  <2>1. kind = "mp4" => next.reader.pos <= N
    BY <1>2, <1>3, CountAssumption DEF Samples
  <2>2. kind = "mcap" => next.reader.pos <= N + 1 /\ ~next.reader.first
    BY <1>2, <1>3, CountAssumption DEF Samples
  <2>3. next.reader.first => next.reader.pos <= N
    BY <1>2, <1>3, <2>1
  <2>4. kind = "mcap" => (w.pump.call.phase # "reply" => w.pump.call = NoCall)
    BY DEF WorldInv, ReaderOK
  <2> QED
    BY <1>3, <1>8, <1>10, <2>2, <2>3, <2>4 DEF ReaderOK, Pending
<1>15. ASSUME NEW gapless \in BOOLEAN
       PROVE  /\ Chain(next.call.out, lo, gapless)
              /\ Flow(r, Tip(next.call.out, lo), gapless, gapless)
  <2>1. ReadUpTo(next.reader, next.call, lo, gapless)
    BY <1>3
  <2> DEFINE fed == Tip(next.call.out, lo)
  <2>2. /\ Chain(next.call.out, lo, gapless)
        /\ Before(next.reader, fed, gapless)
    BY <2>1 DEF ReadUpTo, Before
  <2> HIDE DEF fed
  <2>3. FedPos(r, fed) = fed
    BY <1>5, <1>8 DEF FedPos
  <2>4. AheadOK(r, fed, gapless)
    BY <1>6, <1>8, <1>10, <2>2, EmptyChain DEF AheadOK
  <2>5. OrderOK(r)
    BY <1>4, <1>5, <1>8, NoFlow
  <2> QED
    BY <1>5, <1>8, <2>2, <2>3, <2>4, <2>5 DEF Flow, fed
<1> QED
  BY <1>3, <1>4, <1>5, <1>8, <1>9, <1>10, <1>11, <1>12, <1>13, <1>14, <1>15
     DEF WorldInv, s, ring0, next, rd, lo

LEMMA NoPrime ==
  ASSUME NEW k, NEW w, NEW p, NEW q, ReaderOK(k, w, p), q.phase \in {"none", "reply"}
  PROVE  ReaderOK(k, w, q)
BY DEF ReaderOK, Pending

(* The decoder is configured and fed the first batch; the pump starts.     *)
LEMMA ConfiguredIs ==
  ASSUME NEW w, NEW p, WorldInv(w, p), IsOpen(w), w.decoder.state = "unconfigured",
         NEW batch \in Seq(Samples), batch # <<>>, batch[1] \in SyncSamples
  PROVE  LET r == Configured(w, batch)
         IN  /\ WorldInv(r, NoCall)
             /\ r.b = w.b /\ r.heal = w.heal /\ r.ops = w.ops /\ r.wanted = w.wanted
             /\ r.session = w.session
             /\ r.decoder.state = "configured"
             /\ \A lo \in Nat, gapless \in BOOLEAN :
                  Chain(batch, lo, gapless) /\ Flow(w, Tip(batch, lo), gapless, gapless) =>
                    \A fed \in Nat : Flow(r, fed, gapless, gapless)
<1> DEFINE c == [w.decoder EXCEPT !.state = "configured"]
           d == Decode(c, batch)
           mid == [w EXCEPT !.decoder = d]
           r == PumpEncoded(mid)
<1>1. w \in WorldState /\ w.decoder \in DecoderState /\ w.session \in SessionState
  BY Fields DEF WorldInv
<1>2. /\ w.decoder.queue = <<>> /\ w.decoder.held = {} /\ w.decoder.fed = 0
      /\ w.decoder.intact /\ ~w.decoder.flushing
  <2>1. w.decoder = [NoDecoder EXCEPT !.state = "unconfigured"]
    BY DEF WorldInv, StreamOK, AliveOK
  <2>2. NoDecoder \in DecoderState
    BY NoStreamType
  <2>3. LET y == [NoDecoder EXCEPT !.state = "unconfigured"]
        IN  /\ y.queue = NoDecoder.queue /\ y.held = NoDecoder.held /\ y.fed = NoDecoder.fed
            /\ y.intact = NoDecoder.intact /\ y.flushing = NoDecoder.flushing
    BY <2>2 DEF DecoderState
  <2> QED
    BY <2>1, <2>3, NoStreamType
<1>3. /\ c \in DecoderState /\ c.state = "configured" /\ c.queue = <<>> /\ c.held = {}
      /\ c.fed = 0 /\ c.intact /\ ~c.flushing
  BY <1>1, <1>2 DEF DecoderState
<1> HIDE DEF c
<1>4. /\ d \in DecoderState /\ d.queue = batch /\ d.fed = Tip(batch, 0)
      /\ d.state = "configured" /\ d.held = {} /\ ~d.flushing
      /\ d.fed # 0
      /\ Chain(batch, batch[1] - 1, TRUE) => d.intact
  <2>1. LET y == Decode(c, batch)
        IN  /\ y \in DecoderState /\ y.queue = c.queue \o batch /\ y.fed = Tip(batch, c.fed)
            /\ y.state = c.state /\ y.held = c.held /\ y.flushing = c.flushing
            /\ batch # <<>> => y.fed # 0
            /\ /\ c.intact /\ c.fed = 0 /\ batch # <<>> /\ batch[1] \in SyncSamples
               /\ Chain(batch, batch[1] - 1, TRUE)
               => y.intact
    BY <1>3, DecodeOK
  <2>2. <<>> \o batch = batch
    OBVIOUS
  <2> QED
    BY <1>3, <2>1, <2>2
<1> HIDE DEF d
<1>5. Configured(w, batch) = r
  <2>1. [w EXCEPT !.decoder = Decode([@ EXCEPT !.state = "configured"], batch)] = mid
    BY DEF d, c
  <2> QED
    BY <2>1 DEF Configured
<1>6. /\ mid \in WorldState /\ mid.decoder = d /\ mid.b = w.b /\ mid.session = w.session
      /\ mid.ring = w.ring /\ mid.reader = w.reader /\ mid.pump = w.pump
      /\ mid.heal = w.heal /\ mid.ops = w.ops /\ mid.wanted = w.wanted
  BY <1>1, <1>4 DEF WorldState
<1> HIDE DEF mid, r
<1>7. StreamOK(mid)
  <2>1. StreamOK(w)
    BY DEF WorldInv
  <2> QED
    BY <1>4, <1>6, <2>1 DEF StreamOK, AliveOK, IsOpen
<1>8. FramesOK(mid) /\ ReaderOK(kind, mid, NoCall)
  <2>1. ReaderOK(kind, w, NoCall)
    BY NoPrime DEF WorldInv, NoCall
  <2> QED
    BY <1>6, <2>1 DEF WorldInv, FramesOK, ReaderOK
<1>9. /\ Aside(mid, r) /\ SameShow(mid, r) /\ StreamOK(r) /\ FramesOK(r)
      /\ r.session = mid.session /\ r.decoder = mid.decoder
      /\ ReaderOK(kind, r, NoCall)
      /\ \A fed \in Nat, gapless \in BOOLEAN :
           Flow(mid, fed, gapless, gapless) => Flow(r, fed, gapless, gapless)
  <2>1. LET y == PumpEncoded(mid)
        IN  /\ Aside(mid, y) /\ SameShow(mid, y) /\ StreamOK(y)
            /\ FramesOK(mid) => FramesOK(y)
            /\ y.session = mid.session /\ y.decoder = mid.decoder
            /\ \A q \in NextCall : ReaderOK(kind, mid, q) => ReaderOK(kind, y, q)
            /\ \A fed \in Nat, gapless \in BOOLEAN, intact \in BOOLEAN :
                 Flow(mid, fed, gapless, intact) => Flow(y, fed, gapless, intact)
    BY <1>6, <1>7, PumpEncodedOK
  <2> QED
    BY <1>8, <2>1, NoStreamType DEF r
<1>10. ASSUME NEW lo \in Nat, NEW gapless \in BOOLEAN, Chain(batch, lo, gapless),
              Flow(w, Tip(batch, lo), gapless, gapless), NEW fed \in Nat
       PROVE  Flow(mid, fed, gapless, gapless)
  <2>1. Chain(batch, 0, FALSE)
    <3>1. 0 \in Nat /\ 0 <= lo
      OBVIOUS
    <3> QED
      BY <1>10, <3>1, ChainWeaken
  <2>2. OrderOK(mid)
    <3>1. OrderOK(w)
      BY <1>10 DEF Flow
    <3>2. w.decoder.queue \o batch = batch
      BY <1>2
    <3>3. /\ Chain(batch, w.decoder.fed, FALSE)
          /\ mid.decoder.queue = w.decoder.queue \o batch
          /\ mid.decoder.fed = Tip(batch, w.decoder.fed)
          /\ mid.decoder.held = w.decoder.held /\ mid.session.out = w.session.out
      BY <1>2, <1>4, <1>6, <2>1, <3>2
    <3> QED
      BY <1>1, <1>6, <3>1, <3>3, OrderExtends
  <2>3. Tip(batch, 0) = Tip(batch, lo)
    BY DEF Tip
  <2>4. FedPos(mid, fed) = Tip(batch, lo) /\ FedPos(w, Tip(batch, lo)) = Tip(batch, lo)
    BY <1>4, <1>6, <2>3 DEF FedPos
  <2>5. IsOpen(mid) /\ ~mid.session.ended => AheadOK(mid, FedPos(mid, fed), gapless)
    BY <1>6, <1>10, <2>4 DEF Flow, AheadOK, IsOpen
  <2>6. gapless => d.intact
    <3> SUFFICES ASSUME gapless PROVE Chain(batch, batch[1] - 1, TRUE)
      BY <1>4
    <3>1. 1 \in 1..Len(batch)
      <4>1. Len(batch) \in Nat /\ Len(batch) # 0
        OBVIOUS
      <4> QED
        BY <4>1
    <3>2. batch[1] = lo + 1
      BY <1>10, <3>1 DEF Chain
    <3>3. batch[1] - 1 = lo
      BY <3>2
    <3> QED
      BY <1>10, <3>3
  <2> QED
    BY <1>6, <2>2, <2>5, <2>6 DEF Flow
<1>11. ChainOK(r) /\ CursorOK(r)
  BY <1>6, <1>9 DEF WorldInv, Aside, SameShow, ChainOK, CursorOK, IsOpen
<1> QED
  BY <1>4, <1>5, <1>6, <1>9, <1>10, <1>11 DEF WorldInv, Aside, SameShow

-----------------------------------------------------------------------------
(* The decoder at work.                                                    *)
LEMMA ConsumeOrder ==
  ASSUME NEW w \in WorldState, NEW r \in WorldState, OrderOK(w), w.decoder.queue # <<>>,
         r.decoder.queue = Tail(w.decoder.queue), r.decoder.fed = w.decoder.fed,
         r.decoder.held = w.decoder.held \cup {Head(w.decoder.queue)},
         r.session.out = w.session.out
  PROVE  OrderOK(r)
<1> DEFINE q == w.decoder.queue
           x == Head(q)
<1>1. /\ q \in Seq(Samples) /\ w.decoder.fed \in Nat /\ w.decoder.held \subseteq Samples
      /\ Len(q) \in Nat \ {0}
  BY Fields, CountAssumption DEF DecoderState
<1>2. Output(r) = Output(w) /\ Output(w) \subseteq Samples
  BY DEF Output
<1>3. /\ Len(SubSeq(q, 1, 1)) = 1 /\ SubSeq(q, 1, 1)[1] = x
      /\ SubSeq(q, 1 + 1, Len(q)) = Tail(q) /\ x = q[1]
      /\ x \in Samples /\ 1 \in 0..Len(q) /\ 1 \in 1..Len(q) /\ Tail(q) \in Seq(Samples)
  <2>1. SubSeq(q, 2, Len(q)) = Tail(q) /\ x = q[1] /\ x \in Samples /\ Tail(q) \in Seq(Samples)
    BY <1>1
  <2>2. Len(SubSeq(q, 1, 1)) = 1 /\ SubSeq(q, 1, 1)[1] = q[1]
    BY <1>1
  <2>3. 1 + 1 = 2
    OBVIOUS
  <2> QED
    BY <1>1, <2>1, <2>2, <2>3
<1> HIDE DEF q, x
<1>4. ASSUME NEW i \in {0} \cup w.decoder.held \cup Output(w)
      PROVE  /\ i < x
             /\ Chain(Tail(q), x, FALSE) /\ Tip(Tail(q), x) <= w.decoder.fed
             /\ Chain(Tail(q), i, FALSE) /\ Tip(Tail(q), i) <= w.decoder.fed
  <2>1. i \in Nat
    BY <1>1, <1>2, CountAssumption DEF Samples
  <2>2. Chain(q, i, FALSE) /\ Tip(q, i) <= w.decoder.fed
    BY DEF OrderOK, q
  <2>3. LET head == SubSeq(q, 1, 1)
            rest == SubSeq(q, 1 + 1, Len(q))
        IN  /\ Chain(rest, Tip(head, i), FALSE)
            /\ Tip(rest, Tip(head, i)) = Tip(q, i)
    <3>1. q \in Seq(Samples) /\ 1 \in 0..Len(q) /\ Chain(q, i, FALSE)
      BY <1>1, <1>3, <2>2
    <3> HIDE DEF Tip
    <3> QED
      BY <2>1, <3>1, ChainCut
  <2>4. Tip(SubSeq(q, 1, 1), i) = x
    <3>1. SubSeq(q, 1, 1) # <<>>
      BY <1>3
    <3> QED
      BY <1>3, <3>1 DEF Tip
  <2>5. Chain(Tail(q), x, FALSE) /\ Tip(Tail(q), x) <= w.decoder.fed
    BY <1>3, <2>2, <2>3, <2>4
  <2>6. i < x
    BY <1>3, <2>1, <2>2, CountAssumption DEF Chain, Samples
  <2>7. Chain(Tail(q), i, FALSE) /\ Tip(Tail(q), i) <= Tip(Tail(q), x)
    <3>1. x \in Nat /\ i <= x
      BY <1>3, <2>1, <2>6, CountAssumption DEF Samples
    <3> QED
      BY <1>3, <2>1, <2>5, <3>1, ChainWeaken
  <2>8. Tip(Tail(q), i) \in Nat /\ Tip(Tail(q), x) \in Nat
    <3>1. x \in Nat /\ Tail(q) \in Seq(Samples)
      BY <1>3, CountAssumption DEF Samples
    <3> QED
      BY <2>1, <2>5, <2>7, <3>1, TipIs
  <2>9. Tip(Tail(q), i) <= w.decoder.fed
    <3>1. \A m, n, o \in Nat : m <= n /\ n <= o => m <= o
      OBVIOUS
    <3>2. w.decoder.fed \in Nat /\ Tip(Tail(q), x) <= w.decoder.fed /\ Tip(Tail(q), i) <= Tip(Tail(q), x)
      BY <1>1, <2>5, <2>7
    <3> QED
      BY <2>8, <3>1, <3>2
  <2> QED
    BY <2>5, <2>6, <2>7, <2>9
<1>5. \A i \in {0} \cup w.decoder.held \cup Output(w) : i < x
  BY <1>4
<1>6. \A i \in {0} \cup r.decoder.held \cup Output(r) :
        Chain(r.decoder.queue, i, FALSE) /\ Tip(r.decoder.queue, i) <= r.decoder.fed
  <2>1. \A i \in {0} \cup r.decoder.held \cup Output(r) :
          i = x \/ i \in {0} \cup w.decoder.held \cup Output(w)
    BY <1>2 DEF x, q
  <2>2. 0 \in {0} \cup w.decoder.held \cup Output(w) /\ r.decoder.queue = Tail(q)
    BY DEF q
  <2> QED
    BY <1>4, <2>1, <2>2
<1>7. r.decoder.held \cap Output(r) = {}
  <2>1. w.decoder.held \cap Output(w) = {}
    BY DEF OrderOK
  <2>2. x \notin Output(w)
    <3>1. x \in Nat
      BY <1>3, CountAssumption DEF Samples
    <3>2. ~(x < x)
      BY <3>1
    <3> QED
      BY <1>5, <3>2
  <2> QED
    BY <1>2, <2>1, <2>2 DEF x, q
<1>8. \A j \in Output(r), i \in r.decoder.held :
        DECODER_ORDER = "decode" \/ PtsOf[j] > PtsOf[i] => j < i
  <2>1. \A j \in Output(w), i \in w.decoder.held :
          DECODER_ORDER = "decode" \/ PtsOf[j] > PtsOf[i] => j < i
    BY DEF OrderOK
  <2>2. \A i \in r.decoder.held : i = x \/ i \in w.decoder.held
    BY DEF x, q
  <2> QED
    BY <1>2, <1>5, <2>1, <2>2
<1> QED
  BY <1>6, <1>7, <1>8 DEF OrderOK

LEMMA NextOutputIs ==
  ASSUME decoder.held \subseteq Samples, decoder.held # {}
  PROVE  /\ NextOutput \in decoder.held
         /\ DECODER_ORDER = "decode" => \A i \in decoder.held : NextOutput <= i
         /\ DECODER_ORDER # "decode" => \A i \in decoder.held : PtsOf[NextOutput] <= PtsOf[i]
<1> DEFINE held == decoder.held
<1>1. held \in SUBSET Nat /\ held # {}
  BY CountAssumption DEF Samples
<1>2. CASE DECODER_ORDER = "decode"
  <2>1. NextOutput = Min(held)
    BY <1>2 DEF NextOutput
  <2> HIDE DEF held
  <2>2. Min(held) \in held /\ \A i \in held : Min(held) <= i
    BY <1>1, MinIs, MinLeast
  <2> QED
    BY <1>2, <2>1, <2>2 DEF held
<1>3. CASE DECODER_ORDER # "decode"
  <2> DEFINE times == {PtsOf[i] : i \in held}
  <2>1. times \in SUBSET Nat /\ times # {}
    BY PtsOfAssumption
  <2> HIDE DEF times
  <2>2. Min(times) \in times /\ \A t \in times : Min(times) <= t
    BY <2>1, MinIs, MinLeast
  <2>3. \E i \in held : \A j \in held : PtsOf[i] <= PtsOf[j]
    BY <2>2 DEF times
  <2>4. NextOutput = CHOOSE i \in held : \A j \in held : PtsOf[i] <= PtsOf[j]
    BY <1>3 DEF NextOutput
  <2> HIDE DEF held
  <2>5. NextOutput \in held /\ \A j \in held : PtsOf[NextOutput] <= PtsOf[j]
    BY <2>3, <2>4
  <2> QED
    BY <1>3, <2>5 DEF held
<1> QED
  BY <1>2, <1>3

(* A frame is output: the earliest the decoder holds.                      *)
LEMMA OutputOrder ==
  ASSUME NEW w \in WorldState, NEW r, OrderOK(w), NEW x \in w.decoder.held,
         DECODER_ORDER = "decode" => \A i \in w.decoder.held : x <= i,
         DECODER_ORDER # "decode" => \A i \in w.decoder.held : PtsOf[x] <= PtsOf[i],
         r.decoder.queue = w.decoder.queue, r.decoder.fed = w.decoder.fed,
         r.decoder.held = w.decoder.held \ {x},
         r.session.out = w.session.out \cup {PtsOf[x]}
  PROVE  OrderOK(r)
<1>1. w.decoder.held \subseteq Samples /\ x \in Samples
  BY Fields DEF DecoderState
<1>2. Output(r) = Output(w) \cup {x}
  <2>1. \A i \in Samples : PtsOf[i] = PtsOf[x] => i = x
    BY <1>1, PtsOfAssumption
  <2> QED
    BY <1>1, <2>1 DEF Output
<1>3. \A i \in {0} \cup r.decoder.held \cup Output(r) :
        Chain(r.decoder.queue, i, FALSE) /\ Tip(r.decoder.queue, i) <= r.decoder.fed
  <2>1. {0} \cup r.decoder.held \cup Output(r) \subseteq {0} \cup w.decoder.held \cup Output(w)
    BY <1>2
  <2> QED
    BY <2>1 DEF OrderOK
<1>4. r.decoder.held \cap Output(r) = {}
  BY <1>2 DEF OrderOK
<1>5. ASSUME NEW j \in Output(r), NEW i \in r.decoder.held,
             DECODER_ORDER = "decode" \/ PtsOf[j] > PtsOf[i]
      PROVE  j < i
  <2>1. CASE j = x
    <3>1. i \in w.decoder.held /\ i # x /\ i \in Nat /\ x \in Nat
      BY <1>1, CountAssumption DEF Samples
    <3>2. PtsOf[x] \in Nat /\ PtsOf[i] \in Nat
      BY <1>1, <3>1, PtsOfAssumption
    <3>3. DECODER_ORDER = "decode"
      BY <1>5, <2>1, <3>1, <3>2
    <3> QED
      BY <2>1, <3>1, <3>3
  <2>2. CASE j \in Output(w)
    BY <1>5, <2>2 DEF OrderOK
  <2> QED
    BY <1>2, <2>1, <2>2
<1> QED
  BY <1>3, <1>4, <1>5 DEF OrderOK

-----------------------------------------------------------------------------
(***************************************************************************)
(* The inductive invariant.  WorldInv speaks of the record; the rest of    *)
(* how far the operation at the head of the chain is.                      *)
(***************************************************************************)
Opening == pc \in {"priming", "probing"}

EnvState == [plan : Plans, ops : 0..MaxOps, faults : 0..MaxFaults, opened : BOOLEAN]

StepState ==
  /\ pc \in {"idle", "closing", "opening", "priming", "probing", "capturing"}
  /\ prime \in NextCall
  /\ probed \in BOOLEAN
  /\ env \in EnvState

StageOK ==
  /\ kind = env.plan.kind
  /\ Len(ops) <= env.ops + env.faults
  /\ b.playing => "play" \in env.plan.calls
  /\ pc # "idle" => ops # <<>>
  /\ pc \in {"closing", "opening"} => ~IsOpen(World)
  /\ pc = "closing" => ops[1].op # "capture"
  /\ pc = "capturing" => ops[1].op = "capture"
  /\ pc = "opening" \/ Opening => ops[1].op \in {"open", "seek"}
  /\ pc = "opening" => b.cursor \in Cursors
  /\ Opening => IsOpen(World) /\ session.from = ops[1].target /\ decoder.state = "unconfigured"
  /\ pc = "priming" => prime.phase # "none"
  /\ pc # "priming" => prime.phase = "none"
  /\ pc = "probing" => prime.out # <<>> /\ prime.out[1] \in SyncSamples

(* Errors the decoder reports: one thrown by decode() within a re-prime is *)
(* not healed.                                                             *)
HealOK ==
  "throw" \notin env.plan.faults =>
    /\ HealDue(World)
    /\ heal.error => pc \notin {"opening", "priming", "probing"}

(***************************************************************************)
(* Two calls of an mp4 reader share its position.  As long as nothing      *)
(* moves the cursor while a stream primes, the pump leaves the reader to   *)
(* the priming batch (Calm), and the chunks reach the decoder in order, of *)
(* any kind of stream.                                                     *)
(***************************************************************************)
Calm == kind = "mp4" => env.plan.calls \cap {"cursor", "play"} = {}

Sound == "read" \notin env.plan.faults

Origin == StartSample(session.from) - 1

PrimingOK ==
  /\ Opening => Chain(prime.out, Origin, Sound)
  /\ pc = "priming" =>
       /\ ~session.ended /\ ring = [chunks |-> <<>>, ended |-> FALSE]
       /\ kind = "mp4" => ~pump.live /\ CallOK(reader, prime)

FlowOK ==
  Opening \/ decoder.state # "unconfigured" =>
    Flow(World, Tip(prime.out, Origin), Sound, Sound)

CalmOK == Calm => PrimingOK /\ FlowOK

IInv == WorldInv(World, prime) /\ StepState /\ StageOK /\ HealOK /\ CalmOK

LEMMA PlanOf ==
  ASSUME StepState
  PROVE  /\ env.plan \in Plans /\ env.plan.kind \in {"mcap", "mp4"}
         /\ env.ops \in Nat /\ env.ops <= MaxOps /\ env.faults \in Nat /\ env.faults <= MaxFaults
         /\ Sound \in BOOLEAN
<1>1. env.plan \in Plans /\ env.ops \in 0..MaxOps /\ env.faults \in 0..MaxFaults
  BY DEF StepState, EnvState
<1>2. env.plan.kind \in {"mcap", "mp4"}
  BY <1>1, WorkerAssumption
<1> QED
  BY <1>1, <1>2, WorkerAssumption DEF Sound

LEMMA OriginIs ==
  /\ Origin \in Nat
  /\ prime \in NextCall => Tip(prime.out, Origin) \in Nat
<1>1. Origin \in Nat
  BY StartSampleOK DEF Origin
<1>2. ASSUME prime \in NextCall
      PROVE  Tip(prime.out, Origin) \in Nat
  <2>1. prime.out \in Seq(Samples)
    BY <1>2 DEF NextCall
  <2>2. prime.out # <<>> => Len(prime.out) \in 1..Len(prime.out)
    BY <2>1
  <2>3. prime.out # <<>> => prime.out[Len(prime.out)] \in Nat
    BY <2>1, <2>2, SampleOf
  <2> QED
    BY <1>1, <2>3 DEF Tip
<1> QED
  BY <1>1, <1>2

(* The last of the priming batch matters only until it has been decoded.   *)
LEMMA FlowAnyFed ==
  ASSUME NEW w, StreamOK(w), w.decoder.state # "unconfigured",
         w.decoder.state \in {"none", "unconfigured", "configured", "closed"},
         NEW fed, NEW gapless, NEW intact, Flow(w, fed, gapless, intact)
  PROVE  \A f : Flow(w, f, gapless, intact)
<1>1. CASE w.decoder.state = "configured"
  BY <1>1 DEF Flow, FedPos
<1>2. CASE w.decoder.state # "configured"
  <2>1. ~IsOpen(w) \/ w.session.ended
    BY <1>2 DEF StreamOK, AliveOK
  <2> QED
    BY <2>1 DEF Flow
<1> QED
  BY <1>1, <1>2

LEMMA InitInv == Init => IInv
<1> SUFFICES ASSUME Init PROVE IInv
  OBVIOUS
<1>1. /\ b = InitBlit /\ session = NoSession /\ decoder = NoDecoder
      /\ ring = [chunks |-> <<>>, ended |-> FALSE] /\ reader = [pos |-> 1, first |-> FALSE]
      /\ pump = NoPump /\ heal = [error |-> FALSE, inFlight |-> FALSE, count |-> 0]
      /\ ops = <<>> /\ wanted = NoPts /\ pc = "idle" /\ prime = NoCall /\ probed = FALSE
  BY DEF Init
<1>2. b \in BlitState /\ Frames(b) = {NoPts} /\ b.cursor = 0 /\ ~b.playing
  BY <1>1 DEF InitBlit, BlitState, Frames
<1>3. ring \in RingState /\ reader \in ReaderState /\ heal \in HealState
      /\ ops \in Seq(OperationType) /\ wanted \in Nat \cup {NoPts}
  BY <1>1, CountAssumption, WorkerAssumption DEF RingState, ReaderState, HealState
<1>4. World \in WorldState
  <2>1. session \in SessionState /\ decoder \in DecoderState /\ pump \in PumpState
    BY <1>1, NoStreamType
  <2> QED
    BY <1>2, <1>3, <2>1, Built DEF World
<1>5. ~IsOpen(World)
  BY <1>1, WorldFields, NoStreamType DEF IsOpen
<1>6. ChainOK(World) /\ CursorOK(World)
  BY <1>1, <1>2, <1>5, WorldFields DEF ChainOK, CursorOK
<1>7. StreamOK(World)
  BY <1>1, <1>5, WorldFields, NoStreamType DEF StreamOK, AliveOK, NoPump, NoSession
<1>8. FramesOK(World)
  BY <1>1, <1>2, WorldFields, NoStreamType DEF FramesOK
<1>9. NoCall.phase = "none"
  BY DEF NoCall
<1>10. ReaderOK(kind, World, prime)
  BY <1>1, <1>9, WorldFields, CountAssumption DEF ReaderOK, Pending, NoPump
<1>11. PICK p \in Plans : /\ kind = p.kind
                          /\ env = [plan |-> p, ops |-> 0, faults |-> 0, opened |-> FALSE]
  BY DEF Init
<1>12. StepState
  <2>1. env \in EnvState
    BY <1>11, WorkerAssumption DEF EnvState
  <2> QED
    BY <1>1, <2>1, NoStreamType DEF StepState
<1>13. StageOK
  BY <1>1, <1>2, <1>5, <1>9, <1>11 DEF StageOK, Opening
<1>14. HealOK
  BY <1>1, <1>5, WorldFields DEF HealOK, HealDue
<1>15. CalmOK
  <2>1. Flow(World, Tip(prime.out, Origin), Sound, Sound)
    BY <1>1, <1>5, WorldFields, NoStreamType, NoFlow
  <2> QED
    BY <1>1, <2>1 DEF CalmOK, PrimingOK, FlowOK, Opening
<1> QED
  BY <1>4, <1>6, <1>7, <1>8, <1>10, <1>12, <1>13, <1>14, <1>15 DEF IInv, WorldInv

-----------------------------------------------------------------------------
(* The chain keeps its head when an operation joins it.                    *)
LEMMA HeadStays ==
  ASSUME NEW s \in Seq(OperationType), NEW o
  PROVE  /\ Append(s, o) # <<>>
         /\ s # <<>> => Append(s, o)[1] = s[1]
         /\ Len(Append(s, o)) = Len(s) + 1
<1>1. Len(Append(s, o)) = Len(s) + 1 /\ Len(s) \in Nat
      /\ \A k \in 1..Len(s) : Append(s, o)[k] = s[k]
  OBVIOUS
<1> QED
  BY <1>1

(* A step beside the operation that runs.                                  *)
LEMMA BesideKeeps ==
  ASSUME IInv, NEW r, Becomes(r), WorldInv(r, prime), UNCHANGED <<pc, prime, probed>>,
         env' \in EnvState, env'.plan = env.plan,
         r.session.from = session.from, Opening => r.decoder.state = decoder.state,
         pc = "opening" => r.b.cursor \in Cursors, r.b.playing => "play" \in env.plan.calls,
         r.ops = ops \/ \E o : r.ops = Append(ops, o),
         Len(r.ops) <= env'.ops + env'.faults,
         "throw" \notin env.plan.faults =>
           HealDue(r) /\ (r.heal.error => pc \notin {"opening", "priming", "probing"}),
         Calm /\ pc = "priming" =>
           /\ ~r.session.ended /\ r.ring = [chunks |-> <<>>, ended |-> FALSE]
           /\ kind = "mp4" => ~r.pump.live /\ r.reader = reader,
         Calm /\ (Opening \/ r.decoder.state # "unconfigured") =>
           Flow(r, Tip(prime.out, Origin), Sound, Sound)
  PROVE  IInv'
<1>1. World' = r /\ kind' = kind
  BY BecomesIs DEF WorldInv
<1>2. /\ b' = r.b /\ session' = r.session /\ decoder' = r.decoder /\ ring' = r.ring
      /\ reader' = r.reader /\ pump' = r.pump /\ heal' = r.heal /\ ops' = r.ops
  BY DEF Becomes
<1>3. WorldInv(World', prime') /\ WorldInv(World, prime)'
  BY <1>1 DEF WorldInv, ReaderOK
<1>4. StepState'
  BY DEF IInv, StepState
<1>5. Opening' = Opening /\ Calm' = Calm /\ Sound' = Sound /\ Origin' = Origin
  BY <1>1, <1>2 DEF Opening, Calm, Sound, Origin
<1>6. IsOpen(World)' = IsOpen(World)
  BY <1>1, WorldFields DEF IsOpen
<1>7. ops # <<>> => ops' # <<>> /\ ops'[1] = ops[1]
  <2>1. ops \in Seq(OperationType)
    BY WorldFields, Fields DEF IInv, WorldInv
  <2> QED
    BY <1>2, <2>1, HeadStays
<1>8. StageOK'
  BY <1>1, <1>2, <1>5, <1>6, <1>7 DEF IInv, StageOK, Opening
<1>9. HealOK'
  BY <1>1, <1>2 DEF HealOK
<1>10. CalmOK'
  <2> SUFFICES ASSUME Calm PROVE (PrimingOK /\ FlowOK)'
    BY <1>5 DEF CalmOK
  <2>1. PrimingOK
    BY DEF IInv, CalmOK
  <2>2. PrimingOK'
    BY <1>1, <1>2, <1>5, <2>1 DEF PrimingOK, CallOK
  <2>3. FlowOK'
    BY <1>1, <1>2, <1>5 DEF FlowOK
  <2> QED
    BY <2>2, <2>3
<1> QED
  BY <1>3, <1>4, <1>8, <1>9, <1>10 DEF IInv

-----------------------------------------------------------------------------
(* The operation at the head of the chain.                                 *)
LEMMA HeadIs ==
  ASSUME IInv, ops # <<>>
  PROVE  /\ Head1 \in OperationType /\ Head1 = ops[1] /\ UserOrHeal(Head1)
         /\ ops \in Seq(OperationType) /\ Len(ops) \in Nat \ {0}
<1>1. ops \in Seq(OperationType)
  BY WorldFields, Fields DEF IInv, WorldInv
<1>2. Len(ops) \in Nat \ {0} /\ 1 \in 1..Len(ops) /\ ops[1] \in OperationType
  BY <1>1
<1>3. UserOrHeal(ops[1])
  BY <1>2, WorldFields DEF IInv, WorldInv, ChainOK
<1> QED
  BY <1>1, <1>2, <1>3 DEF Head1

(* An operation settles.                                                   *)
LEMMA SettleKeeps ==
  ASSUME IInv, ops # <<>>, NEW w, WorldInv(w, prime'), w.ops # <<>>, w.ops[1] = Head1,
         Len(w.ops) <= env'.ops + env'.faults + 1,
         Becomes(Settled(w)), pc' = "idle", prime' \in NextCall, prime'.phase = "none",
         probed' \in BOOLEAN, env' \in EnvState, env'.plan = env.plan,
         w.b.playing => "play" \in env.plan.calls,
         "throw" \notin env.plan.faults =>
           HealDue(w) /\ (IsOpen(w) /\ w.heal.error => ~Head1.heal),
         Calm /\ w.decoder.state # "unconfigured" => \E fed : Flow(w, fed, Sound, Sound)
  PROVE  IInv'
<1> DEFINE r == Settled(w)
<1>1. /\ r \in WorldState /\ ChainOK(r) /\ Still(w, r)
      /\ r.b = w.b /\ r.wanted = w.wanted /\ r.ops = Tail(w.ops)
      /\ r.heal.error = w.heal.error /\ r.heal.count = w.heal.count
      /\ ~Head1.heal => r.heal.inFlight = w.heal.inFlight
  BY SettledIs DEF WorldInv
<1> HIDE DEF r
<1>2. World' = r /\ kind' = kind
  BY <1>1, BecomesIs DEF r
<1>3. /\ b' = r.b /\ session' = r.session /\ decoder' = r.decoder /\ heal' = r.heal /\ ops' = r.ops
  BY DEF Becomes, r
<1>4. IsOpen(r) = IsOpen(w) /\ StreamOK(r) /\ FramesOK(r) /\ ReaderOK(kind, r, prime')
  <2>1. Frames(r.b) \subseteq Frames(w.b) \cup {NoPts}
    BY <1>1
  <2> QED
    BY <1>1, <2>1, StillKeeps DEF WorldInv
<1>5. CursorOK(r)
  BY <1>1, <1>4 DEF WorldInv, CursorOK
<1>6. WorldInv(World, prime)'
  BY <1>1, <1>2, <1>4, <1>5 DEF WorldInv, ReaderOK
<1>7. StepState'
  BY DEF StepState
<1>8. StageOK'
  <2>1. Len(ops') <= env'.ops + env'.faults
    <3>1. w.ops \in Seq(OperationType)
      BY Fields DEF WorldInv
    <3>2. Len(ops') = Len(w.ops) - 1 /\ Len(w.ops) \in Nat
      BY <1>1, <1>3, <3>1
    <3>3. env'.ops \in Nat /\ env'.faults \in Nat
      BY WorkerAssumption DEF EnvState
    <3> QED
      BY <3>2, <3>3
  <2> QED
    BY <1>1, <1>2, <1>3, <2>1 DEF IInv, StageOK, Opening
<1>9. HealOK'
  <2> SUFFICES ASSUME "throw" \notin env.plan.faults PROVE HealDue(r)
    BY <1>2 DEF HealOK
  <2>1. HealDue(w) /\ (IsOpen(w) /\ w.heal.error => ~Head1.heal)
    OBVIOUS
  <2> QED
    BY <1>1, <1>4, <2>1 DEF HealDue, Still
<1>10. CalmOK'
  <2>1. Calm' = Calm /\ Sound' = Sound /\ ~Opening' /\ pc' # "priming"
    BY <1>2 DEF Calm, Sound, Opening
  <2> SUFFICES ASSUME Calm, w.decoder.state # "unconfigured"
               PROVE  Flow(World, Tip(prime.out, Origin), Sound, Sound)'
    BY <1>1, <1>3, <2>1 DEF CalmOK, PrimingOK, FlowOK, Still
  <2>2. PICK fed : Flow(w, fed, Sound, Sound)
    OBVIOUS
  <2>3. w.decoder.state \in {"none", "unconfigured", "configured", "closed"}
    BY Fields DEF WorldInv, DecoderState
  <2>4. \A f : Flow(w, f, Sound, Sound)
    BY <2>2, <2>3, FlowAnyFed DEF WorldInv
  <2>5. Flow(r, Tip(prime.out, Origin)', Sound, Sound)
    BY <1>1, <2>4, StillKeeps
  <2> QED
    BY <1>2, <2>1, <2>5
<1> QED
  BY <1>6, <1>7, <1>8, <1>9, <1>10 DEF IInv

(* What a settled operation leaves of the facts about the world it leaves. *)
LEMMA SettleWorld ==
  ASSUME IInv, ops # <<>>, Becomes(Settled(World)), pc' = "idle", prime' \in NextCall,
         prime'.phase = "none", probed' \in BOOLEAN, env' \in EnvState, env'.plan = env.plan,
         env.ops + env.faults <= env'.ops + env'.faults,
         "throw" \notin env.plan.faults => (IsOpen(World) /\ heal.error => ~Head1.heal)
  PROVE  IInv'
<1>1. World.ops = ops /\ World.b = b /\ World.heal = heal /\ World.decoder = decoder
  BY WorldFields
<1>2. WorldInv(World, prime')
  BY NoPrime DEF IInv, WorldInv
<1>3. Head1 = ops[1] /\ Len(ops) \in Nat
  BY HeadIs
<1>4. Len(ops) <= env'.ops + env'.faults + 1
  <2>1. env'.ops \in Nat /\ env'.faults \in Nat /\ env.ops \in Nat /\ env.faults \in Nat
    BY WorkerAssumption DEF IInv, StepState, EnvState
  <2> QED
    BY <1>3, <2>1 DEF IInv, StageOK
<1>5. b.playing => "play" \in env.plan.calls
  BY DEF IInv, StageOK
<1>6. "throw" \notin env.plan.faults => HealDue(World)
  BY DEF IInv, HealOK
<1>7. Calm /\ decoder.state # "unconfigured" => \E fed : Flow(World, fed, Sound, Sound)
  BY DEF IInv, CalmOK, FlowOK
<1> QED
  BY <1>1, <1>2, <1>3, <1>4, <1>5, <1>6, <1>7, SettleKeeps

LEMMA FaultIs ==
  ASSUME StepState, NEW failure, Fault(failure)
  PROVE  /\ env' \in EnvState /\ env'.plan = env.plan /\ env'.ops = env.ops
         /\ env'.faults = env.faults + 1 /\ failure \in env.plan.faults
         /\ env.ops + env.faults <= env'.ops + env'.faults
         /\ env.faults < MaxFaults
<1>1. env \in EnvState /\ env.faults < MaxFaults /\ env' = [env EXCEPT !.faults = @ + 1]
      /\ failure \in env.plan.faults /\ env.faults \in Nat /\ env.ops \in Nat
  BY PlanOf DEF StepState, Fault
<1>2. env.faults + 1 \in 0..MaxFaults
  BY <1>1, WorkerAssumption
<1>3. /\ env' \in EnvState /\ env'.plan = env.plan /\ env'.ops = env.ops
      /\ env'.faults = env.faults + 1
  BY <1>1, <1>2 DEF EnvState
<1> QED
  BY <1>1, <1>3

(* The stream is dropped, and its close awaited.                           *)
LEMMA DropKeeps ==
  ASSUME IInv, pc = "idle", ops # <<>>, Head1.op # "capture", NEW w, WorldInv(w, prime), ~IsOpen(w),
         w.ops = ops, w.heal = heal, w.b.playing = b.playing,
         \A fed, gapless, intact : Flow(w, fed, gapless, intact),
         Becomes(w), Await("closing")
  PROVE  IInv'
<1>1. World' = w /\ kind' = kind /\ UNCHANGED <<prime, probed, env>> /\ pc' = "closing"
  BY BecomesIs DEF WorldInv, Await
<1>2. /\ b' = w.b /\ session' = w.session /\ heal' = heal /\ ops' = ops
  BY DEF Becomes
<1>3. WorldInv(World, prime)'
  BY <1>1 DEF WorldInv, ReaderOK
<1>4. StepState'
  BY <1>1 DEF IInv, StepState
<1>5. ~IsOpen(World)'
  BY <1>1 DEF IsOpen
<1>6. StageOK'
  BY <1>1, <1>2, <1>5 DEF IInv, StageOK, Opening, Head1
<1>7. HealOK'
  BY <1>1, <1>2, <1>5 DEF HealOK, HealDue
<1>8. CalmOK'
  <2>1. Flow(World, Tip(prime.out, Origin), Sound, Sound)'
    BY <1>1
  <2> QED
    BY <1>1, <2>1 DEF CalmOK, PrimingOK, FlowOK, Opening
<1> QED
  BY <1>3, <1>4, <1>6, <1>7, <1>8 DEF IInv

(* The reader of the new stream is asked for.                              *)
LEMMA BeginKeeps ==
  ASSUME IInv, pc \in {"idle", "closing"}, ops # <<>>, Head1.op \in {"open", "seek"}, ~IsOpen(World),
         Becomes(BeginOpen(World)), Await("opening")
  PROVE  IInv'
<1> DEFINE w == BeginOpen(World)
<1>0. WorldInv(World, prime) /\ Head1 = ops[1] /\ Head1.target \in Cursors
  BY HeadIs DEF IInv, UserOrHeal
<1>1. /\ WorldInv(w, prime) /\ Still(World, w) /\ ~IsOpen(w)
      /\ w.b.cursor \in Cursors /\ w.b.playing = World.b.playing
      /\ ~w.heal.error /\ w.ops = World.ops
  BY <1>0, BeginOpenIs
<1> HIDE DEF w
<1>2. World' = w /\ kind' = kind /\ UNCHANGED <<prime, probed, env>> /\ pc' = "opening"
  BY <1>1, BecomesIs DEF WorldInv, Await, w
<1>3. /\ b' = w.b /\ session' = session /\ decoder' = decoder /\ heal' = w.heal /\ ops' = ops
      /\ w.b.playing = b.playing
  BY <1>1, WorldFields DEF Becomes, w, Still
<1>4. WorldInv(World, prime)'
  BY <1>1, <1>2 DEF WorldInv, ReaderOK
<1>5. StepState'
  BY <1>2 DEF IInv, StepState
<1>6. ~IsOpen(World)'
  BY <1>1, <1>2 DEF IsOpen
<1>7. StageOK'
  BY <1>0, <1>1, <1>2, <1>3, <1>6 DEF IInv, StageOK, Opening
<1>8. HealOK'
  <2>1. ~heal'.error /\ ~World'.heal.error
    BY <1>1, <1>2, <1>3
  <2>2. HealDue(World)'
    BY <2>1 DEF HealDue
  <2> QED
    BY <2>1, <2>2 DEF HealOK
<1>9. CalmOK'
  <2>1. Calm' = Calm /\ Sound' = Sound /\ Origin' = Origin /\ ~Opening' /\ ~Opening
    BY <1>2, <1>3 DEF Calm, Sound, Origin, Opening
  <2> SUFFICES ASSUME Calm, decoder.state # "unconfigured"
               PROVE  Flow(w, Tip(prime.out, Origin), Sound, Sound)
    BY <1>2, <1>3, <2>1 DEF CalmOK, PrimingOK, FlowOK
  <2>2. Flow(World, Tip(prime.out, Origin), Sound, Sound)
    BY DEF IInv, CalmOK, FlowOK
  <2> QED
    BY <1>1, <2>2, StillKeeps
<1> QED
  BY <1>4, <1>5, <1>7, <1>8, <1>9 DEF IInv

LEMMA StartOpInv ==
  ASSUME IInv, StartOp
  PROVE  IInv'
<1>1. pc = "idle" /\ ops # <<>> /\ prime.phase = "none" /\ prime \in NextCall /\ probed \in BOOLEAN
      /\ env \in EnvState /\ WorldInv(World, prime) /\ World.ops = ops /\ World.heal = heal
      /\ World.b = b /\ env.ops + env.faults <= env.ops + env.faults
  <2>1. env.ops + env.faults \in Nat
    BY PlanOf DEF IInv
  <2> QED
    BY <2>1, WorldFields DEF StartOp, IInv, StepState, StageOK
<1>2. /\ Head1 \in OperationType /\ Head1 = ops[1] /\ UserOrHeal(Head1)
  BY <1>1, HeadIs
<1>3. /\ WorldInv(Teardown(World), prime) /\ ~IsOpen(Teardown(World))
      /\ Teardown(World).ops = ops /\ Teardown(World).heal = heal
      /\ Teardown(World).b.playing = b.playing
      /\ \A fed, gapless, intact : Flow(Teardown(World), fed, gapless, intact)
  BY <1>1, TeardownIs
<1>4. /\ WorldInv(CloseFirst(World), prime) /\ ~IsOpen(CloseFirst(World))
      /\ CloseFirst(World).ops = ops /\ CloseFirst(World).heal = heal
      /\ CloseFirst(World).b.playing = b.playing
      /\ \A fed, gapless, intact : Flow(CloseFirst(World), fed, gapless, intact)
  BY <1>1, CloseFirstIs
<1>5. CASE StartSeek
  <2>1. CASE Becomes(Settled(World)) /\ Await("idle") /\ (~Head1.force \/ ~IsOpen(World))
    <3>1. IsOpen(World) => ~Head1.heal
      BY <1>2, <2>1 DEF UserOrHeal
    <3> QED
      BY <1>1, <2>1, <3>1, SettleWorld DEF Await
  <2>2. CASE Becomes(Teardown(World)) /\ Await("closing")
    <3>1. Head1.op # "capture"
      BY <1>5 DEF StartSeek
    <3> HIDE DEF Await
    <3> QED
      BY <1>1, <1>3, <2>2, <3>1, DropKeeps
  <2> QED
    BY <1>5, <2>1, <2>2 DEF StartSeek
<1>6. CASE StartOpen
  <2>1. Head1.op = "open" /\ Head1.op # "capture" /\ Head1.op \in {"open", "seek"}
    BY <1>6 DEF StartOpen
  <2>2. CASE IsOpen(World)
    <3>1. Becomes(CloseFirst(World)) /\ Await("closing")
      BY <1>6, <2>2 DEF StartOpen
    <3> QED
      BY <1>1, <1>4, <2>1, <3>1, DropKeeps
  <2>3. CASE ~IsOpen(World)
    <3>1. Becomes(BeginOpen(World)) /\ Await("opening")
      BY <1>6, <2>3 DEF StartOpen
    <3> QED
      BY <1>1, <2>1, <2>3, <3>1, BeginKeeps
  <2> QED
    BY <2>2, <2>3
<1>7. CASE StartClose
  <2>1. Head1.op = "close" /\ Head1.op # "capture" /\ ~Head1.heal
    BY <1>2, <1>7 DEF StartClose, UserOrHeal
  <2>2. CASE IsOpen(World)
    <3>1. Becomes(CloseFirst(World)) /\ Await("closing")
      BY <1>7, <2>2 DEF StartClose
    <3> QED
      BY <1>1, <1>4, <2>1, <3>1, DropKeeps
  <2>3. CASE ~IsOpen(World)
    <3>1. Becomes(Settled(World)) /\ Await("idle")
      BY <1>7, <2>3 DEF StartClose
    <3> QED
      BY <1>1, <2>1, <3>1, SettleWorld DEF Await
  <2> QED
    BY <2>2, <2>3
<1>8. CASE StartCapture
  <2>1. Head1.op = "capture" /\ Becomes(World) /\ pc' = "capturing" /\ UNCHANGED <<prime, probed, env>>
    BY <1>8 DEF StartCapture, Await
  <2>2. World' = World /\ kind' = kind
    BY <1>1, <2>1, BecomesIs DEF WorldInv
  <2>3. /\ b' = b /\ session' = session /\ decoder' = decoder /\ heal' = heal /\ ops' = ops
        /\ ring' = ring /\ reader' = reader /\ pump' = pump
    BY <2>1, WorldFields DEF Becomes
  <2>4. WorldInv(World, prime)'
    BY <1>1, <2>1, <2>2 DEF WorldInv, ReaderOK
  <2>5. StepState' /\ StageOK' /\ HealOK'
    BY <1>1, <1>2, <2>1, <2>2, <2>3 DEF IInv, StepState, StageOK, Opening, HealOK
  <2>6. CalmOK'
    <3>1. Calm' = Calm /\ Sound' = Sound /\ Origin' = Origin /\ ~Opening' /\ ~Opening
      BY <1>1, <2>1, <2>2, <2>3 DEF Calm, Sound, Origin, Opening
    <3> QED
      BY <1>1, <2>1, <2>2, <2>3, <3>1 DEF IInv, CalmOK, PrimingOK, FlowOK
  <2> QED
    BY <2>4, <2>5, <2>6 DEF IInv
<1> QED
  BY <1>5, <1>6, <1>7, <1>8 DEF StartOp

LEMMA ReplyInv ==
  ASSUME IInv, CloseReply \/ CaptureReply
  PROVE  IInv'
<1>1. ops # <<>> /\ prime.phase = "none" /\ prime \in NextCall /\ probed \in BOOLEAN
      /\ env \in EnvState /\ env.ops + env.faults <= env.ops + env.faults
  <2>1. env.ops + env.faults \in Nat
    BY PlanOf DEF IInv
  <2>2. pc \in {"closing", "capturing"}
    BY DEF CloseReply, CaptureReply
  <2> QED
    BY <2>1, <2>2 DEF IInv, StepState, StageOK
<1>2. Head1 \in OperationType /\ Head1 = ops[1] /\ UserOrHeal(Head1)
  BY <1>1, HeadIs
<1>3. CASE CloseReply
  <2>1. pc = "closing" /\ ~IsOpen(World) /\ Head1.op # "capture"
    BY <1>2, <1>3 DEF CloseReply, IInv, StageOK
  <2>2. CASE Head1.op = "close"
    <3>1. Becomes(Settled(World)) /\ Await("idle")
      BY <1>3, <2>2 DEF CloseReply
    <3> QED
      BY <1>1, <2>1, <3>1, SettleWorld DEF Await
  <2>3. CASE Head1.op # "close"
    <3>1. Becomes(BeginOpen(World)) /\ Await("opening")
      BY <1>3, <2>3 DEF CloseReply
    <3>2. Head1.op \in {"open", "seek"}
      BY <1>2, <2>1, <2>3 DEF OperationType
    <3> QED
      BY <1>1, <2>1, <3>1, <3>2, BeginKeeps
  <2> QED
    BY <2>2, <2>3
<1>4. CASE CaptureReply
  <2>1. Head1.op = "capture" /\ ~Head1.heal
    BY <1>2, <1>4 DEF CaptureReply, IInv, StageOK, UserOrHeal
  <2>2. Becomes(Settled(World)) /\ Await("idle")
    BY <1>4 DEF CaptureReply
  <2> QED
    BY <1>1, <2>1, <2>2, SettleWorld DEF Await
<1> QED
  BY <1>3, <1>4

LEMMA OpenFailsInv ==
  ASSUME IInv, OpenFails
  PROVE  IInv'
<1>1. /\ pc = "opening" /\ ops # <<>> /\ ~IsOpen(World) /\ prime.phase = "none"
      /\ prime \in NextCall /\ probed \in BOOLEAN
  BY DEF OpenFails, IInv, StepState, StageOK
<1>2. Fault("open") /\ StepState
  BY DEF OpenFails, IInv
<1>3. /\ env' \in EnvState /\ env'.plan = env.plan
      /\ env.ops + env.faults <= env'.ops + env'.faults
  BY <1>2, FaultIs
<1> QED
  BY <1>1, <1>3, SettleWorld DEF OpenFails

LEMMA OpenReplyInv ==
  ASSUME IInv, OpenReply
  PROVE  IInv'
<1> DEFINE next == BeginNext(OpenReader(Head1.target), PRIMING_BATCH)
           w == OpenedWith(World, next.reader)
           lo == StartSample(Head1.target) - 1
<1>1. /\ pc = "opening" /\ ops # <<>> /\ ~IsOpen(World) /\ b.cursor \in Cursors
      /\ ops[1].op \in {"open", "seek"} /\ kind = env.plan.kind
      /\ WorldInv(World, prime) /\ probed \in BOOLEAN /\ StepState
  BY DEF OpenReply, IInv, StepState, StageOK
<1>2. Head1 = ops[1] /\ Head1.target \in Cursors /\ World.b.cursor \in Cursors
      /\ kind \in {"mcap", "mp4"}
  BY <1>1, HeadIs, PlanOf, WorldFields DEF UserOrHeal
<1>3. prime' = next.call /\ Becomes(w) /\ pc' = "priming" /\ UNCHANGED <<probed, env>>
  BY DEF OpenReply, OpenedWith
<1>4. /\ WorldInv(w, next.call) /\ next.call \in NextCall
      /\ next.call.phase \in {"begin", "reply"}
      /\ w.b = World.b /\ w.heal = World.heal /\ w.ops = World.ops
      /\ w.session.from = Head1.target /\ ~w.session.ended
      /\ w.decoder.state = "unconfigured" /\ ~w.pump.live
      /\ w.ring = [chunks |-> <<>>, ended |-> FALSE]
      /\ CallOK(w.reader, next.call)
      /\ \A gapless \in BOOLEAN :
           /\ Chain(next.call.out, lo, gapless)
           /\ Flow(w, Tip(next.call.out, lo), gapless, gapless)
  BY <1>1, <1>2, OpenedIs
<1> HIDE DEF next, w
<1>5. World' = w /\ kind' = kind
  BY <1>3, <1>4, BecomesIs DEF WorldInv
<1>6. /\ b' = b /\ session' = w.session /\ decoder' = w.decoder /\ heal' = heal /\ ops' = ops
      /\ ring' = w.ring /\ reader' = w.reader /\ pump' = w.pump
  BY <1>3, <1>4, WorldFields DEF Becomes
<1>7. WorldInv(World, prime)'
  BY <1>3, <1>4, <1>5 DEF WorldInv, ReaderOK
<1>8. StepState'
  BY <1>1, <1>3, <1>4 DEF StepState
<1>9. IsOpen(World)'
  <2>1. Head1.target \in Nat
    BY <1>2, WorkerAssumption
  <2> QED
    BY <1>4, <1>5, <2>1 DEF IsOpen, NoPts
<1>10. StageOK'
  BY <1>1, <1>2, <1>3, <1>4, <1>5, <1>6, <1>9 DEF IInv, StageOK, Opening
<1>11. HealOK'
  <2>1. "throw" \notin env.plan.faults => ~heal.error
    BY <1>1 DEF IInv, HealOK
  <2>2. env' = env /\ heal' = heal /\ World'.heal = heal
    BY <1>3, <1>4, <1>5, <1>6, WorldFields
  <2>3. ~heal.error => HealDue(World)'
    BY <2>2 DEF HealDue
  <2> QED
    BY <2>1, <2>2, <2>3 DEF HealOK
<1>12. CalmOK'
  <2>1. Calm' = Calm /\ Sound' = Sound /\ Origin' = lo /\ Opening' /\ Sound \in BOOLEAN
    BY <1>1, <1>3, <1>4, <1>5, <1>6, PlanOf DEF Calm, Sound, Origin, Opening
  <2> HIDE DEF lo
  <2>2. Chain(next.call.out, lo, Sound) /\ Flow(w, Tip(next.call.out, lo), Sound, Sound)
    BY <1>4, <2>1
  <2>3. PrimingOK'
    BY <1>3, <1>4, <1>6, <2>1, <2>2 DEF PrimingOK
  <2>4. FlowOK'
    BY <1>3, <1>5, <2>1, <2>2 DEF FlowOK
  <2> QED
    BY <2>3, <2>4 DEF CalmOK
<1> QED
  BY <1>7, <1>8, <1>10, <1>11, <1>12 DEF IInv

(* The reader answers, or takes one step towards its answer.               *)
LEMMA PrimeStepKeeps ==
  ASSUME IInv, pc = "priming", ~OutOfRange(prime)
  PROVE  LET step == IF prime.phase = "reply"
                     THEN [reader |-> reader, call |-> prime]
                     ELSE CallStep(reader, prime)
             w    == [World EXCEPT !.reader = step.reader]
         IN  /\ WorldInv(w, step.call) /\ step.call \in NextCall /\ step.call.phase # "none"
             /\ w.b = b /\ w.session = session /\ w.decoder = decoder /\ w.ring = ring
             /\ w.pump = pump /\ w.heal = heal /\ w.ops = ops /\ w.wanted = wanted
             /\ Calm => /\ Chain(step.call.out, Origin, Sound)
                        /\ Flow(w, Tip(step.call.out, Origin), Sound, Sound)
                        /\ kind = "mp4" => CallOK(w.reader, step.call)
<1> DEFINE step == IF prime.phase = "reply"
                   THEN [reader |-> reader, call |-> prime]
                   ELSE CallStep(reader, prime)
           w    == [World EXCEPT !.reader = step.reader]
<1>1. /\ WorldInv(World, prime) /\ World \in WorldState /\ ReaderOK(kind, World, prime)
      /\ prime \in NextCall /\ prime.phase # "none" /\ reader \in ReaderState
      /\ kind \in {"mcap", "mp4"} /\ pump \in PumpState
      /\ IsOpen(World) /\ decoder.state = "unconfigured"
  <2>1. World \in WorldState
    BY DEF IInv, WorldInv
  <2>2. reader \in ReaderState /\ pump \in PumpState
    BY <2>1, Fields, WorldFields
  <2> QED
    BY <2>1, <2>2, PlanOf DEF IInv, WorldInv, StepState, StageOK, Opening
<1>2. /\ reader.first => reader.pos <= N
      /\ prime.phase = "sample" => prime.idx # 0
      /\ Pending(prime) => reader.pos <= N + 1
      /\ kind = "mcap" => prime.phase = "reply"
  <2>1. reader.pos \in 1..(N + 2) /\ N \in Nat
    BY <1>1, CountAssumption DEF ReaderState
  <2> QED
    BY <1>1, <2>1, WorldFields DEF ReaderOK
<1>3. CASE prime.phase = "reply"
  <2>1. step = [reader |-> reader, call |-> prime]
    BY <1>3
  <2>2. w = World
    BY <2>1 DEF World
  <2>3. Calm => /\ Chain(prime.out, Origin, Sound)
                /\ Flow(World, Tip(prime.out, Origin), Sound, Sound)
                /\ kind = "mp4" => CallOK(reader, prime)
    BY DEF IInv, CalmOK, PrimingOK, FlowOK, Opening
  <2>4. step.call = prime /\ w.reader = reader
    BY <2>1, <2>2, WorldFields
  <2> QED
    BY <1>1, <2>2, <2>3, <2>4, WorldFields
<1>4. CASE prime.phase # "reply"
  <2> DEFINE r == CallStep(reader, prime)
  <2>1. step = r /\ kind = "mp4"
    BY <1>1, <1>2, <1>4
  <2>2. /\ r.reader \in ReaderState /\ r.call \in NextCall
        /\ r.call.phase \in {"clear", "sample", "reply"}
        /\ r.call.phase = "sample" => r.call.idx = r.reader.pos
        /\ r.reader.first => r.reader = reader
        /\ \/ r.reader.pos = reader.pos
           \/ r.reader.pos = reader.pos + 1 /\ (Pending(prime) \/ reader.pos <= N)
    BY <1>1, <1>2, CallStepType
  <2>3. Calm => /\ Chain(prime.out, Origin, Sound)
                /\ Flow(World, Tip(prime.out, Origin), Sound, Sound)
                /\ CallOK(reader, prime) /\ ~pump.live
                /\ ~session.ended /\ ring = [chunks |-> <<>>, ended |-> FALSE]
    BY <2>1 DEF IInv, CalmOK, PrimingOK, FlowOK, Opening
  <2>4. Origin \in Nat /\ Sound \in BOOLEAN /\ Tip(prime.out, Origin) \in Nat
    BY <1>1, OriginIs, PlanOf DEF IInv
  <2>5. ASSUME Calm
        PROVE  ReadUpTo(reader, prime, Origin, Sound)
    <3>1. AheadOK(World, Tip(prime.out, Origin), Sound)
      BY <1>1, <2>3, <2>5, WorldFields DEF Flow, FedPos
    <3>2. Before(reader, Tip(prime.out, Origin), Sound)
      BY <2>3, <2>5, <3>1, WorldFields DEF AheadOK, Tip
    <3> QED
      BY <2>3, <2>5, <3>2 DEF ReadUpTo, Before
  <2>6. ASSUME Calm
        PROVE  CallOK(r.reader, r.call) /\ ReadUpTo(r.reader, r.call, Origin, Sound)
    BY <1>1, <1>4, <2>3, <2>4, <2>5, <2>6, CallStepOK
  <2> HIDE DEF r
  <2> DEFINE v == [World EXCEPT !.reader = r.reader]
  <2>7. w = v /\ step.call = r.call
    BY <2>1
  <2>8. /\ v \in WorldState /\ v.b = b /\ v.session = session /\ v.decoder = decoder
        /\ v.ring = ring /\ v.pump = pump /\ v.heal = heal /\ v.ops = ops /\ v.reader = r.reader
        /\ v.wanted = wanted
    <3>1. v \in WorldState
      BY <1>1, <2>2 DEF WorldState
    <3> QED
      BY <3>1 DEF World
  <2> HIDE DEF v
  <2>9. ReaderOK(kind, v, r.call)
    <3>1. /\ reader.pos \in 1..(N + 2) /\ r.reader.pos \in 1..(N + 2) /\ N \in Nat
          /\ prime.idx \in Nat /\ r.call.idx \in Nat
      BY <1>1, <2>2, CountAssumption DEF ReaderState, NextCall
    <3>2. /\ pump.live /\ pump.call.phase = "sample" => pump.call.idx # 0
          /\ reader.pos = N + 2 => ~Pending(prime) /\ ~(pump.live /\ Pending(pump.call))
          /\ reader.pos = N + 1 => ~(Pending(prime) /\ pump.live /\ Pending(pump.call))
      BY <1>1, WorldFields DEF ReaderOK
    <3>3. Pending(r.call) => r.reader.pos <= N
      BY <2>2, <3>1 DEF Pending
    <3>4. r.call.phase = "sample" => r.call.idx # 0
      BY <2>2, <3>1
    <3>5. r.reader.first => r.reader.pos <= N
      BY <1>2, <2>2
    <3>6. r.reader.pos = N + 2 => ~(pump.live /\ Pending(pump.call))
      BY <2>2, <3>1, <3>2
    <3> QED
      BY <2>1, <2>8, <3>1, <3>2, <3>3, <3>4, <3>5, <3>6 DEF ReaderOK
  <2>10. WorldInv(v, r.call)
    <3>1. ChainOK(World) /\ CursorOK(World) /\ StreamOK(World) /\ FramesOK(World)
      BY <1>1 DEF WorldInv
    <3>2. ChainOK(v) /\ CursorOK(v)
      BY <2>8, <3>1, WorldFields DEF ChainOK, CursorOK, IsOpen
    <3>3. StreamOK(v) /\ FramesOK(v)
      BY <2>8, <3>1, WorldFields DEF StreamOK, AliveOK, FramesOK, IsOpen
    <3> QED
      BY <2>8, <2>9, <3>2, <3>3 DEF WorldInv
  <2>11. ASSUME Calm
         PROVE  /\ Chain(r.call.out, Origin, Sound)
                /\ Flow(v, Tip(r.call.out, Origin), Sound, Sound)
    <3>1. Chain(r.call.out, Origin, Sound) /\ Before(r.reader, Tip(r.call.out, Origin), Sound)
      BY <2>6, <2>11 DEF ReadUpTo, Before
    <3>2. OrderOK(World) /\ (Sound => decoder.intact)
      BY <2>3, <2>11, WorldFields DEF Flow
    <3>3. OrderOK(v)
      BY <2>8, <3>2, WorldFields DEF OrderOK, Output
    <3>4. Chain(<<>>, Tip(r.call.out, Origin), Sound)
          /\ Tip(<<>>, Tip(r.call.out, Origin)) = Tip(r.call.out, Origin)
      BY EmptyChain
    <3>5. AheadOK(v, Tip(r.call.out, Origin), Sound)
      BY <2>3, <2>8, <2>11, <3>1, <3>4 DEF AheadOK
    <3> QED
      BY <1>1, <2>8, <3>1, <3>2, <3>3, <3>5 DEF Flow, FedPos
  <2> QED
    BY <2>2, <2>6, <2>7, <2>8, <2>10, <2>11
<1> QED
  BY <1>3, <1>4

LEMMA PrimeStepInv ==
  ASSUME IInv, PrimeStep
  PROVE  IInv'
<1> DEFINE step == IF prime.phase = "reply"
                   THEN [reader |-> reader, call |-> prime]
                   ELSE CallStep(reader, prime)
           w    == [World EXCEPT !.reader = step.reader]
<1>1. /\ WorldInv(w, step.call) /\ step.call \in NextCall /\ step.call.phase # "none"
      /\ w.b = b /\ w.session = session /\ w.decoder = decoder /\ w.ring = ring
      /\ w.pump = pump /\ w.heal = heal /\ w.ops = ops
      /\ Calm => /\ Chain(step.call.out, Origin, Sound)
                 /\ Flow(w, Tip(step.call.out, Origin), Sound, Sound)
                 /\ kind = "mp4" => CallOK(w.reader, step.call)
  BY PrimeStepKeeps DEF PrimeStep
<1>2. /\ IF step.call.phase = "reply"
         THEN PrimeReturns(w, step.call.out)
         ELSE Becomes(w) /\ prime' = step.call /\ UNCHANGED <<pc, probed, env>>
      /\ pc = "priming"
  BY DEF PrimeStep
<1> DEFINE call == step.call
<1> HIDE DEF w, step
<1>3. /\ ops # <<>> /\ IsOpen(World) /\ decoder.state = "unconfigured" /\ StepState
      /\ probed \in BOOLEAN /\ env \in EnvState /\ prime.phase # "none"
      /\ "throw" \notin env.plan.faults => ~heal.error
      /\ Len(ops) <= env.ops + env.faults
      /\ b.playing => "play" \in env.plan.calls
  BY <1>2 DEF IInv, StepState, StageOK, Opening, HealOK
<1>4. call.out \in Seq(Samples)
  BY <1>1 DEF NextCall
<1>5. IsOpen(w)
  BY <1>1, <1>3, WorldFields DEF IsOpen
<1>6. Calm => PrimingOK /\ FlowOK
  BY DEF IInv, CalmOK
(* Not settled: the operation goes on, to call c. *)
<1>7. ASSUME Becomes(w), UNCHANGED <<probed, env>>, pc' \in {"priming", "probing"},
             prime' \in NextCall, prime'.out = call.out, ReaderOK(kind, w, prime'),
             pc' = "priming" => prime' = call /\ call.phase # "none",
             pc' = "probing" => /\ prime'.phase = "none" /\ prime'.out # <<>>
                                /\ prime'.out[1] \in SyncSamples
      PROVE  IInv'
  <2>1. World' = w /\ kind' = kind
    BY <1>1, <1>7, BecomesIs DEF WorldInv
  <2>2. /\ b' = b /\ session' = session /\ decoder' = decoder /\ heal' = heal /\ ops' = ops
        /\ ring' = ring /\ reader' = w.reader /\ pump' = pump
    BY <1>1, <1>7 DEF Becomes
  <2>3. WorldInv(World, prime)'
    BY <1>1, <1>7, <2>1 DEF WorldInv, ReaderOK
  <2>4. StepState'
    BY <1>3, <1>7 DEF StepState
  <2>5. StageOK'
    BY <1>2, <1>3, <1>5, <1>7, <2>1, <2>2 DEF IInv, StageOK, Opening
  <2>6. HealOK'
    <3> SUFFICES ASSUME "throw" \notin env.plan.faults PROVE ~heal.error
      BY <1>1, <1>7, <2>1, <2>2 DEF HealOK, HealDue
    <3> QED
      BY <1>3
  <2>7. CalmOK'
    <3>1. Calm' = Calm /\ Sound' = Sound /\ Origin' = Origin /\ Opening' /\ Opening
      BY <1>2, <1>7, <2>1, <2>2 DEF Calm, Sound, Origin, Opening
    <3>2. ASSUME Calm PROVE PrimingOK'
      BY <1>1, <1>2, <1>6, <1>7, <2>1, <2>2, <3>1, <3>2 DEF PrimingOK
    <3>3. ASSUME Calm PROVE FlowOK'
      BY <1>1, <1>7, <2>1, <3>1, <3>3 DEF FlowOK
    <3> QED
      BY <3>1, <3>2, <3>3 DEF CalmOK
  <2> QED
    BY <2>3, <2>4, <2>5, <2>6, <2>7 DEF IInv
<1>8. CASE call.phase # "reply"
  <2>1. Becomes(w) /\ prime' = call /\ UNCHANGED <<pc, probed, env>>
    BY <1>2, <1>8
  <2>2. ReaderOK(kind, w, prime')
    BY <1>1, <2>1 DEF WorldInv
  <2> QED
    BY <1>1, <1>2, <1>7, <2>1, <2>2
<1>9. CASE call.phase = "reply"
  <2>1. PrimeReturns(w, call.out)
    BY <1>2, <1>9
  <2>2. CASE call.out # <<>> /\ call.out[1] \in SyncSamples
    <3>1. Becomes(w) /\ pc' = "probing" /\ prime' = [NoCall EXCEPT !.out = call.out]
          /\ UNCHANGED <<probed, env>>
      BY <2>1, <2>2 DEF PrimeReturns
    <3>2. prime' \in NextCall /\ prime'.phase = "none" /\ prime'.out = call.out
      BY <1>4, <3>1, NoStreamType DEF NoCall, NextCall
    <3>3. ReaderOK(kind, w, prime')
      BY <1>1, <3>2, NoPrime DEF WorldInv
    <3> QED
      BY <1>7, <2>2, <3>1, <3>2, <3>3
  <2>3. CASE ~(call.out # <<>> /\ call.out[1] \in SyncSamples)
    <3> DEFINE v == IF call.out = <<>> THEN [w EXCEPT !.session.ended = TRUE] ELSE w
    <3>1. /\ Becomes(Settled(v)) /\ pc' = "idle" /\ prime' = NoCall /\ UNCHANGED <<probed, env>>
      BY <2>1, <2>3 DEF PrimeReturns
    <3>2. /\ WorldInv(v, NoCall)
          /\ v.ops = ops /\ v.heal = heal /\ v.b = b /\ v.decoder = decoder
      <4>1. w \in WorldState /\ WorldInv(w, NoCall)
        <5>1. NoCall.phase = "none"
          BY DEF NoCall
        <5> QED
          BY <1>1, <5>1, NoPrime DEF WorldInv
      <4> DEFINE x == [w EXCEPT !.session.ended = TRUE]
      <4>2. x \in WorldState /\ x.session = [session EXCEPT !.ended = TRUE]
            /\ x.b = w.b /\ x.decoder = w.decoder /\ x.ring = w.ring /\ x.reader = w.reader
            /\ x.pump = w.pump /\ x.heal = w.heal /\ x.ops = w.ops /\ x.wanted = w.wanted
        BY <1>1, <4>1 DEF WorldState, SessionState
      <4>3. /\ x.session.from = session.from /\ x.session.pre = session.pre
            /\ x.session.out = session.out /\ x.session.ended
            /\ x.session.drained = session.drained
        BY <1>1, <4>1, <4>2, Fields DEF SessionState
      <4> HIDE DEF x
      <4>4. ChainOK(x) /\ CursorOK(x) /\ FramesOK(x) /\ ReaderOK(kind, x, NoCall)
        BY <1>1, <4>1, <4>2, <4>3
           DEF WorldInv, ChainOK, CursorOK, FramesOK, ReaderOK, IsOpen
      <4>5. StreamOK(x)
        BY <1>1, <1>3, <1>5, <4>1, <4>2, <4>3 DEF WorldInv, StreamOK, AliveOK, IsOpen
      <4> QED
        BY <1>1, <4>1, <4>2, <4>4, <4>5 DEF WorldInv, x
    <3> HIDE DEF v
    <3>3. prime' \in NextCall /\ prime'.phase = "none"
      BY <3>1, NoStreamType DEF NoCall
    <3>4. v.ops # <<>> /\ v.ops[1] = Head1 /\ Len(v.ops) <= env'.ops + env'.faults + 1
      BY <1>3, <3>1, <3>2, PlanOf, HeadIs
    <3>5. "throw" \notin env.plan.faults =>
            HealDue(v) /\ (IsOpen(v) /\ v.heal.error => ~Head1.heal)
      BY <1>3, <3>2 DEF HealDue
    <3>6. WorldInv(v, prime')
      BY <3>1, <3>2
    <3>7. v.decoder.state = "unconfigured" /\ (v.b.playing => "play" \in env.plan.calls)
      BY <1>3, <3>2
    <3>8. probed' \in BOOLEAN /\ env' \in EnvState /\ env'.plan = env.plan
      BY <1>3, <3>1
    <3> QED
      BY <1>3, <3>1, <3>3, <3>4, <3>5, <3>6, <3>7, <3>8, SettleKeeps
  <2> QED
    BY <2>2, <2>3
<1> QED
  BY <1>8, <1>9

LEMMA ProbeReplyInv ==
  ASSUME IInv, ProbeReply
  PROVE  IInv'
<1> DEFINE w == Configured(World, prime.out)
<1>1. /\ pc = "probing" /\ Becomes(Settled(w)) /\ prime' = NoCall /\ probed' = TRUE
      /\ pc' = "idle" /\ env' = env
  BY DEF ProbeReply
<1>2. /\ ops # <<>> /\ WorldInv(World, prime) /\ IsOpen(World) /\ decoder.state = "unconfigured"
      /\ prime \in NextCall /\ prime.out # <<>> /\ prime.out[1] \in SyncSamples
      /\ StepState /\ env \in EnvState /\ Len(ops) <= env.ops + env.faults
      /\ b.playing => "play" \in env.plan.calls
      /\ "throw" \notin env.plan.faults => ~heal.error
  BY <1>1 DEF IInv, StepState, StageOK, Opening, HealOK
<1>3. prime.out \in Seq(Samples) /\ World.decoder.state = "unconfigured"
  BY <1>2, WorldFields DEF NextCall
<1>4. /\ WorldInv(w, NoCall)
      /\ w.b = b /\ w.heal = heal /\ w.ops = ops
      /\ \A lo \in Nat, gapless \in BOOLEAN :
           Chain(prime.out, lo, gapless) /\ Flow(World, Tip(prime.out, lo), gapless, gapless) =>
             \A fed \in Nat : Flow(w, fed, gapless, gapless)
  BY <1>2, <1>3, ConfiguredIs, WorldFields
<1> HIDE DEF w
<1>5. WorldInv(w, prime') /\ prime' \in NextCall /\ prime'.phase = "none"
  BY <1>1, <1>4, NoStreamType DEF NoCall
<1>6. w.ops # <<>> /\ w.ops[1] = Head1 /\ Len(w.ops) <= env'.ops + env'.faults + 1
  BY <1>1, <1>2, <1>4, PlanOf, HeadIs
<1>7. "throw" \notin env.plan.faults =>
        HealDue(w) /\ (IsOpen(w) /\ w.heal.error => ~Head1.heal)
  BY <1>2, <1>4 DEF HealDue
<1>8. Calm => \E fed : Flow(w, fed, Sound, Sound)
  <2> SUFFICES ASSUME Calm PROVE Flow(w, 0, Sound, Sound)
    OBVIOUS
  <2>1. Chain(prime.out, Origin, Sound) /\ Flow(World, Tip(prime.out, Origin), Sound, Sound)
    BY <1>1 DEF IInv, CalmOK, PrimingOK, FlowOK, Opening
  <2> QED
    BY <1>2, <1>4, <2>1, OriginIs, PlanOf
<1>9. /\ probed' \in BOOLEAN /\ env' \in EnvState /\ env'.plan = env.plan
      /\ w.b.playing => "play" \in env.plan.calls
  BY <1>1, <1>2, <1>4
<1> QED
  BY <1>1, <1>2, <1>5, <1>6, <1>7, <1>8, <1>9, SettleKeeps

LEMMA PrimeFailsInv ==
  ASSUME IInv, PrimeFails
  PROVE  IInv'
<1>1. /\ pc \in {"priming", "probing"} /\ Becomes(Settled(World)) /\ prime' = NoCall
      /\ pc' = "idle" /\ probed' = probed
      /\ env' = env \/ Fault("read")
  BY DEF PrimeFails
<1>2. /\ ops # <<>> /\ StepState /\ probed \in BOOLEAN /\ env \in EnvState
      /\ "throw" \notin env.plan.faults => ~heal.error
  BY <1>1 DEF IInv, StepState, StageOK, HealOK
<1>3. env' \in EnvState /\ env'.plan = env.plan /\ env.ops + env.faults <= env'.ops + env'.faults
  <2>1. CASE env' = env
    BY <1>2, <2>1, PlanOf
  <2>2. CASE Fault("read")
    BY <1>2, <2>2, FaultIs
  <2> QED
    BY <1>1, <2>1, <2>2
<1>4. prime' \in NextCall /\ prime'.phase = "none"
  BY <1>1, NoStreamType DEF NoCall
<1>5. "throw" \notin env.plan.faults => (IsOpen(World) /\ heal.error => ~Head1.heal)
  BY <1>2
<1>6. probed' \in BOOLEAN
  BY <1>1, <1>2
<1> QED
  BY <1>1, <1>2, <1>3, <1>4, <1>5, <1>6, SettleWorld

(* An error of the decoder ends its stream; nothing else moves.            *)
DecoderIs(w, d) == [w EXCEPT !.decoder = d]

Healing(w) == w.heal.inFlight \/ w.heal.count = MAX_SELF_HEAL_ATTEMPTS

LEMMA ErrorKeeps ==
  ASSUME NEW w, NEW p, NEW d \in DecoderState,
         WorldInv(w, p), IsOpen(w), d.state \in {"configured", "closed"},
         d.fed = w.decoder.fed, d.intact = w.decoder.intact, d.flushing = w.decoder.flushing
  PROVE  LET r == OnDecoderError(DecoderIs(w, d))
         IN  /\ WorldInv(r, p)
             /\ r.b = w.b /\ r.decoder = d /\ r.heal.error
             /\ r.session.pre = NoPts /\ r.session.drained = w.session.drained
             /\ r.session.from = w.session.from /\ r.session.out = w.session.out
             /\ r.session.ended /\ r.pump = w.pump /\ r.reader = w.reader /\ r.ring = w.ring
             /\ Healing(r)
             /\ \/ r.ops = w.ops /\ r.wanted = w.wanted
                \/ /\ r.ops = Append(w.ops, Op("seek", w.b.cursor, TRUE, TRUE))
                   /\ r.wanted = w.b.cursor
<1> DEFINE v == DecoderIs(w, d)
           r == OnDecoderError(v)
<1>1. /\ w \in WorldState /\ w.b.cursor \in Cursors /\ ChainOK(w) /\ CursorOK(w) /\ AliveOK(w)
      /\ FramesOK(w) /\ ReaderOK(kind, w, p) /\ w.session \in SessionState
  BY Fields DEF WorldInv, CursorOK, StreamOK
<1>2. /\ v \in WorldState /\ v.b = w.b /\ v.session = w.session /\ v.decoder = d
      /\ v.ring = w.ring /\ v.reader = w.reader /\ v.pump = w.pump /\ v.heal = w.heal
      /\ v.ops = w.ops /\ v.wanted = w.wanted
  BY <1>1 DEF WorldState, DecoderIs
<1> HIDE DEF v
<1>3. ChainOK(v) /\ v.b.cursor \in Cursors
  BY <1>1, <1>2 DEF ChainOK
<1>4. /\ r \in WorldState /\ ChainOK(r) /\ r.b = v.b /\ r.decoder = v.decoder
      /\ r.ring = v.ring /\ r.reader = v.reader /\ r.pump = v.pump
      /\ r.session = [v.session EXCEPT !.ended = TRUE, !.pre = NoPts]
      /\ r.heal.error
      /\ r.heal.inFlight \/ r.heal.count = MAX_SELF_HEAL_ATTEMPTS
      /\ \/ r.ops = v.ops /\ r.wanted = v.wanted
         \/ /\ r.ops = Append(v.ops, Op("seek", v.b.cursor, TRUE, TRUE))
            /\ r.wanted = v.b.cursor
  BY <1>2, <1>3, OnDecoderErrorIs
<1> HIDE DEF r
<1>5. /\ r.session.from = w.session.from /\ r.session.out = w.session.out
      /\ r.session.ended /\ r.session.pre = NoPts /\ r.session.drained = w.session.drained
  BY <1>1, <1>2, <1>4 DEF SessionState
<1>6. CursorOK(r) /\ FramesOK(r) /\ ReaderOK(kind, r, p)
  BY <1>1, <1>2, <1>4, <1>5 DEF CursorOK, FramesOK, ReaderOK, IsOpen
<1>7. StreamOK(r)
  <2>1. w.decoder.flushing => ~w.session.drained
    BY <1>1 DEF AliveOK
  <2> QED
    BY <1>1, <1>2, <1>4, <1>5, <2>1 DEF StreamOK, AliveOK, IsOpen
<1>8. WorldInv(r, p)
  BY <1>4, <1>6, <1>7 DEF WorldInv
<1> QED
  BY <1>2, <1>4, <1>5, <1>8 DEF r, v, Healing

LEMMA PrimeFeedThrowsInv ==
  ASSUME IInv, PrimeFeedThrows
  PROVE  IInv'
<1> DEFINE d == [decoder EXCEPT !.state = "configured"]
           v == DecoderIs(World, d)
           w == OnDecoderError(v)
<1>1. /\ pc = "probing" /\ Fault("throw")
      /\ Becomes(Settled(OnDecoderError([World EXCEPT !.decoder.state = "configured"])))
      /\ prime' = NoCall /\ probed' = TRUE /\ pc' = "idle"
  BY DEF PrimeFeedThrows
<1>2. /\ ops # <<>> /\ WorldInv(World, prime) /\ IsOpen(World) /\ decoder.state = "unconfigured"
      /\ prime \in NextCall /\ StepState /\ Len(ops) <= env.ops + env.faults
      /\ b.playing => "play" \in env.plan.calls
  BY <1>1 DEF IInv, StepState, StageOK, Opening
<1>3. World \in WorldState /\ decoder \in DecoderState /\ World.decoder = decoder
  BY <1>2, Fields, WorldFields DEF WorldInv
<1>4. /\ d \in DecoderState /\ d.state = "configured" /\ d.fed = decoder.fed
      /\ d.intact = decoder.intact /\ d.flushing = decoder.flushing
      /\ d.queue = decoder.queue /\ d.held = decoder.held
  BY <1>3 DEF DecoderState
<1>5. [World EXCEPT !.decoder.state = "configured"] = v
  BY <1>3 DEF World, DecoderIs
<1>6. Becomes(Settled(w))
  BY <1>1, <1>5
<1> HIDE DEF d
<1>7. /\ WorldInv(w, prime) /\ w.b = b /\ w.decoder = d
      /\ w.session.from = session.from /\ w.session.out = session.out /\ w.session.ended
      /\ w.ops = ops \/ w.ops = Append(ops, Op("seek", b.cursor, TRUE, TRUE))
  <2>1. /\ d.state \in {"configured", "closed"} /\ d.fed = World.decoder.fed
        /\ d.intact = World.decoder.intact /\ d.flushing = World.decoder.flushing
    BY <1>3, <1>4
  <2>2. /\ WorldInv(w, prime) /\ w.b = World.b /\ w.decoder = d
        /\ w.session.from = World.session.from /\ w.session.out = World.session.out
        /\ w.session.ended
        /\ \/ w.ops = World.ops
           \/ w.ops = Append(World.ops, Op("seek", World.b.cursor, TRUE, TRUE))
    <3>1. WorldInv(World, prime) /\ IsOpen(World) /\ d \in DecoderState
      BY <1>2, <1>4
    <3>2. WorldInv(OnDecoderError(v), prime)
      BY <2>1, <3>1, ErrorKeeps
    <3>3. OnDecoderError(v).b = World.b /\ OnDecoderError(v).decoder = d
      BY <2>1, <3>1, ErrorKeeps
    <3>4. /\ OnDecoderError(v).session.from = World.session.from
          /\ OnDecoderError(v).session.out = World.session.out
          /\ OnDecoderError(v).session.ended
      BY <2>1, <3>1, ErrorKeeps
    <3>5. \/ OnDecoderError(v).ops = World.ops
          \/ OnDecoderError(v).ops = Append(World.ops, Op("seek", World.b.cursor, TRUE, TRUE))
      BY <2>1, <3>1, ErrorKeeps
    <3> QED
      BY <3>2, <3>3, <3>4, <3>5
  <2> QED
    BY <2>2, WorldFields
<1> HIDE DEF w
<1>8. /\ env' \in EnvState /\ env'.plan = env.plan /\ "throw" \in env.plan.faults
      /\ env.ops + env.faults <= env'.ops + env'.faults
  BY <1>1, <1>2, FaultIs
<1>9. prime' \in NextCall /\ prime'.phase = "none" /\ WorldInv(w, prime')
  <2>1. prime' \in NextCall /\ prime'.phase = "none"
    BY <1>1, NoStreamType DEF NoCall
  <2> QED
    BY <1>7, <2>1, NoPrime DEF WorldInv
<1>10. w.ops # <<>> /\ w.ops[1] = Head1 /\ Len(w.ops) <= env'.ops + env'.faults + 1
  <2>1. Len(ops) \in Nat /\ ops \in Seq(OperationType) /\ Head1 = ops[1]
    BY <1>2, HeadIs
  <2>2. /\ env.ops \in Nat /\ env.faults \in Nat /\ env'.ops \in Nat /\ env'.faults \in Nat
    BY <1>2, <1>8, PlanOf, WorkerAssumption DEF EnvState
  <2>3. CASE w.ops = ops
    BY <1>2, <1>8, <2>1, <2>2, <2>3
  <2>4. CASE w.ops = Append(ops, Op("seek", b.cursor, TRUE, TRUE))
    <3> DEFINE o == Op("seek", b.cursor, TRUE, TRUE)
    <3> HIDE DEF o
    <3>2. /\ Append(ops, o) # <<>> /\ Append(ops, o)[1] = ops[1]
          /\ Len(Append(ops, o)) = Len(ops) + 1
      BY <1>2, <2>1, HeadStays
    <3>1. w.ops # <<>> /\ w.ops[1] = ops[1] /\ Len(w.ops) = Len(ops) + 1
      BY <2>4, <3>2 DEF o
    <3> QED
      BY <1>2, <1>8, <2>1, <2>2, <3>1
  <2> QED
    BY <1>7, <2>3, <2>4
<1>11. Calm => \E fed : Flow(w, fed, Sound, Sound)
  <2> SUFFICES ASSUME Calm PROVE Flow(w, Tip(prime.out, Origin), Sound, Sound)
    OBVIOUS
  <2>1. OrderOK(World) /\ (Sound => decoder.intact)
    BY <1>1, WorldFields DEF IInv, CalmOK, FlowOK, Opening, Flow
  <2>2. OrderOK(w)
    BY <1>3, <1>4, <1>7, <2>1, WorldFields DEF OrderOK, Output
  <2> QED
    BY <1>4, <1>7, <2>1, <2>2 DEF Flow
<1>12. probed' \in BOOLEAN /\ (w.b.playing => "play" \in env.plan.calls)
  BY <1>1, <1>2, <1>7
<1> QED
  BY <1>1, <1>2, <1>6, <1>8, <1>9, <1>10, <1>11, <1>12, SettleKeeps

LEMMA OperationStepInv ==
  ASSUME IInv, OperationStep
  PROVE  IInv'
  BY StartOpInv, ReplyInv, OpenReplyInv, OpenFailsInv, PrimeStepInv, ProbeReplyInv, PrimeFailsInv,
     PrimeFeedThrowsInv DEF OperationStep

-----------------------------------------------------------------------------
(* Beside the chain: the pump, the decoder, the calls that are no          *)
(* operations.  The latched error, the chain and the stream stay.          *)
LEMMA BesideWorld ==
  ASSUME NEW r, IInv, Becomes(r), UNCHANGED <<pc, prime, probed>>, env' \in EnvState,
         env'.plan = env.plan, env.ops + env.faults <= env'.ops + env'.faults,
         r \in WorldState, r.heal = heal, r.ops = ops, r.session.from = session.from,
         r.decoder.state = decoder.state,
         r.b.cursor = b.cursor \/ r.b.cursor \in Cursors,
         r.b.playing => "play" \in env.plan.calls,
         StreamOK(r), FramesOK(r), ReaderOK(kind, r, prime),
         Calm /\ pc = "priming" =>
           /\ ~r.session.ended /\ r.ring = [chunks |-> <<>>, ended |-> FALSE]
           /\ kind = "mp4" => ~r.pump.live /\ r.reader = reader,
         Flow(World, Tip(prime.out, Origin), Sound, Sound) =>
           Flow(r, Tip(prime.out, Origin), Sound, Sound)
  PROVE  IInv'
<1>1. /\ ChainOK(World) /\ CursorOK(World) /\ StepState
      /\ Len(ops) <= env.ops + env.faults
      /\ pc = "opening" => b.cursor \in Cursors
  BY DEF IInv, WorldInv, StageOK
<1>2. ChainOK(r) /\ CursorOK(r)
  BY <1>1, WorldFields DEF ChainOK, CursorOK, IsOpen
<1>3. WorldInv(r, prime)
  BY <1>2 DEF WorldInv
<1>4. Len(r.ops) <= env'.ops + env'.faults
  <2>1. env'.ops \in Nat /\ env'.faults \in Nat /\ env.ops \in Nat /\ env.faults \in Nat
    BY <1>1, PlanOf, WorkerAssumption DEF EnvState
  <2>2. Len(ops) \in Nat
    BY WorldFields, Fields DEF IInv, WorldInv
  <2> QED
    BY <1>1, <2>1, <2>2
<1>5. "throw" \notin env.plan.faults =>
        HealDue(r) /\ (r.heal.error => pc \notin {"opening", "priming", "probing"})
  <2> SUFFICES ASSUME "throw" \notin env.plan.faults
               PROVE  HealDue(r) /\ (r.heal.error => pc \notin {"opening", "priming", "probing"})
    OBVIOUS
  <2>1. HealDue(World) /\ (heal.error => pc \notin {"opening", "priming", "probing"})
    BY DEF IInv, HealOK
  <2> QED
    BY <2>1, WorldFields DEF HealDue, IsOpen
<1>6. Calm /\ (Opening \/ r.decoder.state # "unconfigured") =>
        Flow(r, Tip(prime.out, Origin), Sound, Sound)
  BY DEF IInv, CalmOK, FlowOK
<1>7. pc = "opening" => r.b.cursor \in Cursors
  BY <1>1
<1> QED
  BY <1>3, <1>4, <1>5, <1>6, <1>7, BesideKeeps

(* The environment stands still, or a failure is counted.                  *)
LEMMA EnvStays ==
  ASSUME IInv, env' = env
  PROVE  /\ env' \in EnvState /\ env'.plan = env.plan
         /\ env.ops + env.faults <= env'.ops + env'.faults
<1>1. StepState
  BY DEF IInv
<1>2. env \in EnvState /\ env.ops \in Nat /\ env.faults \in Nat
  BY <1>1, PlanOf DEF StepState
<1> QED
  BY <1>2

LEMMA EnvFaults ==
  ASSUME NEW failure, IInv, Fault(failure)
  PROVE  /\ env' \in EnvState /\ env'.plan = env.plan /\ failure \in env.plan.faults
         /\ env.ops + env.faults <= env'.ops + env'.faults
  BY FaultIs DEF IInv

(* What IInv says of the record.                                           *)
LEMMA WorldIs ==
  ASSUME IInv
  PROVE  /\ World \in WorldState /\ WorldInv(World, prime)
         /\ ChainOK(World) /\ CursorOK(World) /\ StreamOK(World) /\ AliveOK(World)
         /\ FramesOK(World) /\ ReaderOK(kind, World, prime)
         /\ b \in BlitState /\ session \in SessionState /\ decoder \in DecoderState
         /\ ring \in RingState /\ reader \in ReaderState /\ pump \in PumpState
         /\ heal \in HealState /\ ops \in Seq(OperationType) /\ wanted \in Nat \cup {NoPts}
         /\ prime \in NextCall /\ kind \in {"mcap", "mp4"}
         /\ Origin \in Nat /\ Tip(prime.out, Origin) \in Nat /\ Sound \in BOOLEAN
         /\ b.playing => "play" \in env.plan.calls
<1>1. World \in WorldState /\ WorldInv(World, prime) /\ StepState /\ prime \in NextCall
  BY DEF IInv, WorldInv, StepState
<1>2. kind \in {"mcap", "mp4"} /\ Sound \in BOOLEAN
  BY <1>1, PlanOf DEF IInv, StageOK
<1>3. b.playing => "play" \in env.plan.calls
  BY DEF IInv, StageOK
<1> QED
  BY <1>1, <1>2, <1>3, Fields, WorldFields, OriginIs DEF WorldInv, StreamOK

(* The pump's call takes one step.                                         *)
LEMMA PumpCallSteps ==
  ASSUME IInv, PumpReady, ~(pump.live /\ OutOfRange(pump.call))
  PROVE  LET step == IF pump.call.phase = "reply" \/ ~pump.live
                     THEN [reader |-> reader, call |-> [pump.call EXCEPT !.phase = "reply"]]
                     ELSE CallStep(reader, pump.call)
             w    == [World EXCEPT !.reader = step.reader, !.pump.call = step.call]
         IN  /\ w \in WorldState /\ step.call \in NextCall /\ w.pump.call = step.call
             /\ w.b = b /\ w.session = session /\ w.decoder = decoder /\ w.ring = ring
             /\ w.pump.live = pump.live /\ w.heal = heal /\ w.ops = ops /\ w.wanted = wanted
             /\ StreamOK(w) /\ FramesOK(w) /\ ReaderOK(kind, w, prime)
             /\ ~pump.live => step.call.phase = "reply" /\ w.reader = reader
             /\ Flow(World, Tip(prime.out, Origin), Sound, Sound) =>
                  Flow(w, Tip(prime.out, Origin), Sound, Sound)
<1> DEFINE step == IF pump.call.phase = "reply" \/ ~pump.live
                   THEN [reader |-> reader, call |-> [pump.call EXCEPT !.phase = "reply"]]
                   ELSE CallStep(reader, pump.call)
           w    == [World EXCEPT !.reader = step.reader, !.pump.call = step.call]
           fed  == Tip(prime.out, Origin)
<1>1. /\ World \in WorldState /\ StreamOK(World) /\ FramesOK(World) /\ ReaderOK(kind, World, prime)
      /\ reader \in ReaderState /\ pump \in PumpState /\ pump.call \in NextCall
      /\ prime \in NextCall /\ kind \in {"mcap", "mp4"}
      /\ fed \in Nat /\ Sound \in BOOLEAN /\ decoder \in DecoderState /\ ring \in RingState
  BY WorldIs DEF PumpState
<1>2. pump.call # NoCall
  BY DEF PumpReady
<1>3. /\ reader.pos \in 1..(N + 2) /\ N \in Nat /\ pump.call.idx \in Nat
      /\ reader.first => reader.pos <= N
      /\ kind = "mcap" => pump.call.phase = "reply"
      /\ pump.live /\ pump.call.phase = "sample" => pump.call.idx # 0
      /\ pump.live /\ Pending(pump.call) => reader.pos <= N + 1
  <2>1. reader.pos \in 1..(N + 2) /\ N \in Nat /\ pump.call.idx \in Nat
    BY <1>1, CountAssumption DEF ReaderState, NextCall
  <2> QED
    BY <1>1, <1>2, <2>1, WorldFields DEF ReaderOK
<1>4. FedPos(World, fed) \in Nat
  BY <1>1, FedPosIs
(* The step, and what it keeps. *)
<1>5. /\ step.reader \in ReaderState /\ step.call \in NextCall /\ step.call # NoCall
      /\ step.call.phase = "sample" => step.call.idx = step.reader.pos
      /\ kind = "mcap" => step.reader = reader /\ step.call.phase = "reply"
      /\ step.reader.first => step.reader = reader
      /\ \/ step.reader.pos = reader.pos
         \/ /\ step.reader.pos = reader.pos + 1 /\ pump.live
            /\ Pending(pump.call) \/ reader.pos <= N
      /\ ~pump.live => step.call.phase = "reply" /\ step.reader = reader
      /\ step.call.phase \in {"clear", "sample", "reply"}
  <2>1. CASE pump.call.phase = "reply" \/ ~pump.live
    <3>1. step = [reader |-> reader, call |-> [pump.call EXCEPT !.phase = "reply"]]
      BY <2>1
    <3>2. step.reader = reader /\ step.call.phase = "reply" /\ step.call \in NextCall
      BY <1>1, <3>1 DEF NextCall
    <3>3. step.call # NoCall
      BY <3>2 DEF NoCall
    <3> HIDE DEF step
    <3> QED
      BY <1>1, <3>2, <3>3
  <2>2. CASE ~(pump.call.phase = "reply" \/ ~pump.live)
    <3> DEFINE r == CallStep(reader, pump.call)
    <3>1. step = r
      BY <2>2
    <3>2. /\ r.reader \in ReaderState /\ r.call \in NextCall
          /\ r.call.phase \in {"clear", "sample", "reply"}
          /\ r.call.phase = "sample" => r.call.idx = r.reader.pos
          /\ r.reader.first => r.reader = reader
          /\ \/ r.reader.pos = reader.pos
             \/ r.reader.pos = reader.pos + 1 /\ (Pending(pump.call) \/ reader.pos <= N)
      <4>1. ~OutOfRange(pump.call)
        BY <2>2
      <4> QED
        BY <1>1, <1>3, <2>2, <4>1, CallStepType
    <3>3. r.call # NoCall
      BY <3>2 DEF NoCall
    <3> HIDE DEF r, step
    <3> QED
      BY <1>3, <2>2, <3>1, <3>2, <3>3
  <2> QED
    BY <2>1, <2>2
<1>6. \/ /\ step.reader = reader /\ step.call.out = pump.call.out
         /\ step.call.phase = "reply"
      \/ pump.live /\ pump.call.phase # "reply" /\ step = CallStep(reader, pump.call)
  <2>1. CASE pump.call.phase = "reply" \/ ~pump.live
    BY <1>1, <2>1 DEF NextCall
  <2>2. CASE ~(pump.call.phase = "reply" \/ ~pump.live)
    BY <2>2
  <2> QED
    BY <2>1, <2>2
<1> HIDE DEF step
<1> DEFINE pu == [call |-> step.call, live |-> pump.live]
<1>7. /\ w \in WorldState /\ w.pump = pu /\ w.reader = step.reader
      /\ w.b = b /\ w.session = session /\ w.decoder = decoder /\ w.ring = ring
      /\ w.heal = heal /\ w.ops = ops /\ w.wanted = wanted
  <2>1. pu \in PumpState /\ World.pump = pump
    BY <1>1, <1>5, WorldFields DEF PumpState
  <2>2. [World.pump EXCEPT !.call = step.call] = pu
    BY <1>1, <2>1 DEF PumpState
  <2>3. w = [World EXCEPT !.reader = step.reader, !.pump = pu]
    BY <2>2 DEF World
  <2> HIDE DEF pu
  <2>4. w \in WorldState
    BY <1>1, <1>5, <2>1, <2>3 DEF WorldState, PumpState
  <2> QED
    BY <2>3, <2>4 DEF World
<1>8. pu.call = step.call /\ pu.live = pump.live
  OBVIOUS
<1> HIDE DEF w, pu
<1>9. StreamOK(w) /\ FramesOK(w)
  <2>1. AliveOK(w)
    BY <1>1, <1>2, <1>5, <1>7, <1>8, WorldFields DEF StreamOK, AliveOK, IsOpen
  <2> QED
    BY <1>1, <1>7, <2>1, WorldFields DEF StreamOK, FramesOK, IsOpen
<1>10. ReaderOK(kind, w, prime)
  <2>1. /\ kind = "mcap" => /\ ~reader.first /\ reader.pos <= N + 1
                            /\ prime.phase \in {"none", "reply"}
        /\ prime.phase = "sample" => prime.idx # 0
        /\ reader.pos = N + 2 => ~Pending(prime) /\ ~(pump.live /\ Pending(pump.call))
        /\ reader.pos = N + 1 => ~(Pending(prime) /\ pump.live /\ Pending(pump.call))
    BY <1>1, WorldFields DEF ReaderOK
  <2>2. step.reader.pos \in 1..(N + 2) /\ step.call.idx \in Nat
    BY <1>5 DEF ReaderState, NextCall
  <2>3. Pending(step.call) => step.reader.pos <= N
    BY <1>5, <2>2 DEF Pending
  <2>5. step.reader.first => step.reader.pos <= N
    BY <1>3, <1>5
  <2>6. step.call.phase = "sample" => step.call.idx # 0
    BY <1>3, <1>5, <2>2
  <2>7. step.reader.pos = N + 2 => ~Pending(prime)
    BY <1>3, <1>5, <2>1, <2>2
  <2> QED
    BY <1>3, <1>5, <1>7, <1>8, <2>1, <2>2, <2>3, <2>5, <2>6, <2>7 DEF ReaderOK
<1>11. ASSUME Flow(World, fed, Sound, Sound)
       PROVE  Flow(w, fed, Sound, Sound)
  <2> DEFINE last == Tip(ring.chunks, FedPos(World, fed))
  <2>1. OrderOK(w) /\ (Sound => w.decoder.intact)
    BY <1>7, <1>11, WorldFields DEF Flow, OrderOK, Output
  <2>2. ASSUME IsOpen(World), ~session.ended
        PROVE  AheadOK(w, FedPos(w, fed), Sound)
    <3>1. AheadOK(World, FedPos(World, fed), Sound)
      BY <1>11, <2>2, WorldFields DEF Flow
    <3>2. FedPos(w, fed) = FedPos(World, fed)
      BY <1>7, WorldFields DEF FedPos
    <3>3. last \in Nat
      BY <1>1, <1>4, <3>1, TipIs, WorldFields DEF AheadOK, RingState
    <3>4. CASE pump.live
      <4>1. CallOK(reader, pump.call) /\ ReadUpTo(reader, pump.call, last, Sound)
        BY <3>1, <3>4, WorldFields DEF AheadOK
      <4>2. CallOK(step.reader, step.call) /\ ReadUpTo(step.reader, step.call, last, Sound)
        <5> HIDE DEF last
        <5>1. CASE step.reader = reader /\ step.call.out = pump.call.out /\ step.call.phase = "reply"
          BY <4>1, <5>1 DEF CallOK, ReadUpTo
        <5>2. CASE pump.call.phase # "reply" /\ step = CallStep(reader, pump.call)
          BY <1>1, <3>3, <4>1, <5>2, CallStepOK
        <5> QED
          BY <1>6, <5>1, <5>2
      <4> QED
        BY <1>7, <1>8, <3>1, <3>2, <3>4, <4>2, WorldFields DEF AheadOK
    <3>5. CASE ~pump.live
      BY <1>5, <1>7, <1>8, <3>1, <3>2, <3>5, WorldFields DEF AheadOK
    <3> QED
      BY <3>4, <3>5
  <2>3. IsOpen(w) = IsOpen(World)
    BY <1>7, WorldFields DEF IsOpen
  <2> QED
    BY <1>7, <2>1, <2>2, <2>3 DEF Flow
<1> QED
  BY <1>5, <1>7, <1>8, <1>9, <1>10, <1>11 DEF w, step

LEMMA PumpStepInv ==
  ASSUME IInv, PumpStep
  PROVE  IInv'
<1> DEFINE step == IF pump.call.phase = "reply" \/ ~pump.live
                   THEN [reader |-> reader, call |-> [pump.call EXCEPT !.phase = "reply"]]
                   ELSE CallStep(reader, pump.call)
           w    == [World EXCEPT !.reader = step.reader, !.pump.call = step.call]
           fed  == Tip(prime.out, Origin)
<1>1. /\ w \in WorldState /\ step.call \in NextCall /\ w.pump.call = step.call
      /\ w.b = b /\ w.session = session /\ w.decoder = decoder /\ w.ring = ring
      /\ w.pump.live = pump.live /\ w.heal = heal /\ w.ops = ops
      /\ StreamOK(w) /\ FramesOK(w) /\ ReaderOK(kind, w, prime)
      /\ ~pump.live => step.call.phase = "reply" /\ w.reader = reader
      /\ Flow(World, fed, Sound, Sound) => Flow(w, fed, Sound, Sound)
  BY PumpCallSteps DEF PumpStep
<1>2. Handles(IF step.call.phase = "reply" THEN PumpReturns(w, step.call.out) ELSE w)
  BY DEF PumpStep
<1> DEFINE call == step.call
<1>3. fed \in Nat /\ Sound \in BOOLEAN /\ prime \in NextCall /\ kind \in {"mcap", "mp4"}
      /\ (b.playing => "play" \in env.plan.calls)
  BY WorldIs
<1> HIDE DEF w, step, fed
<1>4. call.out \in Seq(Samples)
  BY <1>1 DEF NextCall
<1>5. PumpReady
  BY DEF PumpStep
<1>6. ASSUME Calm, pc = "priming"
      PROVE  ~pump.live /\ ~session.ended /\ ring = [chunks |-> <<>>, ended |-> FALSE]
  BY <1>3, <1>5, <1>6 DEF IInv, CalmOK, PrimingOK, PumpReady
<1> DEFINE r == IF call.phase = "reply" THEN PumpReturns(w, call.out) ELSE w
<1>7. /\ r \in WorldState /\ r.heal = heal /\ r.ops = ops /\ r.session.from = session.from
      /\ r.decoder.state = decoder.state /\ r.b.cursor = b.cursor /\ r.b.playing = b.playing
      /\ StreamOK(r) /\ FramesOK(r) /\ ReaderOK(kind, r, prime) /\ r.reader = w.reader
      /\ ~pump.live => r.session = session /\ r.ring = ring /\ ~r.pump.live
      /\ Flow(World, fed, Sound, Sound) => Flow(r, fed, Sound, Sound)
  <2>1. CASE call.phase = "reply"
    <3> DEFINE x == PumpReturns(w, call.out)
    <3>1. /\ Aside(w, x) /\ StreamOK(x) /\ FramesOK(x)
          /\ x.pump = NoPump /\ x.reader = w.reader
          /\ \A p \in NextCall : ReaderOK(kind, w, p) => ReaderOK(kind, x, p)
          /\ ~w.pump.live => x.session = w.session /\ x.ring = w.ring
          /\ \A fed0 \in Nat, gapless \in BOOLEAN :
               w.pump.live => (call.out = w.pump.call.out =>
                 (Flow(w, fed0, gapless, gapless) => Flow(x, fed0, gapless, gapless)))
          /\ \A fed0 \in Nat, gapless \in BOOLEAN :
               ~w.pump.live => (Flow(w, fed0, gapless, gapless) => Flow(x, fed0, gapless, gapless))
      BY <1>1, <1>4, PumpReturnsOK
    <3> HIDE DEF x
    <3>2. r = x
      BY <2>1 DEF x
    <3>3. ReaderOK(kind, x, prime) /\ ~NoPump.live
      BY <1>1, <1>3, <3>1 DEF NoPump
    <3>4. Flow(World, fed, Sound, Sound) => Flow(x, fed, Sound, Sound)
      BY <1>1, <1>3, <3>1
    <3> QED
      BY <1>1, <3>1, <3>2, <3>3, <3>4 DEF Aside
  <2>2. CASE call.phase # "reply"
    <3>1. r = w /\ pump.live
      BY <1>1, <2>2
    <3> QED
      BY <1>1, <3>1
  <2> QED
    BY <2>1, <2>2
<1>8. Becomes(r) /\ UNCHANGED <<pc, prime, probed>> /\ env' = env
  BY <1>2 DEF Handles
<1>9. ~pump.live => r.reader = reader
  BY <1>1, <1>7
<1> HIDE DEF r
<1>10. /\ env' \in EnvState /\ env'.plan = env.plan
       /\ env.ops + env.faults <= env'.ops + env'.faults
  BY <1>8, EnvStays
<1>11. Calm /\ pc = "priming" =>
         /\ ~r.session.ended /\ r.ring = [chunks |-> <<>>, ended |-> FALSE]
         /\ kind = "mp4" => ~r.pump.live /\ r.reader = reader
  BY <1>6, <1>7, <1>9
<1> QED
  BY <1>3, <1>7, <1>8, <1>10, <1>11, BesideWorld DEF fed

LEMMA PumpFailsInv ==
  ASSUME IInv, PumpFails
  PROVE  IInv'
<1> DEFINE r == [World EXCEPT !.pump = NoPump]
           fed == Tip(prime.out, Origin)
<1>1. /\ Becomes(r) /\ UNCHANGED <<pc, prime, probed>> /\ PumpReady
      /\ IF pump.live /\ OutOfRange(pump.call) THEN UNCHANGED env ELSE Fault("read")
  BY DEF PumpFails
<1>2. /\ World \in WorldState /\ StreamOK(World) /\ FramesOK(World) /\ ReaderOK(kind, World, prime)
      /\ reader \in ReaderState /\ pump \in PumpState /\ ring \in RingState
      /\ prime \in NextCall /\ kind \in {"mcap", "mp4"}
      /\ fed \in Nat /\ Sound \in BOOLEAN /\ decoder \in DecoderState
      /\ b.playing => "play" \in env.plan.calls
  BY WorldIs
<1>3. NoPump.call = NoCall /\ NoCall.phase = "none" /\ ~NoPump.live /\ NoPump \in PumpState
  BY NoStreamType DEF NoPump, NoCall
<1>4. /\ r \in WorldState /\ r.pump = NoPump /\ r.reader = reader
      /\ r.b = b /\ r.session = session /\ r.decoder = decoder /\ r.ring = ring
      /\ r.heal = heal /\ r.ops = ops
  <2>1. r \in WorldState
    BY <1>2, <1>3 DEF WorldState, PumpState
  <2> QED
    BY <2>1 DEF World
<1> HIDE DEF r, fed
<1>5. /\ env' \in EnvState /\ env'.plan = env.plan
      /\ env.ops + env.faults <= env'.ops + env'.faults
      /\ Sound => pump.live /\ OutOfRange(pump.call)
  <2>1. CASE pump.live /\ OutOfRange(pump.call)
    BY <1>1, <2>1, EnvStays
  <2>2. CASE Fault("read")
    BY <2>2, EnvFaults DEF Sound
  <2> QED
    BY <1>1, <2>1, <2>2
<1>6. StreamOK(r) /\ FramesOK(r)
  BY <1>2, <1>3, <1>4, WorldFields DEF StreamOK, AliveOK, FramesOK, IsOpen
<1>7. ReaderOK(kind, r, prime)
  BY <1>2, <1>3, <1>4, WorldFields DEF ReaderOK, Pending
<1>8. ASSUME Flow(World, fed, Sound, Sound)
      PROVE  Flow(r, fed, Sound, Sound)
  <2>1. OrderOK(r) /\ (Sound => r.decoder.intact)
    BY <1>4, <1>8, WorldFields DEF Flow, OrderOK, Output
  <2>2. ASSUME IsOpen(World), ~session.ended
        PROVE  AheadOK(r, FedPos(r, fed), Sound)
    <3> DEFINE at == FedPos(World, fed)
               last == Tip(ring.chunks, at)
    <3>1. AheadOK(World, at, Sound) /\ at \in Nat
      BY <1>2, <1>8, <2>2, FedPosIs, WorldFields DEF Flow
    <3>2. FedPos(r, fed) = at
      BY <1>4, WorldFields DEF FedPos
    <3> HIDE DEF at
    <3>3. Chain(ring.chunks, at, Sound)
      BY <3>1, WorldFields DEF AheadOK
    <3>4. last \in Nat
      BY <1>2, <3>1, <3>3, TipIs DEF RingState
    <3>5. Before(reader, last, Sound)
      <4>1. CASE pump.live
        <5>1. CallOK(reader, pump.call) /\ ReadUpTo(reader, pump.call, last, Sound)
          BY <3>1, <4>1, WorldFields DEF AheadOK
        <5>2. pump.call \in NextCall /\ pump.call.out \in Seq(Samples)
          BY <1>2 DEF PumpState, NextCall
        <5> HIDE DEF last
        <5>3. ~Sound
          <6>1. OutOfRange(pump.call) => pump.call.phase # "reply"
            BY DEF OutOfRange
          <6> QED
            BY <1>2, <1>5, <5>1, <5>2, <6>1, CallStepOK
        <5>4. Tip(pump.call.out, last) >= last /\ Tip(pump.call.out, last) \in Nat
          BY <1>2, <3>4, <5>1, <5>2, TipIs DEF ReadUpTo
        <5>5. reader.pos \in Nat
          BY <1>2, CountAssumption DEF ReaderState
        <5> QED
          BY <3>4, <5>1, <5>3, <5>4, <5>5 DEF ReadUpTo, Before
      <4>2. CASE ~pump.live
        BY <3>1, <4>2, WorldFields DEF AheadOK
      <4> QED
        BY <4>1, <4>2
    <3> QED
      BY <1>3, <1>4, <3>2, <3>3, <3>5 DEF AheadOK
  <2>3. IsOpen(r) = IsOpen(World)
    BY <1>4, WorldFields DEF IsOpen
  <2> QED
    BY <1>4, <2>1, <2>2, <2>3 DEF Flow
<1>9. Calm /\ pc = "priming" =>
        /\ ~r.session.ended /\ r.ring = [chunks |-> <<>>, ended |-> FALSE]
        /\ kind = "mp4" => ~r.pump.live /\ r.reader = reader
  BY <1>3, <1>4 DEF IInv, CalmOK, PrimingOK
<1>10. Becomes(r) /\ UNCHANGED <<pc, prime, probed>>
  BY <1>1 DEF r
<1> QED
  BY <1>2, <1>4, <1>5, <1>6, <1>7, <1>8, <1>9, <1>10, BesideWorld DEF fed

(* Of a stream that primes, nothing is in the decoder.                     *)
LEMMA DecoderAtWork ==
  ASSUME IInv, decoder.state # "unconfigured", decoder.state # "none"
  PROVE  IsOpen(World) /\ ~Opening /\ pc # "opening"
<1>1. AliveOK(World) /\ World.decoder.state # "none"
  BY WorldIs, WorldFields
<1>2. IsOpen(World)
  BY <1>1, NoStreamType DEF AliveOK
<1>3. /\ Opening => decoder.state = "unconfigured"
      /\ pc = "opening" => ~IsOpen(World)
  BY DEF IInv, StageOK
<1> QED
  BY <1>2, <1>3

LEMMA DecoderConsumeInv ==
  ASSUME IInv, DecoderConsume
  PROVE  IInv'
<1> DEFINE d == [decoder EXCEPT !.queue = Tail(decoder.queue),
                                !.held = @ \cup {Head(decoder.queue)}]
           r == [World EXCEPT !.decoder = d]
           fed == Tip(prime.out, Origin)
<1>1. /\ Handles([World EXCEPT !.decoder.queue = Tail(@), !.decoder.held = @ \cup {Head(decoder.queue)}])
      /\ decoder.state = "configured" /\ decoder.queue # <<>>
  BY DEF DecoderConsume, ConsumeReady
<1>2. /\ World \in WorldState /\ StreamOK(World) /\ FramesOK(World) /\ ReaderOK(kind, World, prime)
      /\ decoder \in DecoderState /\ World.decoder = decoder
      /\ b.playing => "play" \in env.plan.calls
  BY WorldIs, WorldFields
<1>3. decoder.queue \in Seq(Samples) /\ decoder.held \subseteq Samples
  BY <1>2 DEF DecoderState
<1>4. Tail(decoder.queue) \in Seq(Samples) /\ Head(decoder.queue) \in Samples
  BY <1>1, <1>3
<1>5. /\ d \in DecoderState /\ d.queue = Tail(decoder.queue)
      /\ d.held = decoder.held \cup {Head(decoder.queue)}
      /\ d.state = decoder.state /\ d.fed = decoder.fed /\ d.intact = decoder.intact
      /\ d.flushing = decoder.flushing
  BY <1>2, <1>3, <1>4 DEF DecoderState
<1>6. [World EXCEPT !.decoder.queue = Tail(@), !.decoder.held = @ \cup {Head(decoder.queue)}] = r
  BY <1>2 DEF World
<1>7. Becomes(r) /\ UNCHANGED <<pc, prime, probed>> /\ env' = env
  BY <1>1, <1>6 DEF Handles
<1> HIDE DEF d
<1>8. /\ r \in WorldState /\ r.pump = pump /\ r.reader = reader
      /\ r.b = b /\ r.session = session /\ r.decoder = d /\ r.ring = ring
      /\ r.heal = heal /\ r.ops = ops
  <2>1. r \in WorldState
    BY <1>2, <1>5 DEF WorldState
  <2> QED
    BY <2>1 DEF World
<1> HIDE DEF r, fed
<1>9. StreamOK(r) /\ FramesOK(r) /\ ReaderOK(kind, r, prime)
  <2>1. AliveOK(r)
    <3>1. IsOpen(World)
      BY <1>1, DecoderAtWork
    <3> QED
      BY <1>1, <1>2, <1>5, <1>8, <3>1, WorldFields DEF StreamOK, AliveOK, IsOpen
  <2> QED
    BY <1>2, <1>8, <2>1, WorldFields DEF StreamOK, FramesOK, ReaderOK, IsOpen
<1>10. ASSUME Flow(World, fed, Sound, Sound)
       PROVE  Flow(r, fed, Sound, Sound)
  <2>1. OrderOK(World) /\ (Sound => r.decoder.intact)
    BY <1>5, <1>8, <1>10, WorldFields DEF Flow
  <2>2. OrderOK(r)
    <3>1. /\ World.decoder.queue # <<>> /\ r.decoder.queue = Tail(World.decoder.queue)
          /\ r.decoder.fed = World.decoder.fed
          /\ r.decoder.held = World.decoder.held \cup {Head(World.decoder.queue)}
          /\ r.session.out = World.session.out
      BY <1>1, <1>2, <1>5, <1>8, WorldFields
    <3> QED
      BY <1>2, <1>8, <2>1, <3>1, ConsumeOrder
  <2>3. IsOpen(r) = IsOpen(World) /\ FedPos(r, fed) = FedPos(World, fed)
    BY <1>5, <1>8, WorldFields DEF IsOpen, FedPos
  <2>4. AheadOK(World, FedPos(World, fed), Sound) => AheadOK(r, FedPos(World, fed), Sound)
    BY <1>8, WorldFields DEF AheadOK
  <2> QED
    BY <1>8, <1>10, <2>1, <2>2, <2>3, <2>4, WorldFields DEF Flow
<1>11. pc # "priming"
  BY <1>1, DecoderAtWork DEF Opening
<1>12. /\ env' \in EnvState /\ env'.plan = env.plan
       /\ env.ops + env.faults <= env'.ops + env'.faults
  BY <1>7, EnvStays
<1> QED
  BY <1>2, <1>5, <1>7, <1>8, <1>9, <1>10, <1>11, <1>12, BesideWorld DEF fed

LEMMA DecoderFlushedInv ==
  ASSUME IInv, DecoderFlushed
  PROVE  IInv'
<1> DEFINE r == Drained(World)
           fed == Tip(prime.out, Origin)
<1>1. Becomes(r) /\ UNCHANGED <<pc, prime, probed>> /\ env' = env /\ decoder.flushing
  BY DEF DecoderFlushed, FlushReady, Handles
<1>2. /\ World \in WorldState /\ StreamOK(World) /\ AliveOK(World) /\ FramesOK(World)
      /\ ReaderOK(kind, World, prime)
      /\ decoder \in DecoderState /\ World.decoder = decoder /\ World.session = session
      /\ b.playing => "play" \in env.plan.calls
  BY WorldIs, WorldFields
<1>3. decoder.state # "unconfigured" /\ decoder.state # "none" /\ session.ended
  <2>1. ~[NoDecoder EXCEPT !.state = "unconfigured"].flushing /\ ~NoDecoder.flushing /\ ~NoSession.ended
    BY DEF NoDecoder, NoSession
  <2> QED
    BY <1>1, <1>2, <2>1 DEF AliveOK
<1>4. /\ r \in WorldState /\ Keeps(World.b, r.b, {World.session.pre})
      /\ r.session.pre = NoPts /\ r.session.drained
      /\ r.session.from = session.from /\ r.session.ended = session.ended
      /\ r.session.out = session.out
      /\ r.decoder = [decoder EXCEPT !.flushing = FALSE]
      /\ r.ring = ring /\ r.reader = reader /\ r.pump = pump /\ r.heal = heal /\ r.ops = ops
  BY <1>2, DrainedOK, WorldFields
<1>5. /\ r.decoder.state = decoder.state /\ r.decoder.queue = decoder.queue
      /\ r.decoder.held = decoder.held /\ r.decoder.fed = decoder.fed
      /\ r.decoder.intact = decoder.intact /\ ~r.decoder.flushing
  BY <1>2, <1>4 DEF DecoderState
<1> HIDE DEF r, fed
<1>6. r.b.cursor = b.cursor /\ r.b.playing = b.playing
  BY <1>4, WorldFields DEF Keeps
<1>7. FramesOK(r)
  BY <1>2, <1>4 DEF FramesOK, Keeps
<1>8. StreamOK(r)
  <2>1. IsOpen(World)
    BY <1>3, DecoderAtWork
  <2> QED
    BY <1>2, <1>3, <1>4, <1>5, <2>1, WorldFields DEF StreamOK, AliveOK, IsOpen
<1>9. ReaderOK(kind, r, prime)
  BY <1>2, <1>4, WorldFields DEF ReaderOK
<1>10. Flow(World, fed, Sound, Sound) => Flow(r, fed, Sound, Sound)
  <2>1. OrderOK(World) => OrderOK(r)
    BY <1>2, <1>4, <1>5 DEF OrderOK, Output
  <2> QED
    BY <1>2, <1>3, <1>4, <1>5, <2>1 DEF Flow
<1>11. pc # "priming"
  BY <1>3, DecoderAtWork DEF Opening
<1>12. /\ env' \in EnvState /\ env'.plan = env.plan
       /\ env.ops + env.faults <= env'.ops + env'.faults
  BY <1>1, EnvStays
<1>13. Becomes(r) /\ UNCHANGED <<pc, prime, probed>>
  BY <1>1 DEF r
<1> QED
  BY <1>2, <1>4, <1>5, <1>6, <1>7, <1>8, <1>9, <1>10, <1>11, <1>12, <1>13, BesideWorld DEF fed

LEMMA DecoderOutputInv ==
  ASSUME IInv, DecoderOutput
  PROVE  IInv'
<1> DEFINE x   == NextOutput
           f   == PtsOf[x]
           d   == [decoder EXCEPT !.held = @ \ {x}]
           w   == DecoderIs(World, d)
           u   == [w EXCEPT !.session.out = @ \cup {f}]
           r   == OnFrame(w, f)
           fed == Tip(prime.out, Origin)
<1>1. /\ Handles(OnFrame([World EXCEPT !.decoder.held = @ \ {x}], f))
      /\ decoder.state = "configured" /\ decoder.held # {}
  <2>1. Cardinality({}) = 0 /\ ~(Cardinality({}) > DECODER_HOLD)
    BY FS_EmptySet, WorkerAssumption
  <2> QED
    BY <2>1 DEF DecoderOutput, OutputReady
<1>2. /\ World \in WorldState /\ StreamOK(World) /\ FramesOK(World) /\ ReaderOK(kind, World, prime)
      /\ ChainOK(World) /\ CursorOK(World) /\ AliveOK(World)
      /\ decoder \in DecoderState /\ World.decoder = decoder /\ prime \in NextCall
      /\ session \in SessionState /\ heal \in HealState
      /\ fed \in Nat /\ Sound \in BOOLEAN
      /\ b.playing => "play" \in env.plan.calls
  BY WorldIs, WorldFields
<1>3. /\ x \in decoder.held /\ x \in Samples
      /\ DECODER_ORDER = "decode" => \A i \in decoder.held : x <= i
      /\ DECODER_ORDER # "decode" => \A i \in decoder.held : PtsOf[x] <= PtsOf[i]
  BY <1>1, <1>2, NextOutputIs DEF DecoderState
<1>4. f \in Pts
  BY <1>3, WorkerAssumption
<1>5. [World EXCEPT !.decoder.held = @ \ {x}] = w
  BY <1>2 DEF World, DecoderIs
<1>6. Becomes(r) /\ UNCHANGED <<pc, prime, probed>> /\ env' = env
  BY <1>1, <1>5 DEF Handles
<1>7. IsOpen(World) /\ ~Opening /\ pc # "opening"
  BY <1>1, DecoderAtWork
<1> HIDE DEF x, fed
<1>8. /\ d \in DecoderState /\ d.held = decoder.held \ {x}
      /\ d.queue = decoder.queue /\ d.fed = decoder.fed /\ d.intact = decoder.intact
      /\ d.state = decoder.state /\ d.flushing = decoder.flushing
  BY <1>2 DEF DecoderState
<1> HIDE DEF d, f
<1>9. /\ w \in WorldState /\ w.decoder = d /\ w.b = b /\ w.session = session /\ w.ring = ring
      /\ w.reader = reader /\ w.pump = pump /\ w.heal = heal /\ w.ops = ops
  <2>1. w \in WorldState
    BY <1>2, <1>8 DEF WorldState, DecoderIs
  <2> QED
    BY <2>1 DEF World, DecoderIs
<1> HIDE DEF w
<1>10. IsOpen(w) /\ StreamOK(w) /\ FramesOK(w) /\ ReaderOK(kind, w, prime)
  <2>1. IsOpen(w)
    BY <1>7, <1>9, WorldFields DEF IsOpen
  <2>2. AliveOK(w)
    BY <1>1, <1>2, <1>8, <1>9, <2>1, WorldFields DEF AliveOK, IsOpen
  <2> QED
    BY <1>2, <1>9, <2>1, <2>2, WorldFields DEF StreamOK, FramesOK, ReaderOK, IsOpen
<1>11. /\ r \in WorldState /\ StreamOK(r) /\ FramesOK(r)
       /\ r.heal = [w.heal EXCEPT !.count = 0] /\ r.ops = w.ops
       /\ r.session.from = w.session.from
       /\ r.decoder.state = w.decoder.state
       /\ r.b.cursor = w.b.cursor /\ r.b.playing = w.b.playing
       /\ \A p \in NextCall : ReaderOK(kind, w, p) => ReaderOK(kind, r, p)
       /\ \A fed0 \in Nat, gapless \in BOOLEAN :
            Flow(u, fed0, gapless, gapless) => Flow(r, fed0, gapless, gapless)
  BY <1>4, <1>9, <1>10, OnFrameOK
<1>12. /\ u.session.out = session.out \cup {f} /\ u.session.from = session.from
       /\ u.session.ended = session.ended /\ u.decoder = d /\ u.ring = ring
       /\ u.reader = reader /\ u.pump = pump
  <2>1. w = [b |-> w.b, session |-> w.session, decoder |-> w.decoder, ring |-> w.ring,
             reader |-> w.reader, pump |-> w.pump, heal |-> w.heal, ops |-> w.ops,
             wanted |-> w.wanted]
    BY <1>9, Fields
  <2>2. session = [from |-> session.from, pre |-> session.pre, last |-> session.last,
                   ended |-> session.ended, out |-> session.out, drained |-> session.drained]
    BY <1>2 DEF SessionState
  <2> QED
    BY <1>9, <2>1, <2>2
<1> HIDE DEF r, u
<1>13. Flow(World, fed, Sound, Sound) => Flow(r, fed, Sound, Sound)
  <2> SUFFICES ASSUME Flow(World, fed, Sound, Sound) PROVE Flow(u, fed, Sound, Sound)
    BY <1>2, <1>11
  <2>1. OrderOK(World) /\ (Sound => decoder.intact)
    BY <1>2 DEF Flow
  <2>2. OrderOK(u)
    <3>1. /\ u.decoder.queue = World.decoder.queue /\ u.decoder.fed = World.decoder.fed
          /\ u.decoder.held = World.decoder.held \ {x}
          /\ u.session.out = World.session.out \cup {PtsOf[x]}
      BY <1>2, <1>8, <1>12, WorldFields DEF f
    <3>2. /\ x \in World.decoder.held
          /\ DECODER_ORDER = "decode" => \A i \in World.decoder.held : x <= i
          /\ DECODER_ORDER # "decode" => \A i \in World.decoder.held : PtsOf[x] <= PtsOf[i]
      BY <1>2, <1>3
    <3> QED
      BY <1>2, <2>1, <3>1, <3>2, OutputOrder
  <2>3. IsOpen(u) = IsOpen(World) /\ FedPos(u, fed) = FedPos(World, fed)
    BY <1>8, <1>12, WorldFields DEF IsOpen, FedPos
  <2>4. AheadOK(World, FedPos(World, fed), Sound) => AheadOK(u, FedPos(World, fed), Sound)
    BY <1>12, WorldFields DEF AheadOK
  <2> QED
    BY <1>8, <1>12, <2>1, <2>2, <2>3, <2>4, WorldFields DEF Flow
<1>14. heal.error = r.heal.error /\ heal.inFlight = r.heal.inFlight
  BY <1>2, <1>9, <1>11 DEF HealState
<1>15. WorldInv(r, prime)
  <2>1. ChainOK(r) /\ CursorOK(r)
    BY <1>2, <1>9, <1>11, <1>14, WorldFields DEF ChainOK, CursorOK, IsOpen
  <2> QED
    BY <1>2, <1>10, <1>11, <2>1 DEF WorldInv
<1>16. "throw" \notin env.plan.faults =>
         HealDue(r) /\ (r.heal.error => pc \notin {"opening", "priming", "probing"})
  <2> SUFFICES ASSUME "throw" \notin env.plan.faults PROVE ~r.heal.error
    BY DEF HealDue
  <2>1. HealDue(World)
    BY DEF IInv, HealOK
  <2> QED
    BY <1>1, <1>7, <1>14, <2>1, WorldFields DEF HealDue
<1>17. /\ env' \in EnvState /\ env'.plan = env.plan
       /\ env.ops + env.faults <= env'.ops + env'.faults
  BY <1>6, EnvStays DEF r
<1>18. Len(r.ops) <= env'.ops + env'.faults
  BY <1>6, <1>9, <1>11 DEF IInv, StageOK, r
<1>19. pc # "priming" /\ pc # "opening" /\ ~Opening
  BY <1>7 DEF Opening
<1>20. Calm /\ (Opening \/ r.decoder.state # "unconfigured") => Flow(r, fed, Sound, Sound)
  <2>1. decoder.state # "unconfigured"
    BY <1>1
  <2> QED
    BY <1>13, <2>1 DEF IInv, CalmOK, FlowOK, fed
<1>21. r.ops = ops /\ r.session.from = session.from /\ (r.b.playing => "play" \in env.plan.calls)
  BY <1>2, <1>9, <1>11
<1>22. Becomes(r) /\ UNCHANGED <<pc, prime, probed>>
  BY <1>6 DEF r
<1> QED
  BY <1>15, <1>16, <1>17, <1>18, <1>19, <1>20, <1>21, <1>22, BesideKeeps DEF fed

LEMMA DecoderErrorInv ==
  ASSUME IInv, DecoderError
  PROVE  IInv'
<1> DEFINE d   == [decoder EXCEPT !.state = "closed", !.queue = <<>>, !.held = {}]
           v   == DecoderIs(World, d)
           r   == OnDecoderError(v)
           fed == Tip(prime.out, Origin)
<1>1. /\ decoder.state = "configured" /\ Fault("decode") /\ UNCHANGED <<pc, prime, probed>>
      /\ Becomes(OnDecoderError([World EXCEPT !.decoder.state = "closed",
                                 !.decoder.queue = <<>>, !.decoder.held = {}]))
  BY DEF DecoderError
<1>2. /\ World \in WorldState /\ WorldInv(World, prime)
      /\ decoder \in DecoderState /\ World.decoder = decoder
      /\ ops \in Seq(OperationType) /\ fed \in Nat /\ Sound \in BOOLEAN
      /\ b.playing => "play" \in env.plan.calls
  BY WorldIs, WorldFields
<1>3. IsOpen(World) /\ ~Opening /\ pc # "opening"
  BY <1>1, DecoderAtWork
<1>4. /\ d \in DecoderState /\ d.state = "closed" /\ d.queue = <<>> /\ d.held = {}
      /\ d.fed = World.decoder.fed /\ d.intact = World.decoder.intact
      /\ d.flushing = World.decoder.flushing
  <2>1. <<>> \in Seq(Samples)
    OBVIOUS
  <2> QED
    BY <1>2, <2>1 DEF DecoderState
<1>5. [World EXCEPT !.decoder.state = "closed",
                    !.decoder.queue = <<>>, !.decoder.held = {}] = v
  BY <1>2 DEF World, DecoderIs
<1>6. Becomes(r)
  BY <1>1, <1>5
<1> HIDE DEF d, fed
<1>7. /\ d.state \in {"configured", "closed"} /\ d.fed = World.decoder.fed
      /\ d.intact = World.decoder.intact /\ d.flushing = World.decoder.flushing
  BY <1>4
<1>20. WorldInv(World, prime) /\ IsOpen(World) /\ d \in DecoderState
  BY <1>2, <1>3, <1>4
<1>8. WorldInv(r, prime)
  BY <1>7, <1>20, ErrorKeeps
<1>9. r.b = World.b /\ r.decoder = d
  BY <1>7, <1>20, ErrorKeeps
<1>10. /\ r.session.from = World.session.from /\ r.session.out = World.session.out
       /\ r.session.ended
  BY <1>7, <1>20, ErrorKeeps
<1>11. \/ r.ops = World.ops
       \/ r.ops = Append(World.ops, Op("seek", World.b.cursor, TRUE, TRUE))
  BY <1>7, <1>20, ErrorKeeps
<1>12. Healing(r)
  BY <1>7, <1>20, ErrorKeeps
<1> HIDE DEF r
<1>13. HealDue(r) /\ pc \notin {"opening", "priming", "probing"}
  BY <1>3, <1>4, <1>9, <1>12 DEF HealDue, Opening, Healing
<1>14. /\ env' \in EnvState /\ env'.plan = env.plan /\ env'.ops = env.ops
       /\ env'.faults = env.faults + 1 /\ StepState
  BY <1>1, FaultIs DEF IInv
<1>15. /\ r.ops = ops \/ \E o : r.ops = Append(ops, o)
       /\ Len(r.ops) <= env'.ops + env'.faults
  <2> DEFINE o == Op("seek", World.b.cursor, TRUE, TRUE)
  <2>1. r.ops = ops \/ r.ops = Append(ops, o)
    BY <1>11, WorldFields
  <2> HIDE DEF o
  <2>2. Len(Append(ops, o)) = Len(ops) + 1
    BY <1>2, HeadStays
  <2>3. Len(ops) <= env.ops + env.faults
    BY DEF IInv, StageOK
  <2>4. env.ops \in Nat /\ env.faults \in Nat /\ Len(ops) \in Nat
    BY <1>2, <1>14, PlanOf
  <2> QED
    <3>1. Len(r.ops) = Len(ops) \/ Len(r.ops) = Len(ops) + 1
      BY <2>1, <2>2
    <3>2. Len(r.ops) <= env'.ops + env'.faults
      BY <1>14, <2>3, <2>4, <3>1
    <3> QED
      BY <2>1, <3>2
<1>16. Calm => Flow(r, fed, Sound, Sound)
  <2> SUFFICES ASSUME Calm PROVE Flow(r, fed, Sound, Sound)
    OBVIOUS
  <2>1. Flow(World, fed, Sound, Sound)
    BY <1>1 DEF IInv, CalmOK, FlowOK, fed
  <2>2. OrderOK(World) /\ (Sound => decoder.intact)
    BY <1>2, <2>1 DEF Flow
  <2>3. OrderOK(r)
    <3>1. Output(r) = Output(World)
      BY <1>10 DEF Output
    <3>2. ASSUME NEW i \in {0} \cup Output(World)
          PROVE  i <= decoder.fed
      <4>1. Chain(decoder.queue, i, FALSE) /\ Tip(decoder.queue, i) <= decoder.fed
        BY <1>2, <2>2, <3>2 DEF OrderOK
      <4>2. i \in Nat /\ decoder.queue \in Seq(Samples) /\ decoder.fed \in Nat
        BY <1>2, CountAssumption DEF Output, Samples, DecoderState
      <4>3. Tip(decoder.queue, i) >= i /\ Tip(decoder.queue, i) \in Nat
        BY <4>1, <4>2, TipIs
      <4> QED
        BY <4>1, <4>2, <4>3
    <3> QED
      BY <1>2, <1>4, <1>9, <3>1, <3>2, EmptyChain DEF OrderOK
  <2> QED
    BY <1>2, <1>4, <1>9, <1>10, <2>2, <2>3 DEF Flow
<1>17. pc # "priming" /\ pc # "opening" /\ ~Opening
  BY <1>3 DEF Opening
<1>18. r.session.from = session.from /\ (r.b.playing => "play" \in env.plan.calls)
  BY <1>2, <1>9, <1>10, WorldFields
<1>19. Becomes(r) /\ UNCHANGED <<pc, prime, probed>>
  BY <1>1, <1>6 DEF r
<1> QED
  BY <1>8, <1>13, <1>14, <1>15, <1>16, <1>17, <1>18, <1>19, BesideKeeps DEF fed

LEMMA BackgroundStepInv ==
  ASSUME IInv, BackgroundStep
  PROVE  IInv'
  BY PumpStepInv, PumpFailsInv, DecoderConsumeInv, DecoderOutputInv, DecoderFlushedInv,
     DecoderErrorInv DEF BackgroundStep

(* An operation is asked for.                                              *)
LEMMA RequestInv ==
  ASSUME IInv, NEW op \in OperationType, NEW target \in Nat \cup {NoPts}, Request(op, target),
         ~op.heal, op.op \in {"open", "seek"} => op.target \in Cursors
  PROVE  IInv'
<1> DEFINE r   == [World EXCEPT !.ops = Append(@, op), !.wanted = target]
           fed == Tip(prime.out, Origin)
<1>1. /\ Becomes(r) /\ UNCHANGED <<pc, prime, probed>> /\ env.ops < MaxOps
      /\ env' = [env EXCEPT !.ops = @ + 1, !.opened = (@ \/ op.op = "open") /\ op.op # "close"]
  BY DEF Request
<1>2. /\ World \in WorldState /\ ChainOK(World) /\ CursorOK(World) /\ StreamOK(World)
      /\ FramesOK(World) /\ ReaderOK(kind, World, prime) /\ ops \in Seq(OperationType)
      /\ b.playing => "play" \in env.plan.calls
  BY WorldIs
<1>3. Append(ops, op) \in Seq(OperationType)
  BY <1>2
<1>4. /\ r \in WorldState /\ r.ops = Append(World.ops, op) /\ Still(World, r) /\ r.b = b
      /\ r.heal = World.heal
  <2>1. r \in WorldState
    BY <1>2, <1>3, WorldFields DEF WorldState
  <2> QED
    BY <2>1 DEF World, Still
<1> HIDE DEF r, fed
<1>5. ChainOK(r)
  <2>1. UserOrHeal(op)
    BY DEF UserOrHeal
  <2>2. r.heal.inFlight = World.heal.inFlight
    BY <1>4
  <2> QED
    BY <1>2, <1>4, <2>1, <2>2, Joins
<1>6. WorldInv(r, prime) /\ IsOpen(r) = IsOpen(World)
  <2>1. Frames(r.b) \subseteq Frames(World.b) \cup {NoPts}
    BY <1>4, WorldFields
  <2>2. IsOpen(r) = IsOpen(World) /\ StreamOK(r) /\ FramesOK(r) /\ ReaderOK(kind, r, prime)
    BY <1>2, <1>4, <2>1, StillKeeps
  <2>3. CursorOK(r)
    BY <1>2, <1>4, <2>2, WorldFields DEF CursorOK
  <2> QED
    BY <1>4, <1>5, <2>2, <2>3 DEF WorldInv
<1>7. /\ env' \in EnvState /\ env'.plan = env.plan /\ env'.ops = env.ops + 1
      /\ env'.faults = env.faults /\ env.ops \in Nat /\ env.faults \in Nat
  <2>1. env \in EnvState /\ StepState
    BY DEF IInv, StepState
  <2>2. env.ops + 1 \in 0..MaxOps /\ env.ops \in Nat /\ env.faults \in Nat
    BY <1>1, <2>1, PlanOf, WorkerAssumption
  <2>3. ((env.opened \/ op.op = "open") /\ op.op # "close") \in BOOLEAN
    OBVIOUS
  <2> QED
    BY <1>1, <2>1, <2>2, <2>3 DEF EnvState
<1>8. r.ops = Append(ops, op) /\ Len(r.ops) <= env'.ops + env'.faults
  <2>1. Len(ops) <= env.ops + env.faults
    BY DEF IInv, StageOK
  <2> QED
    BY <1>2, <1>4, <1>7, <2>1, WorldFields
<1>9. "throw" \notin env.plan.faults =>
        HealDue(r) /\ (r.heal.error => pc \notin {"opening", "priming", "probing"})
  BY <1>4, <1>6, WorldFields DEF IInv, HealOK, HealDue, Still
<1>10. Calm /\ pc = "priming" =>
         /\ ~r.session.ended /\ r.ring = [chunks |-> <<>>, ended |-> FALSE]
         /\ kind = "mp4" => ~r.pump.live /\ r.reader = reader
  BY <1>4, WorldFields DEF IInv, CalmOK, PrimingOK, Still
<1>11. Calm /\ (Opening \/ r.decoder.state # "unconfigured") => Flow(r, fed, Sound, Sound)
  <2> SUFFICES ASSUME Calm, Opening \/ r.decoder.state # "unconfigured"
               PROVE  Flow(r, fed, Sound, Sound)
    OBVIOUS
  <2>1. Flow(World, fed, Sound, Sound)
    BY <1>4, WorldFields DEF IInv, CalmOK, FlowOK, fed, Still
  <2> QED
    BY <1>4, <2>1, StillKeeps
<1>12. /\ r.session.from = session.from /\ r.decoder.state = decoder.state
       /\ pc = "opening" => r.b.cursor \in Cursors
       /\ r.b.playing => "play" \in env.plan.calls
  BY <1>2, <1>4, WorldFields DEF IInv, StageOK, Still
<1>13. Becomes(r) /\ UNCHANGED <<pc, prime, probed>>
  BY <1>1 DEF r
<1> QED
  BY <1>6, <1>7, <1>8, <1>9, <1>10, <1>11, <1>12, <1>13, BesideKeeps DEF fed

(* The frame path moves, and the ring is refilled or not.                  *)
BlitIs(w, y) == [w EXCEPT !.b = y]

LEMMA BlitMoves ==
  ASSUME NEW y \in BlitState, IInv, Frames(y) \subseteq Frames(b) \cup {NoPts},
         y.cursor = b.cursor \/ y.cursor \in Cursors,
         y.playing => "play" \in env.plan.calls,
         \/ Handles(BlitIs(World, y))
         \/ /\ Handles(MaybeRefill(BlitIs(World, y)))
            /\ Calm /\ pc = "priming" => kind = "mcap"
  PROVE  IInv'
<1> DEFINE w   == BlitIs(World, y)
           fed == Tip(prime.out, Origin)
<1>1. /\ World \in WorldState /\ StreamOK(World) /\ FramesOK(World) /\ ReaderOK(kind, World, prime)
      /\ prime \in NextCall /\ kind \in {"mcap", "mp4"} /\ fed \in Nat /\ Sound \in BOOLEAN
  BY WorldIs
<1>2. /\ w \in WorldState /\ w.b = y /\ Still(World, w) /\ w.heal = heal /\ w.ops = ops
  <2>1. w \in WorldState
    BY <1>1 DEF WorldState, BlitIs
  <2> QED
    BY <2>1 DEF World, Still, BlitIs
<1> HIDE DEF w, fed
<1>3. /\ IsOpen(w) = IsOpen(World) /\ StreamOK(w) /\ FramesOK(w) /\ ReaderOK(kind, w, prime)
      /\ Flow(World, fed, Sound, Sound) => Flow(w, fed, Sound, Sound)
  <2>1. Frames(w.b) \subseteq Frames(World.b) \cup {NoPts}
    BY <1>2, WorldFields
  <2> QED
    BY <1>1, <1>2, <2>1, StillKeeps
<1>4. ASSUME Calm, pc = "priming"
      PROVE  /\ IsOpen(World) /\ ~session.ended /\ ring = [chunks |-> <<>>, ended |-> FALSE]
             /\ kind = "mp4" => ~pump.live
  BY <1>4 DEF IInv, CalmOK, PrimingOK, StageOK, Opening
<1>5. ASSUME env' = env
      PROVE  /\ env' \in EnvState /\ env'.plan = env.plan
             /\ env.ops + env.faults <= env'.ops + env'.faults
  BY <1>5, EnvStays
<1>6. CASE Handles(w)
  <2>1. Becomes(w) /\ UNCHANGED <<pc, prime, probed>> /\ env' = env
    BY <1>6 DEF Handles
  <2>2. /\ w.session = session /\ w.decoder = decoder /\ w.ring = ring
        /\ w.reader = reader /\ w.pump = pump
    BY <1>2, WorldFields DEF Still
  <2>3. Calm /\ pc = "priming" =>
          /\ ~w.session.ended /\ w.ring = [chunks |-> <<>>, ended |-> FALSE]
          /\ kind = "mp4" => ~w.pump.live /\ w.reader = reader
    BY <1>4, <2>2
  <2> QED
    BY <1>2, <1>3, <1>5, <2>1, <2>2, <2>3, BesideWorld DEF fed
<1>7. CASE Handles(MaybeRefill(w)) /\ (Calm /\ pc = "priming" => kind = "mcap")
  <2> DEFINE r == MaybeRefill(w)
  <2>1. Becomes(r) /\ UNCHANGED <<pc, prime, probed>> /\ env' = env
    BY <1>7 DEF Handles
  <2>2. /\ Aside(w, r) /\ StreamOK(r) /\ FramesOK(r)
        /\ \A p \in NextCall : ReaderOK(kind, w, p) => ReaderOK(kind, r, p)
        /\ \A fed0 \in Nat, gapless \in BOOLEAN :
             Flow(w, fed0, gapless, gapless) => Flow(r, fed0, gapless, gapless)
    BY <1>2, <1>3, MaybeRefillOK
  <2>3. ASSUME Calm, pc = "priming"
        PROVE  r.session = session /\ r.ring = ring
    <3>1. w.session = session /\ w.ring = ring
      BY <1>2, WorldFields DEF Still
    <3> QED
      BY <1>2, <1>3, <1>4, <2>3, <3>1, RefillEmpty
  <2> HIDE DEF r
  <2>4. /\ r \in WorldState /\ r.heal = heal /\ r.ops = ops /\ r.session.from = session.from
        /\ r.decoder.state = decoder.state /\ r.b.cursor = y.cursor /\ r.b.playing = y.playing
    BY <1>2, <2>2, WorldFields DEF Aside, Still
  <2>5. ReaderOK(kind, r, prime) /\ (Flow(World, fed, Sound, Sound) => Flow(r, fed, Sound, Sound))
    BY <1>1, <1>3, <2>2
  <2>6. Calm /\ pc = "priming" =>
          /\ ~r.session.ended /\ r.ring = [chunks |-> <<>>, ended |-> FALSE]
          /\ kind = "mp4" => ~r.pump.live /\ r.reader = reader
    BY <1>4, <1>7, <2>3
  <2> QED
    BY <1>5, <2>1, <2>2, <2>4, <2>5, <2>6, BesideWorld DEF fed
<1> QED
  BY <1>6, <1>7 DEF w

LEMMA ApiCallInv ==
  ASSUME IInv, ApiCall
  PROVE  IInv'
<1>1. b \in BlitState /\ wanted \in Nat \cup {NoPts} /\ World.b = b
      /\ (b.playing => "play" \in env.plan.calls) /\ kind \in {"mcap", "mp4"}
      /\ Cursors \subseteq Nat
  BY WorldIs, WorldFields, WorkerAssumption
<1>2. \A y : [World EXCEPT !.b = y] = BlitIs(World, y)
  BY DEF BlitIs
<1>3. Calm /\ ("cursor" \in env.plan.calls \/ "play" \in env.plan.calls) => kind = "mcap"
  BY <1>1 DEF Calm
<1>4. ASSUME NEW t \in Cursors, CallOpen(t) \/ CallSeek(t) \/ CallRetry(t)
      PROVE  IInv'
  <2>1. t \in Nat /\ t \in Nat \cup {NoPts}
    BY <1>1
  <2>2. CASE CallOpen(t)
    <3> DEFINE o == Op("open", t, FALSE, FALSE)
    <3>1. o \in OperationType /\ ~o.heal /\ o.target \in Cursors
      BY <2>1 DEF OperationType, Op
    <3>2. Request(o, t)
      BY <2>2 DEF CallOpen
    <3> HIDE DEF o
    <3> QED
      BY <2>1, <3>1, <3>2, RequestInv
  <2>3. CASE CallSeek(t)
    <3> DEFINE o == Op("seek", t, FALSE, FALSE)
    <3>1. o \in OperationType /\ ~o.heal /\ o.target \in Cursors
      BY <2>1 DEF OperationType, Op
    <3>2. Request(o, t)
      BY <2>3 DEF CallSeek
    <3> HIDE DEF o
    <3> QED
      BY <2>1, <3>1, <3>2, RequestInv
  <2>4. CASE CallRetry(t)
    <3> DEFINE o == Op("seek", t, TRUE, FALSE)
    <3>1. o \in OperationType /\ ~o.heal /\ o.target \in Cursors
      BY <2>1 DEF OperationType, Op
    <3>2. Request(o, t)
      BY <2>4 DEF CallRetry
    <3> HIDE DEF o
    <3> QED
      BY <2>1, <3>1, <3>2, RequestInv
  <2> QED
    BY <1>4, <2>2, <2>3, <2>4
<1>5. CASE CallClose
  <2> DEFINE o == Op("close", 0, FALSE, FALSE)
  <2>1. o \in OperationType /\ ~o.heal /\ o.op = "close"
    BY DEF OperationType, Op
  <2>2. Request(o, NoPts)
    BY <1>5 DEF CallClose
  <2> HIDE DEF o
  <2> QED
    BY <2>1, <2>2, RequestInv
<1>6. CASE CallCapture
  <2> DEFINE o == Op("capture", 0, FALSE, FALSE)
  <2>1. o \in OperationType /\ ~o.heal /\ o.op = "capture"
    BY DEF OperationType, Op
  <2>2. Request(o, wanted)
    BY <1>6 DEF CallCapture
  <2> HIDE DEF o
  <2> QED
    BY <1>1, <2>1, <2>2, RequestInv
<1>7. ASSUME NEW t \in Cursors, SetCursor(t) \/ BlitClockTick(t)
      PROVE  IInv'
  <2> DEFINE y == AtCursor(b, t)
  <2>1. Moves(b, y, t) /\ y.playing = b.playing
    BY <1>1, AtCursorKeeps
  <2>2. Handles(MaybeRefill(BlitIs(World, y)))
        /\ ("cursor" \in env.plan.calls \/ "play" \in env.plan.calls)
    BY <1>1, <1>2, <1>7 DEF SetCursor, BlitClockTick
  <2> HIDE DEF y
  <2> QED
    BY <1>1, <1>3, <2>1, <2>2, BlitMoves DEF Moves
<1>8. ASSUME NEW t \in Cursors, SetPlayback(t)
      PROVE  IInv'
  <2>1. "play" \in env.plan.calls
    BY <1>8 DEF SetPlayback
  <2>2. CASE Handles(MaybeRefill([World EXCEPT !.b = StartPlayback(@, t)]))
    <3> DEFINE y == StartPlayback(b, t)
    <3>1. Moves(b, y, t)
      BY <1>1, StartPlaybackKeeps
    <3>2. Handles(MaybeRefill(BlitIs(World, y)))
      BY <1>1, <1>2, <2>2
    <3> HIDE DEF y
    <3> QED
      BY <1>1, <1>3, <2>1, <3>1, <3>2, BlitMoves DEF Moves
  <2>3. CASE Handles([World EXCEPT !.b = StopPlayback(@, t)])
    <3> DEFINE y == StopPlayback(b, t)
    <3>1. Moves(b, y, t)
      BY <1>1, StopPlaybackKeeps
    <3>2. Handles(BlitIs(World, y))
      BY <1>1, <1>2, <2>3
    <3> HIDE DEF y
    <3> QED
      BY <1>1, <2>1, <3>1, <3>2, BlitMoves DEF Moves
  <2> QED
    BY <1>8, <2>2, <2>3 DEF SetPlayback
<1>9. CASE SetRenderCanvas
  <2> DEFINE y == AttachCanvas(b)
  <2>1. y \in BlitState /\ y.cursor = b.cursor /\ y.playing = b.playing /\ Frames(y) \subseteq Frames(b)
    BY <1>1, AttachKeeps
  <2>2. Handles(BlitIs(World, y))
    BY <1>1, <1>2, <1>9 DEF SetRenderCanvas
  <2> HIDE DEF y
  <2> QED
    BY <1>1, <2>1, <2>2, BlitMoves
<1>10. CASE ClearCanvas
  <2> DEFINE y == PaintBlack(b)
  <2>1. y \in BlitState /\ y.cursor = b.cursor /\ y.playing = b.playing
        /\ Frames(y) \subseteq Frames(b) \cup {NoPts}
    BY <1>1, FlushKeeps DEF PaintBlack
  <2>2. Handles(BlitIs(World, y))
    BY <1>1, <1>2, <1>10 DEF ClearCanvas
  <2> HIDE DEF y
  <2> QED
    BY <1>1, <2>1, <2>2, BlitMoves
<1> QED
  BY <1>4, <1>5, <1>6, <1>7, <1>8, <1>9, <1>10 DEF ApiCall, CallStepOf

LEMMA NothingHappens ==
  ASSUME IInv, UNCHANGED vars
  PROVE  IInv'
<1>1. World' = World /\ kind' = kind
  BY DEF vars, World
<1>2. /\ b' = b /\ session' = session /\ decoder' = decoder /\ ring' = ring
      /\ reader' = reader /\ pump' = pump /\ heal' = heal /\ ops' = ops
      /\ pc' = pc /\ prime' = prime /\ probed' = probed /\ env' = env
  BY DEF vars
<1>3. WorldInv(World, prime)' /\ StepState'
  BY <1>1, <1>2 DEF IInv, WorldInv, ReaderOK, StepState
<1>4. StageOK' /\ HealOK'
  BY <1>1, <1>2 DEF IInv, StageOK, Opening, HealOK
<1>5. CalmOK'
  BY <1>1, <1>2 DEF IInv, CalmOK, Calm, PrimingOK, FlowOK, Opening, Sound, Origin
<1> QED
  BY <1>3, <1>4, <1>5 DEF IInv

LEMMA NextInv ==
  ASSUME IInv, [Next]_vars
  PROVE  IInv'
  BY OperationStepInv, BackgroundStepInv, ApiCallInv, NothingHappens DEF Next

-----------------------------------------------------------------------------
(* The strengthening is inductive: whatever the panel asks for, the reader *)
(* answers and the decoder does, the record of the worker stays whole and  *)
(* agrees with how far the running operation is.                           *)
THEOREM WorkerInductive == Spec => []IInv
<1>1. Init => IInv
  BY InitInv
<1>2. IInv /\ [Next]_vars => IInv'
  BY NextInv
<1> QED
  BY <1>1, <1>2, PTL DEF Spec

(* World is a record of the right type at all times, and so is the rest.   *)
THEOREM WorkerTypeOK == Spec => []TypeOK
<1>1. IInv => TypeOK
  BY DEF IInv, WorldInv, StepState, EnvState, TypeOK
<1> QED
  BY <1>1, WorkerInductive, PTL

(* What is shown or queued, or held before the target of a seek, has been  *)
(* output by the decoder of the stream that is open (teardownSession's     *)
(* flushBlitQueue, and the session every handler checks).                  *)
THEOREM WorkerOnlyThisStream == Spec => []OnlyThisStream
<1>1. IInv => OnlyThisStream
  <2>1. FramesOK(World) => OnlyThisStream
    BY WorldFields DEF FramesOK, Frames, OnlyThisStream
  <2> QED
    BY <2>1 DEF IInv, WorldInv
<1> QED
  BY <1>1, WorkerInductive, PTL

(* selfHealInFlight is set exactly while a self-heal waits or runs: it is  *)
(* never left behind by one that rejects, and never missing while another  *)
(* could be scheduled on top (onDecoderError).                             *)
THEOREM WorkerHealInFlightTracked == Spec => []HealInFlightTracked
<1>1. IInv => HealInFlightTracked
  <2>1. ChainOK(World) => HealInFlightTracked
    BY WorldFields DEF ChainOK, HealInFlightTracked
  <2> QED
    BY <2>1 DEF IInv, WorldInv
<1> QED
  BY <1>1, WorkerInductive, PTL

(* Whatever the decoder reports and whenever, a latched error of a stream  *)
(* that is left open with nothing to do has had all of its attempts.       *)
THEOREM WorkerErrorIsHealed == Spec => []ErrorIsHealed
<1>1. IInv => ErrorIsHealed
  <2> SUFFICES ASSUME IInv, heal.error, "throw" \notin env.plan.faults, IsOpen(World), ops = <<>>
               PROVE  heal.count = MAX_SELF_HEAL_ATTEMPTS
    BY DEF ErrorIsHealed
  <2>1. heal.inFlight \/ heal.count = MAX_SELF_HEAL_ATTEMPTS
    BY WorldFields DEF IInv, HealOK, HealDue
  <2>2. ~heal.inFlight
    BY WorldFields DEF IInv, WorldInv, ChainOK
  <2> QED
    BY <2>1, <2>2
<1> QED
  BY <1>1, WorkerInductive, PTL

(* The decoder is fed a keyframe and then every sample in order, across    *)
(* the priming batch, the ring, every seek, every self-heal and every read *)
(* that arrives late (openInternal, pumpEncoded): of an mcap stream        *)
(* whatever is asked for, of an mp4 stream as long as the cursor stands    *)
(* still while it primes, since its reads share one position.              *)
THEOREM WorkerFedInOrder == Spec => [](Calm => FedInOrder)
<1>1. IInv => (Calm => FedInOrder)
  <2> SUFFICES ASSUME IInv, Calm, Sound PROVE decoder.intact
    BY DEF FedInOrder, Sound
  <2>1. CASE Opening \/ decoder.state # "unconfigured"
    BY <2>1, WorldFields DEF IInv, CalmOK, FlowOK, Flow
  <2>2. CASE decoder.state = "unconfigured"
    <3>1. decoder = [NoDecoder EXCEPT !.state = "unconfigured"]
      BY <2>2, WorldFields DEF IInv, WorldInv, StreamOK, AliveOK
    <3> QED
      BY <3>1 DEF NoDecoder
  <2> QED
    BY <2>1, <2>2
<1> QED
  BY <1>1, WorkerInductive, PTL

-----------------------------------------------------------------------------
(* VideoWorker implements StreamControl.                                   *)
Stage == IF pc \in {"idle", "closing"} THEN pc ELSE "busy"

(* A step that the panel cannot tell from no step at all.                  *)
LEMMA Unseen ==
  ASSUME NEW w, Becomes(w), w.ops = ops, w.session.from = session.from,
         w.heal.error = heal.error, w.wanted = wanted, w.b.cursor = b.cursor,
         pc' = pc \/ {pc, pc'} \cap {"idle", "closing"} = {}
  PROVE  UNCHANGED Control!streamVars
<1>1. /\ ops' = ops /\ session'.from = session.from /\ heal'.error = heal.error
      /\ wanted' = wanted /\ b'.cursor = b.cursor
  BY DEF Becomes
<1>2. Stage' = Stage
  BY DEF Stage
<1> QED
  BY <1>1, <1>2 DEF Control!streamVars, Stage

LEMMA SettleSeen ==
  ASSUME NEW w \in WorldState, IInv, Becomes(Settled(w)), ChainOK(w), ops # <<>>, w.ops = ops,
         w.session.from = session.from, w.heal.error = heal.error, w.wanted = wanted,
         w.b.cursor = b.cursor, pc \notin {"idle", "closing"}, pc' = "idle"
  PROVE  Control!Settle
<1> DEFINE r == Settled(w)
<1>1. w.ops # <<>> /\ w.ops[1] = Head1
  BY HeadIs
<1>2. /\ r.b = w.b /\ r.wanted = w.wanted /\ r.ops = Tail(w.ops)
      /\ r.heal.error = w.heal.error /\ r.session = w.session
  BY <1>1, SettledIs DEF Still
<1> HIDE DEF r
<1>3. /\ ops' = r.ops /\ session' = r.session /\ heal' = r.heal /\ wanted' = r.wanted /\ b' = r.b
  BY DEF Becomes, r
<1> QED
  BY <1>2, <1>3 DEF Control!Settle, Control!Pop

LEMMA BeginSeen ==
  ASSUME IInv, ops # <<>>, Head1.op \in {"open", "seek"}, ~IsOpen(World),
         Becomes(BeginOpen(World)), pc' = "opening"
  PROVE  Control!Begin
<1> DEFINE w == BeginOpen(World)
<1>1. WorldInv(World, prime) /\ Head1 = ops[1] /\ Head1.target \in Cursors
  BY WorldIs, HeadIs DEF UserOrHeal
<1>2. /\ w.session = session /\ ~w.heal.error /\ w.ops = ops /\ w.wanted = wanted
      /\ w.b.cursor = IF b.cursor < Head1.target THEN Head1.target ELSE b.cursor
      /\ w \in WorldState
  BY <1>1, BeginOpenIs, WorldFields DEF Still, WorldInv
<1> HIDE DEF w
<1>3. /\ ops' = w.ops /\ session' = w.session /\ heal' = w.heal /\ wanted' = w.wanted /\ b' = w.b
  BY DEF Becomes, w
<1>4. heal'.error = FALSE
  <2>1. w.heal.error \in BOOLEAN
    BY <1>2, Fields DEF HealState
  <2> QED
    BY <1>2, <1>3, <2>1
<1> QED
  BY <1>1, <1>2, <1>3, <1>4 DEF Control!Begin, Control!First

(* The chain starts an operation.                                          *)
LEMMA StartOpSeen ==
  ASSUME IInv, StartOp
  PROVE  Control!Next
<1>1. /\ pc = "idle" /\ ops # <<>> /\ World \in WorldState /\ ChainOK(World)
      /\ WorldInv(World, prime) /\ Head1 = ops[1] /\ UserOrHeal(Head1)
      /\ session.from = World.session.from /\ World.ops = ops /\ World.heal = heal
      /\ World.wanted = wanted /\ World.b = b /\ World.session = session
  BY WorldIs, WorldFields, HeadIs DEF StartOp
<1>2. Superseded <=> Control!Superseded
  BY DEF Superseded, Control!Superseded
<1>3. IsOpen(World) <=> session.from # Control!NoStream
  BY <1>1 DEF IsOpen, NoPts, Control!NoStream
(* Settled without having been awaited. *)
<1>4. ASSUME Becomes(Settled(World)), pc' = "idle"
      PROVE  Control!Pop /\ UNCHANGED <<session.from, heal.error, wanted, b.cursor>>
  <2> DEFINE r == Settled(World)
  <2>1. /\ r.b = b /\ r.wanted = wanted /\ r.ops = Tail(ops)
        /\ r.heal.error = heal.error /\ r.session = session
    BY <1>1, SettledIs DEF Still
  <2> HIDE DEF r
  <2>2. /\ ops' = r.ops /\ session' = r.session /\ heal' = r.heal /\ wanted' = r.wanted /\ b' = r.b
    BY <1>4 DEF Becomes, r
  <2> QED
    BY <1>4, <2>1, <2>2 DEF Control!Pop
(* Dropped, its close awaited. *)
<1>5. ASSUME NEW w, Becomes(w), w.session = NoSession, w.b.cursor = b.cursor, w.heal = heal,
             w.ops = ops, w.wanted = wanted, pc' = "closing"
      PROVE  /\ session'.from = Control!NoStream
             /\ UNCHANGED <<ops, heal.error, wanted, b.cursor>>
  BY <1>5 DEF Becomes, NoSession, NoPts, Control!NoStream
<1>6. /\ Teardown(World).session = NoSession /\ Teardown(World).b.cursor = b.cursor
      /\ Teardown(World).heal = heal /\ Teardown(World).ops = ops
      /\ Teardown(World).wanted = wanted
  BY <1>1, TeardownIs
<1>7. /\ CloseFirst(World).session = NoSession /\ CloseFirst(World).b.cursor = b.cursor
      /\ CloseFirst(World).heal = heal /\ CloseFirst(World).ops = ops
      /\ CloseFirst(World).wanted = wanted
  BY <1>1, CloseFirstIs
<1>8. CASE StartSeek
  <2> DEFINE skip == \/ ~Head1.force /\ Superseded
                     \/ ~IsOpen(World)
                     \/ ~Head1.force /\ ~heal.error /\ session.from = Head1.target
  <2>1. skip <=> Control!Skipped
    BY <1>1, <1>2, <1>3, <1>8 DEF StartSeek, Control!Skipped, Control!First
  <2>2. CASE skip
    <3>1. Becomes(Settled(World)) /\ pc' = "idle"
      BY <1>8, <2>2 DEF StartSeek, Await
    <3> HIDE DEF skip
    <3>2. Control!Skip
      BY <1>1, <1>4, <2>1, <2>2, <3>1 DEF Control!Skip
    <3> QED
      BY <3>2 DEF Control!Next, Control!WorkerStep, Control!ChainStep
  <2>3. CASE ~skip
    <3>1. Becomes(Teardown(World)) /\ pc' = "closing" /\ IsOpen(World) /\ Head1.op = "seek"
      BY <1>8, <2>3 DEF StartSeek, Await
    <3> HIDE DEF skip
    <3>2. Control!Drop
      BY <1>1, <1>3, <1>5, <1>6, <2>1, <2>3, <3>1 DEF Control!Drop, Control!First
    <3> QED
      BY <3>2 DEF Control!Next, Control!WorkerStep, Control!ChainStep
  <2> QED
    BY <2>2, <2>3
<1>9. CASE StartOpen
  <2>1. Head1.op = "open"
    BY <1>9 DEF StartOpen
  <2>2. CASE IsOpen(World)
    <3>1. Becomes(CloseFirst(World)) /\ pc' = "closing"
      BY <1>9, <2>2 DEF StartOpen, Await
    <3>2. Control!Drop
      BY <1>1, <1>3, <1>5, <1>7, <2>1, <2>2, <3>1
         DEF Control!Drop, Control!First, Control!Skipped
    <3> QED
      BY <3>2 DEF Control!Next, Control!WorkerStep, Control!ChainStep
  <2>3. CASE ~IsOpen(World)
    <3>1. Becomes(BeginOpen(World)) /\ pc' = "opening"
      BY <1>9, <2>3 DEF StartOpen, Await
    <3>2. Control!Begin
      BY <1>1, <2>1, <2>3, <3>1, BeginSeen
    <3>3. Control!StartOpen
      BY <1>1, <1>3, <2>1, <2>3, <3>2 DEF Control!StartOpen, Control!First
    <3> QED
      BY <3>3 DEF Control!Next, Control!WorkerStep, Control!ChainStep
  <2> QED
    BY <2>2, <2>3
<1>10. CASE StartClose
  <2>1. Head1.op = "close"
    BY <1>10 DEF StartClose
  <2>2. CASE IsOpen(World)
    <3>1. Becomes(CloseFirst(World)) /\ pc' = "closing"
      BY <1>10, <2>2 DEF StartClose, Await
    <3>2. Control!Drop
      BY <1>1, <1>3, <1>5, <1>7, <2>1, <2>2, <3>1
         DEF Control!Drop, Control!First, Control!Skipped
    <3> QED
      BY <3>2 DEF Control!Next, Control!WorkerStep, Control!ChainStep
  <2>3. CASE ~IsOpen(World)
    <3>1. Becomes(Settled(World)) /\ pc' = "idle"
      BY <1>10, <2>3 DEF StartClose, Await
    <3>2. Control!Skip
      BY <1>1, <1>3, <1>4, <2>1, <2>3, <3>1 DEF Control!Skip, Control!First
    <3> QED
      BY <3>2 DEF Control!Next, Control!WorkerStep, Control!ChainStep
  <2> QED
    BY <2>2, <2>3
<1>11. CASE StartCapture
  <2>1. Head1.op = "capture" /\ Becomes(World) /\ pc' = "capturing"
    BY <1>11 DEF StartCapture, Await
  <2>2. /\ ops' = ops /\ session' = session /\ heal' = heal /\ wanted' = wanted /\ b' = b
    BY <1>1, <2>1 DEF Becomes
  <2>3. Control!StartCapture
    BY <1>1, <2>1, <2>2 DEF Control!StartCapture, Control!First
  <2> QED
    BY <2>3 DEF Control!Next, Control!WorkerStep, Control!ChainStep
<1> QED
  BY <1>8, <1>9, <1>10, <1>11 DEF StartOp

(* There is room for the self-heal a failure may put on the chain.         *)
LEMMA RoomToHeal ==
  ASSUME IInv, NEW failure, Fault(failure) \/ env.ops < MaxOps
  PROVE  Len(ops) < MaxOps + MaxFaults
<1>1. StepState /\ Len(ops) <= env.ops + env.faults /\ Len(ops) \in Nat
  BY WorldIs DEF IInv, StageOK
<1>2. /\ env.ops \in Nat /\ env.ops <= MaxOps /\ env.faults \in Nat /\ env.faults <= MaxFaults
      /\ MaxOps \in Nat /\ MaxFaults \in Nat
  BY <1>1, PlanOf, WorkerAssumption
<1>3. env.faults < MaxFaults \/ env.ops < MaxOps
  BY DEF Fault
<1> QED
  BY <1>1, <1>2, <1>3

(* A failure inside the operation that then settles.                       *)
LEMMA FailsSettled ==
  ASSUME NEW w, IInv, WorldInv(w, prime), Becomes(Settled(w)), Fault("throw"), IsOpen(World),
         pc \notin {"idle", "closing"}, pc' = "idle",
         w.b = World.b, w.session.from = World.session.from, w.heal.error,
         \/ w.ops = World.ops /\ w.wanted = World.wanted
         \/ /\ w.ops = Append(World.ops, Op("seek", World.b.cursor, TRUE, TRUE))
            /\ w.wanted = World.b.cursor
  PROVE  Control!DecoderFails(w.ops # ops, TRUE)
<1> DEFINE r == Settled(w)
           o == Op("seek", b.cursor, TRUE, TRUE)
<1>1. /\ ops # <<>> /\ ops \in Seq(OperationType) /\ Head1 = ops[1]
      /\ World.ops = ops /\ World.wanted = wanted /\ World.b = b /\ World.session = session
  BY WorldIs, WorldFields, HeadIs DEF IInv, StageOK
<1>2. o = Control!Op("seek", b.cursor, TRUE, TRUE)
  BY DEF Op, Control!Op
<1>3. \/ w.ops = ops /\ w.wanted = wanted
      \/ w.ops = Append(ops, o) /\ w.wanted = b.cursor
  BY <1>1
<1> HIDE DEF o
<1>4. Append(ops, o) # ops /\ w.ops # <<>> /\ w.ops[1] = Head1
  <2>1. /\ Append(ops, o) # <<>> /\ Append(ops, o)[1] = ops[1]
        /\ Len(Append(ops, o)) = Len(ops) + 1 /\ Len(ops) \in Nat
    BY <1>1, HeadStays
  <2>2. Append(ops, o) # ops
    BY <2>1
  <2> QED
    BY <1>1, <1>3, <2>1, <2>2
<1>5. /\ r.b = w.b /\ r.wanted = w.wanted /\ r.ops = Tail(w.ops)
      /\ r.heal.error = w.heal.error /\ r.session = w.session /\ r \in WorldState
  BY <1>4, SettledIs DEF Still, WorldInv
<1>6. r.heal.error = TRUE
  <2>1. r.heal.error \in BOOLEAN
    BY <1>5, Fields DEF HealState
  <2> QED
    BY <1>5, <2>1
<1> HIDE DEF r
<1>7. /\ ops' = Tail(w.ops) /\ session'.from = session.from /\ heal'.error = TRUE
      /\ wanted' = w.wanted /\ b'.cursor = b.cursor
  BY <1>1, <1>5, <1>6 DEF Becomes, r
<1>8. Len(ops) < MaxOps + MaxFaults
  BY RoomToHeal
<1>9. session.from # Control!NoStream
  BY <1>1 DEF IsOpen, NoPts, Control!NoStream
<1>10. IF w.ops # ops THEN w.ops = Append(ops, o) /\ w.wanted = b.cursor
       ELSE w.wanted = wanted
  BY <1>3, <1>4
<1> QED
  BY <1>2, <1>7, <1>8, <1>9, <1>10 DEF Control!DecoderFails

(* A failure beside the operation that runs.                               *)
LEMMA FailsBeside ==
  ASSUME NEW w, IInv, w \in WorldState, Becomes(w), Fault("decode"), IsOpen(World), pc' = pc,
         w.b = World.b, w.session.from = World.session.from, w.heal.error,
         \/ w.ops = World.ops /\ w.wanted = World.wanted
         \/ /\ w.ops = Append(World.ops, Op("seek", World.b.cursor, TRUE, TRUE))
            /\ w.wanted = World.b.cursor
  PROVE  Control!DecoderFails(w.ops # ops, FALSE)
<1> DEFINE o == Op("seek", b.cursor, TRUE, TRUE)
<1>1. /\ ops \in Seq(OperationType)
      /\ World.ops = ops /\ World.wanted = wanted /\ World.b = b /\ World.session = session
  BY WorldIs, WorldFields
<1>2. o = Control!Op("seek", b.cursor, TRUE, TRUE)
  BY DEF Op, Control!Op
<1>3. \/ w.ops = ops /\ w.wanted = wanted
      \/ w.ops = Append(ops, o) /\ w.wanted = b.cursor
  BY <1>1
<1> HIDE DEF o
<1>4. Append(ops, o) # ops
  <2>1. Len(Append(ops, o)) = Len(ops) + 1 /\ Len(ops) \in Nat
    BY <1>1, HeadStays
  <2> QED
    BY <2>1
<1>5. w.heal.error = TRUE
  <2>1. w.heal.error \in BOOLEAN
    BY Fields DEF HealState
  <2> QED
    BY <2>1
<1>6. /\ ops' = w.ops /\ session'.from = session.from /\ heal'.error = TRUE
      /\ wanted' = w.wanted /\ b'.cursor = b.cursor
  BY <1>1, <1>5 DEF Becomes
<1>7. Len(ops) < MaxOps + MaxFaults
  BY RoomToHeal
<1>8. session.from # Control!NoStream
  BY <1>1 DEF IsOpen, NoPts, Control!NoStream
<1>9. IF w.ops # ops THEN w.ops = Append(ops, o) /\ w.wanted = b.cursor
      ELSE w.ops = ops /\ w.wanted = wanted
  BY <1>3, <1>4
<1> QED
  BY <1>2, <1>6, <1>7, <1>8, <1>9 DEF Control!DecoderFails

(* It goes on until it settles.                                            *)
LEMMA OperationSeen ==
  ASSUME IInv, OperationStep
  PROVE  Control!Next \/ UNCHANGED Control!streamVars
<1>1. /\ World \in WorldState /\ ChainOK(World) /\ WorldInv(World, prime)
      /\ World.ops = ops /\ World.heal = heal /\ World.session = session
      /\ World.wanted = wanted /\ World.b = b /\ World.decoder = decoder
  BY WorldIs, WorldFields
<1>2. pc # "idle" => ops # <<>> /\ Head1 = ops[1] /\ UserOrHeal(Head1) /\ Head1 \in OperationType
  BY HeadIs DEF IInv, StageOK
<1>3. /\ pc \in {"closing", "opening"} => ~IsOpen(World)
      /\ Opening => IsOpen(World) /\ session.from = ops[1].target /\ decoder.state = "unconfigured"
      /\ pc = "opening" => ops[1].op \in {"open", "seek"}
      /\ pc = "closing" => ops[1].op # "capture"
      /\ pc = "probing" => prime.out # <<>> /\ prime.out[1] \in SyncSamples
      /\ prime \in NextCall
  BY DEF IInv, StageOK, StepState, Opening
<1>4. Control!Settle => Control!Next
  BY DEF Control!Next, Control!WorkerStep, Control!ChainStep
<1>5. CASE StartOp
  BY <1>5, StartOpSeen
<1>6. CASE CloseReply
  <2>1. pc = "closing" /\ Control!First = Head1
    BY <1>2, <1>6 DEF CloseReply, Control!First
  <2>2. CASE Head1.op = "close"
    <3> DEFINE r == Settled(World)
    <3>1. Becomes(r) /\ pc' = "idle"
      BY <1>6, <2>2 DEF CloseReply, Await
    <3>2. /\ r.b = b /\ r.wanted = wanted /\ r.ops = Tail(ops)
          /\ r.heal.error = heal.error /\ r.session = session
      BY <1>1, <1>2, <2>1, SettledIs DEF Still
    <3> HIDE DEF r
    <3>3. Control!Closed
      BY <2>1, <2>2, <3>1, <3>2 DEF Becomes, Control!Closed, Control!Pop
    <3> QED
      BY <3>3 DEF Control!Next, Control!WorkerStep, Control!ChainStep
  <2>3. CASE Head1.op # "close"
    <3>1. Becomes(BeginOpen(World)) /\ pc' = "opening"
      BY <1>6, <2>3 DEF CloseReply, Await
    <3>2. Head1.op \in {"open", "seek"}
      BY <1>2, <1>3, <2>1, <2>3 DEF OperationType
    <3>3. Control!Begin
      BY <1>2, <1>3, <2>1, <3>1, <3>2, BeginSeen
    <3>4. Control!Closed
      BY <2>1, <2>3, <3>3 DEF Control!Closed
    <3> QED
      BY <3>4 DEF Control!Next, Control!WorkerStep, Control!ChainStep
  <2> QED
    BY <2>2, <2>3
<1>7. CASE CaptureReply \/ OpenFails \/ PrimeFails
  <2>1. Becomes(Settled(World)) /\ pc' = "idle" /\ pc \notin {"idle", "closing"}
    BY <1>7 DEF CaptureReply, OpenFails, PrimeFails, Await
  <2>2. Control!Settle
    BY <1>1, <1>2, <2>1, SettleSeen
  <2> QED
    BY <1>4, <2>2
<1>8. CASE OpenReply
  <2> DEFINE next == BeginNext(OpenReader(Head1.target), PRIMING_BATCH)
             w == OpenedWith(World, next.reader)
  <2>1. pc = "opening" /\ pc' = "priming" /\ Becomes(w)
    BY <1>8 DEF OpenReply, OpenedWith
  <2>2. /\ w.b = b /\ w.heal = heal /\ w.ops = ops /\ w.wanted = wanted
        /\ w.session.from = Head1.target
    <3>1. b.cursor \in Cursors /\ kind \in {"mcap", "mp4"} /\ Head1.target \in Cursors
      BY <1>2, <1>3, <2>1, WorldIs DEF IInv, StageOK, UserOrHeal
    <3> QED
      BY <1>1, <1>3, <2>1, <3>1, OpenedIs
  <2> HIDE DEF w
  <2>3. session.from = Control!NoStream
    BY <1>1, <1>3, <2>1 DEF IsOpen, NoPts, Control!NoStream
  <2>4. Control!Opened
    BY <1>2, <1>3, <2>1, <2>2, <2>3 DEF Becomes, Control!Opened, Control!First
  <2> QED
    BY <2>4 DEF Control!Next, Control!WorkerStep, Control!ChainStep
<1>9. CASE PrimeStep
  <2> DEFINE step == IF prime.phase = "reply"
                     THEN [reader |-> reader, call |-> prime]
                     ELSE CallStep(reader, prime)
             w    == [World EXCEPT !.reader = step.reader]
             call == step.call
  <2>1. /\ WorldInv(w, call) /\ w.b = b /\ w.session = session /\ w.heal = heal /\ w.ops = ops
        /\ w.wanted = wanted
    BY <1>9, PrimeStepKeeps DEF PrimeStep
  <2>2. /\ pc = "priming"
        /\ IF call.phase = "reply"
           THEN PrimeReturns(w, call.out)
           ELSE Becomes(w) /\ UNCHANGED pc
    BY <1>9 DEF PrimeStep
  <2> HIDE DEF w, step
  <2>3. w \in WorldState /\ ChainOK(w) /\ session \in SessionState
    BY <2>1, WorldIs DEF WorldInv
  <2> DEFINE v == IF call.out = <<>> THEN [w EXCEPT !.session.ended = TRUE] ELSE w
  <2>4. \/ Becomes(w) /\ pc' \in {"priming", "probing"}
        \/ Becomes(Settled(v)) /\ pc' = "idle"
    BY <2>2 DEF PrimeReturns
  <2>5. CASE Becomes(w) /\ pc' \in {"priming", "probing"}
    <3>1. {pc, pc'} \cap {"idle", "closing"} = {}
      BY <2>2, <2>5
    <3> QED
      BY <2>1, <2>5, <3>1, Unseen
  <2>6. CASE Becomes(Settled(v)) /\ pc' = "idle"
    <3>1. /\ v \in WorldState /\ v.ops = w.ops /\ v.heal = w.heal /\ v.wanted = w.wanted
          /\ v.b = w.b /\ v.session.from = w.session.from
      <4> DEFINE y == [w EXCEPT !.session.ended = TRUE]
      <4>1. y \in WorldState /\ y.session = [session EXCEPT !.ended = TRUE]
            /\ y.b = w.b /\ y.heal = w.heal /\ y.ops = w.ops /\ y.wanted = w.wanted
        BY <2>1, <2>3 DEF WorldState, SessionState
      <4>2. y.session.from = w.session.from
        BY <2>1, <2>3, <4>1 DEF SessionState
      <4> HIDE DEF y
      <4> QED
        BY <2>3, <4>1, <4>2 DEF y
    <3> HIDE DEF v
    <3>2. ChainOK(v)
      BY <2>3, <3>1 DEF ChainOK
    <3>3. pc \notin {"idle", "closing"}
      BY <2>2
    <3>4. /\ v \in WorldState /\ v.ops = ops /\ v.session.from = session.from
          /\ v.heal.error = heal.error /\ v.wanted = wanted /\ v.b.cursor = b.cursor
      BY <2>1, <3>1
    <3>5. ops # <<>>
      BY <1>2, <2>2
    <3> QED
      BY <1>4, <2>6, <3>2, <3>3, <3>4, <3>5, SettleSeen
  <2> QED
    BY <2>4, <2>5, <2>6
<1>10. CASE ProbeReply
  <2> DEFINE w == Configured(World, prime.out)
  <2>1. pc = "probing" /\ Becomes(Settled(w)) /\ pc' = "idle"
    BY <1>10 DEF ProbeReply
  <2>2. /\ WorldInv(w, NoCall) /\ w.b = b /\ w.heal = heal /\ w.ops = ops /\ w.wanted = wanted
        /\ w.session = session
    <3>1. prime.out \in Seq(Samples) /\ prime.out # <<>> /\ prime.out[1] \in SyncSamples
          /\ IsOpen(World) /\ World.decoder.state = "unconfigured"
      BY <1>1, <1>3, <2>1 DEF NextCall, Opening
    <3> QED
      BY <1>1, <3>1, ConfiguredIs
  <2> HIDE DEF w
  <2>3. w \in WorldState /\ ChainOK(w) /\ w.ops = ops /\ w.session.from = session.from
        /\ w.heal.error = heal.error /\ w.wanted = wanted /\ w.b.cursor = b.cursor
    BY <2>2 DEF WorldInv
  <2>4. Control!Settle
    BY <1>2, <2>1, <2>3, SettleSeen
  <2> QED
    BY <1>4, <2>4
<1>11. CASE PrimeFeedThrows
  <2> DEFINE d == [decoder EXCEPT !.state = "configured"]
             v == DecoderIs(World, d)
             w == OnDecoderError(v)
             r == Settled(w)
  <2>1. /\ pc = "probing" /\ Fault("throw") /\ pc' = "idle"
        /\ Becomes(Settled(OnDecoderError([World EXCEPT !.decoder.state = "configured"])))
    BY <1>11 DEF PrimeFeedThrows
  <2>2. decoder \in DecoderState
    BY WorldIs
  <2>3. /\ d \in DecoderState /\ d.state \in {"configured", "closed"}
        /\ d.fed = World.decoder.fed /\ d.intact = World.decoder.intact
        /\ d.flushing = World.decoder.flushing
    BY <1>1, <2>2 DEF DecoderState
  <2>4. Becomes(r)
    <3>1. [World EXCEPT !.decoder.state = "configured"] = v
      BY <1>1 DEF World, DecoderIs
    <3> QED
      BY <2>1, <3>1
  <2>5. IsOpen(World) /\ WorldInv(World, prime) /\ pc # "idle"
    BY <1>1, <1>3, <2>1 DEF Opening
  <2> HIDE DEF d
  <2>6. WorldInv(w, prime)
    BY <2>3, <2>5, ErrorKeeps
  <2>7. w.b = World.b /\ w.session.from = World.session.from /\ w.heal.error
    BY <2>3, <2>5, ErrorKeeps
  <2>8. \/ w.ops = World.ops /\ w.wanted = World.wanted
        \/ /\ w.ops = Append(World.ops, Op("seek", World.b.cursor, TRUE, TRUE))
           /\ w.wanted = World.b.cursor
    BY <2>3, <2>5, ErrorKeeps
  <2> HIDE DEF w
  <2>9. Control!DecoderFails(w.ops # ops, TRUE)
    BY <1>1, <1>2, <2>1, <2>4, <2>5, <2>6, <2>7, <2>8, FailsSettled DEF r
  <2>10. (w.ops # ops) \in BOOLEAN
    OBVIOUS
  <2> QED
    BY <2>9, <2>10 DEF Control!Next, Control!WorkerStep
<1> QED
  BY <1>5, <1>6, <1>7, <1>8, <1>9, <1>10, <1>11 DEF OperationStep

(* The pump and the decoder work unseen, but for an error.                 *)
LEMMA PumpSeen ==
  ASSUME IInv, PumpStep
  PROVE  UNCHANGED Control!streamVars
<1> DEFINE step == IF pump.call.phase = "reply" \/ ~pump.live
                   THEN [reader |-> reader, call |-> [pump.call EXCEPT !.phase = "reply"]]
                   ELSE CallStep(reader, pump.call)
           w    == [World EXCEPT !.reader = step.reader, !.pump.call = step.call]
           call == step.call
<1>1. /\ w \in WorldState /\ call \in NextCall /\ w.pump.call = call
      /\ w.b = b /\ w.session = session
      /\ w.heal = heal /\ w.ops = ops /\ w.wanted = wanted
      /\ StreamOK(w) /\ FramesOK(w)
  BY PumpCallSteps DEF PumpStep
<1>2. Handles(IF call.phase = "reply" THEN PumpReturns(w, call.out) ELSE w)
  BY DEF PumpStep
<1> HIDE DEF w, step
<1>3. call.out \in Seq(Samples)
  BY <1>1 DEF NextCall
<1>4. pc' = pc
  BY <1>2 DEF Handles
<1>5. CASE call.phase = "reply"
  <2> DEFINE x == PumpReturns(w, call.out)
  <2>1. Aside(w, x)
    BY <1>1, <1>3, PumpReturnsOK
  <2>2. Becomes(x)
    BY <1>2, <1>5 DEF Handles
  <2> HIDE DEF x
  <2> QED
    BY <1>1, <1>4, <2>1, <2>2, Unseen DEF Aside
<1>6. CASE call.phase # "reply"
  <2>1. Becomes(w)
    BY <1>2, <1>6 DEF Handles
  <2> QED
    BY <1>1, <1>4, <2>1, Unseen
<1> QED
  BY <1>5, <1>6

LEMMA BackgroundSeen ==
  ASSUME IInv, BackgroundStep
  PROVE  Control!Next \/ UNCHANGED Control!streamVars
<1>1. /\ World \in WorldState /\ WorldInv(World, prime) /\ StreamOK(World) /\ FramesOK(World)
      /\ World.ops = ops /\ World.heal = heal /\ World.session = session
      /\ World.wanted = wanted /\ World.b = b /\ World.decoder = decoder
      /\ decoder \in DecoderState
  BY WorldIs, WorldFields
<1>2. CASE PumpStep
  BY <1>2, PumpSeen
<1>3. CASE PumpFails
  <2> DEFINE w == [World EXCEPT !.pump = NoPump]
  <2>1. Becomes(w) /\ pc' = pc
    BY <1>3 DEF PumpFails
  <2>2. w.b = b /\ w.session = session /\ w.heal = heal /\ w.ops = ops /\ w.wanted = wanted
    BY DEF World
  <2> HIDE DEF w
  <2> QED
    BY <2>1, <2>2, Unseen
<1>4. CASE DecoderConsume
  <2> DEFINE w == [World EXCEPT !.decoder.queue = Tail(@),
                                !.decoder.held = @ \cup {Head(decoder.queue)}]
  <2>1. Becomes(w) /\ pc' = pc
    BY <1>4 DEF DecoderConsume, Handles
  <2>2. w.b = b /\ w.session = session /\ w.heal = heal /\ w.ops = ops /\ w.wanted = wanted
    BY DEF World
  <2> HIDE DEF w
  <2> QED
    BY <2>1, <2>2, Unseen
<1>5. CASE DecoderOutput
  <2> DEFINE x == NextOutput
             f == PtsOf[x]
             d == [decoder EXCEPT !.held = @ \ {x}]
             w == DecoderIs(World, d)
             r == OnFrame(w, f)
  <2>1. /\ Handles(OnFrame([World EXCEPT !.decoder.held = @ \ {x}], f))
        /\ decoder.state = "configured" /\ decoder.held # {}
    <3>1. Cardinality({}) = 0 /\ ~(Cardinality({}) > DECODER_HOLD)
      BY FS_EmptySet, WorkerAssumption
    <3> QED
      BY <1>5, <3>1 DEF DecoderOutput, OutputReady
  <2>2. [World EXCEPT !.decoder.held = @ \ {x}] = w
    BY <1>1 DEF World, DecoderIs
  <2>3. Becomes(r) /\ pc' = pc
    BY <2>1, <2>2 DEF Handles
  <2>4. x \in Samples
    BY <1>1, <2>1, NextOutputIs DEF DecoderState
  <2>5. f \in Pts
    BY <2>4, WorkerAssumption
  <2> HIDE DEF x
  <2>6. /\ d \in DecoderState /\ d.state = decoder.state /\ d.flushing = decoder.flushing
        /\ d.fed = decoder.fed
    BY <1>1 DEF DecoderState
  <2> HIDE DEF d, f
  <2>7. /\ w \in WorldState /\ w.decoder = d /\ w.b = b /\ w.session = session /\ w.ring = ring
        /\ w.pump = pump /\ w.heal = heal /\ w.ops = ops /\ w.wanted = wanted
    <3>1. w \in WorldState
      BY <1>1, <2>6 DEF WorldState, DecoderIs
    <3> QED
      BY <3>1 DEF World, DecoderIs
  <2> HIDE DEF w
  <2>8. IsOpen(w) /\ StreamOK(w) /\ FramesOK(w)
    <3>1. IsOpen(World) /\ IsOpen(w)
      BY <2>1, <2>7, DecoderAtWork, WorldFields DEF IsOpen
    <3>2. AliveOK(w)
      BY <1>1, <2>1, <2>6, <2>7, <3>1, WorldFields DEF StreamOK, AliveOK, IsOpen
    <3> QED
      BY <1>1, <2>7, <3>1, <3>2, WorldFields DEF StreamOK, FramesOK, IsOpen
  <2>9. /\ r.heal = [w.heal EXCEPT !.count = 0] /\ r.ops = w.ops /\ r.wanted = w.wanted
        /\ r.session.from = w.session.from /\ r.b.cursor = w.b.cursor
    BY <2>5, <2>7, <2>8, OnFrameOK
  <2>10. r.heal.error = heal.error
    <3>1. heal \in HealState
      BY WorldIs
    <3> QED
      BY <2>7, <2>9, <3>1 DEF HealState
  <2> HIDE DEF r
  <2> QED
    BY <2>3, <2>7, <2>9, <2>10, Unseen
<1>6. CASE DecoderFlushed
  <2> DEFINE r == Drained(World)
  <2>1. Becomes(r) /\ pc' = pc
    BY <1>6 DEF DecoderFlushed, Handles
  <2>2. /\ Keeps(World.b, r.b, {World.session.pre}) /\ r.session.from = session.from
        /\ r.heal = heal /\ r.ops = ops /\ r.wanted = wanted
    BY <1>1, DrainedOK
  <2> HIDE DEF r
  <2> QED
    BY <1>1, <2>1, <2>2, Unseen DEF Keeps
<1>7. CASE DecoderError
  <2> DEFINE d == [decoder EXCEPT !.state = "closed", !.queue = <<>>, !.held = {}]
             v == DecoderIs(World, d)
             r == OnDecoderError(v)
  <2>1. /\ decoder.state = "configured" /\ Fault("decode") /\ pc' = pc
        /\ Becomes(OnDecoderError([World EXCEPT !.decoder.state = "closed",
                                   !.decoder.queue = <<>>, !.decoder.held = {}]))
    BY <1>7 DEF DecoderError
  <2>2. IsOpen(World) /\ WorldInv(World, prime)
    BY <1>1, <2>1, DecoderAtWork
  <2>3. /\ d \in DecoderState /\ d.state \in {"configured", "closed"}
        /\ d.fed = World.decoder.fed /\ d.intact = World.decoder.intact
        /\ d.flushing = World.decoder.flushing
    <3>1. <<>> \in Seq(Samples)
      OBVIOUS
    <3> QED
      BY <1>1, <3>1 DEF DecoderState
  <2>4. [World EXCEPT !.decoder.state = "closed",
                      !.decoder.queue = <<>>, !.decoder.held = {}] = v
    BY <1>1 DEF World, DecoderIs
  <2>5. Becomes(r)
    BY <2>1, <2>4
  <2> HIDE DEF d
  <2>6. r \in WorldState
    BY <2>2, <2>3, ErrorKeeps DEF WorldInv
  <2>7. r.b = World.b /\ r.session.from = World.session.from /\ r.heal.error
    BY <2>2, <2>3, ErrorKeeps
  <2>8. \/ r.ops = World.ops /\ r.wanted = World.wanted
        \/ /\ r.ops = Append(World.ops, Op("seek", World.b.cursor, TRUE, TRUE))
           /\ r.wanted = World.b.cursor
    BY <2>2, <2>3, ErrorKeeps
  <2> HIDE DEF r
  <2>9. Control!DecoderFails(r.ops # ops, FALSE)
    BY <2>1, <2>2, <2>5, <2>6, <2>7, <2>8, FailsBeside
  <2>10. (r.ops # ops) \in BOOLEAN
    OBVIOUS
  <2> QED
    BY <2>9, <2>10 DEF Control!Next, Control!WorkerStep
<1> QED
  BY <1>2, <1>3, <1>4, <1>5, <1>6, <1>7 DEF BackgroundStep

(* An operation asked for joins the chain.                                 *)
LEMMA RequestSeen ==
  ASSUME IInv, NEW o, NEW target, Request(Op(o.op, o.target, o.force, o.heal), target),
         o = Op(o.op, o.target, o.force, o.heal), o \in Control!Requests,
         target = IF o.op = "capture" THEN wanted ELSE Control!Result(o)
  PROVE  Control!Next
<1> DEFINE r == [World EXCEPT !.ops = Append(@, o), !.wanted = target]
<1>1. Becomes(r) /\ pc' = pc /\ env.ops < MaxOps
  BY DEF Request
<1>2. /\ r.ops = Append(ops, o) /\ r.wanted = target /\ r.session = session
      /\ r.heal = heal /\ r.b = b
  BY DEF World
<1> HIDE DEF r
<1>3. Len(ops) < MaxOps + MaxFaults
  BY <1>1, RoomToHeal
<1>4. Control!Request(o)
  BY <1>1, <1>2, <1>3 DEF Becomes, Control!Request
<1> QED
  BY <1>4 DEF Control!Next

(* The frame path moves the cursor, if anything the panel sees.            *)
LEMMA BlitSeen ==
  ASSUME IInv, NEW y \in BlitState, Frames(y) \subseteq Frames(b) \cup {NoPts},
         Handles(BlitIs(World, y)) \/ Handles(MaybeRefill(BlitIs(World, y))),
         y.cursor = b.cursor \/ y.cursor \in Cursors
  PROVE  Control!Next \/ UNCHANGED Control!streamVars
<1> DEFINE w == BlitIs(World, y)
           r == IF Handles(w) THEN w ELSE MaybeRefill(w)
<1>1. World \in WorldState /\ StreamOK(World) /\ FramesOK(World)
  BY WorldIs
<1>2. /\ w \in WorldState /\ w.b = y /\ w.session = session /\ Still(World, w)
      /\ w.heal = heal /\ w.ops = ops /\ w.wanted = wanted
  <2>1. w \in WorldState
    BY <1>1 DEF WorldState, BlitIs
  <2> QED
    BY <2>1 DEF World, BlitIs, Still
<1>3. StreamOK(w) /\ FramesOK(w)
  <2>1. Frames(w.b) \subseteq Frames(World.b) \cup {NoPts}
    BY <1>2, WorldFields
  <2> QED
    BY <1>1, <1>2, <2>1, StillKeeps
<1>4. Handles(r)
  OBVIOUS
<1> HIDE DEF w
<1>5. /\ r.b.cursor = y.cursor /\ r.session.from = session.from
      /\ r.heal = heal /\ r.ops = ops /\ r.wanted = wanted
  <2>1. Aside(w, MaybeRefill(w))
    BY <1>2, <1>3, MaybeRefillOK
  <2> QED
    BY <1>2, <2>1 DEF Aside
<1>6. Becomes(r) /\ pc' = pc
  BY <1>4 DEF Handles
<1> HIDE DEF r
<1>7. CASE y.cursor = b.cursor
  BY <1>5, <1>6, <1>7, Unseen
<1>8. CASE y.cursor \in Cursors
  <2>1. /\ ops' = ops /\ session'.from = session.from /\ heal'.error = heal.error
        /\ wanted' = wanted /\ b'.cursor = y.cursor
    BY <1>5, <1>6 DEF Becomes
  <2>2. Control!MoveCursor(y.cursor)
    BY <1>6, <2>1 DEF Control!MoveCursor
  <2> QED
    BY <1>8, <2>2 DEF Control!Next
<1> QED
  BY <1>7, <1>8

LEMMA ApiSeen ==
  ASSUME IInv, ApiCall
  PROVE  Control!Next \/ UNCHANGED Control!streamVars
<1>1. b \in BlitState /\ World.b = b /\ Cursors \subseteq Nat
  BY WorldIs, WorldFields, WorkerAssumption
<1>2. \A y : [World EXCEPT !.b = y] = BlitIs(World, y)
  BY DEF BlitIs
<1>3. ASSUME NEW t \in Cursors, CallOpen(t) \/ CallSeek(t) \/ CallRetry(t)
      PROVE  Control!Next
  <2>1. CASE CallOpen(t)
    <3> DEFINE o == Op("open", t, FALSE, FALSE)
    <3>1. /\ o.op = "open" /\ o.target = t /\ o.force = FALSE /\ o.heal = FALSE
          /\ o = Op(o.op, o.target, o.force, o.heal)
      BY DEF Op
    <3>2. o \in Control!Requests
      BY DEF Op, Control!Requests
    <3>3. Request(o, t)
      BY <2>1 DEF CallOpen
    <3> HIDE DEF o
    <3>4. t = IF o.op = "capture" THEN wanted ELSE Control!Result(o)
      BY <3>1 DEF Control!Result
    <3> QED
      BY <3>1, <3>2, <3>3, <3>4, RequestSeen
  <2>2. CASE CallSeek(t)
    <3> DEFINE o == Op("seek", t, FALSE, FALSE)
    <3>1. /\ o.op = "seek" /\ o.target = t /\ o.force = FALSE /\ o.heal = FALSE
          /\ o = Op(o.op, o.target, o.force, o.heal)
      BY DEF Op
    <3>2. o \in Control!Requests
      BY DEF Op, Control!Requests
    <3>3. Request(o, t)
      BY <2>2 DEF CallSeek
    <3> HIDE DEF o
    <3>4. t = IF o.op = "capture" THEN wanted ELSE Control!Result(o)
      BY <3>1 DEF Control!Result
    <3> QED
      BY <3>1, <3>2, <3>3, <3>4, RequestSeen
  <2>3. CASE CallRetry(t)
    <3> DEFINE o == Op("seek", t, TRUE, FALSE)
    <3>1. /\ o.op = "seek" /\ o.target = t /\ o.force = TRUE /\ o.heal = FALSE
          /\ o = Op(o.op, o.target, o.force, o.heal)
      BY DEF Op
    <3>2. o \in Control!Requests
      BY DEF Op, Control!Requests
    <3>3. Request(o, t)
      BY <2>3 DEF CallRetry
    <3> HIDE DEF o
    <3>4. t = IF o.op = "capture" THEN wanted ELSE Control!Result(o)
      BY <3>1 DEF Control!Result
    <3> QED
      BY <3>1, <3>2, <3>3, <3>4, RequestSeen
  <2> QED
    BY <1>3, <2>1, <2>2, <2>3
<1>4. CASE CallClose
  <2> DEFINE o == Op("close", 0, FALSE, FALSE)
  <2>1. /\ o.op = "close" /\ o.target = 0 /\ o.force = FALSE /\ o.heal = FALSE
        /\ o = Op(o.op, o.target, o.force, o.heal)
    BY DEF Op
  <2>2. o \in Control!Requests
    BY DEF Op, Control!Requests
  <2>3. Request(o, NoPts)
    BY <1>4 DEF CallClose
  <2> HIDE DEF o
  <2>4. NoPts = IF o.op = "capture" THEN wanted ELSE Control!Result(o)
    BY <2>1 DEF Control!Result, Control!NoStream, NoPts
  <2> QED
    BY <2>1, <2>2, <2>3, <2>4, RequestSeen
<1>5. CASE CallCapture
  <2> DEFINE o == Op("capture", 0, FALSE, FALSE)
  <2>1. /\ o.op = "capture" /\ o.target = 0 /\ o.force = FALSE /\ o.heal = FALSE
        /\ o = Op(o.op, o.target, o.force, o.heal)
    BY DEF Op
  <2>2. o \in Control!Requests
    BY DEF Op, Control!Requests
  <2>3. Request(o, wanted)
    BY <1>5 DEF CallCapture
  <2> HIDE DEF o
  <2>4. wanted = IF o.op = "capture" THEN wanted ELSE Control!Result(o)
    BY <2>1
  <2> QED
    BY <2>1, <2>2, <2>3, <2>4, RequestSeen
<1>6. ASSUME NEW t \in Cursors, SetCursor(t) \/ BlitClockTick(t)
      PROVE  Control!Next \/ UNCHANGED Control!streamVars
  <2> DEFINE y == AtCursor(b, t)
  <2>1. Moves(b, y, t)
    BY <1>1, AtCursorKeeps
  <2>2. Handles(MaybeRefill(BlitIs(World, y)))
    BY <1>1, <1>2, <1>6 DEF SetCursor, BlitClockTick
  <2> HIDE DEF y
  <2> QED
    BY <2>1, <2>2, BlitSeen DEF Moves
<1>7. ASSUME NEW t \in Cursors, SetPlayback(t)
      PROVE  Control!Next \/ UNCHANGED Control!streamVars
  <2>1. CASE Handles(MaybeRefill([World EXCEPT !.b = StartPlayback(@, t)]))
    <3> DEFINE y == StartPlayback(b, t)
    <3>1. Moves(b, y, t)
      BY <1>1, StartPlaybackKeeps
    <3>2. Handles(MaybeRefill(BlitIs(World, y)))
      BY <1>1, <1>2, <2>1
    <3> HIDE DEF y
    <3> QED
      BY <3>1, <3>2, BlitSeen DEF Moves
  <2>2. CASE Handles([World EXCEPT !.b = StopPlayback(@, t)])
    <3> DEFINE y == StopPlayback(b, t)
    <3>1. Moves(b, y, t)
      BY <1>1, StopPlaybackKeeps
    <3>2. Handles(BlitIs(World, y))
      BY <1>1, <1>2, <2>2
    <3> HIDE DEF y
    <3> QED
      BY <3>1, <3>2, BlitSeen DEF Moves
  <2> QED
    BY <1>7, <2>1, <2>2 DEF SetPlayback
<1>8. CASE SetRenderCanvas
  <2> DEFINE y == AttachCanvas(b)
  <2>1. y \in BlitState /\ y.cursor = b.cursor /\ Frames(y) \subseteq Frames(b)
    BY <1>1, AttachKeeps
  <2>2. Handles(BlitIs(World, y))
    BY <1>1, <1>2, <1>8 DEF SetRenderCanvas
  <2> HIDE DEF y
  <2> QED
    BY <2>1, <2>2, BlitSeen
<1>9. CASE ClearCanvas
  <2> DEFINE y == PaintBlack(b)
  <2>1. y \in BlitState /\ y.cursor = b.cursor /\ Frames(y) \subseteq Frames(b) \cup {NoPts}
    BY <1>1, FlushKeeps DEF PaintBlack
  <2>2. Handles(BlitIs(World, y))
    BY <1>1, <1>2, <1>9 DEF ClearCanvas
  <2> HIDE DEF y
  <2> QED
    BY <2>1, <2>2, BlitSeen
<1> QED
  BY <1>3, <1>4, <1>5, <1>6, <1>7, <1>8, <1>9 DEF ApiCall, CallStepOf

(* Seen from the panel the worker is StreamControl: the operations are     *)
(* carried out one at a time and in the order they were asked for, and     *)
(* whatever the reader, the pump and the decoder do, only they, a decode   *)
(* error and a move of the cursor change anything the panel can see        *)
(* (runExclusive, openInternal, onDecoderError).                           *)
THEOREM WorkerRunsAsStreamControl == Spec => RunsAsStreamControl
<1>1. Init => Control!Init
  BY DEF Init, Control!Init, NoSession, NoPts, Control!NoStream, InitBlit
<1>2. IInv /\ [Next]_vars => [Control!Next]_Control!streamVars
  <2> SUFFICES ASSUME IInv, [Next]_vars
               PROVE  Control!Next \/ UNCHANGED Control!streamVars
    OBVIOUS
  <2>1. CASE UNCHANGED vars
    BY <2>1 DEF vars, Control!streamVars
  <2>2. CASE Next
    BY <2>2, OperationSeen, BackgroundSeen, ApiSeen DEF Next
  <2> QED
    BY <2>1, <2>2
<1> QED
  BY <1>1, <1>2, WorkerInductive, PTL DEF Spec, RunsAsStreamControl, Control!Spec

-----------------------------------------------------------------------------
(* VideoWorker implements FrameBlit.  The two read the same frame path.    *)
LEMMA SameDue ==
  ASSUME NEW x
  PROVE  Blit!Due(x) = Due(x)
BY DEF Blit!Due, Due

LEMMA SameMax ==
  ASSUME NEW S
  PROVE  Blit!Max(S) = Max(S)
BY DEF Blit!Max, Max

LEMMA SameCardinality ==
  ASSUME NEW S
  PROVE  Blit!Cardinality(S) = Cardinality(S)
BY Zenon DEF Blit!Cardinality, Cardinality

LEMMA SameBlit ==
  ASSUME NEW x
  PROVE  Blit!BlitForCursor(x) = BlitForCursor(x)
<1>1. Blit!Due(x) = Due(x)
  BY SameDue
<1>2. Blit!Max(Blit!Due(x)) = Max(Due(x))
  BY <1>1, SameMax
<1> QED
  BY <1>1, <1>2 DEF Blit!BlitForCursor, BlitForCursor

LEMMA SameRelease ==
  ASSUME NEW x, NEW flushAll
  PROVE  Blit!ReleaseReordered(x, flushAll) = ReleaseReordered(x, flushAll)
<1>1. \A keep : Blit!Releasable(x, keep) = Releasable(x, keep)
  <2>1. \A f : Blit!Cardinality({g \in x.reorder : g > f}) = Cardinality({g \in x.reorder : g > f})
    BY SameCardinality
  <2> QED
    BY <2>1 DEF Blit!Releasable, Releasable
<1>2. \A keep : Blit!Release(x, keep) = Release(x, keep)
  BY <1>1 DEF Blit!Release, Release
<1> QED
  BY <1>2, SameBlit DEF Blit!ReleaseReordered, ReleaseReordered

LEMMA SameEmit ==
  ASSUME NEW x, NEW f
  PROVE  Blit!EmitFrame(x, f) = EmitFrame(x, f) /\ Blit!EmitIfAny(x, f) = EmitIfAny(x, f)
<1>1. Blit!Victim(x) = Victim(x)
  <2>1. /\ Blit!Cardinality(x.reorder) = Cardinality(x.reorder)
        /\ Blit!Cardinality(x.blit) = Cardinality(x.blit)
    BY SameCardinality
  <2>2. Blit!Max(x.reorder) = Max(x.reorder)
    BY SameMax
  <2> QED
    BY <2>1, <2>2 DEF Blit!Victim, Victim
<1>2. Blit!Insert(x, f) = Insert(x, f)
  BY <1>1 DEF Blit!Insert, Insert
<1>3. Blit!EmitFrame(x, f) = EmitFrame(x, f)
  BY <1>2, SameRelease DEF Blit!EmitFrame, EmitFrame
<1> QED
  BY <1>3 DEF Blit!EmitIfAny, EmitIfAny, Blit!NoPts, NoPts

LEMMA SameMoves ==
  ASSUME NEW x, NEW ns
  PROVE  /\ Blit!AtCursor(x, ns) = AtCursor(x, ns)
         /\ Blit!StartPlayback(x, ns) = StartPlayback(x, ns)
         /\ Blit!StopPlayback(x, ns) = StopPlayback(x, ns)
         /\ Blit!AttachCanvas(x) = AttachCanvas(x)
         /\ Blit!FlushBlitQueue(x) = FlushBlitQueue(x)
         /\ Blit!PaintBlack(x) = PaintBlack(x)
         /\ Blit!Reseed(x, ns) = Reseed(x, ns)
<1>1. \A y, t : Blit!AtCursor(y, t) = AtCursor(y, t)
  BY SameBlit DEF Blit!AtCursor, AtCursor
<1>2. Blit!StartPlayback(x, ns) = StartPlayback(x, ns)
  BY <1>1 DEF Blit!StartPlayback, StartPlayback
<1>3. Blit!StopPlayback(x, ns) = StopPlayback(x, ns)
  BY SameRelease DEF Blit!StopPlayback, StopPlayback
<1>4. Blit!AttachCanvas(x) = AttachCanvas(x)
  BY SameBlit DEF Blit!AttachCanvas, AttachCanvas
<1>5. Blit!FlushBlitQueue(x) = FlushBlitQueue(x)
  BY DEF Blit!FlushBlitQueue, FlushBlitQueue, Blit!NoPts, NoPts
<1>6. Blit!PaintBlack(x) = PaintBlack(x)
  BY <1>5 DEF Blit!PaintBlack, PaintBlack
<1>7. Blit!Reseed(x, ns) = Reseed(x, ns)
  BY DEF Blit!Reseed, Reseed
<1> QED
  BY <1>1, <1>2, <1>3, <1>4, <1>5, <1>6, <1>7

(* What of a session the frame path sees.                                  *)
Gate(s) == [from |-> s.from, pre |-> s.pre, out |-> s.out, drained |-> s.drained]

GateOf(from, pre, out, drained) == [from |-> from, pre |-> pre, out |-> out, drained |-> drained]

DrainGate(gate, drained) == [gate EXCEPT !.pre = NoPts, !.drained = drained]

LEMMA DrainGateIs ==
  ASSUME NEW from, NEW pre, NEW out, NEW drained, NEW now
  PROVE  DrainGate(GateOf(from, pre, out, drained), now) = GateOf(from, NoPts, out, now)
<1>1. [GateOf(from, pre, out, drained) EXCEPT !.pre = NoPts] = GateOf(from, NoPts, out, drained)
  BY DEF GateOf
<1>2. [GateOf(from, NoPts, out, drained) EXCEPT !.drained = now] = GateOf(from, NoPts, out, now)
  BY DEF GateOf
<1> QED
  BY <1>1, <1>2 DEF DrainGate

LEMMA OpenGateIs ==
  ASSUME NEW from, NEW drained
  PROVE  [GateOf(NoPts, NoPts, {}, drained) EXCEPT !.from = from] = GateOf(from, NoPts, {}, drained)
BY DEF GateOf

LEMMA BlitUnseen ==
  ASSUME NEW w, Becomes(w), w.b = b, Gate(w.session) = Gate(session)
  PROVE  UNCHANGED Blit!vars
<1>1. b' = b /\ Gate(session') = Gate(session)
  BY DEF Becomes
<1> QED
  BY <1>1 DEF Blit!vars, Gate

(* A stream's own order bounds how many later frames overtake one.         *)
LEMMA OvertakenBound ==
  ASSUME NEW w \in WorldState, OrderOK(w), NEW x \in w.decoder.held,
         NEW f, f = PtsOf[x]
  PROVE  /\ f \in Pts /\ f \notin w.session.out
         /\ Cardinality({g \in w.session.out : g > f}) <= MaxDisplacement
<1>1. /\ x \in Samples /\ w.session.out \subseteq Pts
      /\ \A i \in Samples : PtsOf[i] \in Nat
  BY Fields, CountAssumption, WorkerAssumption, PtsAssumption DEF DecoderState, SessionState
<1>2. f \in Pts /\ f \notin w.session.out
  BY <1>1, WorkerAssumption DEF OrderOK, Output
<1> DEFINE Over(i) == {j \in Samples : j < i /\ PtsOf[j] > PtsOf[i]}
           later   == {g \in w.session.out : g > f}
           first   == [g \in later |-> CHOOSE j \in Samples : PtsOf[j] = g]
           counts  == [i \in Samples |-> Cardinality(Over(i))]
<1>3. \A i \in Samples : IsFiniteSet(Over(i)) /\ Cardinality(Over(i)) \in Nat
  <2>1. IsFiniteSet(Samples)
    BY CountAssumption, FS_Interval DEF Samples
  <2>2. \A i \in Samples : Over(i) \subseteq Samples
    OBVIOUS
  <2> HIDE DEF Over
  <2> QED
    BY <2>1, <2>2, FS_Subset, FS_CardinalityType
<1>4. first \in Injection(later, Over(x))
  <2>1. ASSUME NEW g \in later
        PROVE  first[g] \in Over(x) /\ PtsOf[first[g]] = g
    <3>1. \E j \in Samples : PtsOf[j] = g
      BY <1>1, WorkerAssumption
    <3>2. first[g] \in Samples /\ PtsOf[first[g]] = g
      BY <3>1
    <3> HIDE DEF first
    <3>3. first[g] \in Output(w)
      BY <3>2 DEF Output
    <3>4. PtsOf[first[g]] > PtsOf[x]
      BY <3>2
    <3>5. first[g] < x
      BY <3>3, <3>4 DEF OrderOK
    <3> QED
      BY <3>2, <3>4, <3>5
  <2>2. \A g \in later : first[g] \in Over(x) /\ PtsOf[first[g]] = g
    BY <2>1
  <2>3. first = [g \in later |-> first[g]]
    OBVIOUS
  <2> HIDE DEF first, later, Over
  <2> QED
    BY <2>2, <2>3 DEF Injection, IsInjective
<1>5. Cardinality(later) <= Cardinality(Over(x))
  <2> HIDE DEF first, later, Over
  <2> QED
    BY <1>1, <1>3, <1>4, FS_Injection
<1>6. MaxDisplacement = Max({counts[i] : i \in Samples})
  <2>1. {counts[i] : i \in Samples} = {Cardinality(Over(i)) : i \in Samples}
    OBVIOUS
  <2> QED
    BY <2>1 DEF MaxDisplacement
<1>7. counts[x] <= Max({counts[i] : i \in Samples})
  <2> DEFINE T == {counts[i] : i \in Samples}
  <2>1. T \in SUBSET Nat /\ counts[x] \in T
    BY <1>1, <1>3
  <2>2. IsFiniteSet(T)
    <3>1. IsFiniteSet(Samples)
      BY CountAssumption, FS_Interval DEF Samples
    <3> HIDE DEF counts
    <3> QED
      BY <3>1, ImageFinite
  <2> HIDE DEF T, counts
  <2>3. Max(T) \in T /\ \A y \in T : Max(T) >= y
    BY <2>1, <2>2, MaxIs
  <2>4. counts[x] \in Nat /\ Max(T) \in Nat
    BY <2>1, <2>3
  <2> QED
    BY <2>1, <2>3, <2>4 DEF T
<1>8. /\ counts[x] = Cardinality(Over(x)) /\ Cardinality(Over(x)) \in Nat
      /\ Cardinality(later) \in Nat
  <2>1. IsFiniteSet(later)
    <3> HIDE DEF first, later, Over
    <3> QED
      BY <1>1, <1>3, <1>4, FS_Injection
  <2> HIDE DEF later
  <2> QED
    BY <1>1, <1>3, <2>1, FS_CardinalityType
<1>9. MaxDisplacement \in Nat
  <2> DEFINE T == {counts[i] : i \in Samples}
  <2>1. T \in SUBSET Nat /\ T # {}
    BY <1>1, <1>3
  <2>2. IsFiniteSet(T)
    <3>1. IsFiniteSet(Samples)
      BY CountAssumption, FS_Interval DEF Samples
    <3> HIDE DEF counts
    <3> QED
      BY <3>1, ImageFinite
  <2> HIDE DEF T, counts
  <2> QED
    BY <1>6, <2>1, <2>2, MaxIs DEF T
<1> HIDE DEF counts, Over, later
<1>10. Cardinality(later) <= MaxDisplacement
  BY <1>5, <1>6, <1>7, <1>8, <1>9
<1> QED
  BY <1>2, <1>10 DEF later

LEMMA SettleUnseen ==
  ASSUME NEW w \in WorldState, IInv, Becomes(Settled(w)), ChainOK(w), ops # <<>>, w.ops # <<>>,
         w.ops[1] = Head1, w.b = b, Gate(w.session) = Gate(session)
  PROVE  UNCHANGED Blit!vars
<1> DEFINE r == Settled(w)
<1>1. r.b = w.b /\ r.session = w.session
  BY SettledIs DEF Still
<1> HIDE DEF r
<1> QED
  BY <1>1, BlitUnseen DEF r

LEMMA DropShown ==
  ASSUME NEW w, Becomes(w), w.session = NoSession, w.b = FlushBlitQueue(b), IsOpen(World)
  PROVE  Blit!Next
<1>1. session'.from = NoPts /\ session'.pre = NoPts /\ session'.out = {} /\ session'.drained = FALSE
  BY DEF Becomes, NoSession
<1>2. b' = Blit!FlushBlitQueue(b)
  BY SameMoves DEF Becomes
<1>3. session.from # NoPts
  BY WorldFields DEF IsOpen
<1>4. Blit!CloseSession
  BY <1>1, <1>2, <1>3 DEF Blit!CloseSession, Blit!IsOpen, Blit!NoSession, Blit!NoPts, NoPts
<1> QED
  BY <1>4 DEF Blit!Next

LEMMA BeginShown ==
  ASSUME IInv, ops # <<>>, Head1.op \in {"open", "seek"}, ~IsOpen(World),
         Becomes(BeginOpen(World))
  PROVE  Blit!Next
<1> DEFINE w == BeginOpen(World)
           t == Head1.target
<1>1. WorldInv(World, prime) /\ t \in Cursors /\ session.from = NoPts
  BY WorldIs, HeadIs, WorldFields DEF UserOrHeal, IsOpen
<1>2. w.session = session /\ w.b = Reseed(b, t)
  BY <1>1, BeginOpenIs, WorldFields DEF Still
<1> HIDE DEF w
<1>3. session' = session /\ b' = Blit!Reseed(b, t)
  BY <1>2, SameMoves DEF Becomes, w
<1>4. Blit!ReseedCursor(t)
  BY <1>1, <1>3 DEF Blit!ReseedCursor, Blit!IsOpen, Blit!NoPts, NoPts
<1> QED
  BY <1>1, <1>4 DEF Blit!Next

LEMMA ErrorShown ==
  ASSUME NEW w, Becomes(w), IsOpen(World), w.b = b, w.session.pre = NoPts,
         w.session.from = session.from, w.session.out = session.out,
         w.session.drained = session.drained
  PROVE  Blit!Next
<1>1. session.from # NoPts
  BY WorldFields DEF IsOpen
<1>2. /\ b' = b /\ session'.pre = NoPts /\ session'.from = session.from
      /\ session'.out = session.out /\ session'.drained = session.drained
  BY DEF Becomes
<1>3. Blit!OnDecoderError
  BY <1>1, <1>2 DEF Blit!OnDecoderError, Blit!IsOpen, Blit!NoPts, NoPts
<1> QED
  BY <1>3 DEF Blit!Next

LEMMA DrainShown ==
  ASSUME NEW w, Becomes(w), IsOpen(World), ~session.drained,
         w.b = ReleaseReordered(EmitIfAny(b, session.pre), TRUE),
         w.session.pre = NoPts, w.session.drained, w.session.drained \in BOOLEAN,
         w.session.from = session.from, w.session.out = session.out
  PROVE  Blit!Next
<1>1. session.from # NoPts
  BY WorldFields DEF IsOpen
<1>2. /\ session'.pre = NoPts /\ session'.from = session.from
      /\ session'.out = session.out /\ session'.drained /\ session'.drained \in BOOLEAN
  BY DEF Becomes
<1>3. b' = Blit!ReleaseReordered(Blit!EmitIfAny(b, session.pre), TRUE)
  BY SameEmit, SameRelease DEF Becomes
<1>4. Gate(session)' = [Gate(session) EXCEPT !.pre = NoPts, !.drained = TRUE]
  <2>1. Gate(session)' = GateOf(session.from, NoPts, session.out, session'.drained)
    BY <1>2 DEF Gate, GateOf
  <2>2. session'.drained = TRUE
    BY <1>2
  <2>3. Gate(session)' = GateOf(session.from, NoPts, session.out, TRUE)
    BY <2>1, <2>2, Zenon
  <2>4. \A now : DrainGate(Gate(session), now) = GateOf(session.from, NoPts, session.out, now)
    BY DrainGateIs DEF Gate, GateOf
  <2>5. DrainGate(Gate(session), TRUE) = GateOf(session.from, NoPts, session.out, TRUE)
    BY <2>4, Zenon
  <2> QED
    BY <2>3, <2>5, Zenon DEF DrainGate
<1>5. Blit!DrainAtEnd
  BY <1>1, <1>3, <1>4 DEF Blit!DrainAtEnd, Blit!IsOpen, Blit!NoPts, NoPts, Gate
<1> QED
  BY <1>5 DEF Blit!Next

LEMMA StartOpShown ==
  ASSUME IInv, StartOp
  PROVE  Blit!Next \/ UNCHANGED Blit!vars
<1>1. /\ ops # <<>> /\ World \in WorldState /\ ChainOK(World) /\ WorldInv(World, prime)
      /\ Head1 = ops[1] /\ World.ops = ops /\ World.b = b /\ World.session = session
  BY WorldIs, WorldFields, HeadIs DEF StartOp
<1>2. Becomes(Settled(World)) => UNCHANGED Blit!vars
  BY <1>1, SettleUnseen
<1>3. IsOpen(World) /\ Becomes(Teardown(World)) => Blit!Next
  <2> DEFINE w == Teardown(World)
  <2>1. w.session = NoSession /\ w.b = FlushBlitQueue(b)
    BY <1>1, TeardownIs
  <2> HIDE DEF w
  <2>2. IsOpen(World) /\ Becomes(w) => Blit!Next
    BY <2>1, DropShown
  <2> QED
    BY <2>2 DEF w
<1>4. IsOpen(World) /\ Becomes(CloseFirst(World)) => Blit!Next
  <2> DEFINE w == CloseFirst(World)
  <2>1. w.session = NoSession /\ w.b = FlushBlitQueue(b)
    BY <1>1, CloseFirstIs
  <2> HIDE DEF w
  <2>2. IsOpen(World) /\ Becomes(w) => Blit!Next
    BY <2>1, DropShown
  <2> QED
    BY <2>2 DEF w
<1>5. CASE StartSeek
  BY <1>2, <1>3, <1>5 DEF StartSeek
<1>6. CASE StartOpen
  <2>1. Head1.op \in {"open", "seek"}
    BY <1>6 DEF StartOpen
  <2>2. ~IsOpen(World) /\ Becomes(BeginOpen(World)) => Blit!Next
    BY <1>1, <2>1, BeginShown
  <2> QED
    BY <1>4, <1>6, <2>2 DEF StartOpen
<1>7. CASE StartClose
  BY <1>2, <1>4, <1>7 DEF StartClose
<1>8. CASE StartCapture
  <2>1. Becomes(World)
    BY <1>8 DEF StartCapture
  <2> QED
    BY <1>1, <2>1, BlitUnseen
<1> QED
  BY <1>5, <1>6, <1>7, <1>8 DEF StartOp

LEMMA OperationShown ==
  ASSUME IInv, OperationStep
  PROVE  Blit!Next \/ UNCHANGED Blit!vars
<1>1. /\ World \in WorldState /\ ChainOK(World) /\ WorldInv(World, prime)
      /\ World.ops = ops /\ World.heal = heal /\ World.session = session
      /\ World.b = b /\ World.decoder = decoder
  BY WorldIs, WorldFields
<1>2. pc # "idle" => ops # <<>> /\ Head1 = ops[1] /\ UserOrHeal(Head1) /\ Head1 \in OperationType
  BY HeadIs DEF IInv, StageOK
<1>3. /\ pc \in {"closing", "opening"} => ~IsOpen(World)
      /\ Opening => IsOpen(World) /\ session.from = ops[1].target /\ decoder.state = "unconfigured"
      /\ pc = "opening" => ops[1].op \in {"open", "seek"}
      /\ pc = "closing" => ops[1].op # "capture"
      /\ pc = "probing" => prime.out # <<>> /\ prime.out[1] \in SyncSamples
      /\ prime \in NextCall
  BY DEF IInv, StageOK, StepState, Opening
<1>4. pc # "idle" /\ Becomes(Settled(World)) => UNCHANGED Blit!vars
  BY <1>1, <1>2, SettleUnseen
<1>5. CASE StartOp
  BY <1>5, StartOpShown
<1>6. CASE CloseReply
  <2>1. pc = "closing"
    BY <1>6 DEF CloseReply
  <2>2. CASE Head1.op = "close"
    BY <1>4, <1>6, <2>1, <2>2 DEF CloseReply
  <2>3. CASE Head1.op # "close"
    <3>1. Becomes(BeginOpen(World))
      BY <1>6, <2>3 DEF CloseReply
    <3>2. Head1.op \in {"open", "seek"}
      BY <1>2, <1>3, <2>1, <2>3 DEF OperationType
    <3> QED
      BY <1>2, <1>3, <2>1, <3>1, <3>2, BeginShown
  <2> QED
    BY <2>2, <2>3
<1>7. CASE CaptureReply \/ OpenFails \/ PrimeFails
  <2>1. Becomes(Settled(World)) /\ pc # "idle"
    BY <1>7 DEF CaptureReply, OpenFails, PrimeFails
  <2> QED
    BY <1>4, <2>1
<1>8. CASE OpenReply
  <2> DEFINE next == BeginNext(OpenReader(Head1.target), PRIMING_BATCH)
             w == OpenedWith(World, next.reader)
             t == Head1.target
  <2>1. pc = "opening" /\ Becomes(w)
    BY <1>8 DEF OpenReply, OpenedWith
  <2>2. t \in Cursors
    BY <1>2, <1>3, <2>1 DEF UserOrHeal
  <2>3. w.b = b /\ w.session = [NoSession EXCEPT !.from = t]
    <3>1. b.cursor \in Cursors /\ kind \in {"mcap", "mp4"}
      BY <2>1, WorldIs DEF IInv, StageOK
    <3> QED
      BY <1>1, <1>3, <2>1, <2>2, <3>1, OpenedIs
  <2> HIDE DEF w, t
  <2>4. /\ session'.from = t /\ session'.pre = NoPts /\ session'.out = {}
        /\ ~session'.drained /\ session'.drained \in BOOLEAN /\ b' = b
    <3>1. session' = w.session /\ b' = w.b
      BY <2>1 DEF Becomes
    <3>2. session' = [NoSession EXCEPT !.from = t] /\ b' = b
      BY <2>3, <3>1, Zenon
    <3> HIDE DEF next
    <3>3. /\ NoSession.pre = NoPts /\ NoSession.out = {} /\ NoSession.drained = FALSE
          /\ {"from", "pre", "out", "drained"} \subseteq DOMAIN NoSession
      BY DEF NoSession
    <3> QED
      BY <3>2, <3>3
  <2>5. session.from = NoPts
    BY <1>1, <1>3, <2>1 DEF IsOpen
  <2>6. Gate(session)' = [[from |-> NoPts, pre |-> NoPts, out |-> {}, drained |-> FALSE]
                          EXCEPT !.from = t]
    <3>1. Gate(session)' = GateOf(t, NoPts, {}, session'.drained)
      BY <2>4 DEF Gate, GateOf
    <3>2. session'.drained = FALSE
      BY <2>4
    <3>3. Gate(session)' = GateOf(t, NoPts, {}, FALSE)
      BY <3>1, <3>2, Zenon
    <3>4. [GateOf(NoPts, NoPts, {}, FALSE) EXCEPT !.from = t] = GateOf(t, NoPts, {}, FALSE)
      BY OpenGateIs, Zenon
    <3> QED
      BY <3>3, <3>4, Zenon DEF GateOf
  <2>7. Blit!OpenSession(t)
    BY <2>4, <2>5, <2>6 DEF Blit!OpenSession, Blit!IsOpen, Blit!NoSession, Blit!NoPts, NoPts, Gate
  <2> QED
    BY <2>2, <2>7 DEF Blit!Next
<1>9. CASE PrimeStep
  <2> DEFINE step == IF prime.phase = "reply"
                     THEN [reader |-> reader, call |-> prime]
                     ELSE CallStep(reader, prime)
             w    == [World EXCEPT !.reader = step.reader]
             call == step.call
  <2>1. /\ WorldInv(w, call) /\ w.b = b /\ w.session = session /\ w.heal = heal /\ w.ops = ops
    BY <1>9, PrimeStepKeeps DEF PrimeStep
  <2>2. /\ pc = "priming"
        /\ IF call.phase = "reply" THEN PrimeReturns(w, call.out) ELSE Becomes(w)
    BY <1>9 DEF PrimeStep
  <2> HIDE DEF w, step
  <2>3. w \in WorldState /\ ChainOK(w) /\ session \in SessionState
    BY <2>1, WorldIs DEF WorldInv
  <2> DEFINE v == IF call.out = <<>> THEN [w EXCEPT !.session.ended = TRUE] ELSE w
  <2>4. Becomes(w) \/ Becomes(Settled(v))
    BY <2>2 DEF PrimeReturns
  <2>5. CASE Becomes(w)
    BY <2>1, <2>5, BlitUnseen
  <2>6. CASE Becomes(Settled(v))
    <3>1. /\ v \in WorldState /\ v.ops = w.ops /\ v.heal = w.heal
          /\ v.b = w.b /\ Gate(v.session) = Gate(session)
      <4> DEFINE y == [w EXCEPT !.session.ended = TRUE]
      <4>1. y \in WorldState /\ y.session = [session EXCEPT !.ended = TRUE]
            /\ y.b = w.b /\ y.heal = w.heal /\ y.ops = w.ops
        BY <2>1, <2>3 DEF WorldState, SessionState
      <4>2. Gate(y.session) = Gate(session)
        BY <2>3, <4>1 DEF SessionState, Gate
      <4> HIDE DEF y
      <4> QED
        BY <2>1, <2>3, <4>1, <4>2 DEF y
    <3> HIDE DEF v
    <3>2. ChainOK(v)
      BY <2>3, <3>1 DEF ChainOK
    <3>3. ops # <<>> /\ v.ops # <<>> /\ v.ops[1] = Head1 /\ v.b = b
      BY <1>2, <2>1, <2>2, <3>1
    <3> QED
      BY <2>6, <3>1, <3>2, <3>3, SettleUnseen
  <2> QED
    BY <2>4, <2>5, <2>6
<1>10. CASE ProbeReply
  <2> DEFINE w == Configured(World, prime.out)
  <2>1. pc = "probing" /\ Becomes(Settled(w))
    BY <1>10 DEF ProbeReply
  <2>2. WorldInv(w, NoCall) /\ w.b = b /\ w.ops = ops /\ w.session = session
    <3>1. prime.out \in Seq(Samples) /\ prime.out # <<>> /\ prime.out[1] \in SyncSamples
          /\ IsOpen(World) /\ World.decoder.state = "unconfigured"
      BY <1>1, <1>3, <2>1 DEF NextCall, Opening
    <3> QED
      BY <1>1, <3>1, ConfiguredIs
  <2> HIDE DEF w
  <2>3. w \in WorldState /\ ChainOK(w) /\ w.ops # <<>> /\ w.ops[1] = Head1 /\ ops # <<>>
    BY <1>2, <2>1, <2>2 DEF WorldInv
  <2> QED
    BY <2>1, <2>2, <2>3, SettleUnseen
<1>11. CASE PrimeFeedThrows
  <2> DEFINE d == [decoder EXCEPT !.state = "configured"]
             v == DecoderIs(World, d)
             w == OnDecoderError(v)
             r == Settled(w)
  <2>1. /\ pc = "probing"
        /\ Becomes(Settled(OnDecoderError([World EXCEPT !.decoder.state = "configured"])))
    BY <1>11 DEF PrimeFeedThrows
  <2>2. decoder \in DecoderState
    BY WorldIs
  <2>3. /\ d \in DecoderState /\ d.state \in {"configured", "closed"}
        /\ d.fed = World.decoder.fed /\ d.intact = World.decoder.intact
        /\ d.flushing = World.decoder.flushing
    BY <1>1, <2>2 DEF DecoderState
  <2>4. Becomes(r)
    <3>1. [World EXCEPT !.decoder.state = "configured"] = v
      BY <1>1 DEF World, DecoderIs
    <3> QED
      BY <2>1, <3>1
  <2>5. IsOpen(World) /\ WorldInv(World, prime) /\ pc # "idle"
    BY <1>1, <1>3, <2>1 DEF Opening
  <2> HIDE DEF d
  <2>6. WorldInv(w, prime)
    BY <2>3, <2>5, ErrorKeeps
  <2>7. /\ w.b = World.b /\ w.session.from = World.session.from /\ w.session.pre = NoPts
        /\ w.session.out = World.session.out /\ w.session.drained = World.session.drained
    BY <2>3, <2>5, ErrorKeeps
  <2>8. w.ops = World.ops \/ w.ops = Append(World.ops, Op("seek", World.b.cursor, TRUE, TRUE))
    BY <2>3, <2>5, ErrorKeeps
  <2> HIDE DEF w
  <2>9. w \in WorldState /\ ChainOK(w) /\ w.ops # <<>> /\ w.ops[1] = Head1
    <3> DEFINE o == Op("seek", World.b.cursor, TRUE, TRUE)
    <3>1. ops \in Seq(OperationType) /\ ops # <<>> /\ Head1 = ops[1]
      BY <1>2, <2>5, WorldIs
    <3>2. w.ops = ops \/ w.ops = Append(ops, o)
      BY <1>1, <2>8
    <3> HIDE DEF o
    <3>3. Append(ops, o) # <<>> /\ Append(ops, o)[1] = ops[1]
      BY <3>1, HeadStays
    <3> QED
      BY <2>6, <3>1, <3>2, <3>3 DEF WorldInv
  <2>10. r.b = w.b /\ r.session = w.session
    BY <2>9, SettledIs DEF Still
  <2> HIDE DEF r
  <2> QED
    BY <1>1, <2>4, <2>5, <2>7, <2>10, ErrorShown
<1> QED
  BY <1>5, <1>6, <1>7, <1>8, <1>9, <1>10, <1>11 DEF OperationStep

LEMMA PumpShown ==
  ASSUME IInv, PumpStep
  PROVE  Blit!Next \/ UNCHANGED Blit!vars
<1> DEFINE step == IF pump.call.phase = "reply" \/ ~pump.live
                   THEN [reader |-> reader, call |-> [pump.call EXCEPT !.phase = "reply"]]
                   ELSE CallStep(reader, pump.call)
           w    == [World EXCEPT !.reader = step.reader, !.pump.call = step.call]
           call == step.call
<1>1. /\ w \in WorldState /\ call \in NextCall /\ w.b = b /\ w.session = session
      /\ StreamOK(w) /\ FramesOK(w)
  BY PumpCallSteps DEF PumpStep
<1>2. Handles(IF call.phase = "reply" THEN PumpReturns(w, call.out) ELSE w)
  BY DEF PumpStep
<1> HIDE DEF w, step
<1>3. call.out \in Seq(Samples)
  BY <1>1 DEF NextCall
<1>4. CASE call.phase = "reply"
  <2> DEFINE x == PumpReturns(w, call.out)
  <2>1. Aside(w, x) /\ (SameShow(w, x) \/ DrainShow(w, x))
    BY <1>1, <1>3, PumpReturnsOK
  <2>2. Becomes(x)
    BY <1>2, <1>4 DEF Handles
  <2> HIDE DEF x
  <2>3. x \in WorldState /\ x.session.from = session.from /\ x.session.out = session.out
    BY <1>1, <2>1 DEF Aside
  <2>4. CASE SameShow(w, x)
    <3>1. x.b = b /\ Gate(x.session) = Gate(session)
      BY <1>1, <2>3, <2>4 DEF SameShow, Gate
    <3> QED
      BY <2>2, <3>1, BlitUnseen
  <2>5. CASE DrainShow(w, x)
    <3>1. /\ x.b = ReleaseReordered(EmitIfAny(b, session.pre), TRUE)
          /\ x.session.pre = NoPts /\ x.session.drained /\ x.session.drained \in BOOLEAN
          /\ IsOpen(World) /\ ~session.ended
      BY <1>1, <2>3, <2>5, Fields, WorldFields DEF DrainShow, IsOpen, SessionState
    <3>2. ~session.drained
      BY <3>1, WorldIs, WorldFields DEF AliveOK
    <3> QED
      BY <2>2, <2>3, <3>1, <3>2, DrainShown
  <2> QED
    BY <2>1, <2>4, <2>5
<1>5. CASE call.phase # "reply"
  <2>1. Becomes(w)
    BY <1>2, <1>5 DEF Handles
  <2> QED
    BY <1>1, <2>1, BlitUnseen
<1> QED
  BY <1>4, <1>5

OutGate(gate, p, f) == [gate EXCEPT !.pre = p, !.out = @ \cup {f}]

LEMMA OutGateIs ==
  ASSUME NEW from, NEW pre, NEW out, NEW drained, NEW f, NEW p
  PROVE  OutGate(GateOf(from, pre, out, drained), p, f) = GateOf(from, p, out \cup {f}, drained)
<1>1. [GateOf(from, pre, out, drained) EXCEPT !.pre = p] = GateOf(from, p, out, drained)
  BY DEF GateOf
<1>2. [GateOf(from, p, out, drained) EXCEPT !.out = out \cup {f}] = GateOf(from, p, out \cup {f}, drained)
  BY DEF GateOf
<1>3. GateOf(from, pre, out, drained).out = out
  BY DEF GateOf
<1> QED
  BY <1>1, <1>2, <1>3 DEF OutGate

LEMMA OutputShown ==
  ASSUME IInv, Calm, DecoderOutput
  PROVE  Blit!Next
<1> DEFINE x == NextOutput
           f == PtsOf[x]
           d == [decoder EXCEPT !.held = @ \ {x}]
           w == DecoderIs(World, d)
           r == OnFrame(w, f)
<1>1. /\ World \in WorldState /\ StreamOK(World) /\ FramesOK(World)
      /\ World.session = session /\ World.b = b /\ World.decoder = decoder
      /\ decoder \in DecoderState
  BY WorldIs, WorldFields
<1>2. /\ Handles(OnFrame([World EXCEPT !.decoder.held = @ \ {x}], f))
      /\ decoder.state = "configured" /\ decoder.held # {}
  <2>1. Cardinality({}) = 0 /\ ~(Cardinality({}) > DECODER_HOLD)
    BY FS_EmptySet, WorkerAssumption
  <2> QED
    BY <2>1 DEF DecoderOutput, OutputReady
<1>3. [World EXCEPT !.decoder.held = @ \ {x}] = w
  BY <1>1 DEF World, DecoderIs
<1>4. Becomes(r)
  BY <1>2, <1>3 DEF Handles
<1>5. x \in World.decoder.held /\ x \in Samples
  BY <1>1, <1>2, NextOutputIs DEF DecoderState
<1> HIDE DEF x
<1>6. OrderOK(World)
  BY <1>2 DEF IInv, CalmOK, FlowOK, Flow
<1>7. /\ f \in Pts /\ f \notin session.out
      /\ Cardinality({g \in session.out : g > f}) <= MaxDisplacement
  BY <1>1, <1>5, <1>6, OvertakenBound
<1>8. /\ d \in DecoderState /\ d.state = decoder.state /\ d.flushing = decoder.flushing
      /\ d.fed = decoder.fed
  BY <1>1 DEF DecoderState
<1> HIDE DEF d, f
<1>9. w \in WorldState /\ w.decoder = d /\ w.b = b /\ w.session = session /\ w.ring = ring
      /\ w.pump = pump
  <2>1. w \in WorldState
    BY <1>1, <1>8 DEF WorldState, DecoderIs
  <2> QED
    BY <2>1 DEF World, DecoderIs
<1> HIDE DEF w
<1>10. IsOpen(w) /\ StreamOK(w) /\ FramesOK(w) /\ IsOpen(World)
  <2>1. IsOpen(World) /\ IsOpen(w)
    BY <1>2, <1>9, DecoderAtWork, WorldFields DEF IsOpen
  <2>2. AliveOK(w)
    BY <1>1, <1>2, <1>8, <1>9, <2>1, WorldFields DEF StreamOK, AliveOK, IsOpen
  <2> QED
    BY <1>1, <1>9, <2>1, <2>2, WorldFields DEF StreamOK, FramesOK, IsOpen
<1>11. /\ r.session.from = w.session.from /\ r.session.out = w.session.out \cup {f}
       /\ r.session.drained = w.session.drained
       /\ r.session.pre = IF f < w.session.from THEN f ELSE NoPts
       /\ r.b = Shown(w, f)
  BY <1>7, <1>9, <1>10, OnFrameOK
<1> HIDE DEF r
<1> DEFINE p == IF f < session.from THEN f ELSE NoPts
<1>12. /\ Gate(session)' = GateOf(session.from, p, session.out \cup {f}, session.drained)
       /\ b' = IF f < session.from \/ ~b.canvas THEN b
               ELSE EmitFrame(EmitIfAny(b, session.pre), f)
  BY <1>4, <1>9, <1>11 DEF Becomes, Gate, GateOf, Shown
<1>13. Gate(session)' = [Gate(session) EXCEPT !.pre = p, !.out = @ \cup {f}]
  <2>1. Gate(session) = GateOf(session.from, session.pre, session.out, session.drained)
    BY DEF Gate, GateOf
  <2> HIDE DEF p
  <2>2. OutGate(Gate(session), p, f) = GateOf(session.from, p, session.out \cup {f}, session.drained)
    BY <2>1, OutGateIs
  <2> QED
    BY <1>12, <2>2 DEF OutGate
<1>14. session.from # NoPts /\ session.from \in Nat /\ f \in Nat
  BY <1>1, <1>7, <1>10, Fields, PtsAssumption DEF IsOpen, SessionState
<1>15. Blit!Cardinality({g \in session.out : g > f}) = Cardinality({g \in session.out : g > f})
  BY SameCardinality
<1>16. Blit!Output(f)
  BY <1>7, <1>14, <1>15 DEF Blit!Output, Blit!IsOpen, Blit!NoPts, NoPts
<1>17. CASE f < session.from
  <2>1. p = f /\ b' = b
    BY <1>12, <1>17
  <2>2. Blit!OnPreTargetFrame(f)
    BY <1>13, <1>16, <1>17, <2>1 DEF Blit!OnPreTargetFrame, Gate
  <2> QED
    BY <1>7, <2>2 DEF Blit!Next
<1>18. CASE ~(f < session.from)
  <2>1. /\ p = NoPts /\ f >= session.from
        /\ b' = IF b.canvas THEN EmitFrame(EmitIfAny(b, session.pre), f) ELSE b
    BY <1>12, <1>14, <1>18
  <2>2. b' = IF b.canvas THEN Blit!EmitFrame(Blit!EmitIfAny(b, session.pre), f) ELSE b
    BY <2>1, SameEmit
  <2>3. Blit!OnFrame(f)
    BY <1>13, <1>16, <2>1, <2>2 DEF Blit!OnFrame, Blit!NoPts, NoPts, Gate
  <2> QED
    BY <1>7, <2>3 DEF Blit!Next
<1> QED
  BY <1>17, <1>18

LEMMA BackgroundShown ==
  ASSUME IInv, Calm, BackgroundStep
  PROVE  Blit!Next \/ UNCHANGED Blit!vars
<1>1. /\ World \in WorldState /\ WorldInv(World, prime) /\ StreamOK(World) /\ FramesOK(World)
      /\ World.session = session /\ World.b = b /\ World.decoder = decoder
      /\ decoder \in DecoderState
  BY WorldIs, WorldFields
<1>2. CASE PumpStep
  BY <1>2, PumpShown
<1>3. CASE PumpFails
  <2> DEFINE w == [World EXCEPT !.pump = NoPump]
  <2>1. Becomes(w) /\ w.b = b /\ w.session = session
    BY <1>3 DEF PumpFails, World
  <2> HIDE DEF w
  <2> QED
    BY <2>1, BlitUnseen
<1>4. CASE DecoderConsume
  <2> DEFINE w == [World EXCEPT !.decoder.queue = Tail(@),
                                !.decoder.held = @ \cup {Head(decoder.queue)}]
  <2>1. Becomes(w) /\ w.b = b /\ w.session = session
    BY <1>4 DEF DecoderConsume, Handles, World
  <2> HIDE DEF w
  <2> QED
    BY <2>1, BlitUnseen
<1>5. CASE DecoderOutput
  BY <1>5, OutputShown
<1>6. CASE DecoderFlushed
  <2> DEFINE r == Drained(World)
  <2>1. Becomes(r) /\ decoder.flushing
    BY <1>6 DEF DecoderFlushed, FlushReady, Handles
  <2>2. /\ r.b = ReleaseReordered(EmitIfAny(b, session.pre), TRUE) /\ r.session.pre = NoPts
        /\ r.session.drained /\ r.session.from = session.from /\ r.session.out = session.out
        /\ r \in WorldState
    BY <1>1, DrainedOK
  <2> HIDE DEF r
  <2>3. r.session.drained \in BOOLEAN
    BY <2>2, Fields DEF SessionState
  <2>4. ~session.drained /\ IsOpen(World)
    <3>1. ~NoDecoder.flushing
      BY DEF NoDecoder
    <3> QED
      BY <2>1, <3>1, WorldIs, WorldFields DEF AliveOK
  <2> QED
    BY <2>1, <2>2, <2>3, <2>4, DrainShown
<1>7. CASE DecoderError
  <2> DEFINE d == [decoder EXCEPT !.state = "closed", !.queue = <<>>, !.held = {}]
             v == DecoderIs(World, d)
             r == OnDecoderError(v)
  <2>1. /\ decoder.state = "configured"
        /\ Becomes(OnDecoderError([World EXCEPT !.decoder.state = "closed",
                                   !.decoder.queue = <<>>, !.decoder.held = {}]))
    BY <1>7 DEF DecoderError
  <2>2. IsOpen(World) /\ WorldInv(World, prime)
    BY <1>1, <2>1, DecoderAtWork
  <2>3. /\ d \in DecoderState /\ d.state \in {"configured", "closed"}
        /\ d.fed = World.decoder.fed /\ d.intact = World.decoder.intact
        /\ d.flushing = World.decoder.flushing
    <3>1. <<>> \in Seq(Samples)
      OBVIOUS
    <3> QED
      BY <1>1, <3>1 DEF DecoderState
  <2>4. [World EXCEPT !.decoder.state = "closed",
                      !.decoder.queue = <<>>, !.decoder.held = {}] = v
    BY <1>1 DEF World, DecoderIs
  <2>5. Becomes(r)
    BY <2>1, <2>4
  <2> HIDE DEF d
  <2>6. /\ r.b = World.b /\ r.session.from = World.session.from /\ r.session.pre = NoPts
        /\ r.session.out = World.session.out /\ r.session.drained = World.session.drained
    BY <2>2, <2>3, ErrorKeeps
  <2> HIDE DEF r
  <2> QED
    BY <1>1, <2>2, <2>5, <2>6, ErrorShown
<1> QED
  BY <1>2, <1>3, <1>4, <1>5, <1>6, <1>7 DEF BackgroundStep

(* A call moves the frame path, and refilling the ring leaves it alone.    *)
LEMMA MovesShown ==
  ASSUME IInv, NEW y \in BlitState, Frames(y) \subseteq Frames(b) \cup {NoPts},
         Handles(BlitIs(World, y)) \/ Handles(MaybeRefill(BlitIs(World, y)))
  PROVE  b' = y /\ Gate(session)' = Gate(session)
<1> DEFINE w == BlitIs(World, y)
           r == IF Handles(w) THEN w ELSE MaybeRefill(w)
<1>1. World \in WorldState /\ StreamOK(World) /\ FramesOK(World)
  BY WorldIs
<1>2. w \in WorldState /\ w.b = y /\ w.session = session /\ Still(World, w)
  <2>1. w \in WorldState
    BY <1>1 DEF WorldState, BlitIs
  <2> QED
    BY <2>1 DEF World, BlitIs, Still
<1>3. StreamOK(w) /\ FramesOK(w)
  <2>1. Frames(w.b) \subseteq Frames(World.b) \cup {NoPts}
    BY <1>2, WorldFields
  <2> QED
    BY <1>1, <1>2, <2>1, StillKeeps
<1>4. Handles(r)
  OBVIOUS
<1> HIDE DEF w
<1>5. r.b = y /\ Gate(r.session) = Gate(session)
  <2>1. Aside(w, MaybeRefill(w)) /\ SameShow(w, MaybeRefill(w))
    BY <1>2, <1>3, MaybeRefillOK
  <2>2. MaybeRefill(w).b = y /\ Gate(MaybeRefill(w).session) = Gate(session)
    BY <1>2, <2>1 DEF Aside, SameShow, Gate
  <2> QED
    BY <1>2, <2>2
<1> HIDE DEF r
<1> QED
  BY <1>4, <1>5 DEF Handles, Becomes, Gate

LEMMA ApiShown ==
  ASSUME IInv, ApiCall
  PROVE  Blit!Next \/ UNCHANGED Blit!vars
<1>1. b \in BlitState /\ World.b = b /\ World.session = session /\ Cursors \subseteq Nat
  BY WorldIs, WorldFields, WorkerAssumption
<1>2. \A y : [World EXCEPT !.b = y] = BlitIs(World, y)
  BY DEF BlitIs
<1>3. ASSUME NEW o, NEW target, Request(o, target)
      PROVE  UNCHANGED Blit!vars
  <2> DEFINE w == [World EXCEPT !.ops = Append(@, o), !.wanted = target]
  <2>1. Becomes(w) /\ w.b = b /\ w.session = session
    BY <1>1, <1>3 DEF Request, World
  <2> HIDE DEF w
  <2> QED
    BY <2>1, BlitUnseen
<1>4. ASSUME NEW t \in Cursors, CallOpen(t) \/ CallSeek(t) \/ CallRetry(t)
      PROVE  UNCHANGED Blit!vars
  BY <1>3, <1>4 DEF CallOpen, CallSeek, CallRetry
<1>5. CASE CallClose \/ CallCapture
  BY <1>3, <1>5 DEF CallClose, CallCapture
<1>6. ASSUME NEW t \in Cursors, SetCursor(t) \/ BlitClockTick(t)
      PROVE  Blit!Next
  <2> DEFINE y == AtCursor(b, t)
  <2>1. Moves(b, y, t)
    BY <1>1, AtCursorKeeps
  <2>2. Handles(MaybeRefill(BlitIs(World, y)))
    BY <1>1, <1>2, <1>6 DEF SetCursor, BlitClockTick
  <2>3. b' = y /\ Gate(session)' = Gate(session)
    <3> HIDE DEF y
    <3> QED
      BY <2>1, <2>2, MovesShown DEF Moves
  <2>4. b' = Blit!AtCursor(b, t)
    BY <2>3, SameMoves
  <2>5. Blit!SetCursor(t) \/ Blit!BlitClockTick(t)
    BY <2>3, <2>4 DEF Blit!SetCursor, Blit!BlitClockTick, Gate
  <2> QED
    BY <2>5 DEF Blit!Next
<1>7. ASSUME NEW t \in Cursors, SetPlayback(t)
      PROVE  Blit!Next
  <2>1. CASE Handles(MaybeRefill([World EXCEPT !.b = StartPlayback(@, t)]))
    <3> DEFINE y == StartPlayback(b, t)
    <3>1. Moves(b, y, t)
      BY <1>1, StartPlaybackKeeps
    <3>2. Handles(MaybeRefill(BlitIs(World, y)))
      BY <1>1, <1>2, <2>1
    <3>3. b' = y /\ Gate(session)' = Gate(session)
      <4> HIDE DEF y
      <4> QED
        BY <3>1, <3>2, MovesShown DEF Moves
    <3>4. Blit!SetPlayback(t)
      BY <3>3, SameMoves DEF Blit!SetPlayback, Gate
    <3> QED
      BY <3>4 DEF Blit!Next
  <2>2. CASE Handles([World EXCEPT !.b = StopPlayback(@, t)])
    <3> DEFINE y == StopPlayback(b, t)
    <3>1. Moves(b, y, t)
      BY <1>1, StopPlaybackKeeps
    <3>2. Handles(BlitIs(World, y))
      BY <1>1, <1>2, <2>2
    <3>3. b' = y /\ Gate(session)' = Gate(session)
      <4> HIDE DEF y
      <4> QED
        BY <3>1, <3>2, MovesShown DEF Moves
    <3>4. Blit!SetPlayback(t)
      BY <3>3, SameMoves DEF Blit!SetPlayback, Gate
    <3> QED
      BY <3>4 DEF Blit!Next
  <2> QED
    BY <1>7, <2>1, <2>2 DEF SetPlayback
<1>8. CASE SetRenderCanvas
  <2> DEFINE y == AttachCanvas(b)
  <2>1. y \in BlitState /\ Frames(y) \subseteq Frames(b)
    BY <1>1, AttachKeeps
  <2>2. Handles(BlitIs(World, y))
    BY <1>1, <1>2, <1>8 DEF SetRenderCanvas
  <2>3. b' = y /\ Gate(session)' = Gate(session)
    <3> HIDE DEF y
    <3> QED
      BY <2>1, <2>2, MovesShown
  <2>4. Blit!SetRenderCanvas
    BY <2>3, SameMoves DEF Blit!SetRenderCanvas, Gate
  <2> QED
    BY <2>4 DEF Blit!Next
<1>9. CASE ClearCanvas
  <2> DEFINE y == PaintBlack(b)
  <2>1. y \in BlitState /\ Frames(y) \subseteq Frames(b) \cup {NoPts}
    BY <1>1, FlushKeeps DEF PaintBlack
  <2>2. Handles(BlitIs(World, y))
    BY <1>1, <1>2, <1>9 DEF ClearCanvas
  <2>3. b' = y /\ Gate(session)' = Gate(session)
    <3> HIDE DEF y
    <3> QED
      BY <2>1, <2>2, MovesShown
  <2>4. Blit!ClearCanvas
    BY <2>3, SameMoves DEF Blit!ClearCanvas, Gate
  <2> QED
    BY <2>4 DEF Blit!Next
<1> QED
  BY <1>4, <1>5, <1>6, <1>7, <1>8, <1>9 DEF ApiCall, CallStepOf

(* What is played stays the same, and so does what may happen to it.       *)
LEMMA PlanStays ==
  ASSUME IInv, [Next]_vars
  PROVE  env'.plan = env.plan /\ kind' = kind
<1>1. \A w : Becomes(w) => kind' = kind
  BY DEF Becomes
<1>2. env' = env => env'.plan = env.plan
  OBVIOUS
<1>3. \A failure : Fault(failure) => env'.plan = env.plan
  BY EnvFaults
<1>4. ASSUME OperationStep
      PROVE  env'.plan = env.plan /\ kind' = kind
  <2>1. CASE StartOp
    BY <1>1, <2>1 DEF StartOp, StartSeek, StartOpen, StartClose, StartCapture, Await
  <2>2. CASE CloseReply \/ CaptureReply \/ OpenReply \/ ProbeReply
    BY <1>1, <2>2 DEF CloseReply, CaptureReply, OpenReply, ProbeReply, Await
  <2>3. CASE PrimeStep
    BY <1>1, <2>3 DEF PrimeStep, PrimeReturns
  <2>4. CASE OpenFails \/ PrimeFails \/ PrimeFeedThrows
    BY <1>1, <1>3, <2>4 DEF OpenFails, PrimeFails, PrimeFeedThrows
  <2> QED
    BY <1>4, <2>1, <2>2, <2>3, <2>4 DEF OperationStep
<1>5. ASSUME BackgroundStep
      PROVE  env'.plan = env.plan /\ kind' = kind
  BY <1>1, <1>3, <1>5 DEF BackgroundStep, PumpStep, PumpFails, DecoderConsume, DecoderOutput,
     DecoderFlushed, DecoderError, Handles
<1>6. ASSUME NEW o, NEW target, Request(o, target)
      PROVE  env'.plan = env.plan /\ kind' = kind
  <2>1. kind' = kind /\ env \in EnvState
    BY <1>1, <1>6 DEF Request, IInv, StepState
  <2>2. env' = [env EXCEPT !.ops = @ + 1, !.opened = (@ \/ o.op = "open") /\ o.op # "close"]
    BY <1>6 DEF Request
  <2> QED
    BY <2>1, <2>2 DEF EnvState
<1>7. ASSUME ApiCall
      PROVE  env'.plan = env.plan /\ kind' = kind
  <2>1. ASSUME NEW t \in Cursors, CallOpen(t) \/ CallSeek(t) \/ CallRetry(t)
        PROVE  env'.plan = env.plan /\ kind' = kind
    BY <1>6, <2>1 DEF CallOpen, CallSeek, CallRetry
  <2>2. CASE CallClose \/ CallCapture
    BY <1>6, <2>2 DEF CallClose, CallCapture
  <2>3. ASSUME NEW t \in Cursors, SetCursor(t) \/ BlitClockTick(t) \/ SetPlayback(t)
        PROVE  env'.plan = env.plan /\ kind' = kind
    BY <1>1, <2>3 DEF SetCursor, BlitClockTick, SetPlayback, Handles
  <2>4. CASE SetRenderCanvas \/ ClearCanvas
    BY <1>1, <2>4 DEF SetRenderCanvas, ClearCanvas, Handles
  <2> QED
    BY <1>7, <2>1, <2>2, <2>3, <2>4 DEF ApiCall, CallStepOf
<1>8. CASE UNCHANGED vars
  BY <1>8 DEF vars
<1> QED
  BY <1>4, <1>5, <1>7, <1>8 DEF Next

(* Whatever the chain, the pump and the decoder do, what is shown is what  *)
(* FrameBlit says: frames come out of the decoder once each and displaced  *)
(* by no more than the stream's own order, so the reorder buffer may rely  *)
(* on it, and a seek, an error or the end of the stream touch the frame    *)
(* path only as openInternal, onDecoderError and drainAtEnd do.  Of an mp4 *)
(* stream that is moved while it primes this is false, since samples may   *)
(* be read twice.                                                          *)
THEOREM WorkerShowsAsFrameBlit == Spec /\ Calm => ShowsAsFrameBlit
<1>1. Init => Blit!Init
  BY DEF Init, Blit!Init, NoSession, NoPts, Blit!NoSession, Blit!NoPts, InitBlit, Blit!InitBlit
<1>2. IInv /\ Calm /\ [Next]_vars => [Blit!Next]_(Blit!vars)
  <2> SUFFICES ASSUME IInv, Calm, [Next]_vars
               PROVE  Blit!Next \/ UNCHANGED Blit!vars
    OBVIOUS
  <2>1. CASE UNCHANGED vars
    BY <2>1 DEF vars, Blit!vars
  <2>2. CASE Next
    BY <2>2, OperationShown, BackgroundShown, ApiShown DEF Next
  <2> QED
    BY <2>1, <2>2
<1>3. IInv /\ Calm /\ [Next]_vars => Calm'
  BY PlanStays DEF Calm
<1> QED
  BY <1>1, <1>2, <1>3, WorkerInductive, PTL DEF Spec, ShowsAsFrameBlit, Blit!Spec
=============================================================================
