-------------------------------- MODULE Sampler --------------------------------
(***************************************************************************)
(* The sample of an unknown file that is shown to the user and uploaded    *)
(* (llm/sampler.ts): head, tail and slices between them are planned, then  *)
(* read one by one and put together.                                       *)
(***************************************************************************)
EXTENDS Integers, Sequences, FiniteSets, FiniteSetsExt, SequencesExt

CONSTANTS
  Sizes,     \* of the file
  Options    \* see OptionType

OptionType == [head : Nat, tail : Nat, count : Nat, slice : Nat, max : Nat]

SamplerAssumption == Sizes \subseteq Nat /\ Options \subseteq OptionType

VARIABLES
  size, opts,
  slices,  \* the manifest: kind, offset in the file, length, offset in the bundle
  parts,   \* the bytes read, as positions in the file
  stage

vars == <<size, opts, slices, parts, stage>>

Init ==
  /\ size \in Sizes /\ opts \in Options
  /\ slices = <<>> /\ parts = <<>> /\ stage = "plan"

-----------------------------------------------------------------------------
(* planSlices.                                                             *)

Head1 == Min({opts.head, size})
Tail1 == Min({opts.tail, size})
Span  == size - Tail1 - Head1
Slice == Min({opts.slice, Span})

Start(i) ==
  Head1 + (IF opts.count = 1 THEN (Span - Slice) \div 2
           ELSE ((Span - Slice) * i) \div (opts.count - 1))

Intervals ==
  IF size = 0 THEN <<>>
  ELSE IF Head1 + Tail1 >= size THEN <<[kind |-> "head", from |-> 0, to |-> size]>>
  ELSE <<[kind |-> "head", from |-> 0, to |-> Head1]>>
       \o (IF Slice = 0 THEN <<>>
           ELSE [i \in 1..opts.count |->
                   [kind |-> "stratified", from |-> Start(i - 1), to |-> Start(i - 1) + Slice]])
       \o <<[kind |-> "tail", from |-> size - Tail1, to |-> size]>>

\* Mutant: slices that only touch are taken as one that ends with the later.
Touching(last, next) == next.from <= last.to

Overlaps(last, next) == next.from < last.to

(* normalize: what overlaps is merged into the earlier one.  The intervals *)
(* are in order as they are made.                                          *)
Merged ==
  FoldLeft(LAMBDA done, next :
             IF next.to <= next.from THEN done
             ELSE IF done # <<>> /\ Overlaps(Last(done), next)
             THEN [done EXCEPT ![Len(done)].to = Max({@, next.to})]
             ELSE Append(done, next),
           <<>>, Intervals)

Before(i) == MapThenSumSet(LAMBDA j : Merged[j].to - Merged[j].from, 1..i - 1)

Plan ==
  /\ stage = "plan"
  /\ slices' = [i \in DOMAIN Merged |->
                  [kind |-> Merged[i].kind, byteOffset |-> Merged[i].from,
                   length |-> Merged[i].to - Merged[i].from, bundleOffset |-> Before(i)]]
  /\ stage' = IF MapThenSumSet(LAMBDA j : Merged[j].to - Merged[j].from, DOMAIN Merged) > opts.max
              THEN "error" ELSE "read"
  /\ UNCHANGED <<size, opts, parts>>

(* buildSampleBundle reads a slice at a time.                              *)
ReadSlice ==
  /\ stage = "read" /\ Len(parts) < Len(slices)
  /\ LET s == slices[Len(parts) + 1]
     IN parts' = Append(parts, [i \in 1..s.length |-> s.byteOffset + i - 1])
  /\ UNCHANGED <<size, opts, slices, stage>>

Finish ==
  /\ stage = "read" /\ Len(parts) = Len(slices) /\ stage' = "done"
  /\ UNCHANGED <<size, opts, slices, parts>>

Next == Plan \/ ReadSlice \/ Finish

Spec == Init /\ [][Next]_vars

-----------------------------------------------------------------------------
Bundle == FlattenSeq(parts)

(* "no byte is sampled twice" (sampler.ts:97), the manifest says where in  *)
(* the file each byte of the bundle is from, both ends of the file are in  *)
(* it and marked as such, no stretch between is left out that is longer    *)
(* than an even spread leaves, and the bundle is no larger than allowed.   *)
SlicesCover ==
  stage = "done" =>
    /\ Cardinality(ToSet(Bundle)) = Len(Bundle)
    /\ \A i \in DOMAIN slices : \A k \in 1..slices[i].length :
         Bundle[slices[i].bundleOffset + k] = slices[i].byteOffset + k - 1
    /\ ToSet(Bundle) \subseteq 0..size - 1 /\ Len(Bundle) <= opts.max
    /\ 0..Head1 - 1 \subseteq ToSet(Bundle) /\ size - Tail1..size - 1 \subseteq ToSet(Bundle)
    /\ Head1 + Tail1 < size => /\ Head1 > 0 => slices[1].kind = "head" /\ slices[1].length >= Head1
                               /\ Tail1 > 0 => Last(slices).kind = "tail"
    /\ Head1 + Tail1 < size /\ opts.count > 1 /\ Slice > 0 =>
         \A i \in 1..Len(slices) - 1 :
           (slices[i + 1].byteOffset - slices[i].byteOffset - slices[i].length) * (opts.count - 1)
             <= Span - Slice + opts.count - 1
===============================================================================
