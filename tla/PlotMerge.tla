------------------------------ MODULE PlotMerge ------------------------------
(***************************************************************************)
(* From the answers of a fetch to what a plot or a table draws             *)
(* (seriesFromArrow.ts, transforms.ts, mergeSeries.ts, tableModel.ts):     *)
(* series are decoded, transformed and merged onto one axis, an iteration  *)
(* of the k-way merge at a time.                                           *)
(*                                                                         *)
(* A plot's axis is in seconds, doubles of a limited resolution: what it   *)
(* computes is rounded to a grid.  A table's rows are exact nanoseconds.   *)
(***************************************************************************)
EXTENDS Integers, Sequences, FiniteSets, FiniteSetsExt, SequencesExt

CONSTANTS
  Series,
  Batches,   \* what a fetch may answer, see BatchType
  Settings,  \* the views of it, see SettingType
  MaxRows    \* MAX_ROWS

Nan == -1000  \* a value that is not finite
Gap == -1001  \* null: nothing is drawn

Second == 30  \* a multiple of the distances between samples

SettingType ==
  [mode : {"union", "hold", "table"}, transform : {"none", "abs", "derivative"},
   grid : Nat \ {0}, hold : Nat, eps : Nat]

MergeAssumption ==
  /\ IsFiniteSet(Series) /\ MaxRows \in Nat
  /\ Settings \subseteq SettingType
  /\ \A b \in Batches :
       /\ b.schema \in {"scalar", "enum", "vector", "other"} /\ b.chunks \in 1..2
       /\ \A i \in 1..Len(b.rows) - 1 : b.rows[i].ts <= b.rows[i + 1].ts

VARIABLES
  view,       \* the settings of the panel
  batch,      \* the answer for each series
  stage,
  rows,       \* decoded and transformed samples
  at,         \* cursorIdx: of each series, the next sample to merge
  marker,     \* markerPhase: the end of a hold is next, or the start of a gap
  axis, cols, \* what is drawn: positions, and a value of each series for each
  exact,      \* a table's cells that are samples
  truncated

vars == <<view, batch, stage, rows, at, marker, axis, cols, exact, truncated>>

None == [s \in Series |-> <<>>]

Init ==
  /\ view \in Settings /\ batch \in [Series -> Batches]
  /\ stage = "fetched"
  /\ rows = None /\ at = [s \in Series |-> 1] /\ marker = [s \in Series |-> 0]
  /\ axis = <<>> /\ cols = None /\ exact = None /\ truncated = FALSE

-----------------------------------------------------------------------------
(* decodeSeries: only scalars and enums in one chunk are read; for a plot  *)
(* the rest is empty.                                                      *)
Decoded(b) == IF b.schema \in {"scalar", "enum"} /\ b.chunks = 1 THEN b.rows ELSE <<>>

Slope(r, i) ==
  IF i = 1 \/ r[i].ts <= r[i - 1].ts \/ Nan \in {r[i].v, r[i - 1].v} THEN Nan
  ELSE ((r[i].v - r[i - 1].v) * Second) \div (r[i].ts - r[i - 1].ts)

(* applyTransform.                                                         *)
Transformed(r) ==
  [i \in 1..Len(r) |->
    [ts |-> r[i].ts,
     v  |-> CASE view.transform = "derivative" -> Slope(r, i)
              [] view.transform = "abs" /\ r[i].v # Nan /\ r[i].v < 0 -> -r[i].v
              [] OTHER -> r[i].v]]

Decode ==
  /\ stage = "fetched" /\ stage' = "merging"
  /\ rows' = [s \in Series |-> Transformed(Decoded(batch[s]))]
  /\ UNCHANGED <<view, batch, at, marker, axis, cols, exact, truncated>>

(* A double: the nearest position of the grid.                             *)
Snap(x) == ((2 * x + view.grid) \div (2 * view.grid)) * view.grid

X(s, i)  == Snap(rows[s][i].ts)
Drawn(v) == IF v = Nan THEN Gap ELSE v

HoldEnd(s)  == Snap(X(s, at[s] - 1) + view.hold)
GapStart(s) == Snap(HoldEnd(s) + view.eps)

\* Mutant: the next sample is taken before the markers.
NextTaken(s) == X(s, at[s])

NextX(s) == CASE marker[s] = 1 -> HoldEnd(s)
              [] marker[s] = 2 -> GapStart(s)
              [] OTHER -> X(s, at[s])

Left == {s \in Series : at[s] <= Len(rows[s])}
Next1 == Min({NextX(s) : s \in Left})
Hit  == {s \in Left : NextX(s) = Next1}

(* mergeUnion: a sample of every series that has one here.                 *)
TakeUnion ==
  /\ stage = "merging" /\ view.mode = "union" /\ Left # {}
  /\ axis' = Append(axis, Next1)
  /\ cols' = [s \in Series |->
                Append(cols[s], IF s \in Hit THEN Drawn(rows[s][at[s]].v) ELSE Gap)]
  /\ at' = [s \in Series |-> IF s \in Hit THEN at[s] + 1 ELSE at[s]]
  /\ UNCHANGED <<view, batch, stage, rows, marker, exact, truncated>>

Opens(s) == at[s] < Len(rows[s]) /\ X(s, at[s] + 1) - X(s, at[s]) > view.hold

(* mergeStepHold's consume.                                                *)
Consumed(s) == CASE marker[s] = 1 -> 2
                 [] marker[s] = 2 -> 0
                 [] OTHER -> IF Opens(s) THEN 1 ELSE 0

TakeHold ==
  /\ stage = "merging" /\ view.mode = "hold" /\ Left # {}
  /\ axis' = IF axis # <<>> /\ Last(axis) = Next1 THEN axis ELSE Append(axis, Next1)
  /\ at' = [s \in Series |-> IF s \in Hit /\ marker[s] = 0 THEN at[s] + 1 ELSE at[s]]
  /\ marker' = [s \in Series |-> IF s \in Hit THEN Consumed(s) ELSE marker[s]]
  /\ UNCHANGED <<view, batch, stage, rows, cols, exact, truncated>>

(* The samples passed when the walk of the axis is at its i-th position.   *)
Passed(s, i) ==
  Cardinality({j \in 1..Len(rows[s]) : \E n \in 1..i : X(s, j) <= axis[n]})

Held(s, i) ==
  LET j == Passed(s, i)
  IN IF j = 0 \/ (j > 0 /\ axis[i] - X(s, j) > view.hold) THEN Gap ELSE Drawn(rows[s][j].v)

(* buildTableModel: every sample of the earliest time, the last one kept.  *)
TakeRow ==
  LET ts == Min({rows[s][at[s]].ts : s \in Left})
      Same(s) == {i \in at[s]..Len(rows[s]) : rows[s][i].ts = ts}
  IN /\ stage = "merging" /\ view.mode = "table" /\ Left # {} /\ Len(axis) < MaxRows
     /\ axis' = Append(axis, ts)
     /\ cols' = [s \in Series |->
                   Append(cols[s], IF Same(s) # {} THEN rows[s][Max(Same(s))].v
                                   ELSE IF cols[s] = <<>> THEN Gap ELSE Last(cols[s]))]
     /\ exact' = [s \in Series |-> Append(exact[s], Same(s) # {})]
     /\ at' = [s \in Series |-> at[s] + Cardinality(Same(s))]
     /\ UNCHANGED <<view, batch, stage, rows, marker, truncated>>

Full == view.mode = "table" /\ Left # {} /\ Len(axis) >= MaxRows

Finish ==
  /\ stage = "merging" /\ (Left = {} \/ Full) /\ stage' = "drawn"
  /\ truncated' = Full
  /\ cols' = IF view.mode # "hold" THEN cols
             ELSE [s \in Series |-> [i \in 1..Len(axis) |-> Held(s, i)]]
  /\ UNCHANGED <<view, batch, rows, at, marker, axis, exact>>

Next == Decode \/ TakeUnion \/ TakeHold \/ TakeRow \/ Finish

Spec == Init /\ [][Next]_vars

-----------------------------------------------------------------------------
Is(mode) == stage = "drawn" /\ view.mode = mode

Ascending == \A i \in 1..Len(axis) - 1 : axis[i] < axis[i + 1]

(* Where a series has samples at a position, and which of the positions    *)
(* that are equal the i-th is.                                             *)
Here(s, x) == {j \in 1..Len(rows[s]) : X(s, j) = x}
Rank(i)    == Cardinality({n \in 1..i : axis[n] = axis[i]})

(* The axis of a plot is the union of the samples' times, repeated where a *)
(* series repeats one, and each series is drawn at its own samples only.   *)
UnionExact ==
  /\ \A i \in 1..Len(axis) - 1 : axis[i] <= axis[i + 1]
  /\ \A x \in UNION {{X(s, j) : j \in 1..Len(rows[s])} : s \in Series} :
       Cardinality({i \in 1..Len(axis) : axis[i] = x})
         = Max({Cardinality(Here(s, x)) : s \in Series})
  /\ \A s \in Series, i \in 1..Len(axis) :
       cols[s][i] = IF Rank(i) > Cardinality(Here(s, axis[i])) THEN Gap
                    ELSE Drawn(rows[s][Min(Here(s, axis[i])) + Rank(i) - 1].v)

Before(s, x) == {j \in 1..Len(rows[s]) : X(s, j) <= x}

(* Positions behind an earlier one, and the markers that start a gap only  *)
(* after the next sample.                                                  *)
Behind == {i \in 1..Len(axis) : \E n \in 1..i - 1 : axis[n] >= axis[i]}
Late(x) == \E s \in Series : \E j \in 1..Len(rows[s]) - 1 :
             /\ X(s, j + 1) - X(s, j) > view.hold
             /\ x = Snap(Snap(X(s, j) + view.hold) + view.eps) /\ X(s, j + 1) < x

(* With a gap threshold, a series is drawn at its last sample as long as   *)
(* that is no older than the threshold.  The axis goes back where a sample *)
(* follows the one before it by more than the threshold but less than the  *)
(* marker of the gap: from that marker to that sample, and nowhere else.   *)
HeldExact ==
  /\ \A i \in 1..Len(axis) - 1 : axis[i] < axis[i + 1] \/ Late(axis[i])
  /\ \A i \in Behind : \E n \in 1..i - 1 : Late(axis[n]) /\ axis[n] - axis[i] < view.eps
  /\ \A s \in Series : \A j \in 1..Len(rows[s]) : \E i \in 1..Len(axis) : axis[i] = X(s, j)
  /\ \A s \in Series, i \in 1..Len(axis) :
       i \notin Behind =>
         LET b == Before(s, axis[i])
         IN cols[s][i] = IF b = {} \/ (b # {} /\ axis[i] - X(s, Max(b)) > view.hold) THEN Gap
                         ELSE Drawn(rows[s][Max(b)].v)

(* "Output xs must be strictly ascending" (mergeSeries.test.ts:310).       *)
AxisAscends == Is("hold") => Ascending

(* Between two samples farther apart than the threshold a gap is drawn,    *)
(* and the line is held up to its edge: mergeSeries.ts:24-29, "To keep the *)
(* held line visible right up to the gap edge", "This makes real dropouts  *)
(* discoverable".  On epoch seconds a double resolves 2.4e-7 s, and the    *)
(* marker that starts the gap is 1e-6 of the threshold after the one that  *)
(* ends the hold: below some 0.12 s the two are one position and the gap   *)
(* is never drawn.                                                         *)
GapShown ==
  Is("hold") =>
    \A s \in Series : \A j \in 1..Len(rows[s]) - 1 :
      X(s, j + 1) - X(s, j) > view.hold + view.eps =>
        /\ \E i \in 1..Len(axis) :
             X(s, j) < axis[i] /\ axis[i] < X(s, j + 1) /\ cols[s][i] = Gap
        /\ \E i \in 1..Len(axis) :
             axis[i] = X(s, j) + view.hold /\ cols[s][i] = Drawn(rows[s][j].v)

(* A table has a row for each time of a sample, and in it each channel's   *)
(* last sample up to then.                                                 *)
RowsExact ==
  /\ Ascending
  /\ Len(axis) <= MaxRows
  /\ \A s \in Series, i \in 1..Len(axis) :
       LET b == {j \in 1..Len(rows[s]) : rows[s][j].ts <= axis[i]}
       IN /\ cols[s][i] = IF b = {} THEN Gap ELSE rows[s][Max(b)].v
          /\ exact[s][i] <=> \E j \in b : rows[s][j].ts = axis[i]
  /\ truncated <=> \E s \in Series : \E j \in 1..Len(rows[s]) :
                     \A i \in 1..Len(axis) : axis[i] # rows[s][j].ts

(* What is drawn is what was fetched: mergeUnion, mergeStepHold and        *)
(* buildTableModel against what they are to compute; gaps only where the   *)
(* axis resolves their markers.                                            *)
MergeExact ==
  /\ Is("union") => UnionExact
  /\ Is("hold")  => HeldExact
  /\ Is("table") => RowsExact
  /\ view.grid = 1 => GapShown
===============================================================================
