-------------------------- MODULE ValidationSplits --------------------------
(***************************************************************************)
(* The folds of a validation: validation/splits.py walk_forward() and      *)
(* purged_fold(), and the pairing of both over one retained execution in   *)
(* validation/research.py assess_folds().  A period is a record of the     *)
(* start and end of a label and of when it became available; periods are   *)
(* numbered from one and their starts increase.  The folds of any of some  *)
(* tables of periods are asked for, one question at a time.                *)
(***************************************************************************)
EXTENDS Integers, Sequences, FiniteSets, FiniteSetsExt

CONSTANTS
  PeriodTables,    \* the labels that may be split
  InstantTables,   \* the ends of the return intervals of executions, from their inception
  Sizes,           \* of the initial history and of a test block
  Embargoes, LagCounts,
  NoQuestion

\* LabelPeriod.chronological_label() and _periods()
Chronological(periods) ==
  /\ periods \in Seq([start : Int, end : Int, available : Int])
  /\ \A i \in DOMAIN periods :
       periods[i].start < periods[i].end /\ periods[i].end <= periods[i].available
  /\ \A i, j \in DOMAIN periods : i < j => periods[i].start < periods[j].start

ASSUME SplitAssumption ==
  /\ \A periods \in PeriodTables : Chronological(periods)
  /\ \A instants \in InstantTables :
       /\ instants \in Seq(Int)
       /\ \A i, j \in DOMAIN instants : i < j => instants[i] < instants[j]
  /\ Sizes \subseteq Nat \ {0}
  /\ Embargoes \subseteq Nat

VARIABLES question, answer   \* what was asked last, and the folds or the failure

Asked(q, a) == question' = q /\ answer' = a

Smaller(a, b) == IF a < b THEN a ELSE b

-----------------------------------------------------------------------------
(* walk_forward(): training expands, test blocks follow each other *)

BlockStarts(periods, initial, size) ==
  {i \in initial + 1 .. Len(periods) : (i - initial - 1) % size = 0}

ForwardFold(periods, first, size) ==
  LET history == 1 .. first - 1
      train == {i \in history : periods[i].available < periods[first].start}
  IN [train |-> train, test |-> first .. Smaller(first + size - 1, Len(periods)),
      purged |-> history \ train, embargoed |-> {}]

WalkForward(periods, initial, size) ==
  LET folds == {ForwardFold(periods, i, size) : i \in BlockStarts(periods, initial, size)}
  IN IF initial >= Len(periods) \/ size > Len(periods) \/ \E f \in folds : f.train = {}
     THEN [failure |-> "ValueError"] ELSE [failure |-> "none", folds |-> folds]

-----------------------------------------------------------------------------
(* purged_fold(): the other rows of one contiguous test block *)

\* The slip of ending the block with its last row.
BlockEndLast(periods, test) == periods[Max(test)].end

BlockEnd(periods, test) == Max({periods[i].end : i \in test})

PurgedFold(periods, test, embargo) ==
  LET start == periods[Min(test)].start
      end == BlockEnd(periods, test)
      others == DOMAIN periods \ test
      purged == {i \in others : periods[i].start <= end /\ periods[i].end >= start}
      embargoed == {i \in others \ purged :
                      end < periods[i].start /\ periods[i].start <= end + embargo}
      train == others \ (purged \cup embargoed)
  IN IF train = {} THEN [failure |-> "ValueError"]
     ELSE [failure |-> "none",
           fold |-> [train |-> train, test |-> test, purged |-> purged, embargoed |-> embargoed]]

-----------------------------------------------------------------------------
(* assess_folds(): the labels of a retained execution are its contiguous   *)
(* return intervals, known as they end; the HAC statistic of a block needs *)
(* two values and more of them than lags.                                  *)

Labels(instants) ==
  [i \in 1 .. Len(instants) - 1 |->
     [start |-> instants[i], end |-> instants[i + 1], available |-> instants[i + 1]]]

AssessFolds(instants, initial, size, embargo, lags) ==
  LET periods == Labels(instants)
      forward == WalkForward(periods, initial, size)
      Purged(f) == PurgedFold(periods, f.test, embargo)
      Enough(f) == Cardinality(f.test) >= 2 /\ lags < Cardinality(f.test)
  IN IF forward.failure # "none" THEN forward
     ELSE IF \E f \in forward.folds : Purged(f).failure # "none" THEN [failure |-> "ValueError"]
     ELSE [failure |-> "none",
           folds |-> {[forward |-> f, purged |-> Purged(f).fold, assessed |-> Enough(f)] :
                        f \in forward.folds}]

-----------------------------------------------------------------------------

InitFolds == question = NoQuestion /\ answer = NoQuestion

AskForward ==
  \E periods \in PeriodTables, initial, size \in Sizes :
    Asked([kind |-> "forward", periods |-> periods, initial |-> initial],
          WalkForward(periods, initial, size))

AskPurged ==
  \E periods \in PeriodTables, embargo \in Embargoes :
    \E first, last \in DOMAIN periods :
      /\ first <= last
      /\ Asked([kind |-> "purged", periods |-> periods, embargo |-> embargo],
               PurgedFold(periods, first .. last, embargo))

\* A ValidationRequest has an initial history of two at least.
AskFolds ==
  \E instants \in InstantTables, initial \in Sizes \ {1}, size \in Sizes, embargo \in Embargoes,
     lags \in LagCounts :
    Asked([kind |-> "folds", periods |-> Labels(instants), initial |-> initial,
           embargo |-> embargo],
          AssessFolds(instants, initial, size, embargo, lags))

NextFolds == AskForward \/ AskPurged \/ AskFolds

FoldsSpec == InitFolds /\ [][NextFolds]_<<question, answer>>

-----------------------------------------------------------------------------

Disjoint(fold) ==
  /\ Cardinality(fold.train) + Cardinality(fold.test) + Cardinality(fold.purged)
     + Cardinality(fold.embargoed)
     = Cardinality(fold.train \cup fold.test \cup fold.purged \cup fold.embargoed)
  /\ fold.train # {}

\* No outcome of a training label was unknown when a test row was formed.
Causal(periods, fold) ==
  \A i \in fold.train, j \in fold.test : periods[i].available < periods[j].start

\* No training label shares time with a test label, or starts within the embargo of its end.
Apart(periods, fold, embargo) ==
  \A i \in fold.train, j \in fold.test :
    \/ periods[i].end < periods[j].start
    \/ periods[i].start > periods[j].end + embargo

\* Every row after the initial history is in one test block, and no other row is in any.
Covered(periods, initial, tests) ==
  \A i \in DOMAIN periods :
    Cardinality({t \in tests : i \in t}) = (IF i > initial THEN 1 ELSE 0)

\* The folds of a validation do not leak: walk-forward training is known before the test block
\* starts, purged training is apart from every test row, every row has one role in a fold, and the
\* test blocks cover the rows after the initial history once (walk_forward, purged_fold,
\* assess_folds).
FoldsDoNotLeak ==
  LET periods == question.periods IN
  question # NoQuestion /\ question.kind \in {"forward", "purged", "folds"}
    /\ answer.failure = "none" =>
    CASE question.kind = "forward" ->
           /\ \A f \in answer.folds : Disjoint(f) /\ Causal(periods, f)
           /\ Covered(periods, question.initial, {f.test : f \in answer.folds})
      [] question.kind = "purged" ->
           Disjoint(answer.fold) /\ Apart(periods, answer.fold, question.embargo)
      [] question.kind = "folds" ->
           /\ \A d \in answer.folds :
                /\ Disjoint(d.forward) /\ Causal(periods, d.forward)
                /\ Disjoint(d.purged) /\ Apart(periods, d.purged, question.embargo)
                /\ d.forward.test = d.purged.test
           /\ Covered(periods, question.initial, {d.forward.test : d \in answer.folds})
=============================================================================
