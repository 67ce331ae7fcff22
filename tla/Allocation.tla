----------------------------- MODULE Allocation -----------------------------
(***************************************************************************)
(* The unit sleeves of a cross-section: factors/targets.py                 *)
(* build_allocation(), and the inventory domain/targets.py                 *)
(* _validate_partition() requires of an allocation whenever it is loaded.  *)
(*                                                                         *)
(* A panel gives every security of the universe its signal and             *)
(* capitalization, Blank where one is missing; a rule is a record of the   *)
(* direction (highLong), the number of buckets, the weighting              *)
(* (valueWeighted) and the minimum size of a bucket.  A weight is a        *)
(* fraction, a pair of integers; securities are ordered by their number.   *)
(***************************************************************************)
EXTENDS Integers, Sequences, FiniteSets, Functions

CONSTANT Blank   \* no signal, no capitalization

Plus(x, y) == <<x[1] * y[2] + y[1] * x[2], x[2] * y[2]>>
Same(x, y) == x[1] * y[2] = y[1] * x[2]

Eligible(panel, rule) ==
  {s \in DOMAIN panel : /\ panel[s].signal # Blank
                        /\ rule.valueWeighted => panel[s].capitalization # Blank}

\* Signals ascending, ties by the stable security id.
Below(panel, s, t) ==
  \/ panel[s].signal < panel[t].signal
  \/ panel[s].signal = panel[t].signal /\ s < t

RankedAt(panel, eligible, n) ==
  CHOOSE s \in eligible : Cardinality({t \in eligible : Below(panel, t, s)}) = n - 1

\* The eligible securities in that order.
Ranked(panel, eligible) == [n \in 1 .. Cardinality(eligible) |-> RankedAt(panel, eligible, n)]

\* The slip of dividing every rank as if all buckets had the extra row.
BucketOfLarge(rank, q, r) == rank \div (q + 1)

\* The first r buckets hold q + 1 rows, the others q; ranks count from zero.
BucketOf(rank, q, r) ==
  IF rank < r * (q + 1) THEN rank \div (q + 1) ELSE r + (rank - r * (q + 1)) \div q

\* Of n rows.
Buckets(n, rule) == [i \in 1 .. n |-> BucketOf(i - 1, n \div rule.buckets, n % rule.buckets)]

Amounts(panel, rule, order) ==
  [i \in DOMAIN order |-> IF rule.valueWeighted THEN panel[order[i]].capitalization ELSE 1]

\* The amounts of the rows of one bucket.
SumOfBucket(amounts, bucket, b) == SumFunctionOnSet(amounts, {i \in DOMAIN bucket : bucket[i] = b})

Sign(rule, bucket) ==
  LET low == IF rule.highLong THEN -1 ELSE 1
  IN CASE bucket = 0 -> low [] bucket = rule.buckets - 1 -> -low [] OTHER -> 0

Positions(rule, order, amounts, bucket) ==
  [i \in DOMAIN order |->
     [security |-> order[i], bucket |-> bucket[i],
      weight |-> <<Sign(rule, bucket[i]) * amounts[i], SumOfBucket(amounts, bucket, bucket[i])>>]]

\* build_allocation(); "fail" and "exclude" are the policies on missing signals.
Allocate(panel, rule, missing) ==
  LET eligible == Eligible(panel, rule)
      order == Ranked(panel, eligible)
  IN IF \/ eligible # DOMAIN panel /\ missing = "fail"
        \/ Cardinality(eligible) \div rule.buckets < rule.minimum
     THEN [failure |-> "ALLOCATION_INPUT_INVALID"]
     ELSE [failure |-> "none",
           positions |-> Positions(rule, order, Amounts(panel, rule, order),
                                   Buckets(Len(order), rule)),
           excluded |-> DOMAIN panel \ eligible]

-----------------------------------------------------------------------------
(* _validate_partition() *)

AddWeight(total, position, b) ==
  IF position.bucket = b THEN Plus(total, position.weight) ELSE total

\* The total of a bucket, row by row.
SleeveTotal(positions, b) ==
  LET total[n \in 0 .. Len(positions)] ==
        IF n = 0 THEN <<0, 1>> ELSE AddWeight(total[n - 1], positions[n], b)
  IN total[Len(positions)]

AllocationAccepted(rule, positions, excluded) ==
  LET ids == {positions[i].security : i \in DOMAIN positions}
      q == Len(positions) \div rule.buckets
      r == Len(positions) % rule.buckets
      Size(b) == q + (IF b < r THEN 1 ELSE 0)
  IN /\ Cardinality(ids) = Len(positions)
     /\ ids \cap excluded = {}
     /\ q >= rule.minimum
     /\ \A i, j \in DOMAIN positions : i < j => positions[i].bucket <= positions[j].bucket
     /\ \A b \in 0 .. rule.buckets - 1 :
          Cardinality({i \in DOMAIN positions : positions[i].bucket = b}) = Size(b)
     /\ \A i \in DOMAIN positions :
          LET sign == Sign(rule, positions[i].bucket)
              weight == positions[i].weight
          IN /\ IF sign = 0 THEN weight[1] = 0
                ELSE 0 < sign * weight[1] /\ sign * weight[1] <= weight[2]
             /\ ~rule.valueWeighted => Same(weight, <<sign, Size(positions[i].bucket)>>)
     /\ \A b \in {0, rule.buckets - 1} : Same(SleeveTotal(positions, b), <<Sign(rule, b), 1>>)
=============================================================================
