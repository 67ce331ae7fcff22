--------------------------- MODULE PostFeeFunding ---------------------------
(***************************************************************************)
(* Sizing and collateral of a rebalance: the exact post-fee net asset      *)
(* value (backtests/funding.py), whole shares (backtests/whole_shares.py)  *)
(* and the cash reserve for shorts and unsettled claims                    *)
(* (backtests/cash_claims.py).  A rational is a pair of a numerator and a  *)
(* positive denominator; weights are counted in 1/Unit of the net asset    *)
(* value and costs in 1/Scale of the traded notional, and prices are       *)
(* multiples of Scale, so that every fee is an integer.                    *)
(***************************************************************************)
EXTENDS Integers, FiniteSets, Functions

CONSTANTS
  Securities,
  Unit,    \* the weight of a whole sleeve
  Scale    \* the rate at which a fee equals its notional

ASSUME FundingAssumption == Unit \in Nat \ {0} /\ Scale \in Nat \ {0}

Rational(n, d) == IF d > 0 THEN <<n, d>> ELSE <<-n, -d>>
Leq(p, q) == p[1] * q[2] <= q[1] * p[2]
Less(p, q) == ~Leq(q, p)
Middle(p, q) == <<p[1] * q[2] + q[1] * p[2], 2 * p[2] * q[2]>>

Magnitude(n) == IF n < 0 THEN -n ELSE n
TowardZero(n, d) == IF n < 0 THEN -((-n) \div d) ELSE n \div d

\* The sizes of the long and of the short sleeve of signed notionals.
Long(f) == SumFunction([s \in DOMAIN f |-> IF f[s] > 0 THEN f[s] ELSE 0])
Short(f) == SumFunction([s \in DOMAIN f |-> IF f[s] < 0 THEN -f[s] ELSE 0])

-----------------------------------------------------------------------------
(* The post-fee net asset value.  A request has the value "nav" before the *)
(* trade, the "old" notionals, the target "weight" of every security, the  *)
(* "rate" of the costs and whether it is a liquidation.                    *)

\* Where the trade of some security changes its direction.
Breakpoints(q) ==
  {<<0, 1>>, <<q.nav, 1>>} \cup
    {p \in {Rational(q.old[s] * Unit, q.weight[s]) : s \in {t \in Securities : q.weight[t] # 0}} :
       Less(<<0, 1>>, p) /\ Less(p, <<q.nav, 1>>)}

Intervals(q) ==
  LET points == Breakpoints(q) IN
  {i \in points \X points :
     Less(i[1], i[2]) /\ ~\E p \in points : Less(i[1], p) /\ Less(p, i[2])}

\* The solution of the affine equation that holds inside an interval.
Candidate(q, interval) ==
  LET middle == Middle(interval[1], interval[2])
      sign == [s \in Securities |->
                 IF middle[1] * q.weight[s] >= q.old[s] * Unit * middle[2] THEN 1 ELSE -1]
      a == SumFunction([s \in Securities |-> sign[s] * q.weight[s]])
      b == SumFunction([s \in Securities |-> sign[s] * q.old[s]])
  IN Rational(Unit * (q.nav * Scale + q.rate * b), Scale * Unit + q.rate * a)

Roots(q) ==
  {root \in {<<i, Candidate(q, i)>> : i \in Intervals(q)} :
     Leq(root[1][1], root[2]) /\ Leq(root[2], root[1][2])}

PostFeeNav(q) == (CHOOSE root \in Roots(q) : TRUE)[2]

\* What solve_post_fee() checks once more: costs and solution add up to the value before.
SolvesEquation(q, nav) ==
  LET cost == SumFunction([s \in Securities |->
                Magnitude(nav[1] * q.weight[s] - q.old[s] * Unit * nav[2])])
  IN nav[1] > 0 /\ Scale * Unit * nav[1] + q.rate * cost = Scale * Unit * q.nav * nav[2]

\* _root() refuses costs that eat the account; a request without a verified solution fails.
FundingFailure(q) ==
  IF q.rate * (Long(q.weight) + Short(q.weight)) >= Scale * Unit
  THEN "FUNDING_SLOPE_UNSUPPORTED"
  ELSE IF q.rate * (Long(q.old) + Short(q.old)) >= q.nav * Scale
  THEN "FUNDING_LIQUIDATION_INFEASIBLE"
  ELSE IF Roots(q) = {} \/ ~SolvesEquation(q, PostFeeNav(q)) THEN "FUNDING_SOLUTION_INVALID"
  ELSE "none"

-----------------------------------------------------------------------------
(* Quantities *)

Failed(code) == [failure |-> code, quantity |-> [s \in Securities |-> 0], nav |-> <<0, 1>>]

Positions(q) == {s \in Securities : q.old[s] # 0 \/ q.weight[s] # 0}

\* A continuous plan; _batch() takes it only in quantities the ledger can hold, here shares.
ExactPlan(q, price) ==
  LET nav == PostFeeNav(q)
      Exact(s) == (nav[1] * q.weight[s]) % (nav[2] * Unit * price[s]) = 0
  IN IF FundingFailure(q) # "none" THEN Failed(FundingFailure(q))
     ELSE IF \E s \in Positions(q) : ~Exact(s) THEN Failed("FUNDING_QUANTITY_PRECISION")
     ELSE [failure |-> "none", nav |-> nav,
           quantity |-> [s \in Securities |->
             IF s \in Positions(q) THEN (nav[1] * q.weight[s]) \div (nav[2] * Unit * price[s])
             ELSE 0]]

\* size_whole_shares(): the ideal holdings are truncated toward zero and the costs computed
\* again from the trades that remain; what does not fit is refused, never repaired.
WholePlan(q, price) ==
  LET ideal == PostFeeNav(q)
      quantity == [s \in Securities |->
        IF s \in Positions(q) THEN TowardZero(ideal[1] * q.weight[s], ideal[2] * Unit * price[s])
        ELSE 0]
      target == [s \in Securities |-> IF s \in Positions(q) THEN quantity[s] * price[s] ELSE 0]
      turnover == SumFunction([s \in Securities |-> Magnitude(target[s] - q.old[s])])
      nav == q.nav - (turnover * q.rate) \div Scale
      funded == nav > 0 /\ Long(target) <= nav /\ Short(target) <= nav
  IN IF Positions(q) = {} THEN Failed("WHOLE_SHARE_SIZING_INVALID")
     ELSE IF FundingFailure(q) # "none" THEN Failed(FundingFailure(q))
     ELSE IF ~funded \/ (~q.liquidation /\ (Long(target) = 0 \/ Short(target) = 0))
     THEN Failed("WHOLE_SHARE_SIZING_INVALID")
     ELSE [failure |-> "none", quantity |-> quantity, nav |-> <<nav, 1>>]

-----------------------------------------------------------------------------
(* Collateral: shorts and negative claims reserve cash, positive claims    *)
(* count as value but never as cash.  A claim is a record with an amount.  *)

ClaimTotal(claims) == SumFunction([c \in claims |-> c.amount])

FreeCash(cash, notional, claims) ==
  cash - Short(notional) - SumFunction([c \in claims |-> IF c.amount < 0 THEN -c.amount ELSE 0])

NetAssetValue(cash, notional, claims) ==
  cash + Long(notional) - Short(notional) + ClaimTotal(claims)

CollateralStatus(cash, notional, claims) ==
  IF NetAssetValue(cash, notional, claims) <= 0 THEN "FUNDING_INSOLVENT"
  ELSE IF FreeCash(cash, notional, claims) < 0 THEN "FUNDING_COLLATERAL_DEFICIT"
  ELSE "funded"
=============================================================================
