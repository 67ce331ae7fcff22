----------------------------- MODULE Performance -----------------------------
(***************************************************************************)
(* The metrics of a complete path of net asset values                      *)
(* (backtests/performance.py) and the contract of their report             *)
(* (domain/performance.py).  Quantities are fractions, so that nothing is  *)
(* rounded; the square roots of a Sharpe ratio stay with its squares.      *)
(***************************************************************************)
EXTENDS Integers, Sequences, FiniteSets, SequencesExt

CONSTANT Unknown

\* Fractions: a numerator over a positive denominator.
Whole(n) == <<n, 1>>
Plus(p, q) == <<p[1] * q[2] + q[1] * p[2], p[2] * q[2]>>
Minus(p, q) == <<p[1] * q[2] - q[1] * p[2], p[2] * q[2]>>
Times(p, q) == <<p[1] * q[1], p[2] * q[2]>>
Over(p, n) == <<p[1], p[2] * n>>
AtMost(p, q) == p[1] * q[2] <= q[1] * p[2]
SumOf(s) == FoldLeft(Plus, Whole(0), s)

Unavailable(reason) == [status |-> "unavailable", value |-> Unknown, reason |-> reason]
Available(value) == [status |-> "available", value |-> value, reason |-> Unknown]

NoReport(reason) == [failure |-> reason]

\* _rates(): rows of any other intervals than those of the path are not used at all.
Rates(path, rates) ==
  IF rates = Unknown THEN [rows |-> Unknown, reason |-> "risk_free_not_supplied"]
  ELSE IF [i \in DOMAIN rates |-> <<rates[i].start, rates[i].end>>]
          # [i \in 1 .. Len(path.closes) |-> <<i - 1, i>>]
  THEN [rows |-> Unknown, reason |-> "risk_free_alignment_invalid"]
  ELSE [rows |-> rates, reason |-> Unknown]

\* _turnover(): a batch each at one instant of the path, in order; one at the baseline trades the
\* initial capital.
Turnover(path, batches) ==
  IF batches = Unknown THEN Unavailable("execution_turnover_inventory_not_supplied")
  ELSE IF \/ \E i \in 2 .. Len(batches) : batches[i - 1].at >= batches[i].at
          \/ \E i \in DOMAIN batches :
               \/ batches[i].at \notin 0 .. Len(path.closes)
               \/ batches[i].at = 0 /\ batches[i].nav # path.capital
  THEN Unavailable("execution_turnover_inventory_invalid")
  ELSE Available(SumOf([i \in DOMAIN batches |-> <<batches[i].notional, batches[i].nav>>]))

\* The slip of measuring the first return against the value at inception.
OpeningAtInception(path, i) == IF i = 1 THEN path.inception ELSE path.closes[i - 1]

\* The first return is that on the initial capital.
Opening(path, i) == IF i = 1 THEN path.capital ELSE path.closes[i - 1]

\* compute_performance(): closes are the values at 1, 2, ...; inception is that at 0.
ComputePerformance(path, rates, batches) ==
  LET known == <<path.inception>> \o path.closes
      n == Len(path.closes)
      rf == Rates(path, rates)
      Net(i) == Minus(<<path.closes[i], Opening(path, i)>>, Whole(1))
      Excess(i) == Minus(Net(i), rf.rows[i].value)
      net == [i \in 1 .. n |-> Net(i)]
      excess == [i \in 1 .. n |-> Excess(i)]
      average == Over(SumOf(excess), n)
      squares == [i \in 1 .. n |->
                    Times(Minus(excess[i], average), Minus(excess[i], average))]
      variance == Over(SumOf(squares), n - 1)
      Peak(i) == LET tops == {path.capital} \cup {known[j] : j \in 1 .. i}
                 IN CHOOSE top \in tops : \A t \in tops : t <= top
  IN IF \E i \in DOMAIN known : known[i] = Unknown THEN NoReport("PERFORMANCE_NAV_INCOMPLETE")
     ELSE IF \E i \in 1 .. n : known[i] <= 0
     THEN NoReport("PERFORMANCE_INSOLVENCY_CONTINUATION")
     ELSE [failure |-> "none",
           outcome |-> IF known[n + 1] <= 0 THEN "insolvent" ELSE "solvent",
           terminal |-> known[n + 1],
           net |-> net,
           riskFree |-> rf.rows # Unknown,
           excess |-> IF rf.rows = Unknown THEN <<>> ELSE excess,
           drawdowns |-> <<Whole(0)>> \o
             [i \in 1 .. n + 1 |-> <<Peak(i) - known[i], Peak(i)>>],
           netMean |-> IF n = 0 THEN Unavailable("no_return_periods")
                       ELSE Available(Over(SumOf(net), n)),
           excessMean |-> IF n = 0 THEN Unavailable("no_return_periods")
                          ELSE IF rf.rows = Unknown THEN Unavailable(rf.reason)
                          ELSE Available(average),
           variance |-> IF n = 0 THEN Unavailable("no_return_periods")
                        ELSE IF rf.rows = Unknown THEN Unavailable(rf.reason)
                        ELSE IF n < 2 THEN Unavailable("fewer_than_two_periods")
                        ELSE Available(variance),
           total |-> Minus(<<known[n + 1], path.capital>>, Whole(1)),
           turnover |-> Turnover(path, batches)]

\* PerformanceReport.coherent_inventory().
ReportAccepted(report) ==
  LET n == Len(report.net) IN
  /\ Len(report.drawdowns) = n + 2
  /\ report.drawdowns[1] = Whole(0)
  /\ \A i \in DOMAIN report.drawdowns : AtMost(Whole(0), report.drawdowns[i])
  /\ (report.outcome = "insolvent") <=> (report.terminal <= 0)
  /\ IF report.outcome = "insolvent" THEN AtMost(report.total, Whole(-1))
                                     ELSE AtMost(Whole(-1), report.total)
  /\ n > 0 /\ report.riskFree => Len(report.excess) = n
  /\ (report.netMean.status = "available") <=> (n > 0)
  /\ (report.excessMean.status = "available") <=> (n > 0 /\ report.riskFree)
  /\ \A metric \in {report.variance, report.turnover} :
       metric.status = "available" => AtMost(Whole(0), metric.value)
=============================================================================
