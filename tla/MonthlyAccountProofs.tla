------------------------ MODULE MonthlyAccountProofs ------------------------
(***************************************************************************)
(* Theorems of the monthly simulator.  Its books and the account replayed  *)
(* by the ledger are folds over the events of one timeline; a replay can   *)
(* be cut at any instant, so each step of the simulator continues both.    *)
(***************************************************************************)
EXTENDS MonthlyAccount, SumTheorems

-----------------------------------------------------------------------------
(* Timelines: finite sets of events that Before orders *)

OnTimeline(S) ==
  /\ IsFiniteSet(S)
  /\ \A e \in S : e.time \in Int /\ e.phase \in Int /\ e.id \in Int
  /\ \A e, f \in S : e = f \/ Before(e, f) \/ Before(f, e)

Latest(S) == CHOOSE e \in S : \A f \in S \ {e} : Before(f, e)

\* An order in time.
LEMMA BeforeOrders ==
  ASSUME NEW S, OnTimeline(S), NEW e \in S, NEW f \in S, NEW g \in S
  PROVE  /\ Before(e, f) /\ Before(f, g) => Before(e, g)
         /\ ~ (Before(e, f) /\ Before(f, e))
  BY DEF OnTimeline, Before

\* Part of a timeline is one.
LEMMA PartOfTimeline ==
  ASSUME NEW S, OnTimeline(S), NEW R \in SUBSET S
  PROVE  OnTimeline(R)
<1>1. IsFiniteSet(R)
  BY FS_Subset DEF OnTimeline
<1>2. QED
  BY <1>1 DEF OnTimeline

\* One event of a timeline is the last.
LEMMA LatestExists ==
  ASSUME NEW S, OnTimeline(S), S # {}
  PROVE  \E e \in S : \A f \in S \ {e} : Before(f, e)
<1> DEFINE Good == {s \in SUBSET S : s = {} \/ \E e \in s : \A f \in s \ {e} : Before(f, e)}
<1>1. {} \in Good
  OBVIOUS
<1>2. ASSUME NEW s \in Good, NEW x \in S \ s
      PROVE  s \cup {x} \in Good
  <2>1. CASE s = {}
    BY <2>1
  <2>2. CASE s # {}
    <3>1. PICK e \in s : \A f \in s \ {e} : Before(f, e)
      BY <2>2
    <3>2. e \in S /\ x \in S /\ e # x /\ \A f \in s : f \in S
      BY <3>1
    <3>3. CASE Before(x, e)
      <4>1. \A f \in (s \cup {x}) \ {e} : Before(f, e)
        BY <3>1, <3>3
      <4>2. QED
        BY <4>1, <3>1
    <3>4. CASE ~Before(x, e)
      <4>1. Before(e, x)
        BY <3>2, <3>4 DEF OnTimeline
      <4>2. \A f \in s : Before(f, x)
        BY <3>1, <3>2, <4>1, BeforeOrders
      <4>3. \A f \in (s \cup {x}) \ {x} : Before(f, x)
        BY <4>2
      <4>4. x \in s \cup {x} /\ s \cup {x} \in SUBSET S
        BY <3>2
      <4>5. QED
        BY <4>3, <4>4
    <3>5. QED
      BY <3>3, <3>4
  <2>3. QED
    BY <2>1, <2>2
<1>3. Good = SUBSET S
  <2>1. Good \in SUBSET (SUBSET S) /\ IsFiniteSet(S)
    BY DEF OnTimeline
  <2> HIDE DEF Good
  <2>2. QED
    BY <1>1, <1>2, <2>1, SubsetInduction
<1>4. S \in Good
  BY <1>3
<1>5. QED
  BY <1>4

\* Latest finds it.
LEMMA LatestIs ==
  ASSUME NEW S, OnTimeline(S), S # {}
  PROVE  Latest(S) \in S /\ \A f \in S \ {Latest(S)} : Before(f, Latest(S))
  BY LatestExists DEF Latest

\* No other event comes after all the rest.
LEMMA LatestUnique ==
  ASSUME NEW S, OnTimeline(S), NEW e \in S, \A f \in S \ {e} : Before(f, e)
  PROVE  Latest(S) = e
<1>1. Latest(S) \in S /\ \A f \in S \ {Latest(S)} : Before(f, Latest(S))
  BY LatestIs
<1>2. QED
  BY <1>1, BeforeOrders

\* The values of a function on a finite set are finitely many.
LEMMA ImageIsFinite ==
  ASSUME NEW S, IsFiniteSet(S), NEW f
  PROVE  IsFiniteSet({f[x] : x \in S})
<1> DEFINE T == {f[x] : x \in S}
           g == [x \in S |-> f[x]]
<1>1. g \in Surjection(S, T)
  BY DEF Surjection
<1>2. QED
  <2> HIDE DEF g
  <2>1. QED
    BY <1>1, FS_Surjection

-----------------------------------------------------------------------------
(* The folds of the ledger and of the simulator *)

\* One event, on the side of the books or on that of the ledger.
Turn(ofBooks, rate, e, v) == IF ofBooks THEN AdvanceEvent(e, v) ELSE LedgerEvent(rate, e, v)

IsTurnTable(ofBooks, rate, base, family, g) ==
  g = [s \in family |-> IF s = {} THEN base
                        ELSE Turn(ofBooks, rate, Latest(s), g[s \ {Latest(s)}])]

Folded(ofBooks, rate, base, S) ==
  (CHOOSE g : IsTurnTable(ofBooks, rate, base, SUBSET S, g))[S]

\* The replay of the ledger is such a fold.
LEMMA ReplayIsFold ==
  ASSUME NEW rate, NEW events
  PROVE  Replay(rate, events) = Folded(FALSE, rate, Opening, events)
  BY DEF Replay, InOrder, MapThenFoldSet, Folded, IsTurnTable, Turn, Latest

\* And so is the advance of the books.
LEMMA CarriedIsFold ==
  ASSUME NEW b, NEW events
  PROVE  Carried(b, events) = Folded(TRUE, 0, b, events)
  BY DEF Carried, InOrder, MapThenFoldSet, Folded, IsTurnTable, Turn, Latest

\* The table exists for every timeline.
LEMMA TurnTableExists ==
  ASSUME NEW S, OnTimeline(S), NEW ofBooks, NEW rate, NEW base
  PROVE  \E g : IsTurnTable(ofBooks, rate, base, SUBSET S, g)
<1> DEFINE Level(n) == {s \in SUBSET S : Cardinality(s) <= n}
           Good == {n \in Nat : \E g : IsTurnTable(ofBooks, rate, base, Level(n), g)}
<1>0. \A s \in SUBSET S : IsFiniteSet(s) /\ Cardinality(s) \in Nat
  BY FS_Subset, FS_CardinalityType DEF OnTimeline
<1>1. \A s \in SUBSET S : s # {} => /\ s \ {Latest(s)} \in SUBSET S
                                   /\ Cardinality(s \ {Latest(s)}) = Cardinality(s) - 1
  BY <1>0, PartOfTimeline, LatestIs, FS_RemoveElement
<1>2. 0 \in Good
  <2> DEFINE g == [s \in Level(0) |-> base]
  <2>1. \A s \in Level(0) : s = {}
    BY <1>0, FS_EmptySet
  <2>2. IsTurnTable(ofBooks, rate, base, Level(0), g)
    BY <2>1 DEF IsTurnTable
  <2>3. QED
    BY <2>2
<1>3. ASSUME NEW n \in Good
      PROVE  n + 1 \in Good
  <2>0. n \in Nat
    OBVIOUS
  <2>1. PICK g : IsTurnTable(ofBooks, rate, base, Level(n), g)
    OBVIOUS
  <2> DEFINE Entry(s) == Turn(ofBooks, rate, Latest(s), g[s \ {Latest(s)}])
             h == [s \in Level(n + 1) |-> IF s \in Level(n) THEN g[s] ELSE Entry(s)]
  <2>2. \A s \in Level(n + 1) : s # {} => s \ {Latest(s)} \in Level(n)
    BY <1>0, <1>1, <2>0
  <2>3. {} \in Level(n)
    BY <2>0, FS_EmptySet
  <2>4. Level(n) \subseteq Level(n + 1)
    <3>1. \A m \in Nat : m <= n => m <= n + 1
      BY <2>0
    <3>2. QED
      BY <1>0, <3>1
  <2>5. \A s \in Level(n) : g[s] = IF s = {} THEN base ELSE Entry(s)
    BY <2>1 DEF IsTurnTable
  <2>7. ASSUME NEW s \in Level(n + 1)
        PROVE  h[s] = IF s = {} THEN base
                      ELSE Turn(ofBooks, rate, Latest(s), h[s \ {Latest(s)}])
    <3>1. CASE s = {}
      BY <3>1, <2>3, <2>5
    <3>2. CASE s # {}
      <4>1. s \ {Latest(s)} \in Level(n) /\ s \ {Latest(s)} \in Level(n + 1)
        BY <3>2, <2>2, <2>4
      <4>2. h[s \ {Latest(s)}] = g[s \ {Latest(s)}]
        BY <4>1
      <4>3. h[s] = Entry(s)
        BY <3>2, <2>5
      <4>4. QED
        BY <3>2, <4>2, <4>3
    <3>3. QED
      BY <3>1, <3>2
  <2>8. IsTurnTable(ofBooks, rate, base, Level(n + 1), h)
    BY <2>7 DEF IsTurnTable
  <2>9. \E k : IsTurnTable(ofBooks, rate, base, Level(n + 1), k)
    <3> HIDE DEF h, Level
    <3>1. QED
      BY <2>8
  <2>10. QED
    <3> HIDE DEF h, Level
    <3>1. QED
      BY <2>0, <2>9
<1>4. Good = Nat
  <2>1. Good \in SUBSET Nat
    OBVIOUS
  <2> HIDE DEF Good
  <2>2. QED
    BY <1>2, <1>3, <2>1, NatSetInduction
<1>5. S \in SUBSET S
  OBVIOUS
<1>6. Cardinality(S) \in Good
  BY <1>0, <1>4, <1>5
<1>7. Level(Cardinality(S)) = SUBSET S
  <2>1. \A s \in SUBSET S : Cardinality(s) <= Cardinality(S)
    BY FS_Subset DEF OnTimeline
  <2>2. QED
    BY <2>1
<1>8. QED
  BY <1>6, <1>7

\* Two tables agree wherever both are defined.
LEMMA TurnTablesAgree ==
  ASSUME NEW S, OnTimeline(S), NEW R \in SUBSET S, NEW ofBooks, NEW rate, NEW base, NEW g, NEW h,
         IsTurnTable(ofBooks, rate, base, SUBSET S, g),
         IsTurnTable(ofBooks, rate, base, SUBSET R, h)
  PROVE  g[R] = h[R]
<1> DEFINE Good == {n \in Nat : \A s \in SUBSET R : Cardinality(s) = n => g[s] = h[s]}
<1>0. \A s \in SUBSET R : IsFiniteSet(s) /\ Cardinality(s) \in Nat
  BY FS_Subset, FS_CardinalityType DEF OnTimeline
<1>1. /\ \A s \in SUBSET R : g[s] = IF s = {} THEN base
                                    ELSE Turn(ofBooks, rate, Latest(s), g[s \ {Latest(s)}])
      /\ \A s \in SUBSET R : h[s] = IF s = {} THEN base
                                    ELSE Turn(ofBooks, rate, Latest(s), h[s \ {Latest(s)}])
  BY DEF IsTurnTable
<1>2. 0 \in Good
  <2>1. \A s \in SUBSET R : Cardinality(s) = 0 => s = {}
    BY <1>0, FS_EmptySet
  <2>2. QED
    BY <1>1, <2>1
<1>3. ASSUME NEW n \in Good
      PROVE  n + 1 \in Good
  <2>0. n \in Nat
    OBVIOUS
  <2>1. SUFFICES ASSUME NEW s \in SUBSET R, Cardinality(s) = n + 1
                 PROVE  g[s] = h[s]
    OBVIOUS
  <2>2. s # {}
    <3>1. n + 1 # 0
      BY <2>0
    <3>2. QED
      BY <2>1, <3>1, FS_EmptySet
  <2>3. Cardinality(s \ {Latest(s)}) = n
    <3>1. Latest(s) \in s
      BY <2>2, PartOfTimeline, LatestIs
    <3>2. Cardinality(s \ {Latest(s)}) = Cardinality(s) - 1
      BY <1>0, <3>1, FS_RemoveElement
    <3>3. QED
      BY <2>0, <2>1, <3>2
  <2>4. g[s \ {Latest(s)}] = h[s \ {Latest(s)}]
    BY <2>3
  <2>5. QED
    BY <1>1, <2>2, <2>4
<1>4. Good = Nat
  <2>1. Good \in SUBSET Nat
    OBVIOUS
  <2> HIDE DEF Good
  <2>2. QED
    BY <1>2, <1>3, <2>1, NatSetInduction
<1>5. R \in SUBSET R
  OBVIOUS
<1>6. Cardinality(R) \in Good
  BY <1>0, <1>4, <1>5
<1>7. QED
  BY <1>6

\* A fold over part of S can be read from the table for S.
LEMMA FoldedFromTable ==
  ASSUME NEW S, OnTimeline(S), NEW ofBooks, NEW rate, NEW base, NEW g,
         IsTurnTable(ofBooks, rate, base, SUBSET S, g), NEW R \in SUBSET S
  PROVE  Folded(ofBooks, rate, base, R) = g[R]
<1>1. PICK table : table = CHOOSE h : IsTurnTable(ofBooks, rate, base, SUBSET R, h)
  OBVIOUS
<1>2. \E h : IsTurnTable(ofBooks, rate, base, SUBSET R, h)
  BY PartOfTimeline, TurnTableExists
<1>3. IsTurnTable(ofBooks, rate, base, SUBSET R, table)
  BY <1>1, <1>2
<1>4. Folded(ofBooks, rate, base, R) = table[R]
  BY <1>1 DEF Folded
<1>5. g[R] = table[R]
  BY <1>3, TurnTablesAgree
<1>6. QED
  BY <1>4, <1>5

\* A fold over nothing, and one over something: the last event acts on the fold of the rest.
LEMMA FoldedStep ==
  ASSUME NEW S, OnTimeline(S), NEW ofBooks, NEW rate, NEW base
  PROVE  Folded(ofBooks, rate, base, S) =
           IF S = {} THEN base
           ELSE Turn(ofBooks, rate, Latest(S), Folded(ofBooks, rate, base, S \ {Latest(S)}))
<1>1. PICK g : IsTurnTable(ofBooks, rate, base, SUBSET S, g)
  BY TurnTableExists
<1>2. S \in SUBSET S /\ S \ {Latest(S)} \in SUBSET S
  OBVIOUS
<1>3. Folded(ofBooks, rate, base, S) = g[S]
  BY <1>1, <1>2, FoldedFromTable
<1>4. Folded(ofBooks, rate, base, S \ {Latest(S)}) = g[S \ {Latest(S)}]
  BY <1>1, <1>2, FoldedFromTable
<1>5. g[S] = IF S = {} THEN base ELSE Turn(ofBooks, rate, Latest(S), g[S \ {Latest(S)}])
  BY <1>1, <1>2 DEF IsTurnTable
<1>6. QED
  BY <1>3, <1>4, <1>5

\* The fold of a timeline whose last event is known.
LEMMA FoldedLast ==
  ASSUME NEW ofBooks, NEW rate, NEW base, NEW S, NEW e \in S, OnTimeline(S),
         \A f \in S \ {e} : Before(f, e)
  PROVE  Folded(ofBooks, rate, base, S) = Turn(ofBooks, rate, e, Folded(ofBooks, rate, base, S \ {e}))
<1>1. Latest(S) = e /\ S # {}
  BY LatestUnique
<1>2. QED
  BY <1>1, FoldedStep

\* A fold may be cut where every event of one part comes before every event of the other.
LEMMA FoldedJoin ==
  ASSUME NEW ofBooks, NEW rate, NEW base, NEW E, NEW S, OnTimeline(E \cup S),
         \A e \in E : \A f \in S : Before(e, f)
  PROVE  Folded(ofBooks, rate, base, E \cup S) =
           Folded(ofBooks, rate, Folded(ofBooks, rate, base, E), S)
<1>0. PICK start : start = Folded(ofBooks, rate, base, E)
  OBVIOUS
<1> DEFINE Good == {n \in Nat : \A s \in SUBSET S : Cardinality(s) = n =>
                      Folded(ofBooks, rate, base, E \cup s) = Folded(ofBooks, rate, start, s)}
<1>1. \A s \in SUBSET S : OnTimeline(E \cup s) /\ OnTimeline(s)
  <2>1. \A s \in SUBSET S : E \cup s \in SUBSET (E \cup S) /\ s \in SUBSET (E \cup S)
    OBVIOUS
  <2>2. QED
    BY <2>1, PartOfTimeline
<1>2. \A s \in SUBSET S : IsFiniteSet(s) /\ Cardinality(s) \in Nat
  BY <1>1, FS_CardinalityType DEF OnTimeline
<1>3. 0 \in Good
  <2>1. ASSUME NEW s \in SUBSET S, Cardinality(s) = 0
        PROVE  Folded(ofBooks, rate, base, E \cup s) = Folded(ofBooks, rate, start, s)
    <3>1. s = {}
      BY <1>2, <2>1, FS_EmptySet
    <3>2. E \cup s = E
      BY <3>1
    <3>3. Folded(ofBooks, rate, start, s) = start
      BY <1>1, <3>1, FoldedStep
    <3>4. QED
      BY <1>0, <3>2, <3>3
  <2>2. QED
    BY <2>1
<1>4. ASSUME NEW n \in Good
      PROVE  n + 1 \in Good
  <2>0. n \in Nat
    OBVIOUS
  <2>1. SUFFICES ASSUME NEW s \in SUBSET S, Cardinality(s) = n + 1
                 PROVE  Folded(ofBooks, rate, base, E \cup s) = Folded(ofBooks, rate, start, s)
    OBVIOUS
  <2>2. s # {}
    <3>1. n + 1 # 0
      BY <2>0
    <3>2. QED
      BY <2>1, <3>1, FS_EmptySet
  <2>3. PICK x, r : x = Latest(s) /\ r = s \ {x}
    OBVIOUS
  <2>4. x \in s /\ \A f \in s \ {x} : Before(f, x)
    BY <1>1, <2>2, <2>3, LatestIs
  <2>5. Cardinality(r) = n
    <3>1. Cardinality(r) = Cardinality(s) - 1
      BY <1>2, <2>3, <2>4, FS_RemoveElement
    <3>2. QED
      BY <2>0, <2>1, <3>1
  <2>6. Folded(ofBooks, rate, base, E \cup r) = Folded(ofBooks, rate, start, r)
    BY <2>3, <2>5
  <2>7. x \notin E
    <3>1. x \in E => Before(x, x)
      BY <2>4
    <3>2. x \in E \cup s
      BY <2>4
    <3>3. QED
      BY <1>1, <3>1, <3>2, BeforeOrders
  <2>8. x \in E \cup s /\ (E \cup s) \ {x} = E \cup r /\ \A f \in (E \cup s) \ {x} : Before(f, x)
    BY <2>3, <2>4, <2>7
  <2>9. Folded(ofBooks, rate, base, E \cup s) = Turn(ofBooks, rate, x, Folded(ofBooks, rate, base, E \cup r))
    <3>1. OnTimeline(E \cup s)
      BY <1>1
    <3>2. PICK T : T = E \cup s
      OBVIOUS
    <3>3. Folded(ofBooks, rate, base, T) = Turn(ofBooks, rate, x, Folded(ofBooks, rate, base, T \ {x}))
      BY <2>8, <3>1, <3>2, FoldedLast
    <3>4. QED
      BY <2>8, <3>2, <3>3
  <2>10. Folded(ofBooks, rate, start, s) = Turn(ofBooks, rate, x, Folded(ofBooks, rate, start, r))
    <3>1. OnTimeline(s) /\ s \ {x} = r
      BY <1>1, <2>3
    <3>2. Folded(ofBooks, rate, start, s)
            = Turn(ofBooks, rate, x, Folded(ofBooks, rate, start, s \ {x}))
      BY <2>4, <3>1, FoldedLast
    <3>3. QED
      BY <3>1, <3>2
  <2>11. QED
    BY <2>6, <2>9, <2>10
<1>5. Good = Nat
  <2>1. Good \in SUBSET Nat
    OBVIOUS
  <2> HIDE DEF Good
  <2>2. QED
    BY <1>3, <1>4, <2>1, NatSetInduction
<1>6. S \in SUBSET S
  OBVIOUS
<1>7. Cardinality(S) \in Good
  BY <1>2, <1>5, <1>6
<1>8. QED
  BY <1>0, <1>6, <1>7

-----------------------------------------------------------------------------
(* The ledger repeats the books: one corporate action *)

\* The fields of the books.
IsBooks(b) ==
  b = [cash |-> b.cash, fees |-> b.fees, holdings |-> b.holdings, loans |-> b.loans,
       claims |-> b.claims, applied |-> b.applied, exited |-> b.exited, failure |-> b.failure]

\* The account that corresponds to the books.
AccountOf(b) ==
  [cash |-> b.cash, fees |-> b.fees, positions |-> b.holdings, claims |-> b.claims,
   exited |-> b.exited, failure |-> b.failure]

\* The books after a payment.
LEMMA BooksPaid ==
  ASSUME NEW b, IsBooks(b), NEW mark, NEW claims, NEW cash, NEW done, done = [b EXCEPT !.applied = @ \cup {mark}]
  PROVE  [done EXCEPT !.claims = claims, !.cash = cash] =
           [cash |-> cash, fees |-> b.fees, holdings |-> b.holdings, loans |-> b.loans,
            claims |-> claims, applied |-> b.applied \cup {mark}, exited |-> b.exited,
            failure |-> b.failure]
<1>1. PICK applied, d : applied = b.applied \cup {mark} /\ d = done
  OBVIOUS
<1>2. d = [cash |-> b.cash, fees |-> b.fees, holdings |-> b.holdings, loans |-> b.loans,
              claims |-> b.claims, applied |-> applied, exited |-> b.exited,
              failure |-> b.failure]
  BY <1>1 DEF IsBooks
<1>3. PICK r : r = [d EXCEPT !.claims = claims, !.cash = cash]
  OBVIOUS
<1>4. r = [cash |-> cash, fees |-> b.fees, holdings |-> b.holdings, loans |-> b.loans,
           claims |-> claims, applied |-> applied, exited |-> b.exited,
           failure |-> b.failure]
  BY <1>2, <1>3
<1>5. QED
  BY <1>1, <1>3, <1>4

\* The books after a dividend.
LEMMA BooksEntitled ==
  ASSUME NEW b, IsBooks(b), NEW mark, NEW claims, NEW done, done = [b EXCEPT !.applied = @ \cup {mark}]
  PROVE  [done EXCEPT !.claims = claims] =
           [cash |-> b.cash, fees |-> b.fees, holdings |-> b.holdings, loans |-> b.loans,
            claims |-> claims, applied |-> b.applied \cup {mark}, exited |-> b.exited,
            failure |-> b.failure]
<1>1. PICK applied, d : applied = b.applied \cup {mark} /\ d = done
  OBVIOUS
<1>2. d = [cash |-> b.cash, fees |-> b.fees, holdings |-> b.holdings, loans |-> b.loans,
              claims |-> b.claims, applied |-> applied, exited |-> b.exited,
              failure |-> b.failure]
  BY <1>1 DEF IsBooks
<1>3. PICK r : r = [d EXCEPT !.claims = claims]
  OBVIOUS
<1>4. r = [cash |-> b.cash, fees |-> b.fees, holdings |-> b.holdings, loans |-> b.loans,
           claims |-> claims, applied |-> applied, exited |-> b.exited,
           failure |-> b.failure]
  BY <1>2, <1>3
<1>5. QED
  BY <1>1, <1>3, <1>4

\* The books of a run that failed.
LEMMA BooksFailed ==
  ASSUME NEW b, IsBooks(b), NEW code
  PROVE  FailedAs(b, code) =
           [cash |-> b.cash, fees |-> b.fees, holdings |-> b.holdings, loans |-> b.loans,
            claims |-> b.claims, applied |-> b.applied, exited |-> b.exited,
            failure |-> code]
  BY DEF IsBooks, FailedAs

\* The account after a payment.
LEMMA AccountPaid ==
  ASSUME NEW b, NEW claims, NEW cash
  PROVE  [AccountOf(b) EXCEPT !.claims = claims, !.cash = cash] =
           [cash |-> cash, fees |-> b.fees, positions |-> b.holdings, claims |-> claims,
            exited |-> b.exited, failure |-> b.failure]
<1>1. PICK a : a = AccountOf(b)
  OBVIOUS
<1>2. a = [cash |-> b.cash, fees |-> b.fees, positions |-> b.holdings, claims |-> b.claims,
           exited |-> b.exited, failure |-> b.failure]
  BY <1>1 DEF AccountOf
<1>3. PICK r : r = [a EXCEPT !.claims = claims, !.cash = cash]
  OBVIOUS
<1>4. r = [cash |-> cash, fees |-> b.fees, positions |-> b.holdings, claims |-> claims,
           exited |-> b.exited, failure |-> b.failure]
  BY <1>2, <1>3
<1>5. QED
  BY <1>1, <1>3, <1>4

\* The account after a split.
LEMMA AccountSplit ==
  ASSUME NEW b, NEW s, NEW q
  PROVE  [AccountOf(b) EXCEPT !.positions[s] = q] =
           [cash |-> b.cash, fees |-> b.fees, positions |-> [b.holdings EXCEPT ![s] = q],
            claims |-> b.claims, exited |-> b.exited, failure |-> b.failure]
<1>1. PICK a : a = AccountOf(b)
  OBVIOUS
<1>2. a = [cash |-> b.cash, fees |-> b.fees, positions |-> b.holdings, claims |-> b.claims,
           exited |-> b.exited, failure |-> b.failure]
  BY <1>1 DEF AccountOf
<1>3. PICK r : r = [a EXCEPT !.positions[s] = q]
  OBVIOUS
<1>4. r = [cash |-> b.cash, fees |-> b.fees, positions |-> [b.holdings EXCEPT ![s] = q],
           claims |-> b.claims, exited |-> b.exited, failure |-> b.failure]
  BY <1>2, <1>3
<1>5. QED
  BY <1>1, <1>3, <1>4

\* The account after a dividend.
LEMMA AccountEntitled ==
  ASSUME NEW b, NEW claims
  PROVE  [AccountOf(b) EXCEPT !.claims = claims] =
           [cash |-> b.cash, fees |-> b.fees, positions |-> b.holdings, claims |-> claims,
            exited |-> b.exited, failure |-> b.failure]
<1>1. PICK a : a = AccountOf(b)
  OBVIOUS
<1>2. a = [cash |-> b.cash, fees |-> b.fees, positions |-> b.holdings, claims |-> b.claims,
           exited |-> b.exited, failure |-> b.failure]
  BY <1>1 DEF AccountOf
<1>3. PICK r : r = [a EXCEPT !.claims = claims]
  OBVIOUS
<1>4. r = [cash |-> b.cash, fees |-> b.fees, positions |-> b.holdings, claims |-> claims,
           exited |-> b.exited, failure |-> b.failure]
  BY <1>2, <1>3
<1>5. QED
  BY <1>1, <1>3, <1>4

\* The account of a replay that failed.
LEMMA AccountFailed ==
  ASSUME NEW b, NEW code
  PROVE  [AccountOf(b) EXCEPT !.failure = code] =
           [cash |-> b.cash, fees |-> b.fees, positions |-> b.holdings, claims |-> b.claims,
            exited |-> b.exited, failure |-> code]
<1>1. PICK a : a = AccountOf(b)
  OBVIOUS
<1>2. a = [cash |-> b.cash, fees |-> b.fees, positions |-> b.holdings, claims |-> b.claims,
           exited |-> b.exited, failure |-> b.failure]
  BY <1>1 DEF AccountOf
<1>3. PICK r : r = [a EXCEPT !.failure = code]
  OBVIOUS
<1>4. r = [cash |-> b.cash, fees |-> b.fees, positions |-> b.holdings, claims |-> b.claims,
           exited |-> b.exited, failure |-> code]
  BY <1>2, <1>3
<1>5. QED
  BY <1>1, <1>3, <1>4

\* The claim an action entitles to is added when it pays.
Entitled(b, a) ==
  IF a.cash = Missing THEN b.claims ELSE b.claims \cup {Claim(a, b.holdings[a.security])}

\* The books after an effect or a payment.
Effected(b, e) ==
  [cash |-> b.cash, fees |-> b.fees,
   holdings |-> CASE e.body.kind = "split" ->
                       [b.holdings EXCEPT ![e.body.security] = @ * e.body.ratio]
                  [] e.body.kind = "cash_dividend" -> b.holdings
                  [] e.body.kind = "terminal_exit" -> [b.holdings EXCEPT ![e.body.security] = 0],
   loans |-> IF e.body.kind = "terminal_exit"
             THEN [b.loans EXCEPT ![e.body.security] = Missing] ELSE b.loans,
   claims |-> IF e.body.kind = "split" THEN b.claims ELSE Entitled(b, e.body),
   applied |-> b.applied \cup {<<e.id, e.phase>>},
   exited |-> IF e.body.kind = "terminal_exit" THEN b.exited \cup {e.body.security} ELSE b.exited,
   failure |-> b.failure]

Paid(b, e) ==
  LET claim == CHOOSE c \in b.claims : c.id = e.id IN
  [cash |-> b.cash + claim.amount, fees |-> b.fees, holdings |-> b.holdings, loans |-> b.loans,
   claims |-> b.claims \ {claim}, applied |-> b.applied \cup {<<e.id, e.phase>>},
   exited |-> b.exited, failure |-> b.failure]

\* Why an effect is refused.
EffectRefusal(b, e) ==
  IF e.body.security \in b.exited THEN "ACCOUNTING_ACTION_AFTER_EXIT"
  ELSE IF e.body.kind = "terminal_exit" /\ e.body.cash = Missing /\ b.holdings[e.body.security] # 0
  THEN "ACCOUNTING_UNKNOWN_EXIT" ELSE "none"

Kinds == {"split", "cash_dividend", "terminal_exit"}

\* What the simulator does with an event.
LEMMA AdvanceCases ==
  ASSUME NEW b, IsBooks(b), NEW e, e.body.kind \in Kinds
  PROVE  AdvanceEvent(e, b) =
           IF b.failure # "none" THEN b
           ELSE IF e.phase = 1 THEN Paid(b, e)
           ELSE IF EffectRefusal(b, e) # "none" THEN FailedAs(b, EffectRefusal(b, e))
           ELSE Effected(b, e)
<1> DEFINE action == e.body
           s == action.security
           quantity == b.holdings[s]
           claim == CHOOSE c \in b.claims : c.id = e.id
           entitled == Entitled(b, action)
<1>a. PICK mark, applied : mark = <<e.id, e.phase>> /\ applied = b.applied \cup {mark}
  OBVIOUS
<1>b. PICK done : done = [b EXCEPT !.applied = @ \cup {mark}]
  OBVIOUS
<1>c. done = [cash |-> b.cash, fees |-> b.fees, holdings |-> b.holdings, loans |-> b.loans,
              claims |-> b.claims, applied |-> applied, exited |-> b.exited,
              failure |-> b.failure]
  BY <1>a, <1>b DEF IsBooks
<1>0. /\ done.claims = b.claims /\ done.cash = b.cash /\ done.exited = b.exited
      /\ done.holdings = b.holdings
  BY <1>b DEF IsBooks
<1>1. CASE b.failure # "none"
  BY <1>1 DEF AdvanceEvent
<1>2. CASE b.failure = "none" /\ e.phase = 1
  <2>1. AdvanceEvent(e, b) = [done EXCEPT !.claims = b.claims \ {claim}, !.cash = b.cash + claim.amount]
    BY <1>a, <1>b, <1>0, <1>2 DEF AdvanceEvent
  <2>2. PICK claims, cash : claims = b.claims \ {claim} /\ cash = b.cash + claim.amount
    OBVIOUS
  <2>3. [done EXCEPT !.claims = claims, !.cash = cash] =
          [cash |-> cash, fees |-> b.fees, holdings |-> b.holdings, loans |-> b.loans,
           claims |-> claims, applied |-> b.applied \cup {mark}, exited |-> b.exited,
           failure |-> b.failure]
    BY <1>b, BooksPaid
  <2>4. QED
    BY <1>a, <1>2, <2>1, <2>2, <2>3 DEF Paid
<1>3. CASE b.failure = "none" /\ e.phase # 1 /\ s \in b.exited
  BY <1>3 DEF AdvanceEvent, EffectRefusal
<1>4. CASE b.failure = "none" /\ e.phase # 1 /\ s \notin b.exited
  <2>1. CASE action.kind = "split"
    <3>1. AdvanceEvent(e, b) = [done EXCEPT !.holdings[s] = quantity * action.ratio]
      BY <1>a, <1>b, <1>4, <2>1 DEF AdvanceEvent
    <3>2. [b.holdings EXCEPT ![s] = @ * action.ratio] = [b.holdings EXCEPT ![s] = quantity * action.ratio]
      OBVIOUS
    <3>3. EffectRefusal(b, e) = "none"
      BY <1>4, <2>1 DEF EffectRefusal
    <3>4. [done EXCEPT !.holdings[s] = quantity * action.ratio] =
            [cash |-> b.cash, fees |-> b.fees,
             holdings |-> [b.holdings EXCEPT ![s] = quantity * action.ratio],
             loans |-> b.loans, claims |-> b.claims, applied |-> b.applied \cup {mark},
             exited |-> b.exited, failure |-> b.failure]
      <4>1. PICK t, q : t = s /\ q = quantity * action.ratio
        OBVIOUS
      <4>2. [done EXCEPT !.holdings[t] = q] =
              [cash |-> b.cash, fees |-> b.fees, holdings |-> [b.holdings EXCEPT ![t] = q],
               loans |-> b.loans, claims |-> b.claims, applied |-> b.applied \cup {mark},
               exited |-> b.exited, failure |-> b.failure]
        <5>1. PICK d, r : d = done /\ r = [d EXCEPT !.holdings[t] = q]
          OBVIOUS
        <5>2. r = [cash |-> b.cash, fees |-> b.fees, holdings |-> [b.holdings EXCEPT ![t] = q],
                   loans |-> b.loans, claims |-> b.claims, applied |-> applied,
                   exited |-> b.exited, failure |-> b.failure]
          BY <1>c, <5>1
        <5>3. QED
          BY <1>a, <5>1, <5>2
      <4>3. QED
        BY <4>1, <4>2
    <3>5. QED
      BY <1>a, <1>4, <2>1, <3>1, <3>2, <3>3, <3>4 DEF Effected
  <2>2. CASE action.kind = "cash_dividend"
    <3>1. AdvanceEvent(e, b) = [done EXCEPT !.claims = entitled]
      BY <1>a, <1>b, <1>4, <2>2 DEF AdvanceEvent, Entitled
    <3>3. EffectRefusal(b, e) = "none"
      BY <1>4, <2>2 DEF EffectRefusal
    <3>4. PICK claims : claims = entitled
      OBVIOUS
    <3>5. [done EXCEPT !.claims = claims] =
            [cash |-> b.cash, fees |-> b.fees, holdings |-> b.holdings, loans |-> b.loans,
             claims |-> claims, applied |-> b.applied \cup {mark}, exited |-> b.exited,
             failure |-> b.failure]
      BY <1>b, BooksEntitled
    <3>6. QED
      BY <1>a, <1>4, <2>2, <3>1, <3>3, <3>4, <3>5 DEF Effected
  <2>3. CASE action.kind = "terminal_exit"
    <3>1. CASE action.cash = Missing /\ quantity # 0
      BY <1>4, <2>3, <3>1 DEF AdvanceEvent, EffectRefusal
    <3>2. CASE ~(action.cash = Missing /\ quantity # 0)
      <4>1. AdvanceEvent(e, b) = [done EXCEPT !.claims = entitled, !.exited = b.exited \cup {s},
                                              !.holdings[s] = 0, !.loans[s] = Missing]
        BY <1>a, <1>b, <1>0, <1>4, <2>3, <3>2 DEF AdvanceEvent, Entitled
      <4>2. EffectRefusal(b, e) = "none"
        BY <1>4, <2>3, <3>2 DEF EffectRefusal
      <4>3. PICK claims, exited, t, q :
              claims = entitled /\ exited = b.exited \cup {s} /\ t = s /\ q = 0
        OBVIOUS
      <4>4. [done EXCEPT !.claims = claims, !.exited = exited, !.holdings[t] = q,
                         !.loans[t] = Missing] =
              [cash |-> b.cash, fees |-> b.fees, holdings |-> [b.holdings EXCEPT ![t] = q],
               loans |-> [b.loans EXCEPT ![t] = Missing], claims |-> claims,
               applied |-> b.applied \cup {mark}, exited |-> exited, failure |-> b.failure]
        <5>1. PICK d, r : /\ d = done
                          /\ r = [d EXCEPT !.claims = claims, !.exited = exited,
                                           !.holdings[t] = q, !.loans[t] = Missing]
          OBVIOUS
        <5>2. r = [cash |-> b.cash, fees |-> b.fees, holdings |-> [b.holdings EXCEPT ![t] = q],
                   loans |-> [b.loans EXCEPT ![t] = Missing], claims |-> claims,
                   applied |-> applied, exited |-> exited, failure |-> b.failure]
          BY <1>c, <5>1
        <5>3. QED
          BY <1>a, <5>1, <5>2
      <4>5. QED
        BY <1>a, <1>4, <2>3, <4>1, <4>2, <4>3, <4>4 DEF Effected
    <3>3. QED
      BY <3>1, <3>2
  <2>4. QED
    BY <2>1, <2>2, <2>3 DEF Kinds
<1>5. QED
  BY <1>1, <1>2, <1>3, <1>4

\* The books stay records of the same fields.
LEMMA AdvanceKeepsFields ==
  ASSUME NEW b, IsBooks(b), NEW e, e.body.kind \in Kinds
  PROVE  IsBooks(AdvanceEvent(e, b))
<1>0. PICK p, q : p = Paid(b, e) /\ q = Effected(b, e)
  OBVIOUS
<1>1. IsBooks(p) /\ IsBooks(q)
  BY <1>0 DEF IsBooks, Paid, Effected
<1>2. \A code : IsBooks(FailedAs(b, code))
  BY BooksFailed DEF IsBooks
<1>3. QED
  BY <1>0, <1>1, <1>2, AdvanceCases

\* The ledger does the same to the account of the books.
LEMMA LedgerRepeats ==
  ASSUME NEW b, IsBooks(b), NEW rate, NEW e, e.phase \in {0, 1}, e.body.kind \in Kinds
  PROVE  LedgerEvent(rate, e, AccountOf(b)) = AccountOf(AdvanceEvent(e, b))
<1> DEFINE action == e.body
           s == action.security
           a == AccountOf(b)
           claim == CHOOSE c \in b.claims : c.id = e.id
           entitled == Entitled(b, action)
<1>0. /\ a.claims = b.claims /\ a.cash = b.cash /\ a.exited = b.exited
      /\ a.positions = b.holdings /\ a.failure = b.failure
  BY DEF AccountOf
<1>1. CASE b.failure # "none"
  BY <1>0, <1>1, AdvanceCases DEF LedgerEvent
<1>2. CASE b.failure = "none" /\ e.phase = 1
  <2>1. LedgerEvent(rate, e, a) = [a EXCEPT !.claims = b.claims \ {claim}, !.cash = b.cash + claim.amount]
    BY <1>0, <1>2 DEF LedgerEvent, LedgerPayment
  <2>2. AccountOf(AdvanceEvent(e, b)) = AccountOf(Paid(b, e))
    BY <1>2, AdvanceCases
  <2>3. QED
    BY <2>1, <2>2, AccountPaid DEF Paid, AccountOf
<1>3. CASE b.failure = "none" /\ e.phase = 0
  <2>0. LedgerEvent(rate, e, a) = LedgerEffect(action, a)
    BY <1>0, <1>3 DEF LedgerEvent
  <2>1. CASE EffectRefusal(b, e) # "none"
    <3>1. AdvanceEvent(e, b) = FailedAs(b, EffectRefusal(b, e))
      BY <1>3, <2>1, AdvanceCases
    <3>2. LedgerEffect(action, a) = FailedAs(a, EffectRefusal(b, e))
      BY <1>0, <2>1 DEF LedgerEffect, EffectRefusal
    <3>3. QED
      BY <2>0, <3>1, <3>2, BooksFailed, AccountFailed DEF FailedAs, AccountOf
  <2>2. CASE EffectRefusal(b, e) = "none"
    <3>0. AdvanceEvent(e, b) = Effected(b, e) /\ s \notin b.exited
      BY <1>3, <2>2, AdvanceCases DEF EffectRefusal
    <3>1. CASE action.kind = "split"
      <4>1. LedgerEffect(action, a) = [a EXCEPT !.positions[s] = b.holdings[s] * action.ratio]
        BY <1>0, <3>0, <3>1 DEF LedgerEffect
      <4>2. [b.holdings EXCEPT ![s] = @ * action.ratio] = [b.holdings EXCEPT ![s] = b.holdings[s] * action.ratio]
        OBVIOUS
      <4>3. QED
        BY <2>0, <3>0, <3>1, <4>1, <4>2, AccountSplit DEF AccountOf, Effected
    <3>2. CASE action.kind = "cash_dividend"
      <4>1. LedgerEffect(action, a) = [a EXCEPT !.claims = entitled]
        BY <1>0, <3>0, <3>2 DEF LedgerEffect, Entitled
      <4>2. QED
        BY <2>0, <3>0, <3>2, <4>1, AccountEntitled DEF AccountOf, Effected
    <3>3. CASE action.kind = "terminal_exit"
      <4>1. LedgerEffect(action, a) = [a EXCEPT !.claims = entitled, !.exited = b.exited \cup {s},
                                                !.positions[s] = 0]
        BY <1>0, <2>2, <3>0, <3>3 DEF LedgerEffect, Entitled, EffectRefusal
      <4>2. PICK claims, exited, t, q :
              claims = entitled /\ exited = b.exited \cup {s} /\ t = s /\ q = 0
        OBVIOUS
      <4>3. [AccountOf(b) EXCEPT !.claims = claims, !.exited = exited, !.positions[t] = q] =
              [cash |-> b.cash, fees |-> b.fees, positions |-> [b.holdings EXCEPT ![t] = q],
               claims |-> claims, exited |-> exited, failure |-> b.failure]
        <5>1. PICK v, r : /\ v = AccountOf(b)
                          /\ r = [v EXCEPT !.claims = claims, !.exited = exited, !.positions[t] = q]
          OBVIOUS
        <5>2. r = [cash |-> b.cash, fees |-> b.fees, positions |-> [b.holdings EXCEPT ![t] = q],
                   claims |-> claims, exited |-> exited, failure |-> b.failure]
          BY <5>1 DEF AccountOf
        <5>3. QED
          BY <5>1, <5>2
      <4>4. LedgerEvent(rate, e, a) =
              [cash |-> b.cash, fees |-> b.fees, positions |-> [b.holdings EXCEPT ![s] = 0],
               claims |-> entitled, exited |-> b.exited \cup {s}, failure |-> b.failure]
        BY <2>0, <4>1, <4>2, <4>3
      <4>5. QED
        BY <3>0, <3>3, <4>4 DEF AccountOf, Effected
    <3>4. QED
      BY <3>1, <3>2, <3>3 DEF Kinds
  <2>3. QED
    BY <2>1, <2>2
<1>4. QED
  BY <1>1, <1>2, <1>3

-----------------------------------------------------------------------------
(* The ledger repeats the books: all the actions of a market *)

Market(actions) ==
  /\ IsFiniteSet(actions)
  /\ \A a \in actions : ActionValid(a) /\ \A b \in actions : a.id = b.id => a = b

Effect(a) == Event(a.effective, 0, a.id, a)
Payment(a) == Event(a.pay, 1, a.id, a)

\* An event of an action is its effect or its payment.
LEMMA ActionEventIs ==
  ASSUME NEW actions, Market(actions), NEW e \in ActionEvents(actions)
  PROVE  /\ e.body \in actions /\ ActionValid(e.body) /\ e.body.kind \in Kinds
         /\ e.id = e.body.id /\ e.id \in Int /\ e.time \in Int
         /\ \/ e.phase = 0 /\ e = Effect(e.body) /\ e.time = e.body.effective
            \/ /\ e.phase = 1 /\ e = Payment(e.body) /\ e.time = e.body.pay
               /\ e.body.pay # Missing /\ Effect(e.body) \in ActionEvents(actions)
  BY DEF ActionEvents, Event, Effect, Payment, Market, ActionValid, Kinds

\* Actions and phases tell the events apart.
LEMMA MarksAreNames ==
  ASSUME NEW actions, Market(actions), NEW e \in ActionEvents(actions),
         NEW f \in ActionEvents(actions), e.id = f.id, e.phase = f.phase
  PROVE  e = f
<1>1. e.body = f.body
  BY ActionEventIs DEF Market
<1>2. QED
  BY <1>1, ActionEventIs

\* The events of a market lie on one timeline.
LEMMA ActionsOnTimeline ==
  ASSUME NEW actions, Market(actions)
  PROVE  OnTimeline(ActionEvents(actions))
<1>1. IsFiniteSet(ActionEvents(actions))
  <2>1. PICK paying : paying = {b \in actions : b.pay # Missing}
    OBVIOUS
  <2>2. IsFiniteSet(actions) /\ IsFiniteSet(paying)
    BY <2>1, FS_Subset DEF Market
  <2> DEFINE effect == [a \in actions |-> Effect(a)]
             payment == [a \in paying |-> Payment(a)]
  <2>3. IsFiniteSet({Effect(a) : a \in actions})
    <3>1. {effect[a] : a \in actions} = {Effect(a) : a \in actions}
      OBVIOUS
    <3> HIDE DEF effect
    <3>2. IsFiniteSet({effect[a] : a \in actions})
      BY <2>2, ImageIsFinite
    <3>3. QED
      BY <3>1, <3>2
  <2>4. IsFiniteSet({Payment(a) : a \in paying})
    <3>1. {payment[a] : a \in paying} = {Payment(a) : a \in paying}
      OBVIOUS
    <3> HIDE DEF payment
    <3>2. IsFiniteSet({payment[a] : a \in paying})
      BY <2>2, ImageIsFinite
    <3>3. QED
      BY <3>1, <3>2
  <2>5. ActionEvents(actions) = {Effect(a) : a \in actions} \cup {Payment(a) : a \in paying}
    BY <2>1 DEF ActionEvents, Effect, Payment
  <2>6. QED
    BY <2>3, <2>4, <2>5, FS_Union
<1>2. \A e \in ActionEvents(actions) : e.time \in Int /\ e.phase \in {0, 1} /\ e.id \in Int
  BY ActionEventIs
<1>3. ASSUME NEW e \in ActionEvents(actions), NEW f \in ActionEvents(actions)
      PROVE  e = f \/ Before(e, f) \/ Before(f, e)
  <2>1. CASE e.id = f.id /\ e.phase = f.phase
    BY <2>1, MarksAreNames
  <2>2. CASE e.id # f.id \/ e.phase # f.phase
    BY <1>2, <2>2 DEF Before
  <2>3. QED
    BY <2>1, <2>2
<1>4. QED
  BY <1>1, <1>2, <1>3 DEF OnTimeline

\* The account replayed from the account of the books is that of the books carried on.
LEMMA ReplayFollowsBooks ==
  ASSUME NEW actions, Market(actions), NEW S \in SUBSET ActionEvents(actions),
         NEW b, IsBooks(b), NEW rate
  PROVE  /\ IsBooks(Folded(TRUE, 0, b, S))
         /\ Folded(FALSE, rate, AccountOf(b), S) = AccountOf(Folded(TRUE, 0, b, S))
<1> DEFINE Follows(s) == /\ IsBooks(Folded(TRUE, 0, b, s))
                         /\ Folded(FALSE, rate, AccountOf(b), s) = AccountOf(Folded(TRUE, 0, b, s))
           Good == {n \in Nat : \A s \in SUBSET S : Cardinality(s) = n => Follows(s)}
<1>1. \A s \in SUBSET S : OnTimeline(s) /\ IsFiniteSet(s) /\ Cardinality(s) \in Nat
  <2>1. \A s \in SUBSET S : s \in SUBSET ActionEvents(actions)
    OBVIOUS
  <2>2. QED
    BY <2>1, ActionsOnTimeline, PartOfTimeline, FS_CardinalityType DEF OnTimeline
<1>2. 0 \in Good
  <2>1. ASSUME NEW s \in SUBSET S, Cardinality(s) = 0
        PROVE  Follows(s)
    <3>1. s = {}
      BY <1>1, <2>1, FS_EmptySet
    <3>2. QED
      BY <1>1, <3>1, FoldedStep
  <2>2. QED
    BY <2>1
<1>3. ASSUME NEW n \in Good
      PROVE  n + 1 \in Good
  <2>0. n \in Nat
    OBVIOUS
  <2>1. SUFFICES ASSUME NEW s \in SUBSET S, Cardinality(s) = n + 1
                 PROVE  Follows(s)
    <3> HIDE DEF Follows
    <3>1. QED
      BY <2>0
  <2>2. s # {}
    <3>1. n + 1 # 0
      BY <2>0
    <3>2. QED
      BY <2>1, <3>1, FS_EmptySet
  <2>3. PICK x, r : x = Latest(s) /\ r = s \ {x}
    OBVIOUS
  <2>4. x \in s /\ x \in ActionEvents(actions) /\ r \in SUBSET S
    BY <1>1, <2>2, <2>3, LatestIs
  <2>5. Cardinality(r) = n
    <3>1. Cardinality(r) = Cardinality(s) - 1
      BY <1>1, <2>3, <2>4, FS_RemoveElement
    <3>2. QED
      BY <2>0, <2>1, <3>1
  <2>6. Follows(r)
    BY <2>4, <2>5
  <2>7. PICK v : v = Folded(TRUE, 0, b, r)
    OBVIOUS
  <2>8. Folded(TRUE, 0, b, s) = AdvanceEvent(x, v)
    BY <1>1, <2>2, <2>3, <2>7, FoldedStep DEF Turn
  <2>9. Folded(FALSE, rate, AccountOf(b), s) = LedgerEvent(rate, x, AccountOf(v))
    <3>1. PICK start : start = AccountOf(b)
      OBVIOUS
    <3>2. Folded(FALSE, rate, start, s) = LedgerEvent(rate, x, Folded(FALSE, rate, start, r))
      BY <1>1, <2>2, <2>3, FoldedStep DEF Turn
    <3>3. QED
      BY <2>6, <2>7, <3>1, <3>2
  <2>10. x.phase \in {0, 1} /\ x.body.kind \in Kinds
    BY <2>4, ActionEventIs
  <2>11. IsBooks(v)
    BY <2>6, <2>7
  <2>12. LedgerEvent(rate, x, AccountOf(v)) = AccountOf(AdvanceEvent(x, v))
    BY <2>10, <2>11, LedgerRepeats
  <2>13. IsBooks(AdvanceEvent(x, v))
    BY <2>10, <2>11, AdvanceKeepsFields
  <2>14. QED
    BY <2>8, <2>9, <2>12, <2>13
<1>4. Good = Nat
  <2>1. Good \in SUBSET Nat
    OBVIOUS
  <2> HIDE DEF Good
  <2>2. QED
    BY <1>2, <1>3, <2>1, NatSetInduction
<1>5. S \in SUBSET S
  OBVIOUS
<1>6. Cardinality(S) \in Good
  BY <1>1, <1>4, <1>5
<1>7. QED
  BY <1>5, <1>6

-----------------------------------------------------------------------------
(* What holds of the books when the events E are behind them *)

Marks(E) == {<<e.id, e.phase>> : e \in E}

\* Every entitlement that is not yet paid is on the books.
ClaimsPending(actions, E, b) ==
  \A a \in actions : a.pay # Missing /\ Effect(a) \in E /\ Payment(a) \notin E =>
    \E c \in b.claims : c.id = a.id

\* Before the first fill there is nothing but the initial cash.
Untouched(b) ==
  /\ b.cash = InitialCash /\ b.fees = 0 /\ b.holdings = Flat
  /\ \A c \in b.claims : c.amount = 0

Balanced(b) ==
  /\ b.cash \in Int /\ b.fees \in Int
  /\ b.holdings \in [Securities -> Int]
  /\ IsFiniteSet(b.claims) /\ \A c \in b.claims : c.amount \in Int
  /\ b.exited \subseteq Securities /\ \A s \in b.exited : b.holdings[s] = 0

ActionRefusals == {"none", "ACCOUNTING_ACTION_AFTER_EXIT", "ACCOUNTING_UNKNOWN_EXIT"}

Sound(actions, E, idle, b) ==
  /\ IsBooks(b)
  /\ b.failure \in ActionRefusals
  /\ b.failure = "none" =>
       /\ b.applied = Marks(E)
       /\ Balanced(b)
       /\ ClaimsPending(actions, E, b)
       /\ idle => Untouched(b)

\* A payment is due to a claim on the books.
LEMMA PaidKeeps ==
  ASSUME NEW actions, Market(actions), NEW E \in SUBSET ActionEvents(actions), NEW b, NEW idle,
         Sound(actions, E, idle, b), b.failure = "none",
         NEW x \in ActionEvents(actions), x.phase = 1, x \notin E, Effect(x.body) \in E
  PROVE  Sound(actions, E \cup {x}, idle, Paid(b, x))
<1>0. x.body \in actions /\ x.body.pay # Missing /\ x = Payment(x.body) /\ x.id = x.body.id
  BY ActionEventIs
<1>1. \E c \in b.claims : c.id = x.id
  BY <1>0 DEF Sound, ClaimsPending
<1>2. PICK claim : claim = CHOOSE c \in b.claims : c.id = x.id
  OBVIOUS
<1>3. claim \in b.claims /\ claim.id = x.id /\ claim.amount \in Int
  BY <1>1, <1>2 DEF Sound, Balanced
<1>4. PICK p : p = Paid(b, x)
  OBVIOUS
<1>5. p = [cash |-> b.cash + claim.amount, fees |-> b.fees, holdings |-> b.holdings,
           loans |-> b.loans, claims |-> b.claims \ {claim},
           applied |-> b.applied \cup {<<x.id, x.phase>>}, exited |-> b.exited,
           failure |-> b.failure]
  BY <1>2, <1>4 DEF Paid
<1>6. /\ p.cash = b.cash + claim.amount /\ p.fees = b.fees /\ p.holdings = b.holdings
      /\ p.claims = b.claims \ {claim} /\ p.applied = b.applied \cup {<<x.id, x.phase>>}
      /\ p.exited = b.exited /\ p.failure = b.failure
  BY <1>5
<1>7. IsBooks(p)
  BY <1>5 DEF IsBooks
<1>8. p.applied = Marks(E \cup {x})
  BY <1>6 DEF Sound, Marks
<1>9. Balanced(p)
  <2>1. IsFiniteSet(b.claims \ {claim})
    BY FS_Subset DEF Sound, Balanced
  <2>2. QED
    BY <1>3, <1>6, <2>1 DEF Sound, Balanced
<1>10. ClaimsPending(actions, E \cup {x}, p)
  <2>1. SUFFICES ASSUME NEW a \in actions, a.pay # Missing, Effect(a) \in E \cup {x},
                        Payment(a) \notin E \cup {x}
                 PROVE  \E c \in p.claims : c.id = a.id
    BY DEF ClaimsPending
  <2>2. Effect(a).phase = 0
    BY DEF Effect, Event
  <2>3. Effect(a) \in E
    BY <2>1, <2>2
  <2>4. PICK c \in b.claims : c.id = a.id
    BY <2>1, <2>3 DEF Sound, ClaimsPending
  <2>5. a # x.body
    BY <1>0, <2>1
  <2>6. a.id # x.id
    BY <1>0, <2>5 DEF Market
  <2>7. c # claim
    BY <1>3, <2>4, <2>6
  <2>8. QED
    BY <1>6, <2>4, <2>7
<1>11. idle => Untouched(p)
  <2>1. CASE idle
    <3>1. Untouched(b)
      BY <2>1 DEF Sound
    <3>2. b.cash = InitialCash /\ claim.amount = 0 /\ InitialCash \in Int
      BY <1>3, <3>1, AccountAssumption DEF Untouched
    <3>3. p.cash = InitialCash
      BY <1>6, <3>2
    <3>4. QED
      BY <1>6, <3>1, <3>3 DEF Untouched
  <2>2. QED
    BY <2>1
<1>12. QED
  BY <1>4, <1>6, <1>7, <1>8, <1>9, <1>10, <1>11 DEF Sound

\* What an effect entitles to is put on the books.
LEMMA EffectedKeeps ==
  ASSUME NEW actions, Market(actions), NEW E \in SUBSET ActionEvents(actions), NEW b, NEW idle,
         Sound(actions, E, idle, b), b.failure = "none",
         NEW x \in ActionEvents(actions), x.phase = 0, x \notin E, EffectRefusal(b, x) = "none"
  PROVE  Sound(actions, E \cup {x}, idle, Effected(b, x))
<1>0. /\ x.body \in actions /\ x = Effect(x.body) /\ x.id = x.body.id /\ x.body.kind \in Kinds
      /\ ActionValid(x.body)
  BY ActionEventIs
<1>1. PICK s, k : s = x.body.security /\ k = x.body
  OBVIOUS
<1>2. /\ s \in Securities /\ s \notin b.exited /\ k.ratio \in Int
      /\ k.cash # Missing => k.cash \in Int
      /\ k.kind = "split" => k.cash = Missing
      /\ (k.cash = Missing) = (k.pay = Missing)
  BY <1>0, <1>1 DEF EffectRefusal, ActionValid
<1>3. Balanced(b) /\ b.holdings \in [Securities -> Int] /\ b.holdings[s] \in Int
  BY <1>2 DEF Sound, Balanced
<1>4. PICK p : p = Effected(b, x)
  OBVIOUS
<1>5. /\ p.cash = b.cash /\ p.fees = b.fees /\ p.failure = b.failure
      /\ p.applied = b.applied \cup {<<x.id, x.phase>>}
      /\ p.exited = IF k.kind = "terminal_exit" THEN b.exited \cup {s} ELSE b.exited
      /\ p.claims = IF k.kind = "split" THEN b.claims ELSE Entitled(b, k)
  BY <1>1, <1>4 DEF Effected
<1>6. PICK q \in Int : /\ p.holdings = [b.holdings EXCEPT ![s] = q]
                       /\ k.kind = "terminal_exit" \/ b.holdings[s] = 0 => q = 0
  <2>1. CASE k.kind = "split"
    <3>1. p.holdings = [b.holdings EXCEPT ![s] = b.holdings[s] * k.ratio]
      BY <1>1, <1>4, <2>1 DEF Effected
    <3>2. b.holdings[s] * k.ratio \in Int
      BY <1>2, <1>3
    <3>3. b.holdings[s] = 0 => b.holdings[s] * k.ratio = 0
      BY <1>2
    <3>4. QED
      BY <2>1, <3>1, <3>2, <3>3
  <2>2. CASE k.kind = "cash_dividend"
    <3>1. p.holdings = b.holdings
      BY <1>1, <1>4, <2>2 DEF Effected
    <3>2. b.holdings = [b.holdings EXCEPT ![s] = b.holdings[s]]
      BY <1>3
    <3>3. QED
      BY <1>3, <2>2, <3>1, <3>2
  <2>3. CASE k.kind = "terminal_exit"
    <3>1. p.holdings = [b.holdings EXCEPT ![s] = 0]
      BY <1>1, <1>4, <2>3 DEF Effected
    <3>2. QED
      BY <3>1
  <2>4. QED
    BY <1>0, <1>1, <2>1, <2>2, <2>3 DEF Kinds
<1>7. IsBooks(p)
  BY <1>4 DEF IsBooks, Effected
<1>8. p.applied = Marks(E \cup {x})
  BY <1>5 DEF Sound, Marks
<1>9. PICK new : p.claims = b.claims \cup new
         /\ new = IF k.cash = Missing THEN {} ELSE {Claim(k, b.holdings[s])}
  <2>1. p.claims = IF k.cash = Missing THEN b.claims ELSE b.claims \cup {Claim(k, b.holdings[s])}
    BY <1>1, <1>2, <1>5 DEF Entitled
  <2>2. QED
    BY <2>1
<1>10. \A c \in new : /\ c.id = k.id /\ c.amount \in Int
                      /\ b.holdings[s] = 0 => c.amount = 0
  <2>1. CASE k.cash = Missing
    BY <1>9, <2>1
  <2>2. CASE k.cash # Missing
    <3>1. \A c \in new : c.id = k.id /\ c.amount = b.holdings[s] * k.cash
      BY <1>9, <2>2 DEF Claim
    <3>2. k.cash \in Int
      BY <1>2, <2>2
    <3>3. b.holdings[s] * k.cash \in Int /\ (b.holdings[s] = 0 => b.holdings[s] * k.cash = 0)
      BY <1>3, <3>2
    <3>4. QED
      BY <3>1, <3>3
  <2>3. QED
    BY <2>1, <2>2
<1>11. Balanced(p)
  <2>1. IsFiniteSet(new)
    BY <1>9, FS_EmptySet, FS_Singleton
  <2>2. IsFiniteSet(p.claims)
    <3>1. IsFiniteSet(b.claims)
      BY <1>3 DEF Balanced
    <3>2. IsFiniteSet(b.claims \cup new)
      BY <2>1, <3>1, FS_Union
    <3>3. QED
      BY <1>9, <3>2
  <2>3. p.holdings \in [Securities -> Int]
    BY <1>3, <1>6
  <2>4. \A c \in p.claims : c.amount \in Int
    BY <1>3, <1>9, <1>10 DEF Balanced
  <2>5. \A t \in p.exited : p.holdings[t] = 0
    <3>1. ASSUME NEW t \in p.exited PROVE p.holdings[t] = 0
      <4>1. CASE t = s
        <5>1. k.kind = "terminal_exit"
          BY <1>2, <1>5, <3>1, <4>1
        <5>2. QED
          BY <1>2, <1>3, <1>6, <4>1, <5>1
      <4>2. CASE t # s
        <5>1. t \in b.exited
          BY <1>5, <3>1, <4>2
        <5>2. b.holdings[t] = 0
          BY <1>3, <5>1 DEF Balanced
        <5>3. t \in Securities
          BY <1>3, <5>1 DEF Balanced
        <5>4. QED
          BY <1>3, <1>6, <4>2, <5>2, <5>3
      <4>3. QED
        BY <4>1, <4>2
    <3>2. QED
      BY <3>1
  <2>6. p.exited \subseteq Securities
    BY <1>2, <1>3, <1>5 DEF Balanced
  <2>7. QED
    BY <1>3, <1>5, <2>2, <2>3, <2>4, <2>5, <2>6 DEF Balanced
<1>12. ClaimsPending(actions, E \cup {x}, p)
  <2>1. SUFFICES ASSUME NEW a \in actions, a.pay # Missing, Effect(a) \in E \cup {x},
                        Payment(a) \notin E \cup {x}
                 PROVE  \E c \in p.claims : c.id = a.id
    BY DEF ClaimsPending
  <2>2. CASE Effect(a) \in E
    BY <1>9, <2>1, <2>2 DEF Sound, ClaimsPending
  <2>3. CASE Effect(a) = x
    <3>1. a = k
      BY <1>1, <2>3 DEF Effect, Event
    <3>2. k.cash # Missing
      BY <1>2, <2>1, <3>1
    <3>3. Claim(k, b.holdings[s]) \in p.claims
      BY <1>9, <3>2
    <3>4. Claim(k, b.holdings[s]).id = a.id
      BY <3>1 DEF Claim
    <3>5. QED
      BY <3>3, <3>4
  <2>4. QED
    BY <2>1, <2>2, <2>3
<1>13. idle => Untouched(p)
  <2>1. CASE idle
    <3>1. Untouched(b) /\ b.holdings[s] = 0
      BY <1>2, <2>1 DEF Sound, Untouched, Flat
    <3>2. p.holdings = Flat
      BY <1>3, <1>6, <3>1 DEF Untouched, Flat
    <3>3. QED
      BY <1>5, <1>9, <1>10, <3>1, <3>2 DEF Untouched
  <2>2. QED
    BY <2>1
<1>14. QED
  BY <1>4, <1>5, <1>7, <1>8, <1>11, <1>12, <1>13 DEF Sound

\* One event, whatever comes of it.
LEMMA AdvanceKeeps ==
  ASSUME NEW actions, Market(actions), NEW E \in SUBSET ActionEvents(actions), NEW b, NEW idle,
         Sound(actions, E, idle, b),
         NEW x \in ActionEvents(actions), x \notin E, x.phase = 1 => Effect(x.body) \in E
  PROVE  Sound(actions, E \cup {x}, idle, AdvanceEvent(x, b))
<1>0. IsBooks(b) /\ x.body.kind \in Kinds /\ x.phase \in {0, 1}
  BY ActionEventIs DEF Sound
<1>1. CASE b.failure # "none"
  BY <1>0, <1>1, AdvanceCases DEF Sound
<1>2. CASE b.failure = "none" /\ x.phase = 1
  <2>1. AdvanceEvent(x, b) = Paid(b, x)
    BY <1>0, <1>2, AdvanceCases
  <2>2. Sound(actions, E \cup {x}, idle, Paid(b, x))
    BY <1>2, PaidKeeps
  <2>3. QED
    BY <2>1, <2>2
<1>3. CASE b.failure = "none" /\ x.phase = 0 /\ EffectRefusal(b, x) = "none"
  <2>1. AdvanceEvent(x, b) = Effected(b, x)
    BY <1>0, <1>3, AdvanceCases
  <2>2. Sound(actions, E \cup {x}, idle, Effected(b, x))
    BY <1>3, EffectedKeeps
  <2>3. QED
    BY <2>1, <2>2
<1>4. CASE b.failure = "none" /\ x.phase = 0 /\ EffectRefusal(b, x) # "none"
  <2>1. PICK code, p : code = EffectRefusal(b, x) /\ p = FailedAs(b, code)
    OBVIOUS
  <2>2. AdvanceEvent(x, b) = p
    BY <1>0, <1>4, <2>1, AdvanceCases
  <2>3. IsBooks(p)
    BY <1>0, <2>2, AdvanceKeepsFields
  <2>4. p.failure # "none" /\ p.failure \in ActionRefusals
    <3>1. p.failure = code
      BY <1>0, <2>1, BooksFailed
    <3>2. code # "none" /\ code \in ActionRefusals
      BY <1>4, <2>1 DEF EffectRefusal, ActionRefusals
    <3>3. QED
      BY <3>1, <3>2
  <2>5. QED
    BY <2>2, <2>3, <2>4 DEF Sound
<1>5. QED
  BY <1>0, <1>1, <1>2, <1>3, <1>4

\* All the events that are due, in their order.
LEMMA FoldKeepsSound ==
  ASSUME NEW actions, Market(actions), NEW E \in SUBSET ActionEvents(actions),
         NEW S \in SUBSET ActionEvents(actions), E \cap S = {},
         \A e \in S : \A f \in ActionEvents(actions) : Before(f, e) => f \in E \cup S,
         NEW b, NEW idle, Sound(actions, E, idle, b)
  PROVE  Sound(actions, E \cup S, idle, Folded(TRUE, 0, b, S))
<1> DEFINE Closed(s) == \A e \in s : \A f \in S : Before(f, e) => f \in s
           Holds(s) == Sound(actions, E \cup s, idle, Folded(TRUE, 0, b, s))
           Good == {n \in Nat : \A s \in SUBSET S : Cardinality(s) = n /\ Closed(s) => Holds(s)}
<1>0. OnTimeline(ActionEvents(actions))
  BY ActionsOnTimeline
<1>1. \A s \in SUBSET S : OnTimeline(s) /\ IsFiniteSet(s) /\ Cardinality(s) \in Nat
  <2>1. \A s \in SUBSET S : s \in SUBSET ActionEvents(actions)
    OBVIOUS
  <2>2. QED
    BY <1>0, <2>1, PartOfTimeline, FS_CardinalityType DEF OnTimeline
<1>2. 0 \in Good
  <2>1. ASSUME NEW s \in SUBSET S, Cardinality(s) = 0
        PROVE  Holds(s)
    <3>1. s = {}
      BY <1>1, <2>1, FS_EmptySet
    <3>2. Folded(TRUE, 0, b, s) = b /\ E \cup s = E
      BY <1>1, <3>1, FoldedStep
    <3>3. QED
      BY <3>2
  <2>2. QED
    BY <2>1
<1>3. ASSUME NEW n \in Good
      PROVE  n + 1 \in Good
  <2>0. n \in Nat
    OBVIOUS
  <2>1. SUFFICES ASSUME NEW s \in SUBSET S, Cardinality(s) = n + 1, Closed(s)
                 PROVE  Holds(s)
    <3> HIDE DEF Holds, Closed
    <3>1. QED
      BY <2>0
  <2>2. s # {}
    <3>1. n + 1 # 0
      BY <2>0
    <3>2. QED
      BY <2>1, <3>1, FS_EmptySet
  <2>3. PICK x, r : x = Latest(s) /\ r = s \ {x}
    OBVIOUS
  <2>4. x \in s /\ x \in ActionEvents(actions) /\ r \in SUBSET S /\ \A f \in r : Before(f, x)
    BY <1>1, <2>2, <2>3, LatestIs
  <2>5. Cardinality(r) = n
    <3>1. Cardinality(r) = Cardinality(s) - 1
      BY <1>1, <2>3, <2>4, FS_RemoveElement
    <3>2. QED
      BY <2>0, <2>1, <3>1
  <2>6. Closed(r)
    <3>1. SUFFICES ASSUME NEW e \in r, NEW f \in S, Before(f, e) PROVE f \in r
      OBVIOUS
    <3>2. f \in s
      BY <2>1, <2>3, <3>1
    <3>3. f # x
      <4>1. Before(e, x) /\ e \in ActionEvents(actions) /\ f \in ActionEvents(actions)
        BY <2>3, <2>4
      <4>2. QED
        BY <1>0, <2>4, <3>1, <4>1, BeforeOrders
    <3>4. QED
      BY <2>3, <3>2, <3>3
  <2>7. Sound(actions, E \cup r, idle, Folded(TRUE, 0, b, r))
    <3>1. Holds(r)
      <4> HIDE DEF Holds, Closed
      <4>1. QED
        BY <2>4, <2>5, <2>6
    <3>2. QED
      BY <3>1
  <2>8. PICK v, F : v = Folded(TRUE, 0, b, r) /\ F = E \cup r
    OBVIOUS
  <2>9. Folded(TRUE, 0, b, s) = AdvanceEvent(x, v)
    BY <1>1, <2>2, <2>3, <2>8, FoldedStep DEF Turn
  <2>10. F \in SUBSET ActionEvents(actions) /\ x \notin F /\ F \cup {x} = E \cup s
    BY <2>3, <2>4, <2>8
  <2>11. x.phase = 1 => Effect(x.body) \in F
    <3>1. SUFFICES ASSUME x.phase = 1 PROVE Effect(x.body) \in F
      OBVIOUS
    <3>2. PICK f : f = Effect(x.body)
      OBVIOUS
    <3>3. /\ f \in ActionEvents(actions) /\ f.time = x.body.effective /\ f.phase = 0
          /\ x.time = x.body.pay /\ x.body.effective <= x.body.pay
          /\ {x.body.effective, x.body.pay} \subseteq Int
      BY <2>4, <3>1, <3>2, ActionEventIs DEF Effect, Event, ActionValid
    <3>4. Before(f, x)
      BY <3>1, <3>3 DEF Before
    <3>5. f \in E \cup S
      BY <2>4, <3>3, <3>4
    <3>6. f # x
      BY <3>1, <3>3
    <3>7. QED
      BY <2>1, <2>3, <2>4, <2>8, <3>2, <3>4, <3>5, <3>6
  <2>12. Sound(actions, F \cup {x}, idle, AdvanceEvent(x, v))
    BY <2>4, <2>7, <2>8, <2>10, <2>11, AdvanceKeeps
  <2>13. QED
    BY <2>9, <2>10, <2>12
<1>4. Good = Nat
  <2>1. Good \in SUBSET Nat
    OBVIOUS
  <2> HIDE DEF Good
  <2>2. QED
    BY <1>2, <1>3, <2>1, NatSetInduction
<1>5. S \in SUBSET S /\ Closed(S)
  OBVIOUS
<1>6. Cardinality(S) \in Good
  BY <1>1, <1>4, <1>5
<1>7. Holds(S)
  <2> HIDE DEF Holds, Closed
  <2>1. QED
    BY <1>5, <1>6
<1>8. QED
  BY <1>7

-----------------------------------------------------------------------------
(* Books and ledger at one instant *)

Fill == [security : Securities, quantity : Int, price : Nat, time : Int]

FilledBy(fs, t) == fs \in Seq(Fill) /\ \A i \in DOMAIN fs : fs[i].time <= t

Until(actions, t) == {e \in ActionEvents(actions) : e.time <= t}

\* A fill has a place and an instant.
LEMMA FillAt ==
  ASSUME NEW fs \in Seq(Fill), NEW i \in DOMAIN fs
  PROVE  i \in 1 .. Len(fs) /\ i \in Int /\ Len(fs) \in Nat /\ fs[i] \in Fill /\ fs[i].time \in Int
<1>1. i \in 1 .. Len(fs) /\ Len(fs) \in Nat /\ fs[i] \in Fill
  OBVIOUS
<1>2. fs[i].time \in Int
  BY <1>1 DEF Fill
<1>3. QED
  BY <1>1, <1>2

\* The fills of an account lie on its timeline too.
LEMMA EventsOnTimeline ==
  ASSUME Market(spec.actions), NEW fs \in Seq(Fill)
  PROVE  OnTimeline(ActionEvents(spec.actions) \cup FillEvents(fs))
<1>0. PICK A, F : A = ActionEvents(spec.actions) /\ F = FillEvents(fs)
  OBVIOUS
<1>1. OnTimeline(A)
  BY <1>0, ActionsOnTimeline
<1>2. IsFiniteSet(F)
  <2> DEFINE made == [i \in DOMAIN fs |-> Event(fs[i].time, 2, i, fs[i])]
  <2>1. F = {made[i] : i \in DOMAIN fs}
    BY <1>0 DEF FillEvents
  <2>2. DOMAIN fs = 1 .. Len(fs) /\ Len(fs) \in Nat
    OBVIOUS
  <2>3. IsFiniteSet(DOMAIN fs)
    BY <2>2, FS_Interval
  <2> HIDE DEF made
  <2>4. QED
    BY <2>1, <2>3, ImageIsFinite
<1>3. \A e \in F : /\ e.time \in Int /\ e.phase = 2 /\ e.id \in Int
                   /\ e = Event(fs[e.id].time, 2, e.id, fs[e.id])
  <2>1. SUFFICES ASSUME NEW e \in F
                 PROVE  /\ e.time \in Int /\ e.phase = 2 /\ e.id \in Int
                        /\ e = Event(fs[e.id].time, 2, e.id, fs[e.id])
    OBVIOUS
  <2>2. PICK i \in DOMAIN fs : e = Event(fs[i].time, 2, i, fs[i])
    BY <1>0 DEF FillEvents
  <2>3. e.id = i /\ e.time = fs[i].time /\ e.phase = 2
    BY <2>2 DEF Event
  <2>4. QED
    BY <2>2, <2>3, FillAt
<1>4. \A e \in A : e.time \in Int /\ e.phase \in {0, 1} /\ e.id \in Int
  BY <1>0, ActionEventIs
<1>5. ASSUME NEW e \in A \cup F, NEW f \in A \cup F
      PROVE  e = f \/ Before(e, f) \/ Before(f, e)
  <2>1. CASE e \in A /\ f \in A
    BY <1>1, <2>1 DEF OnTimeline
  <2>2. CASE e \in F /\ f \in F
    BY <1>3, <2>2 DEF Before
  <2>3. CASE e \in A /\ f \in F
    BY <1>3, <1>4, <2>3 DEF Before
  <2>4. CASE e \in F /\ f \in A
    BY <1>3, <1>4, <2>4 DEF Before
  <2>5. QED
    BY <1>5, <2>1, <2>2, <2>3, <2>4
<1>6. IsFiniteSet(A \cup F)
  BY <1>1, <1>2, FS_Union DEF OnTimeline
<1>7. OnTimeline(A \cup F)
  BY <1>3, <1>4, <1>5, <1>6 DEF OnTimeline
<1>8. QED
  BY <1>0, <1>7

\* What is due is what happened since the books were last carried on.
LEMMA DueIs ==
  ASSUME Market(spec.actions), NEW idle, NEW b, NEW r, NEW at, b.failure = "none",
         Sound(spec.actions, Until(spec.actions, r), idle, b)
  PROVE  Due(b, at) = Until(spec.actions, at) \ Until(spec.actions, r)
<1>1. b.applied = Marks(Until(spec.actions, r))
  BY DEF Sound
<1>2. ASSUME NEW e \in ActionEvents(spec.actions)
      PROVE  <<e.id, e.phase>> \in b.applied <=> e \in Until(spec.actions, r)
  <2>1. CASE e \in Until(spec.actions, r)
    BY <1>1, <2>1 DEF Marks
  <2>2. CASE <<e.id, e.phase>> \in b.applied
    <3>1. PICK f \in Until(spec.actions, r) : <<e.id, e.phase>> = <<f.id, f.phase>>
      BY <1>1, <2>2 DEF Marks
    <3>2. f \in ActionEvents(spec.actions)
      BY DEF Until
    <3>3. e = f
      BY <3>1, <3>2, MarksAreNames
    <3>4. e \in Until(spec.actions, r)
      BY <3>3
    <3>5. QED
      BY <2>2, <3>4
  <2>3. QED
    BY <2>1, <2>2
<1>3. QED
  BY <1>2 DEF Due, Until

\* Carrying the books on from r to a later instant.
LEMMA AdvancedKeepsSound ==
  ASSUME Market(spec.actions), NEW idle, NEW b, NEW r \in Int, NEW at \in Int, r <= at,
         b.failure = "none", Sound(spec.actions, Until(spec.actions, r), idle, b)
  PROVE  Sound(spec.actions, Until(spec.actions, at), idle, Advanced(b, at))
<1>1. PICK A, E, S : A = spec.actions /\ E = Until(A, r) /\ S = Due(b, at)
  OBVIOUS
<1>2. S = Until(A, at) \ E
  BY <1>1, DueIs
<1>3. E \in SUBSET ActionEvents(A) /\ S \in SUBSET ActionEvents(A) /\ E \cap S = {}
  BY <1>1, <1>2 DEF Until
<1>4. \A e \in ActionEvents(A) : e.time \in Int
  BY <1>1, ActionEventIs
<1>5. E \cup S = Until(A, at)
  BY <1>1, <1>2, <1>4 DEF Until
<1>6. \A e \in S : \A f \in ActionEvents(A) : Before(f, e) => f \in E \cup S
  BY <1>3, <1>4, <1>5 DEF Until, Before
<1>7. Sound(A, E, idle, b) /\ Market(A)
  BY <1>1
<1>8. Sound(A, E \cup S, idle, Folded(TRUE, 0, b, S))
  BY <1>3, <1>6, <1>7, FoldKeepsSound
<1>9. Advanced(b, at) = Folded(TRUE, 0, b, S)
  BY <1>1, CarriedIsFold DEF Advanced
<1>10. QED
  BY <1>1, <1>5, <1>8, <1>9

\* The ledger, asked for a later instant, returns the account of the books carried on.
LEMMA LedgerFollowsBooks ==
  ASSUME Market(spec.actions), NEW idle, NEW b, NEW r \in Int, NEW at \in Int, r <= at,
         b.failure = "none", Sound(spec.actions, Until(spec.actions, r), idle, b),
         NEW fs, FilledBy(fs, r), LedgerAt(fs, r) = AccountOf(b)
  PROVE  LedgerAt(fs, at) = AccountOf(Advanced(b, at))
<1>1. PICK A, E, S, rate :
        A = spec.actions /\ E = EventsUntil(fs, r) /\ S = Due(b, at) /\ rate = spec.rate
  OBVIOUS
<1>2. S = Until(A, at) \ Until(A, r)
  BY <1>1, DueIs
<1>3. fs \in Seq(Fill) /\ \A i \in DOMAIN fs : fs[i].time <= r /\ fs[i].time \in Int
  BY FillAt DEF FilledBy
<1>4. \A e \in FillEvents(fs) : e.time <= r /\ e.time \in Int
  BY <1>3 DEF FillEvents, Event
<1>5. \A e \in ActionEvents(A) : e.time \in Int
  BY <1>1, ActionEventIs
<1>6. EventsUntil(fs, at) = E \cup S
  BY <1>1, <1>2, <1>4, <1>5 DEF EventsUntil, Until
<1>7. OnTimeline(E \cup S)
  <2>1. OnTimeline(ActionEvents(A) \cup FillEvents(fs))
    BY <1>1, <1>3, EventsOnTimeline
  <2>2. E \cup S \in SUBSET (ActionEvents(A) \cup FillEvents(fs))
    BY <1>1, <1>2 DEF EventsUntil, Until
  <2>3. QED
    BY <2>1, <2>2, PartOfTimeline
<1>8. \A e \in E : \A f \in S : Before(e, f)
  <2>1. \A e \in E : e.time <= r /\ e.time \in Int
    BY <1>1, <1>4, <1>5 DEF EventsUntil
  <2>2. \A f \in S : f.time > r /\ f.time \in Int
    BY <1>2, <1>5 DEF Until
  <2>3. QED
    BY <2>1, <2>2 DEF Before
<1>9. LedgerAt(fs, at) = Folded(FALSE, rate, Folded(FALSE, rate, Opening, E), S)
  <2>1. LedgerAt(fs, at) = Folded(FALSE, rate, Opening, E \cup S)
    BY <1>1, <1>6, ReplayIsFold DEF LedgerAt
  <2>2. PICK start, side : start = Opening /\ side = FALSE
    OBVIOUS
  <2>3. Folded(side, rate, start, E \cup S) = Folded(side, rate, Folded(side, rate, start, E), S)
    BY <1>7, <1>8, FoldedJoin
  <2>4. QED
    BY <2>1, <2>2, <2>3
<1>10. Folded(FALSE, rate, Opening, E) = AccountOf(b)
  BY <1>1, ReplayIsFold DEF LedgerAt
<1>11. IsBooks(b) /\ Market(A) /\ S \in SUBSET ActionEvents(A)
  BY <1>1, <1>2 DEF Sound, Until
<1>12. Folded(FALSE, rate, AccountOf(b), S) = AccountOf(Folded(TRUE, 0, b, S))
  BY <1>11, ReplayFollowsBooks
<1>13. Advanced(b, at) = Folded(TRUE, 0, b, S)
  BY <1>1, CarriedIsFold DEF Advanced
<1>14. QED
  BY <1>9, <1>10, <1>12, <1>13

-----------------------------------------------------------------------------
(* Sums over the securities *)

\* The sum of a function is that over its domain.
LEMMA SumIs ==
  ASSUME NEW f
  PROVE  SumFunction(f) = SumFunctionOnSet(f, DOMAIN f)
  BY DEF SumFunction, SumFunctionOnSet, FoldFunction

\* Sums add up term by term.
LEMMA SumPlus ==
  ASSUME NEW S, IsFiniteSet(S), NEW f, NEW g, NEW h,
         \A y \in S : f[y] \in Int /\ g[y] \in Int /\ h[y] = f[y] + g[y]
  PROVE  SumFunctionOnSet(h, S) = SumFunctionOnSet(f, S) + SumFunctionOnSet(g, S)
<1> DEFINE Good == {s \in SUBSET S :
                      SumFunctionOnSet(h, s) = SumFunctionOnSet(f, s) + SumFunctionOnSet(g, s)}
<1>1. {} \in Good
  BY SumEmpty
<1>2. ASSUME NEW s \in Good, NEW x \in S \ s
      PROVE  s \cup {x} \in Good
  <2>1. /\ IsFiniteSet(s) /\ x \notin s
        /\ \A y \in s \cup {x} : f[y] \in Int
        /\ \A y \in s \cup {x} : g[y] \in Int
        /\ \A y \in s \cup {x} : h[y] \in Int
    BY FS_Subset
  <2>2. /\ SumFunctionOnSet(f, s \cup {x}) = SumFunctionOnSet(f, s) + f[x]
        /\ SumFunctionOnSet(g, s \cup {x}) = SumFunctionOnSet(g, s) + g[x]
        /\ SumFunctionOnSet(h, s \cup {x}) = SumFunctionOnSet(h, s) + h[x]
    <3>1. PICK U : U = s \cup {x}
      OBVIOUS
    <3>2. /\ IsFiniteSet(U) /\ x \in U /\ U \ {x} = s
          /\ \A y \in U : f[y] \in Int
          /\ \A y \in U : g[y] \in Int
          /\ \A y \in U : h[y] \in Int
      BY <2>1, <3>1, FS_AddElement
    <3> HIDE DEF Good
    <3>3. SumFunctionOnSet(f, U) = SumFunctionOnSet(f, s) + f[x]
      BY <3>2, SumWithout
    <3>4. SumFunctionOnSet(g, U) = SumFunctionOnSet(g, s) + g[x]
      BY <3>2, SumWithout
    <3>5. SumFunctionOnSet(h, U) = SumFunctionOnSet(h, s) + h[x]
      BY <3>2, SumWithout
    <3>6. QED
      BY <3>1, <3>3, <3>4, <3>5
  <2>3. SumFunctionOnSet(f, s) \in Int /\ SumFunctionOnSet(g, s) \in Int
    BY <2>1, SumType
  <2>4. SumFunctionOnSet(h, s) = SumFunctionOnSet(f, s) + SumFunctionOnSet(g, s)
    OBVIOUS
  <2>5. h[x] = f[x] + g[x] /\ f[x] \in Int /\ g[x] \in Int
    OBVIOUS
  <2>6. SumFunctionOnSet(h, s \cup {x})
          = SumFunctionOnSet(f, s \cup {x}) + SumFunctionOnSet(g, s \cup {x})
    <3> HIDE DEF Good
    <3>1. QED
      BY <2>2, <2>3, <2>4, <2>5
  <2>7. QED
    BY <2>6
<1>3. Good = SUBSET S
  <2>1. Good \in SUBSET (SUBSET S)
    OBVIOUS
  <2> HIDE DEF Good
  <2>2. QED
    BY <1>1, <1>2, <2>1, SubsetInduction
<1>4. QED
  BY <1>3

\* A common factor.
LEMMA SumTimes ==
  ASSUME NEW S, NEW c, NEW f, NEW h, IsFiniteSet(S), c \in Int,
         \A y \in S : f[y] \in Int /\ h[y] = c * f[y]
  PROVE  SumFunctionOnSet(h, S) = c * SumFunctionOnSet(f, S)
<1> DEFINE Good == {s \in SUBSET S : SumFunctionOnSet(h, s) = c * SumFunctionOnSet(f, s)}
<1>1. {} \in Good
  BY SumEmpty
<1>2. ASSUME NEW s \in Good, NEW x \in S \ s
      PROVE  s \cup {x} \in Good
  <2>1. /\ IsFiniteSet(s) /\ x \notin s
        /\ \A y \in s \cup {x} : f[y] \in Int /\ h[y] \in Int
    BY FS_Subset
  <2>2. /\ SumFunctionOnSet(f, s \cup {x}) = SumFunctionOnSet(f, s) + f[x]
        /\ SumFunctionOnSet(h, s \cup {x}) = SumFunctionOnSet(h, s) + h[x]
    <3> HIDE DEF Good
    <3>1. QED
      BY <2>1, SumAdd
  <2>3. PICK m, n : m = SumFunctionOnSet(f, s) /\ n = f[x]
    OBVIOUS
  <2>4. m \in Int /\ n \in Int
    BY <2>1, <2>3, SumType
  <2>5. SumFunctionOnSet(h, s \cup {x}) = c * m + c * n
    BY <2>2, <2>3
  <2>6. c * m + c * n = c * (m + n)
    BY <2>4
  <2>7. SumFunctionOnSet(h, s \cup {x}) = c * SumFunctionOnSet(f, s \cup {x})
    BY <2>2, <2>3, <2>5, <2>6
  <2>8. QED
    BY <2>7
<1>3. Good = SUBSET S
  <2>1. Good \in SUBSET (SUBSET S)
    OBVIOUS
  <2> HIDE DEF Good
  <2>2. QED
    BY <1>1, <1>2, <2>1, SubsetInduction
<1>4. QED
  BY <1>3

\* Terms that are not negative.
LEMMA SumNatural ==
  ASSUME NEW S, IsFiniteSet(S), NEW f, \A y \in S : f[y] \in Nat
  PROVE  SumFunctionOnSet(f, S) \in Nat
<1> DEFINE zero == [y \in S |-> 0]
<1>1. \A y \in S : zero[y] \in Int /\ f[y] \in Int /\ zero[y] <= f[y] /\ zero[y] = 0 * f[y]
  OBVIOUS
<1>2. SumFunctionOnSet(f, S) \in Int
  BY <1>1, SumType
<1>3. SumFunctionOnSet(zero, S) <= SumFunctionOnSet(f, S)
  <2> HIDE DEF zero
  <2>1. QED
    BY <1>1, SumMonotonic
<1>4. SumFunctionOnSet(zero, S) = 0 * SumFunctionOnSet(f, S)
  <2> HIDE DEF zero
  <2>1. QED
    BY <1>1, SumTimes
<1>5. QED
  <2> HIDE DEF zero
  <2>1. QED
    BY <1>2, <1>3, <1>4

\* The sleeves of signed notionals: their difference is the sum, together they are the sum of
\* the magnitudes.
LEMMA Sleeves ==
  ASSUME NEW S, IsFiniteSet(S), NEW f \in [S -> Int], NEW m, \A y \in S : m[y] = Magnitude(f[y])
  PROVE  /\ Long(f) \in Nat /\ Short(f) \in Nat
         /\ Long(f) - Short(f) = SumFunctionOnSet(f, S)
         /\ Long(f) + Short(f) = SumFunctionOnSet(m, S)
<1>0. PICK c \in Int : c = -1
  OBVIOUS
<1>1. PICK up, down, neg : /\ up = [s \in S |-> IF f[s] > 0 THEN f[s] ELSE 0]
                           /\ down = [s \in S |-> IF f[s] < 0 THEN -f[s] ELSE 0]
                           /\ neg = [s \in S |-> c * down[s]]
  OBVIOUS
<1>2. /\ \A y \in S : up[y] \in Nat /\ down[y] \in Nat /\ neg[y] \in Int /\ m[y] \in Int
      /\ \A y \in S : f[y] = up[y] + neg[y] /\ m[y] = up[y] + down[y] /\ neg[y] = c * down[y]
  BY <1>0, <1>1 DEF Magnitude
<1>3. Long(f) = SumFunctionOnSet(up, S) /\ Short(f) = SumFunctionOnSet(down, S)
  BY <1>1, SumIs DEF Long, Short
<1>4. SumFunctionOnSet(up, S) \in Nat /\ SumFunctionOnSet(down, S) \in Nat
  BY <1>2, SumNatural
<1>5. SumFunctionOnSet(neg, S) = c * SumFunctionOnSet(down, S)
  BY <1>2, SumTimes
<1>6. SumFunctionOnSet(f, S) = SumFunctionOnSet(up, S) + SumFunctionOnSet(neg, S)
  BY <1>2, SumPlus
<1>7. SumFunctionOnSet(m, S) = SumFunctionOnSet(up, S) + SumFunctionOnSet(down, S)
  BY <1>2, SumPlus
<1>8. QED
  BY <1>0, <1>3, <1>4, <1>5, <1>6, <1>7

-----------------------------------------------------------------------------
(* The fills of a batch *)

\* Division without remainder.
LEMMA ExactQuotient ==
  ASSUME NEW a \in Int, NEW b \in Int, b > 0, a % b = 0
  PROVE  a = b * (a \div b) /\ a \div b \in Int
  OBVIOUS

\* The quotient of a product.
LEMMA QuotientIs ==
  ASSUME NEW a \in Int, NEW b \in Int, NEW c \in Int, b > 0, a = b * c
  PROVE  a \div b = c /\ a % b = 0
  OBVIOUS

\* Prices are multiples of Scale.
LEMMA PriceIs ==
  ASSUME NEW p \in Prices
  PROVE  p \in Nat /\ p > 0 /\ \E u \in Nat : p = Scale * u
<1>1. p \in Nat /\ p > 0 /\ p % Scale = 0 /\ Scale \in Nat /\ Scale > 0
  BY AccountAssumption, FundingAssumption
<1>2. PICK sc, u : sc = Scale /\ u = p \div sc
  OBVIOUS
<1>3. p = sc * u /\ u \in Int
  BY <1>1, <1>2, ExactQuotient
<1>4. u >= 0
  <2>1. ASSUME u < 0 PROVE FALSE
    <3>1. sc * u <= 0
      BY <1>1, <1>2, <1>3, <2>1
    <3>2. QED
      BY <1>1, <1>3, <3>1
  <2>2. QED
    BY <1>3, <2>1
<1>5. QED
  BY <1>1, <1>2, <1>3, <1>4

\* A plan in quantities, with a price for whatever it trades.
Orderable(plan) ==
  /\ clock \in Int
  /\ books.holdings \in [Securities -> Int]
  /\ plan.quantity \in [Securities -> Int]
  /\ \A s \in Securities : TradedBy(plan, s) # 0 => quotes[s] \in Prices

TradedSet(plan) == {s \in Securities : TradedBy(plan, s) # 0}

\* What a batch pays for every security.
Change(plan) ==
  [s \in Securities |-> IF TradedBy(plan, s) = 0 THEN 0 ELSE TradedBy(plan, s) * quotes[s]]

StagedIn(plan, order, n) ==
  /\ n \in Nat /\ order \in [1 .. n -> Securities]
  /\ \A i, j \in 1 .. n : order[i] = order[j] => i = j
  /\ {order[i] : i \in 1 .. n} = TradedSet(plan)
  /\ StagedFills(plan) =
       [i \in 1 .. n |-> [security |-> order[i], quantity |-> TradedBy(plan, order[i]),
                          price |-> quotes[order[i]], time |-> clock]]

\* The securities that are traded are each filled once, in some order.
LEMMA StagedInOrder ==
  ASSUME NEW plan
  PROVE  \E order, n : StagedIn(plan, order, n)
<1>1. PICK T, n : T = TradedSet(plan) /\ n = Cardinality(T)
  OBVIOUS
<1>2. IsFiniteSet(T) /\ n \in Nat
  BY <1>1, AccountAssumption, FS_Subset, FS_CardinalityType DEF TradedSet
<1>3. PICK bij \in Bijection(1 .. n, T) : TRUE
  BY <1>1, <1>2, FS_CardinalityType DEF ExistsBijection
<1>4. bij \in [1 .. n -> T] /\ Range(bij) = T
  BY <1>3 DEF Bijection, Surjection, Range
<1>5. PICK order : order = CHOOSE f \in [1 .. n -> T] : Range(f) = T
  OBVIOUS
<1>6. order \in [1 .. n -> T] /\ Range(order) = T
  BY <1>4, <1>5
<1>7. order \in Surjection(1 .. n, T)
  BY <1>6 DEF Surjection, Range
<1>8. Cardinality(1 .. n) = n /\ IsFiniteSet(1 .. n)
  BY <1>2, FS_Interval
<1>9. order \in Injection(1 .. n, T)
  BY <1>1, <1>7, <1>8, FS_SurjSameCardinalityImpliesInj
<1>10. \A i, j \in 1 .. n : order[i] = order[j] => i = j
  BY <1>9 DEF Injection, IsInjective
<1>11. {order[i] : i \in 1 .. n} = T /\ order \in [1 .. n -> Securities]
  BY <1>1, <1>6 DEF Range, TradedSet
<1>12. StagedFills(plan) =
         [i \in 1 .. n |-> [security |-> order[i], quantity |-> TradedBy(plan, order[i]),
                            price |-> quotes[order[i]], time |-> clock]]
  <2>1. T = {s \in Securities : TradedBy(plan, s) # 0}
    BY <1>1 DEF TradedSet
  <2>2. DOMAIN order = 1 .. n
    BY <1>6
  <2>3. order = CHOOSE f \in [1 .. Cardinality(T) -> T] : Range(f) = T
    BY <1>1, <1>5
  <2>4. StagedFills(plan) =
          [i \in DOMAIN order |-> [security |-> order[i], quantity |-> TradedBy(plan, order[i]),
                                   price |-> quotes[order[i]], time |-> clock]]
    BY <2>1, <2>3 DEF StagedFills
  <2>5. QED
    BY <2>2, <2>4
<1>13. QED
  BY <1>1, <1>2, <1>10, <1>11, <1>12 DEF StagedIn

\* Each fill has a quantity and a price that is a multiple of Scale.
LEMMA StagedFill ==
  ASSUME NEW plan, Orderable(plan), NEW order, NEW n, StagedIn(plan, order, n), NEW i \in 1 .. n
  PROVE  LET fill == StagedFills(plan)[i] IN
         /\ fill \in Fill /\ fill.security = order[i] /\ fill.time = clock
         /\ fill.quantity = TradedBy(plan, order[i]) /\ fill.price = quotes[order[i]]
         /\ order[i] \in TradedSet(plan) /\ fill.quantity \in Int /\ fill.price \in Nat
         /\ \E u \in Nat : fill.price = Scale * u
         /\ fill.quantity * fill.price = Change(plan)[order[i]]
<1>1. PICK fill, s : fill = StagedFills(plan)[i] /\ s = order[i]
  OBVIOUS
<1>2. fill = [security |-> s, quantity |-> TradedBy(plan, s), price |-> quotes[s], time |-> clock]
  BY <1>1 DEF StagedIn
<1>3. /\ fill.security = s /\ fill.quantity = TradedBy(plan, s) /\ fill.price = quotes[s]
      /\ fill.time = clock
  BY <1>2
<1>4. s \in TradedSet(plan) /\ s \in Securities /\ TradedBy(plan, s) # 0
  BY <1>1 DEF StagedIn, TradedSet
<1>5. quotes[s] \in Prices /\ clock \in Int
  BY <1>4 DEF Orderable
<1>6. quotes[s] \in Nat
  BY <1>5, PriceIs
<1>7. TradedBy(plan, s) \in Int
  BY <1>4 DEF Orderable, TradedBy
<1>8. fill \in Fill
  BY <1>2, <1>4, <1>5, <1>6, <1>7 DEF Fill
<1>9. \E u \in Nat : quotes[s] = Scale * u
  BY <1>5, PriceIs
<1>10. TradedBy(plan, s) * quotes[s] = Change(plan)[s]
  BY <1>4 DEF Change
<1>11. QED
  BY <1>1, <1>3, <1>4, <1>6, <1>7, <1>8, <1>9, <1>10

\* The fills of a batch pay for its changes, whatever the order.
LEMMA StagedSums ==
  ASSUME NEW plan, Orderable(plan), NEW m, \A s \in Securities : m[s] = Magnitude(Change(plan)[s])
  PROVE  LET traded == Traded(StagedFills(plan)) IN
         /\ Long(traded) \in Nat /\ Short(traded) \in Nat
         /\ Long(traded) - Short(traded) = SumFunctionOnSet(Change(plan), Securities)
         /\ Long(traded) + Short(traded) = SumFunctionOnSet(m, Securities)
<1>1. PICK order, n : StagedIn(plan, order, n)
  BY StagedInOrder
<1>2. PICK T, c, t, z : /\ T = TradedSet(plan) /\ c = Change(plan)
                        /\ t = Traded(StagedFills(plan))
                        /\ z = [i \in 1 .. n |-> Magnitude(t[i])]
  OBVIOUS
<1>3. n \in Nat /\ IsFiniteSet(1 .. n) /\ IsFiniteSet(Securities) /\ T \in SUBSET Securities
  <2>1. n \in Nat
    BY <1>1 DEF StagedIn
  <2>2. IsFiniteSet(1 .. n)
    BY <2>1, FS_Interval
  <2>3. IsFiniteSet(Securities)
    BY AccountAssumption
  <2>4. QED
    BY <1>2, <2>1, <2>2, <2>3 DEF TradedSet
<1>4. c \in [Securities -> Int] /\ \A s \in Securities \ T : c[s] = 0
  <2>1. ASSUME NEW s \in Securities
        PROVE  c[s] \in Int /\ (s \notin T => c[s] = 0)
    <3>1. CASE TradedBy(plan, s) = 0
      BY <1>2, <3>1 DEF Change
    <3>2. CASE TradedBy(plan, s) # 0
      <4>1. quotes[s] \in Nat /\ TradedBy(plan, s) \in Int
        BY <3>2, PriceIs DEF Orderable, TradedBy
      <4>2. TradedBy(plan, s) * quotes[s] \in Int
        BY <4>1
      <4>3. QED
        BY <1>2, <3>2, <4>2 DEF Change, TradedSet
    <3>3. QED
      BY <3>1, <3>2
  <2>2. QED
    BY <1>2, <2>1 DEF Change
<1>5. DOMAIN StagedFills(plan) = 1 .. n
  BY <1>1 DEF StagedIn
<1>6. t \in [1 .. n -> Int] /\ \A i \in 1 .. n : t[i] = c[order[i]] /\ order[i] \in T
  <2>1. \A i \in 1 .. n : t[i] = c[order[i]] /\ order[i] \in T /\ c[order[i]] \in Int
    BY <1>1, <1>2, <1>3, <1>4, <1>5, StagedFill DEF Traded
  <2>2. QED
    BY <1>2, <1>5, <2>1 DEF Traded
<1>7. /\ Long(t) \in Nat /\ Short(t) \in Nat
      /\ Long(t) - Short(t) = SumFunctionOnSet(t, 1 .. n)
      /\ Long(t) + Short(t) = SumFunctionOnSet(z, 1 .. n)
  BY <1>2, <1>3, <1>6, Sleeves
<1>8. \A i, j \in 1 .. n : order[i] = order[j] => i = j
  BY <1>1 DEF StagedIn
<1>9. {order[i] : i \in 1 .. n} = T
  BY <1>1, <1>2 DEF StagedIn
<1>10. SumFunctionOnSet(t, 1 .. n) = SumFunctionOnSet(c, Securities)
  <2>0. \A i \in 1 .. n : t[i] \in Int /\ t[i] = c[order[i]]
    BY <1>6
  <2>1. SumFunctionOnSet(c, {order[i] : i \in 1 .. n}) = SumFunctionOnSet(t, 1 .. n)
    <3>1. PICK S : S = 1 .. n
      OBVIOUS
    <3>2. IsFiniteSet(S) /\ \A i, j \in S : order[i] = order[j] => i = j
      BY <1>3, <1>8, <3>1
    <3>3. \A i \in S : t[i] \in Int /\ t[i] = c[order[i]]
      BY <2>0, <3>1
    <3>4. SumFunctionOnSet(c, {order[i] : i \in S}) = SumFunctionOnSet(t, S)
      BY <3>2, <3>3, SumReindexed
    <3>5. QED
      BY <3>1, <3>4
  <2>2. SumFunctionOnSet(c, Securities) = SumFunctionOnSet(c, T)
    BY <1>3, <1>4, SumOfPart
  <2>3. QED
    BY <1>9, <2>1, <2>2
<1>11. SumFunctionOnSet(z, 1 .. n) = SumFunctionOnSet(m, Securities)
  <2>1. \A s \in Securities : m[s] \in Int /\ m[s] = Magnitude(c[s]) /\ (s \notin T => m[s] = 0)
    BY <1>2, <1>4 DEF Magnitude
  <2>2. \A i \in 1 .. n : z[i] \in Int /\ z[i] = m[order[i]]
    BY <1>2, <1>3, <1>6, <2>1
  <2>3. SumFunctionOnSet(m, {order[i] : i \in 1 .. n}) = SumFunctionOnSet(z, 1 .. n)
    <3>1. PICK S : S = 1 .. n
      OBVIOUS
    <3>2. PICK w : w = m
      OBVIOUS
    <3>3. \A i \in S : z[i] \in Int /\ z[i] = w[order[i]]
      BY <2>2, <3>1, <3>2
    <3>4. IsFiniteSet(S) /\ \A i, j \in S : order[i] = order[j] => i = j
      BY <1>3, <1>8, <3>1
    <3>5. SumFunctionOnSet(w, {order[i] : i \in S}) = SumFunctionOnSet(z, S)
      BY <3>3, <3>4, SumReindexed
    <3>6. QED
      BY <3>1, <3>2, <3>5
  <2>4. SumFunctionOnSet(m, Securities) = SumFunctionOnSet(m, T)
    BY <1>3, <2>1, SumOfPart
  <2>5. QED
    BY <1>9, <2>3, <2>4
<1>12. QED
  BY <1>2, <1>7, <1>10, <1>11

\* The balances after a batch.
LEMMA BooksAfterFields ==
  ASSUME NEW plan, IsBooks(books)
  PROVE  LET b == BooksAfter(plan)
             staged == StagedFills(plan)
         IN /\ IsBooks(b) /\ b.cash = CashAfter(staged) /\ b.fees = books.fees + Fee(staged)
            /\ b.holdings = plan.quantity /\ b.claims = books.claims
            /\ b.applied = books.applied /\ b.exited = books.exited /\ b.failure = books.failure
<1>1. PICK b, v, staged, loans :
        /\ b = BooksAfter(plan) /\ v = books /\ staged = StagedFills(plan)
        /\ loans = [s \in Securities |->
                     IF s \in Shorts(plan) THEN CHOOSE g \in Loans(s, plan.quantity[s]) : TRUE
                     ELSE Missing]
  OBVIOUS
<1>2. b = [v EXCEPT !.cash = CashAfter(staged), !.fees = @ + Fee(staged),
                    !.holdings = plan.quantity, !.loans = loans]
  BY <1>1 DEF BooksAfter
<1>3. PICK cash, fee, quantity :
        cash = CashAfter(staged) /\ fee = Fee(staged) /\ quantity = plan.quantity
  OBVIOUS
<1>4. b = [cash |-> cash, fees |-> v.fees + fee, holdings |-> quantity, loans |-> loans,
           claims |-> v.claims, applied |-> v.applied, exited |-> v.exited,
           failure |-> v.failure]
  BY <1>1, <1>2, <1>3 DEF IsBooks
<1>5. IsBooks(b)
  BY <1>4 DEF IsBooks
<1>6. QED
  BY <1>1, <1>3, <1>4, <1>5

\* A batch that may be traded on the books.
Tradable(plan) ==
  /\ Orderable(plan)
  /\ IsBooks(books) /\ Balanced(books) /\ books.failure = "none"
  /\ \A s \in books.exited \cap Securities : TradedBy(plan, s) = 0
  /\ spec.rate \in Nat

\* The fees of the fills are that of the batch: no rounding is lost between them.
LEMMA FeesAddUp ==
  ASSUME NEW plan, Tradable(plan), NEW order, NEW n, StagedIn(plan, order, n),
         NEW t, t = Traded(StagedFills(plan)),
         NEW fee, fee = [i \in 1 .. n |-> (Magnitude(t[i]) * spec.rate) \div Scale]
  PROVE  /\ t \in [1 .. n -> Int] /\ fee \in [1 .. n -> Int]
         /\ SumFunctionOnSet(fee, 1 .. n) = Fee(StagedFills(plan))
<1>1. PICK S, rate, unit : S = 1 .. n /\ rate = spec.rate /\ unit = Scale
  OBVIOUS
<1>2. /\ IsFiniteSet(S) /\ rate \in Nat /\ unit \in Nat /\ unit > 0
      /\ DOMAIN StagedFills(plan) = S
  <2>1. n \in Nat
    BY DEF StagedIn
  <2>2. IsFiniteSet(1 .. n)
    BY <2>1, FS_Interval
  <2>3. DOMAIN StagedFills(plan) = 1 .. n
    BY DEF StagedIn
  <2>4. QED
    BY <1>1, <2>2, <2>3, FundingAssumption DEF Tradable
<1>3. \A i \in S : t[i] \in Int /\ \E k \in Nat : Magnitude(t[i]) = unit * k
  <2>1. SUFFICES ASSUME NEW i \in S
                 PROVE  t[i] \in Int /\ \E k \in Nat : Magnitude(t[i]) = unit * k
    OBVIOUS
  <2>2. PICK q, p : q = StagedFills(plan)[i].quantity /\ p = StagedFills(plan)[i].price
    OBVIOUS
  <2>3. q \in Int /\ p \in Nat /\ \E u \in Nat : p = unit * u
    BY <1>1, <2>2, StagedFill DEF Tradable
  <2>4. PICK u \in Nat : p = unit * u
    BY <2>3
  <2>5. t[i] = q * p
    BY <1>2, <2>2 DEF Traded
  <2>6. t[i] = q * (unit * u)
    BY <2>4, <2>5
  <2>7. CASE q < 0
    <3>1. PICK k : k = (-q) * u
      OBVIOUS
    <3>2. k \in Nat
      BY <2>3, <2>7, <3>1
    <3>3. unit * k = -(q * (unit * u))
      BY <1>2, <2>3, <2>7, <3>1
    <3>4. unit * k >= 0
      BY <1>2, <3>2
    <3>5. t[i] \in Int /\ t[i] = -(unit * k)
      BY <1>2, <2>3, <2>6, <3>3
    <3>6. Magnitude(t[i]) = unit * k
      BY <1>2, <3>2, <3>4, <3>5 DEF Magnitude
    <3>7. QED
      BY <3>2, <3>5, <3>6
  <2>8. CASE q >= 0
    <3>1. PICK k : k = q * u
      OBVIOUS
    <3>2. k \in Nat
      BY <2>3, <2>8, <3>1
    <3>3. unit * k = q * (unit * u)
      BY <1>2, <2>3, <2>8, <3>1
    <3>4. unit * k >= 0 /\ unit * k \in Int
      BY <1>2, <3>2
    <3>5. Magnitude(t[i]) = unit * k
      BY <2>6, <3>3, <3>4 DEF Magnitude
    <3>6. QED
      BY <2>6, <3>2, <3>3, <3>4, <3>5
  <2>9. QED
    BY <2>3, <2>7, <2>8
<1>4. PICK k, z : /\ k = [i \in S |-> Magnitude(t[i]) \div unit]
                  /\ z = [i \in S |-> Magnitude(t[i])]
  OBVIOUS
<1>5. \A i \in S : k[i] \in Nat /\ Magnitude(t[i]) = unit * k[i] /\ fee[i] = rate * k[i]
  <2>1. SUFFICES ASSUME NEW i \in S
                 PROVE  k[i] \in Nat /\ Magnitude(t[i]) = unit * k[i] /\ fee[i] = rate * k[i]
    OBVIOUS
  <2>2. PICK j \in Nat : Magnitude(t[i]) = unit * j
    BY <1>3
  <2>3. k[i] = j
    <3>1. (unit * j) \div unit = j
      BY <1>2, QuotientIs
    <3>2. QED
      BY <1>4, <2>2, <3>1
  <2>4. (unit * j) * rate = unit * (rate * j) /\ rate * j \in Int
    BY <1>2
  <2>5. ((unit * j) * rate) \div unit = rate * j
    <3>1. PICK a, c : a = (unit * j) * rate /\ c = rate * j
      OBVIOUS
    <3>2. a \in Int /\ c \in Int /\ a = unit * c
      BY <1>2, <2>4, <3>1
    <3>3. a \div unit = c
      BY <1>2, <3>2, QuotientIs
    <3>4. QED
      BY <3>1, <3>3
  <2>6. fee[i] = ((unit * j) * rate) \div unit
    BY <1>1, <2>2
  <2>7. QED
    BY <2>2, <2>3, <2>5, <2>6
<1>6. t \in [S -> Int] /\ fee \in [S -> Int]
  <2>1. ASSUME NEW i \in S PROVE fee[i] \in Int
    <3>1. PICK j \in Nat : fee[i] = rate * j
      BY <1>5
    <3>2. QED
      BY <1>2, <3>1
  <2>2. QED
    BY <1>1, <1>2, <1>3, <2>1 DEF Traded
<1>7. SumFunctionOnSet(fee, S) = rate * SumFunctionOnSet(k, S)
  <2>1. \A i \in S : k[i] \in Int /\ fee[i] = rate * k[i]
    BY <1>5
  <2>2. IsFiniteSet(S) /\ rate \in Int
    BY <1>2
  <2>3. QED
    BY <2>1, <2>2, SumTimes
<1>8. SumFunctionOnSet(z, S) = unit * SumFunctionOnSet(k, S)
  <2>1. ASSUME NEW i \in S PROVE k[i] \in Int /\ z[i] = unit * k[i]
    <3>1. k[i] \in Nat /\ Magnitude(t[i]) = unit * k[i]
      BY <1>5
    <3>2. z[i] = Magnitude(t[i])
      BY <1>4
    <3>3. QED
      BY <3>1, <3>2
  <2>2. IsFiniteSet(S) /\ unit \in Int
    BY <1>2
  <2>3. QED
    BY <2>1, <2>2, SumTimes
<1>9. Long(t) + Short(t) = SumFunctionOnSet(z, S)
  BY <1>2, <1>4, <1>6, Sleeves
<1>10. PICK K : K = SumFunctionOnSet(k, S)
  OBVIOUS
<1>11. K \in Int
  BY <1>2, <1>5, <1>10, SumType
<1>12. ((Long(t) + Short(t)) * rate) \div unit = rate * K
  <2>1. PICK a, c : a = (unit * K) * rate /\ c = rate * K
    OBVIOUS
  <2>2. a \in Int /\ c \in Int /\ a = unit * c
    BY <1>2, <1>11, <2>1
  <2>3. a \div unit = c
    BY <1>2, <2>2, QuotientIs
  <2>4. (Long(t) + Short(t)) * rate = a
    BY <1>8, <1>9, <1>10, <2>1
  <2>5. QED
    BY <2>1, <2>3, <2>4
<1>13. Fee(StagedFills(plan)) = rate * K
  BY <1>1, <1>12 DEF Fee
<1>14. QED
  BY <1>1, <1>6, <1>7, <1>10, <1>13

\* The account after the first k fills of a batch.
AfterFills(plan, order, t, fee, k) ==
  [cash |-> books.cash - SumFunctionOnSet(t, 1 .. k) - SumFunctionOnSet(fee, 1 .. k),
   fees |-> books.fees + SumFunctionOnSet(fee, 1 .. k),
   positions |-> [s \in Securities |-> IF \E i \in 1 .. k : order[i] = s THEN plan.quantity[s]
                                       ELSE books.holdings[s]],
   claims |-> books.claims, exited |-> books.exited, failure |-> "none"]

StagedEvents(plan, m, k) == {Event(clock, 2, m + i, StagedFills(plan)[i]) : i \in 1 .. k}

\* The next fill.
LEMMA NextFill ==
  ASSUME NEW plan, Tradable(plan), NEW order, NEW n, StagedIn(plan, order, n),
         NEW t, t = Traded(StagedFills(plan)),
         NEW fee, fee = [i \in 1 .. n |-> (Magnitude(t[i]) * spec.rate) \div Scale],
         NEW k \in Nat, k + 1 <= n, NEW id
  PROVE  LedgerEvent(spec.rate, Event(clock, 2, id, StagedFills(plan)[k + 1]),
                     AfterFills(plan, order, t, fee, k)) = AfterFills(plan, order, t, fee, k + 1)
<1>1. PICK fill, i, s, rate : /\ fill = StagedFills(plan)[i] /\ i = k + 1 /\ s = order[i]
                              /\ rate = spec.rate
  OBVIOUS
<1>2. i \in 1 .. n /\ n \in Nat
  BY <1>1 DEF StagedIn
<1>3. /\ fill.security = s /\ fill.quantity = TradedBy(plan, s) /\ s \in TradedSet(plan)
      /\ s \in Securities /\ TradedBy(plan, s) # 0
  BY <1>1, <1>2, StagedFill DEF Tradable, TradedSet
<1>4. PICK cash, fees, positions, claims, exited :
        /\ cash = books.cash - SumFunctionOnSet(t, 1 .. k) - SumFunctionOnSet(fee, 1 .. k)
        /\ fees = books.fees + SumFunctionOnSet(fee, 1 .. k)
        /\ positions = [r \in Securities |-> IF \E j \in 1 .. k : order[j] = r
                                             THEN plan.quantity[r] ELSE books.holdings[r]]
        /\ claims = books.claims /\ exited = books.exited
  OBVIOUS
<1>5. PICK a : a = AfterFills(plan, order, t, fee, k)
  OBVIOUS
<1>6. a = [cash |-> cash, fees |-> fees, positions |-> positions, claims |-> claims,
           exited |-> exited, failure |-> "none"]
  BY <1>4, <1>5 DEF AfterFills
<1>7. s \notin exited
  BY <1>3, <1>4 DEF Tradable
<1>8. t[i] = fill.quantity * fill.price /\ fee[i] = (Magnitude(t[i]) * rate) \div Scale
  <2>1. DOMAIN StagedFills(plan) = 1 .. n
    BY DEF StagedIn
  <2>2. QED
    BY <1>1, <1>2, <2>1 DEF Traded
<1>9. LedgerEvent(rate, Event(clock, 2, id, fill), a) =
        [cash |-> cash - t[i] - fee[i], fees |-> fees + fee[i],
         positions |-> [positions EXCEPT ![s] = @ + fill.quantity],
         claims |-> claims, exited |-> exited, failure |-> "none"]
  <2>1. PICK e, q, notional, f : /\ e = Event(clock, 2, id, fill) /\ q = fill.quantity
                                 /\ notional = t[i] /\ f = fee[i]
    OBVIOUS
  <2>2. e.phase = 2 /\ e.body = fill
    BY <2>1 DEF Event
  <2>3. a.failure = "none" /\ a.exited = exited
    BY <1>6
  <2>4. LedgerEvent(rate, e, a) = LedgerFill(rate, fill, a)
    BY <2>2, <2>3 DEF LedgerEvent
  <2>5. PICK r : r = LedgerFill(rate, fill, a)
    OBVIOUS
  <2>6. r = [a EXCEPT !.positions[s] = @ + q, !.cash = @ - notional - f, !.fees = @ + f]
    BY <1>3, <1>7, <1>8, <2>1, <2>3, <2>5 DEF LedgerFill
  <2>7. r = [cash |-> cash - notional - f, fees |-> fees + f,
             positions |-> [positions EXCEPT ![s] = @ + q],
             claims |-> claims, exited |-> exited, failure |-> "none"]
    BY <1>6, <2>6
  <2>8. QED
    BY <2>1, <2>4, <2>5, <2>7
<1>10. /\ t \in [1 .. n -> Int] /\ fee \in [1 .. n -> Int]
  BY FeesAddUp
<1>11. /\ SumFunctionOnSet(t, 1 .. i) = SumFunctionOnSet(t, 1 .. k) + t[i]
       /\ SumFunctionOnSet(fee, 1 .. i) = SumFunctionOnSet(fee, 1 .. k) + fee[i]
       /\ SumFunctionOnSet(t, 1 .. k) \in Int /\ SumFunctionOnSet(fee, 1 .. k) \in Int
  <2>1. PICK U, V : U = 1 .. i /\ V = 1 .. k
    OBVIOUS
  <2>2. i \in U /\ U \ {i} = V /\ V \subseteq 1 .. n /\ U \subseteq 1 .. n
    BY <1>1, <1>2, <2>1
  <2>3. IsFiniteSet(U) /\ IsFiniteSet(V)
    BY <1>1, <2>1, FS_Interval
  <2>4. (\A y \in U : t[y] \in Int) /\ (\A y \in U : fee[y] \in Int)
    BY <1>10, <2>2
  <2>5. SumFunctionOnSet(t, U) = SumFunctionOnSet(t, V) + t[i]
    BY <2>2, <2>3, <2>4, SumWithout
  <2>6. SumFunctionOnSet(fee, U) = SumFunctionOnSet(fee, V) + fee[i]
    BY <2>2, <2>3, <2>4, SumWithout
  <2>7. (\A y \in V : t[y] \in Int) /\ (\A y \in V : fee[y] \in Int)
    BY <1>10, <2>2
  <2>8. SumFunctionOnSet(t, V) \in Int /\ SumFunctionOnSet(fee, V) \in Int
    BY <2>3, <2>7, SumType
  <2>9. QED
    BY <2>1, <2>5, <2>6, <2>8
<1>12. [positions EXCEPT ![s] = @ + fill.quantity]
         = [r \in Securities |-> IF \E j \in 1 .. i : order[j] = r
                                 THEN plan.quantity[r] ELSE books.holdings[r]]
  <2>1. \A j \in 1 .. k : order[j] # s
    <3>1. \A j \in 1 .. k : j \in 1 .. n /\ j # i
      BY <1>1, <1>2
    <3>2. QED
      BY <1>1, <1>2, <3>1 DEF StagedIn
  <2>2. positions[s] = books.holdings[s]
    BY <1>3, <1>4, <2>1
  <2>3. positions[s] + fill.quantity = plan.quantity[s]
    <3>1. books.holdings[s] \in Int /\ plan.quantity[s] \in Int
      BY <1>3 DEF Tradable, Orderable
    <3>2. fill.quantity = plan.quantity[s] - books.holdings[s]
      BY <1>3 DEF TradedBy
    <3>3. QED
      BY <2>2, <3>1, <3>2
  <2>4. ASSUME NEW r \in Securities, r # s
        PROVE  (\E j \in 1 .. i : order[j] = r) <=> (\E j \in 1 .. k : order[j] = r)
    <3>1. \A j \in 1 .. i : j = i \/ j \in 1 .. k
      BY <1>1
    <3>2. \A j \in 1 .. k : j \in 1 .. i
      BY <1>1
    <3>3. QED
      BY <1>1, <2>4, <3>1, <3>2
  <2>5. \E j \in 1 .. i : order[j] = s
    BY <1>1
  <2>6. QED
    BY <1>3, <1>4, <2>3, <2>4, <2>5
<1>13. books.cash \in Int /\ books.fees \in Int /\ t[i] \in Int /\ fee[i] \in Int
  BY <1>2, <1>10 DEF Tradable, Balanced
<1>14. /\ cash - t[i] - fee[i] = books.cash - SumFunctionOnSet(t, 1 .. i) - SumFunctionOnSet(fee, 1 .. i)
       /\ fees + fee[i] = books.fees + SumFunctionOnSet(fee, 1 .. i)
  <2>1. PICK tk, fk, ti, fi : /\ tk = SumFunctionOnSet(t, 1 .. k) /\ ti = t[i]
                              /\ fk = SumFunctionOnSet(fee, 1 .. k) /\ fi = fee[i]
    OBVIOUS
  <2>2. tk \in Int /\ fk \in Int /\ ti \in Int /\ fi \in Int
    BY <1>11, <1>13, <2>1
  <2>3. books.cash - tk - fk - ti - fi = books.cash - (tk + ti) - (fk + fi)
    BY <1>13, <2>2
  <2>4. books.fees + fk + fi = books.fees + (fk + fi)
    BY <1>13, <2>2
  <2>5. QED
    BY <1>4, <1>11, <2>1, <2>3, <2>4
<1>15. AfterFills(plan, order, t, fee, i) =
         [cash |-> cash - t[i] - fee[i], fees |-> fees + fee[i],
          positions |-> [positions EXCEPT ![s] = @ + fill.quantity],
          claims |-> claims, exited |-> exited, failure |-> "none"]
  BY <1>4, <1>12, <1>14 DEF AfterFills
<1>16. QED
  BY <1>1, <1>5, <1>9, <1>15

\* The ledger, replaying the fills of a batch on the account of the books, returns the account
\* of the books after the batch.
LEMMA LedgerFollowsBatch ==
  ASSUME NEW plan, Tradable(plan), NEW m \in Nat
  PROVE  Folded(FALSE, spec.rate, AccountOf(books),
                StagedEvents(plan, m, Len(StagedFills(plan)))) = AccountOf(BooksAfter(plan))
<1>1. PICK order, n : StagedIn(plan, order, n)
  BY StagedInOrder
<1>2. PICK t, fee : /\ t = Traded(StagedFills(plan))
                    /\ fee = [i \in 1 .. n |-> (Magnitude(t[i]) * spec.rate) \div Scale]
  OBVIOUS
<1>3. n \in Nat /\ DOMAIN StagedFills(plan) = 1 .. n /\ Len(StagedFills(plan)) = n
  <2>1. n \in Nat /\ DOMAIN StagedFills(plan) = 1 .. n
    BY <1>1 DEF StagedIn
  <2>2. \A i \in 1 .. n : StagedFills(plan)[i] \in Fill
    BY <1>1, StagedFill DEF Tradable
  <2>3. PICK fs : fs = StagedFills(plan)
    OBVIOUS
  <2>4. fs = [i \in 1 .. n |-> fs[i]]
    BY <1>1, <2>1, <2>3 DEF StagedIn
  <2>5. fs \in Seq(Fill)
    BY <2>1, <2>2, <2>3, <2>4
  <2>6. Len(fs) = n
    BY <2>1, <2>3, <2>5
  <2>7. QED
    BY <2>1, <2>3, <2>6
<1>4. PICK start : start = AccountOf(books)
  OBVIOUS
<1> DEFINE Booked(k) == Folded(FALSE, spec.rate, start, StagedEvents(plan, m, k))
                           = AfterFills(plan, order, t, fee, k)
           Good == {k \in Nat : k <= n => Booked(k)}
<1>5. \A k \in Nat : k <= n => OnTimeline(StagedEvents(plan, m, k))
  <2>1. SUFFICES ASSUME NEW k \in Nat, k <= n
                 PROVE  OnTimeline(StagedEvents(plan, m, k))
    OBVIOUS
  <2> DEFINE made == [i \in 1 .. k |-> Event(clock, 2, m + i, StagedFills(plan)[i])]
  <2>2. StagedEvents(plan, m, k) = {made[i] : i \in 1 .. k}
    BY DEF StagedEvents
  <2>3. IsFiniteSet(1 .. k)
    BY FS_Interval
  <2>4. IsFiniteSet(StagedEvents(plan, m, k))
    <3> HIDE DEF made
    <3>1. QED
      BY <2>2, <2>3, ImageIsFinite
  <2>5. clock \in Int
    BY DEF Tradable, Orderable
  <2>6. \A e \in StagedEvents(plan, m, k) :
          /\ e.time = clock /\ e.phase = 2 /\ e.id - m \in 1 .. k /\ e.id \in Int
          /\ e = Event(clock, 2, e.id, StagedFills(plan)[e.id - m])
    <3>1. SUFFICES ASSUME NEW e \in StagedEvents(plan, m, k)
                   PROVE  /\ e.time = clock /\ e.phase = 2 /\ e.id - m \in 1 .. k /\ e.id \in Int
                          /\ e = Event(clock, 2, e.id, StagedFills(plan)[e.id - m])
      OBVIOUS
    <3>2. PICK i \in 1 .. k : e = Event(clock, 2, m + i, StagedFills(plan)[i])
      BY DEF StagedEvents
    <3>3. e.time = clock /\ e.phase = 2 /\ e.id = m + i
      BY <3>2 DEF Event
    <3>4. e.id - m = i /\ e.id \in Int
      BY <3>3
    <3>5. QED
      BY <3>2, <3>3, <3>4
  <2>7. ASSUME NEW e \in StagedEvents(plan, m, k), NEW f \in StagedEvents(plan, m, k)
        PROVE  e = f \/ Before(e, f) \/ Before(f, e)
    <3>1. e.id = f.id => e = f
      BY <2>6
    <3>2. QED
      BY <2>5, <2>6, <3>1 DEF Before
  <2>8. QED
    BY <2>4, <2>5, <2>6, <2>7 DEF OnTimeline
<1>6. 0 \in Good
  <2>1. StagedEvents(plan, m, 0) = {}
    BY DEF StagedEvents
  <2>2. OnTimeline(StagedEvents(plan, m, 0))
    BY <1>3, <1>5
  <2>3. Folded(FALSE, spec.rate, start, StagedEvents(plan, m, 0)) = start
    BY <2>1, <2>2, FoldedStep
  <2>4. 1 .. 0 = {}
    OBVIOUS
  <2>5. SumFunctionOnSet(t, 1 .. 0) = 0 /\ SumFunctionOnSet(fee, 1 .. 0) = 0
    BY <2>4, SumEmpty
  <2>6. books.cash \in Int /\ books.fees \in Int /\ books.failure = "none"
        /\ books.holdings \in [Securities -> Int]
    BY DEF Tradable, Balanced
  <2>7. [s \in Securities |-> IF \E i \in 1 .. 0 : order[i] = s THEN plan.quantity[s]
                              ELSE books.holdings[s]] = books.holdings
    BY <2>4, <2>6
  <2>8. AfterFills(plan, order, t, fee, 0) = start
    BY <1>4, <2>5, <2>6, <2>7 DEF AfterFills, AccountOf
  <2>9. QED
    BY <2>3, <2>8
<1>7. ASSUME NEW k \in Good
      PROVE  k + 1 \in Good
  <2>0. k \in Nat
    OBVIOUS
  <2>1. SUFFICES ASSUME k + 1 <= n
                 PROVE  Booked(k + 1)
    <3> HIDE DEF Booked
    <3>1. QED
      BY <2>0
  <2>2. Booked(k)
    <3> HIDE DEF Booked
    <3>1. k <= n
      BY <1>3, <2>0, <2>1
    <3>2. QED
      BY <3>1
  <2>3. PICK e, S, R : /\ e = Event(clock, 2, m + (k + 1), StagedFills(plan)[k + 1])
                       /\ S = StagedEvents(plan, m, k + 1) /\ R = StagedEvents(plan, m, k)
    OBVIOUS
  <2>4. e.id = m + (k + 1) /\ e.time = clock /\ e.phase = 2 /\ clock \in Int
    BY <2>3 DEF Event, Tradable, Orderable
  <2>5. \A f \in R : f.id \in Int /\ f.id < m + (k + 1) /\ f.time = clock /\ f.phase = 2
    BY <2>0, <2>3 DEF StagedEvents, Event
  <2>6. S = R \cup {e}
    <3>1. 1 .. (k + 1) = (1 .. k) \cup {k + 1}
      BY <2>0
    <3>2. QED
      BY <2>3, <3>1 DEF StagedEvents
  <2>7. e \notin R
    BY <2>0, <2>4, <2>5
  <2>8. e \in S /\ S \ {e} = R /\ \A f \in S \ {e} : Before(f, e)
    BY <2>0, <2>4, <2>5, <2>6, <2>7 DEF Before
  <2>9. OnTimeline(S)
    BY <1>5, <2>0, <2>1, <2>3
  <2>10. Folded(FALSE, spec.rate, start, S) = LedgerEvent(spec.rate, e, Folded(FALSE, spec.rate, start, R))
    <3>1. PICK side, rate : side = FALSE /\ rate = spec.rate
      OBVIOUS
    <3>2. Folded(side, rate, start, S) = Turn(side, rate, e, Folded(side, rate, start, S \ {e}))
      BY <2>8, <2>9, FoldedLast
    <3>3. Folded(side, rate, start, S) = Turn(side, rate, e, Folded(side, rate, start, R))
      BY <2>8, <3>2
    <3>4. Turn(side, rate, e, Folded(side, rate, start, R))
            = LedgerEvent(rate, e, Folded(side, rate, start, R))
      BY <3>1 DEF Turn
    <3>5. QED
      BY <3>1, <3>3, <3>4
  <2>11. LedgerEvent(spec.rate, e, AfterFills(plan, order, t, fee, k)) = AfterFills(plan, order, t, fee, k + 1)
    BY <1>1, <1>2, <2>0, <2>1, <2>3, NextFill
  <2>12. QED
    BY <2>2, <2>3, <2>10, <2>11
<1>8. Good = Nat
  <2>1. Good \in SUBSET Nat
    OBVIOUS
  <2> HIDE DEF Good
  <2>2. QED
    BY <1>6, <1>7, <2>1, NatSetInduction
<1>9. Booked(n)
  <2>1. n \in Good
    BY <1>3, <1>8
  <2> HIDE DEF Booked
  <2>2. QED
    BY <1>3, <2>1
<1>10. AfterFills(plan, order, t, fee, n) = AccountOf(BooksAfter(plan))
  <2>1. PICK fs, b : fs = StagedFills(plan) /\ b = BooksAfter(plan)
    OBVIOUS
  <2>2. /\ b.cash = CashAfter(fs) /\ b.fees = books.fees + Fee(fs) /\ b.holdings = plan.quantity
        /\ b.claims = books.claims /\ b.exited = books.exited /\ b.failure = "none"
    BY <2>1, BooksAfterFields DEF Tradable
  <2>3. t \in [1 .. n -> Int] /\ SumFunctionOnSet(fee, 1 .. n) = Fee(fs)
    BY <1>1, <1>2, <2>1, FeesAddUp
  <2>4. Long(t) - Short(t) = SumFunctionOnSet(t, 1 .. n) /\ Long(t) \in Nat /\ Short(t) \in Nat
    <3>1. PICK z, S : S = 1 .. n /\ z = [i \in S |-> Magnitude(t[i])]
      OBVIOUS
    <3>2. IsFiniteSet(S)
      BY <1>3, <3>1, FS_Interval
    <3>3. t \in [S -> Int]
      BY <2>3, <3>1
    <3>4. \A y \in S : z[y] = Magnitude(t[y])
      BY <3>1
    <3>5. /\ Long(t) \in Nat /\ Short(t) \in Nat
          /\ Long(t) - Short(t) = SumFunctionOnSet(t, S)
      BY <3>2, <3>3, <3>4, Sleeves
    <3>6. QED
      BY <3>1, <3>5
  <2>5. books.cash \in Int /\ Fee(fs) \in Int
    <3>0. fee \in [1 .. n -> Int]
      BY <1>1, <1>2, FeesAddUp
    <3>1. fee \in [1 .. n -> Int] /\ IsFiniteSet(1 .. n)
      BY <1>3, <3>0, FS_Interval
    <3>2. SumFunctionOnSet(fee, 1 .. n) \in Int
      BY <3>1, SumType
    <3>3. QED
      BY <2>3, <3>2 DEF Tradable, Balanced
  <2>6. CashAfter(fs) = books.cash - SumFunctionOnSet(t, 1 .. n) - SumFunctionOnSet(fee, 1 .. n)
    <3>1. CashAfter(fs) = books.cash - Long(t) + Short(t) - Fee(fs)
      BY <1>2, <2>1 DEF CashAfter
    <3>2. PICK l, s, f : l = Long(t) /\ s = Short(t) /\ f = Fee(fs)
      OBVIOUS
    <3>3. books.cash - l + s - f = books.cash - (l - s) - f
      BY <2>4, <2>5, <3>2
    <3>4. QED
      BY <2>3, <2>4, <3>1, <3>2, <3>3
  <2>7. [s \in Securities |-> IF \E i \in 1 .. n : order[i] = s THEN plan.quantity[s]
                              ELSE books.holdings[s]] = plan.quantity
    <3>1. plan.quantity \in [Securities -> Int] /\ books.holdings \in [Securities -> Int]
      BY DEF Tradable, Orderable
    <3>2. \A s \in Securities : (\E i \in 1 .. n : order[i] = s) <=> TradedBy(plan, s) # 0
      <4>1. {order[i] : i \in 1 .. n} = {s \in Securities : TradedBy(plan, s) # 0}
        BY <1>1 DEF StagedIn, TradedSet
      <4>2. QED
        BY <4>1
    <3>3. \A s \in Securities : TradedBy(plan, s) = 0 => books.holdings[s] = plan.quantity[s]
      BY <3>1 DEF TradedBy
    <3>4. QED
      BY <3>1, <3>2, <3>3
  <2>8. QED
    BY <2>1, <2>2, <2>3, <2>6, <2>7 DEF AfterFills, AccountOf
<1>11. QED
  BY <1>3, <1>4, <1>9, <1>10

-----------------------------------------------------------------------------
(* Sequences: fills of batches, closings of observations *)

IsSequence(s) == s \in Seq(Range(s))

\* A sequence over some set is one over its own elements.
LEMMA SequenceIs ==
  ASSUME NEW T, NEW s \in Seq(T)
  PROVE  IsSequence(s)
<1>1. s = [i \in 1 .. Len(s) |-> s[i]] /\ Len(s) \in Nat /\ DOMAIN s = 1 .. Len(s)
  OBVIOUS
<1>2. \A i \in 1 .. Len(s) : s[i] \in Range(s)
  BY <1>1 DEF Range
<1>3. s \in Seq(Range(s))
  BY <1>1, <1>2
<1>4. QED
  BY <1>3 DEF IsSequence

\* One more element.
LEMMA AppendedIs ==
  ASSUME NEW s, IsSequence(s), NEW x
  PROVE  LET t == Append(s, x) IN
         /\ IsSequence(t) /\ Len(s) \in Nat /\ Len(t) = Len(s) + 1 /\ t # <<>>
         /\ DOMAIN s = 1 .. Len(s) /\ DOMAIN t = 1 .. Len(s) + 1
         /\ \A i \in 1 .. Len(s) : t[i] = s[i]
         /\ t[Len(s) + 1] = x
<1>1. PICK S, t : S = Range(s) \cup {x} /\ t = Append(s, x)
  OBVIOUS
<1>2. s \in Seq(S)
  <2>1. s \in Seq(Range(s))
    BY DEF IsSequence
  <2>2. s = [i \in 1 .. Len(s) |-> s[i]] /\ Len(s) \in Nat /\ \A i \in 1 .. Len(s) : s[i] \in Range(s)
    BY <2>1
  <2>3. \A i \in 1 .. Len(s) : s[i] \in S
    BY <1>1, <2>2
  <2>4. QED
    BY <2>2, <2>3
<1>3. x \in S
  BY <1>1
<1>4. /\ t \in Seq(S) /\ Len(s) \in Nat /\ Len(t) = Len(s) + 1
      /\ DOMAIN s = 1 .. Len(s) /\ DOMAIN t = 1 .. Len(s) + 1
      /\ \A i \in 1 .. Len(s) : t[i] = s[i]
      /\ t[Len(s) + 1] = x
  BY <1>1, <1>2, <1>3
<1>5. IsSequence(t) /\ t # <<>>
  BY <1>4, SequenceIs
<1>6. QED
  BY <1>1, <1>4, <1>5

FlatTable(ss, n, f) == f = [i \in 1 .. n |-> IF i = 1 THEN ss[i] ELSE f[i - 1] \o ss[i]]

\* There is a table of the concatenations of every length.
LEMMA FlatTableExists ==
  ASSUME NEW ss, NEW n \in Nat
  PROVE  \E f : FlatTable(ss, n, f)
<1> DEFINE Good == {m \in Nat : \E f : FlatTable(ss, m, f)}
<1>1. 0 \in Good
  <2>1. PICK none : none = [i \in 1 .. 0 |-> 0]
    OBVIOUS
  <2>2. none = [i \in 1 .. 0 |-> IF i = 1 THEN ss[i] ELSE none[i - 1] \o ss[i]]
    BY <2>1
  <2>3. QED
    BY <2>2 DEF FlatTable
<1>2. ASSUME NEW m \in Good PROVE m + 1 \in Good
  <2>0. m \in Nat /\ m + 1 \in Nat
    OBVIOUS
  <2>1. PICK f : f = [i \in 1 .. m |-> IF i = 1 THEN ss[i] ELSE f[i - 1] \o ss[i]]
    BY DEF FlatTable
  <2>2. PICK g : g = [i \in 1 .. m + 1 |-> IF i = 1 THEN ss[i] ELSE f[i - 1] \o ss[i]]
    OBVIOUS
  <2>3. \A i \in 1 .. m : g[i] = f[i]
    <3>1. SUFFICES ASSUME NEW i \in 1 .. m PROVE g[i] = f[i]
      OBVIOUS
    <3>2. i \in 1 .. m + 1
      BY <2>0
    <3>3. f[i] = IF i = 1 THEN ss[i] ELSE f[i - 1] \o ss[i]
      BY <2>1
    <3>4. g[i] = IF i = 1 THEN ss[i] ELSE f[i - 1] \o ss[i]
      BY <2>2, <3>2
    <3>5. QED
      BY <3>3, <3>4
  <2>4. \A i \in 1 .. m + 1 : i # 1 => g[i - 1] = f[i - 1]
    BY <2>0, <2>3
  <2>5. g = [i \in 1 .. m + 1 |-> IF i = 1 THEN ss[i] ELSE g[i - 1] \o ss[i]]
    BY <2>2, <2>4
  <2>6. FlatTable(ss, m + 1, g)
    BY <2>5 DEF FlatTable
  <2>7. QED
    BY <2>0, <2>6
<1>3. Good = Nat
  <2>1. Good \in SUBSET Nat
    OBVIOUS
  <2> HIDE DEF Good
  <2>2. QED
    BY <1>1, <1>2, <2>1, NatSetInduction
<1>4. QED
  BY <1>3

\* Tables agree where both are defined.
LEMMA FlatTablesAgree ==
  ASSUME NEW ss, NEW tt, NEW n \in Nat, \A i \in 1 .. n : tt[i] = ss[i],
         NEW f, FlatTable(ss, n, f), NEW m \in Nat, n <= m, NEW g, FlatTable(tt, m, g)
  PROVE  \A i \in 1 .. n : g[i] = f[i]
<1> DEFINE Good == {k \in Nat : k + 1 \in 1 .. n => g[k + 1] = f[k + 1]}
<1>0. /\ \A i \in 1 .. n : f[i] = IF i = 1 THEN ss[i] ELSE f[i - 1] \o ss[i]
      /\ \A i \in 1 .. m : g[i] = IF i = 1 THEN tt[i] ELSE g[i - 1] \o tt[i]
  <2>1. /\ f = [i \in 1 .. n |-> IF i = 1 THEN ss[i] ELSE f[i - 1] \o ss[i]]
        /\ g = [i \in 1 .. m |-> IF i = 1 THEN tt[i] ELSE g[i - 1] \o tt[i]]
    BY DEF FlatTable
  <2>2. QED
    BY <2>1
<1>1. 0 \in Good
  BY <1>0
<1>2. ASSUME NEW k \in Good PROVE k + 1 \in Good
  <2>0. k \in Nat /\ (k + 1) + 1 = k + 2 /\ (k + 2) - 1 = k + 1
    OBVIOUS
  <2>1. SUFFICES ASSUME k + 2 \in 1 .. n PROVE g[k + 2] = f[k + 2]
    BY <2>0
  <2>2. k + 1 \in 1 .. n /\ g[k + 1] = f[k + 1]
    BY <2>0, <2>1
  <2>3. f[k + 2] = f[k + 1] \o ss[k + 2] /\ g[k + 2] = g[k + 1] \o tt[k + 2]
    <3>1. k + 2 \in 1 .. n /\ k + 2 \in 1 .. m /\ k + 2 # 1
      BY <2>0, <2>1
    <3>2. QED
      BY <1>0, <2>0, <3>1
  <2>4. QED
    BY <2>1, <2>2, <2>3
<1>3. Good = Nat
  <2>1. Good \in SUBSET Nat
    OBVIOUS
  <2> HIDE DEF Good
  <2>2. QED
    BY <1>1, <1>2, <2>1, NatSetInduction
<1>4. \A i \in 1 .. n : i - 1 \in Nat /\ (i - 1) + 1 = i
  OBVIOUS
<1>5. \A k \in Nat : k + 1 \in 1 .. n => g[k + 1] = f[k + 1]
  BY <1>3
<1>6. QED
  BY <1>4, <1>5

\* One more part.
LEMMA FlattenAppend ==
  ASSUME NEW ss, IsSequence(ss), NEW T, NEW s \in Seq(T)
  PROVE  FlattenSeq(Append(ss, s)) = FlattenSeq(ss) \o s
<1>1. PICK tt, n : tt = Append(ss, s) /\ n = Len(ss)
  OBVIOUS
<1>2. n \in Nat /\ Len(tt) = n + 1 /\ tt[n + 1] = s /\ \A i \in 1 .. n : tt[i] = ss[i]
  BY <1>1, AppendedIs
<1>3. PICK g : g = CHOOSE h : FlatTable(tt, n + 1, h)
  OBVIOUS
<1>4. FlatTable(tt, n + 1, g)
  <2>1. n + 1 \in Nat
    BY <1>2
  <2>2. \E h : FlatTable(tt, n + 1, h)
    BY <2>1, FlatTableExists
  <2>3. QED
    BY <1>3, <2>2
<1>5. FlattenSeq(tt) = g[n + 1]
  BY <1>2, <1>3 DEF FlattenSeq, FlatTable
<1>6. CASE n = 0
  <2>0. ss \in Seq(Range(ss)) /\ Len(ss) = 0
    BY <1>1, <1>6 DEF IsSequence
  <2>1. ss = <<>>
    BY <2>0
  <2>2. FlattenSeq(ss) = <<>>
    BY <2>1 DEF FlattenSeq
  <2>3. g[1] = s
    BY <1>2, <1>4, <1>6 DEF FlatTable
  <2>4. QED
    BY <1>1, <1>5, <1>6, <2>2, <2>3
<1>7. CASE n # 0
  <2>1. PICK f : f = CHOOSE h : FlatTable(ss, n, h)
    OBVIOUS
  <2>2. FlatTable(ss, n, f)
    BY <1>2, <2>1, FlatTableExists
  <2>3. FlattenSeq(ss) = f[n]
    BY <1>1, <1>7, <2>1 DEF FlattenSeq, FlatTable
  <2>4. g[n] = f[n]
    BY <1>2, <1>4, <1>7, <2>2, FlatTablesAgree
  <2>5. g[n + 1] = g[n] \o s
    <3>1. g = [i \in 1 .. n + 1 |-> IF i = 1 THEN tt[i] ELSE g[i - 1] \o tt[i]]
      BY <1>4 DEF FlatTable
    <3>2. n + 1 \in 1 .. n + 1 /\ n + 1 # 1 /\ (n + 1) - 1 = n
      BY <1>2, <1>7
    <3>3. g[n + 1] = g[(n + 1) - 1] \o tt[n + 1]
      BY <3>1, <3>2
    <3>4. QED
      BY <1>2, <3>2, <3>3
  <2>6. QED
    BY <1>1, <1>5, <2>3, <2>4, <2>5
<1>8. QED
  BY <1>6, <1>7

ClosingOf(row) == [at |-> row.at, nav |-> row.nav]

KeptAt(rows, kept, n) ==
  IF n = 0 THEN <<>>
  ELSE IF rows[n].phase \in ClosingPhases THEN Append(kept[n - 1], ClosingOf(rows[n]))
  ELSE kept[n - 1]

KeptTable(rows, n, kept) == kept = [k \in 0 .. n |-> KeptAt(rows, kept, k)]

\* There is a table of the closings of every prefix.
LEMMA KeptTableExists ==
  ASSUME NEW rows, NEW n \in Nat
  PROVE  \E kept : KeptTable(rows, n, kept)
<1> DEFINE Good == {m \in Nat : \E kept : KeptTable(rows, m, kept)}
<1>1. 0 \in Good
  <2>1. PICK none : none = [k \in 0 .. 0 |-> <<>>]
    OBVIOUS
  <2>2. \A k \in 0 .. 0 : KeptAt(rows, none, k) = <<>>
    BY DEF KeptAt
  <2>3. none = [k \in 0 .. 0 |-> KeptAt(rows, none, k)]
    BY <2>1, <2>2
  <2>4. KeptTable(rows, 0, none)
    BY <2>3 DEF KeptTable
  <2>5. QED
    BY <2>4
<1>2. ASSUME NEW m \in Good PROVE m + 1 \in Good
  <2>0. m \in Nat /\ m + 1 \in Nat
    OBVIOUS
  <2>1. PICK f : f = [k \in 0 .. m |-> KeptAt(rows, f, k)]
    BY DEF KeptTable
  <2>2. PICK g : g = [k \in 0 .. m + 1 |-> KeptAt(rows, f, k)]
    OBVIOUS
  <2>3. \A k \in 0 .. m : g[k] = f[k]
    <3>1. SUFFICES ASSUME NEW k \in 0 .. m PROVE g[k] = f[k]
      OBVIOUS
    <3>2. k \in 0 .. m + 1
      BY <2>0
    <3>3. f[k] = KeptAt(rows, f, k)
      BY <2>1
    <3>4. g[k] = KeptAt(rows, f, k)
      BY <2>2, <3>2
    <3>5. QED
      BY <3>3, <3>4
  <2>4. \A k \in 0 .. m + 1 : KeptAt(rows, g, k) = KeptAt(rows, f, k)
    <3>1. SUFFICES ASSUME NEW k \in 0 .. m + 1 PROVE KeptAt(rows, g, k) = KeptAt(rows, f, k)
      OBVIOUS
    <3>2. CASE k = 0
      BY <3>2 DEF KeptAt
    <3>3. CASE k # 0
      <4>1. k - 1 \in 0 .. m
        BY <2>0, <3>3
      <4>2. g[k - 1] = f[k - 1]
        BY <2>3, <4>1
      <4>3. QED
        BY <3>3, <4>2 DEF KeptAt
    <3>4. QED
      BY <3>2, <3>3
  <2>5. g = [k \in 0 .. m + 1 |-> KeptAt(rows, g, k)]
    BY <2>2, <2>4
  <2>6. KeptTable(rows, m + 1, g)
    BY <2>5 DEF KeptTable
  <2>7. QED
    BY <2>0, <2>6
<1>3. Good = Nat
  <2>1. Good \in SUBSET Nat
    OBVIOUS
  <2> HIDE DEF Good
  <2>2. QED
    BY <1>1, <1>2, <2>1, NatSetInduction
<1>4. QED
  BY <1>3

\* Tables agree where both are defined.
LEMMA KeptTablesAgree ==
  ASSUME NEW rows, NEW more, NEW n \in Nat, \A i \in 1 .. n : more[i] = rows[i],
         NEW f, KeptTable(rows, n, f), NEW m \in Nat, n <= m, NEW g, KeptTable(more, m, g)
  PROVE  \A k \in 0 .. n : g[k] = f[k]
<1> DEFINE Good == {k \in Nat : k <= n => g[k] = f[k]}
<1>0. /\ \A k \in 0 .. n : f[k] = KeptAt(rows, f, k)
      /\ \A k \in 0 .. m : g[k] = KeptAt(more, g, k)
  <2>1. f = [k \in 0 .. n |-> KeptAt(rows, f, k)] /\ g = [k \in 0 .. m |-> KeptAt(more, g, k)]
    BY DEF KeptTable
  <2>2. QED
    BY <2>1
<1>1. 0 \in Good
  <2>1. f[0] = KeptAt(rows, f, 0) /\ g[0] = KeptAt(more, g, 0)
    BY <1>0
  <2>2. KeptAt(rows, f, 0) = <<>> /\ KeptAt(more, g, 0) = <<>>
    BY DEF KeptAt
  <2>3. QED
    BY <2>1, <2>2
<1>2. ASSUME NEW k \in Good PROVE k + 1 \in Good
  <2>0. k \in Nat /\ (k + 1) - 1 = k
    OBVIOUS
  <2>1. SUFFICES ASSUME k + 1 <= n PROVE g[k + 1] = f[k + 1]
    BY <2>0
  <2>2. g[k] = f[k] /\ more[k + 1] = rows[k + 1] /\ k + 1 # 0
    BY <2>0, <2>1
  <2>3. k + 1 \in 0 .. n /\ k + 1 \in 0 .. m
    BY <2>0, <2>1
  <2>4. f[k + 1] = KeptAt(rows, f, k + 1) /\ g[k + 1] = KeptAt(more, g, k + 1)
    BY <1>0, <2>3
  <2>5. KeptAt(rows, f, k + 1) = KeptAt(more, g, k + 1)
    BY <2>0, <2>2 DEF KeptAt
  <2>6. QED
    BY <2>4, <2>5
<1>3. Good = Nat
  <2>1. Good \in SUBSET Nat
    OBVIOUS
  <2> HIDE DEF Good
  <2>2. QED
    BY <1>1, <1>2, <2>1, NatSetInduction
<1>4. \A k \in Nat : k <= n => g[k] = f[k]
  BY <1>3
<1>5. QED
  BY <1>4

\* One more observation.
LEMMA ClosingsAppend ==
  ASSUME NEW rows, IsSequence(rows), NEW row
  PROVE  Closings(Append(rows, row)) =
           IF row.phase \in ClosingPhases THEN Append(Closings(rows), ClosingOf(row))
           ELSE Closings(rows)
<1>1. PICK more, n : more = Append(rows, row) /\ n = Len(rows)
  OBVIOUS
<1>2. n \in Nat /\ Len(more) = n + 1 /\ more[n + 1] = row /\ \A i \in 1 .. n : more[i] = rows[i]
  BY <1>1, AppendedIs
<1>3. PICK f, g : /\ f = CHOOSE kept : KeptTable(rows, n, kept)
                  /\ g = CHOOSE kept : KeptTable(more, n + 1, kept)
  OBVIOUS
<1>4. KeptTable(rows, n, f)
  BY <1>2, <1>3, KeptTableExists
<1>5. KeptTable(more, n + 1, g)
  <2>1. n + 1 \in Nat
    BY <1>2
  <2>2. \E kept : KeptTable(more, n + 1, kept)
    BY <2>1, KeptTableExists
  <2>3. QED
    BY <1>3, <2>2
<1>6. Closings(rows) = f[n] /\ Closings(more) = g[n + 1]
  BY <1>1, <1>2, <1>3 DEF Closings, KeptTable, KeptAt, ClosingOf
<1>7. g[n] = f[n]
  <2>1. n + 1 \in Nat /\ n <= n + 1 /\ n \in 0 .. n
    BY <1>2
  <2>2. QED
    BY <1>2, <1>4, <1>5, <2>1, KeptTablesAgree
<1>8. g[n + 1] = KeptAt(more, g, n + 1)
  <2>1. g = [k \in 0 .. n + 1 |-> KeptAt(more, g, k)] /\ n + 1 \in 0 .. n + 1
    BY <1>2, <1>5 DEF KeptTable
  <2>2. QED
    BY <2>1
<1>9. KeptAt(more, g, n + 1) = IF row.phase \in ClosingPhases THEN Append(g[n], ClosingOf(row))
                               ELSE g[n]
  <2>1. n + 1 # 0 /\ (n + 1) - 1 = n
    BY <1>2
  <2>2. QED
    BY <1>2, <2>1 DEF KeptAt
<1>10. QED
  BY <1>1, <1>6, <1>7, <1>8, <1>9

\* Nothing was observed, nothing closed.
LEMMA ClosingsNone ==
  Closings(<<>>) = <<>>
<1>1. PICK none, f : none = <<>> /\ f = CHOOSE kept : KeptTable(none, 0, kept)
  OBVIOUS
<1>2. KeptTable(none, 0, f)
  BY <1>1, KeptTableExists
<1>3. Closings(none) = f[0]
  BY <1>1 DEF Closings, KeptTable, KeptAt, ClosingOf
<1>4. f[0] = KeptAt(none, f, 0)
  <2>1. f = [k \in 0 .. 0 |-> KeptAt(none, f, k)] /\ 0 \in 0 .. 0
    BY <1>2 DEF KeptTable
  <2>2. QED
    BY <2>1
<1>5. QED
  BY <1>1, <1>3, <1>4 DEF KeptAt

-----------------------------------------------------------------------------
(* An observation *)

\* Nothing is due to books carried on already.
LEMMA AdvancedNothing ==
  ASSUME NEW b, NEW at, Due(b, at) = {}
  PROVE  Advanced(b, at) = b
<1>1. OnTimeline({})
  BY FS_EmptySet DEF OnTimeline
<1>2. PICK none : none = Due(b, at)
  OBVIOUS
<1>3. Folded(TRUE, 0, b, none) = b
  BY <1>1, <1>2, FoldedStep
<1>4. QED
  BY <1>2, <1>3, CarriedIsFold DEF Advanced

\* The events of an account without actions are its fills.
LEMMA FillsAlone ==
  ASSUME spec.actions = {}, NEW fs, NEW at, FilledBy(fs, at)
  PROVE  EventsUntil(fs, at) = FillEvents(fs)
<1>1. ActionEvents(spec.actions) = {}
  BY DEF ActionEvents
<1>2. \A e \in FillEvents(fs) : e.time <= at
  BY DEF FilledBy, FillEvents, Event
<1>3. QED
  BY <1>1, <1>2 DEF EventsUntil

\* The ledger answers with the account it would replay.
LEMMA LedgerForIs ==
  ASSUME NEW fs, NEW at,
         spec.actions = {} /\ ledger # Missing =>
           /\ FilledBy(ledger.fills, at)
           /\ ledger.account = Replay(spec.rate, FillEvents(ledger.fills))
  PROVE  LedgerFor(fs, at) = LedgerAt(fs, at)
<1>1. CASE spec.actions # {} \/ ledger = Missing \/ fs # ledger.fills
  BY <1>1 DEF LedgerFor
<1>2. CASE ~ (spec.actions # {} \/ ledger = Missing \/ fs # ledger.fills)
  <2>1. LedgerFor(fs, at) = ledger.account /\ fs = ledger.fills
    BY <1>2 DEF LedgerFor
  <2>2. EventsUntil(fs, at) = FillEvents(fs)
    BY <1>2, <2>1, FillsAlone
  <2>3. QED
    BY <1>2, <2>1, <2>2 DEF LedgerAt
<1>3. QED
  BY <1>1, <1>2

\* The self-checks of the simulator.
Disagreements ==
  {"MONTHLY_LEDGER_DISAGREEMENT", "MONTHLY_FUNDED_BATCH_DISAGREEMENT", "FUNDING_SOLUTION_INVALID"}

\* What an observation of books whose account the ledger returns comes to.
LEMMA ObservationIs ==
  ASSUME NEW b0, NEW fs, NEW at, NEW phase, NEW b, b = Advanced(b0, at),
         b.failure \in ActionRefusals, IsBooks(b),
         LedgerFor(fs, at) = AccountOf(b)
  PROVE  LET o == Observation(b0, fs, at, phase) IN
         /\ o.books = b /\ o.account = AccountOf(b)
         /\ o.row = [at |-> at, phase |-> phase, account |-> AccountOf(b),
                     status |-> CollateralStatus(b.cash, Notional(b), b.claims),
                     nav |-> NetAssetValue(b.cash, Notional(b), b.claims)]
         /\ o.failure \notin Disagreements
         /\ o.retained = (b.failure = "none" /\ \A s \in Held(b) : quotes'[s] # Missing)
         /\ o.failure = "none" =>
              o.retained /\ CollateralStatus(b.cash, Notional(b), b.claims) = "funded"
<1>1. PICK o, account, status, uncovered, error :
        /\ o = Observation(b0, fs, at, phase)
        /\ account = AccountOf(b)
        /\ status = CollateralStatus(b.cash, Notional(b), b.claims)
        /\ uncovered = \E s \in Held(b) : b.holdings[s] < 0 /\ ~Covered(b, s, at)
        /\ error = IF b.failure # "none" THEN b.failure
                   ELSE IF \E s \in Held(b) : quotes'[s] = Missing
                   THEN "MONTHLY_QUOTE_MISSING_OR_UNAVAILABLE"
                   ELSE IF account.failure # "none" THEN account.failure
                   ELSE IF ~Agree(b, account) THEN "MONTHLY_LEDGER_DISAGREEMENT"
                   ELSE "none"
  OBVIOUS
<1>2. o = [books |-> b, account |-> account, retained |-> error = "none",
           failure |-> IF error # "none" THEN error
                       ELSE IF status # "funded" THEN status
                       ELSE IF uncovered THEN "MONTHLY_BORROW_EXPIRED_OR_INSUFFICIENT"
                       ELSE "none",
           row |-> [at |-> at, phase |-> phase, account |-> account, status |-> status,
                    nav |-> NetAssetValue(b.cash, Notional(b), b.claims)]]
  BY <1>1 DEF Observation
<1>3. Agree(b, account) /\ account.failure = b.failure
  BY <1>1 DEF AccountOf, Agree
<1>4. /\ error = "none" <=> b.failure = "none" /\ \A s \in Held(b) : quotes'[s] # Missing
      /\ error \notin Disagreements
  BY <1>1, <1>3 DEF ActionRefusals, Disagreements
<1>5. status \notin Disagreements
  BY <1>1 DEF CollateralStatus, Disagreements
<1>6. /\ o.books = b /\ o.account = account /\ o.retained = (error = "none")
      /\ o.row = [at |-> at, phase |-> phase, account |-> account, status |-> status,
                  nav |-> NetAssetValue(b.cash, Notional(b), b.claims)]
      /\ o.failure = IF error # "none" THEN error
                     ELSE IF status # "funded" THEN status
                     ELSE IF uncovered THEN "MONTHLY_BORROW_EXPIRED_OR_INSUFFICIENT"
                     ELSE "none"
  BY <1>2
<1>7. o.failure \notin Disagreements
  BY <1>4, <1>5, <1>6 DEF Disagreements
<1>8. o.failure = "none" => error = "none" /\ status = "funded"
  <2>1. error # "none" => o.failure # "none"
    BY <1>6
  <2>2. error = "none" /\ status # "funded" => o.failure = status
    BY <1>6
  <2>3. status # "none"
    BY <1>1 DEF CollateralStatus
  <2>4. QED
    BY <2>1, <2>2, <2>3
<1>9. o.retained = (b.failure = "none" /\ \A s \in Held(b) : quotes'[s] # Missing)
  BY <1>4, <1>6
<1>10. QED
  BY <1>1, <1>4, <1>6, <1>7, <1>8, <1>9

-----------------------------------------------------------------------------
(* The plan of a batch *)

ValidRequest(q) ==
  /\ q.nav \in Int /\ q.rate \in Nat
  /\ q.old \in [Securities -> Int] /\ q.weight \in [Securities -> Int]

SlopeBound(q) == q.rate * (Long(q.weight) + Short(q.weight)) < Scale * Unit

Signed(sign, f) == [s \in Securities |-> sign[s] * f[s]]

SideOf(q, interval) ==
  LET middle == Middle(interval[1], interval[2]) IN
  [s \in Securities |-> IF middle[1] * q.weight[s] >= q.old[s] * Unit * middle[2] THEN 1 ELSE -1]

\* A sum with signs is no larger than the sleeves together.
LEMMA SignedBound ==
  ASSUME NEW f \in [Securities -> Int], NEW sign \in [Securities -> {1, -1}]
  PROVE  LET total == SumFunctionOnSet(Signed(sign, f), Securities) IN
         /\ total \in Int
         /\ total <= Long(f) + Short(f) /\ -(Long(f) + Short(f)) <= total
<1>1. PICK S, g, m, c, n :
        /\ S = Securities /\ g = Signed(sign, f) /\ m = [s \in S |-> Magnitude(f[s])]
        /\ c = -1 /\ n = [s \in S |-> c * m[s]]
  OBVIOUS
<1>2. IsFiniteSet(S)
  BY <1>1, AccountAssumption
<1>3. \A s \in S : f[s] \in Int /\ sign[s] \in {1, -1}
  BY <1>1
<1>4. \A s \in S : g[s] = sign[s] * f[s] /\ m[s] = Magnitude(f[s]) /\ n[s] = c * m[s]
  BY <1>1 DEF Signed
<1>5. \A s \in S : /\ g[s] \in Int /\ m[s] \in Int /\ n[s] \in Int
                   /\ g[s] <= m[s] /\ n[s] <= g[s] /\ n[s] = c * m[s]
  <2>1. SUFFICES ASSUME NEW s \in S
                 PROVE  /\ g[s] \in Int /\ m[s] \in Int /\ n[s] \in Int
                        /\ g[s] <= m[s] /\ n[s] <= g[s] /\ n[s] = c * m[s]
    OBVIOUS
  <2>2. PICK x \in Int, u \in {1, -1} : x = f[s] /\ u = sign[s]
    BY <1>3
  <2>3. g[s] = u * x /\ m[s] = Magnitude(x) /\ n[s] = c * m[s]
    BY <1>4, <2>2
  <2>4. CASE u = 1
    <3>1. g[s] = x
      BY <2>3, <2>4
    <3>2. QED
      BY <1>1, <2>3, <3>1 DEF Magnitude
  <2>5. CASE u = -1
    <3>1. g[s] = -x
      BY <2>3, <2>5
    <3>2. QED
      BY <1>1, <2>3, <3>1 DEF Magnitude
  <2>6. QED
    BY <1>3, <2>2, <2>4, <2>5
<1>6. \A s \in S : g[s] \in Int
  BY <1>5
<1>7. SumFunctionOnSet(g, S) \in Int
  BY <1>2, <1>6, SumType
<1>8. \A s \in S : g[s] \in Int /\ m[s] \in Int /\ g[s] <= m[s]
  BY <1>5
<1>9. SumFunctionOnSet(g, S) <= SumFunctionOnSet(m, S)
  BY <1>2, <1>8, SumMonotonic
<1>10. \A s \in S : n[s] \in Int /\ g[s] \in Int /\ n[s] <= g[s]
  BY <1>5
<1>11. SumFunctionOnSet(n, S) <= SumFunctionOnSet(g, S)
  BY <1>2, <1>10, SumMonotonic
<1>12. f \in [S -> Int]
  BY <1>1
<1>13. \A s \in S : m[s] = Magnitude(f[s])
  BY <1>4
<1>14. /\ Long(f) \in Nat /\ Short(f) \in Nat
       /\ Long(f) + Short(f) = SumFunctionOnSet(m, S)
  BY <1>2, <1>12, <1>13, Sleeves
<1>15. c \in Int /\ \A s \in S : m[s] \in Int /\ n[s] = c * m[s]
  BY <1>1, <1>5
<1>16. SumFunctionOnSet(n, S) = c * SumFunctionOnSet(m, S)
  BY <1>2, <1>15, SumTimes
<1>17. PICK total, all : total = SumFunctionOnSet(g, S) /\ all = SumFunctionOnSet(m, S)
  OBVIOUS
<1>18. all \in Nat /\ total \in Int /\ total <= all /\ c * all <= total /\ c = -1
  BY <1>1, <1>7, <1>9, <1>11, <1>14, <1>16, <1>17
<1>19. -all <= total
  BY <1>18
<1>20. QED
  BY <1>1, <1>14, <1>17, <1>18, <1>19

\* The affine equation of an interval has a solution, and a positive slope.
LEMMA CandidateIs ==
  ASSUME NEW q, ValidRequest(q), SlopeBound(q), NEW i
  PROVE  LET sign == SideOf(q, i)
             a == SumFunctionOnSet(Signed(sign, q.weight), Securities)
             b == SumFunctionOnSet(Signed(sign, q.old), Securities)
         IN /\ sign \in [Securities -> {1, -1}]
            /\ a \in Int /\ b \in Int /\ Scale * Unit + q.rate * a > 0
            /\ Candidate(q, i) = <<Unit * (q.nav * Scale + q.rate * b), Scale * Unit + q.rate * a>>
<1>1. PICK sign, a, b : /\ sign = SideOf(q, i)
                        /\ a = SumFunctionOnSet(Signed(sign, q.weight), Securities)
                        /\ b = SumFunctionOnSet(Signed(sign, q.old), Securities)
  OBVIOUS
<1>2. sign \in [Securities -> {1, -1}]
  BY <1>1 DEF SideOf
<1>3. PICK w, o, r : w = q.weight /\ o = q.old /\ r = q.rate
  OBVIOUS
<1>4. w \in [Securities -> Int] /\ o \in [Securities -> Int] /\ r \in Nat
  BY <1>3 DEF ValidRequest
<1>5. PICK bound : bound = Long(w) + Short(w)
  OBVIOUS
<1>6. a \in Int /\ a <= bound /\ -bound <= a
  BY <1>1, <1>2, <1>3, <1>4, <1>5, SignedBound
<1>7. b \in Int
  BY <1>1, <1>2, <1>3, <1>4, SignedBound
<1>8. bound \in Nat
  <2>1. IsFiniteSet(Securities)
    BY AccountAssumption
  <2>2. PICK m : m = [s \in Securities |-> Magnitude(w[s])]
    OBVIOUS
  <2>3. \A s \in Securities : m[s] = Magnitude(w[s])
    BY <2>2
  <2>4. Long(w) \in Nat /\ Short(w) \in Nat
    BY <1>4, <2>1, <2>3, Sleeves
  <2>5. QED
    BY <1>5, <2>4
<1>9. r * bound < Scale * Unit /\ Scale \in Nat /\ Unit \in Nat
  BY <1>3, <1>5, FundingAssumption DEF SlopeBound
<1>10. Scale * Unit + r * a > 0
  <2>1. r * (a + bound) >= 0
    <3>1. a + bound \in Nat
      BY <1>6, <1>8
    <3>2. QED
      BY <1>4, <3>1
  <2>2. r * (a + bound) = r * a + r * bound
    BY <1>4, <1>6, <1>8
  <2>3. PICK x, y, z : x = r * a /\ y = r * bound /\ z = Scale * Unit
    OBVIOUS
  <2>4. x \in Int /\ y \in Int /\ z \in Int /\ x + y >= 0 /\ y < z
    BY <1>4, <1>6, <1>8, <1>9, <2>1, <2>2, <2>3
  <2>5. z + x > 0
    BY <2>4
  <2>6. QED
    BY <2>3, <2>5
<1>11. Candidate(q, i) = Rational(Unit * (q.nav * Scale + q.rate * b), Scale * Unit + q.rate * a)
  <2>1. PICK f, g : f = Signed(sign, w) /\ g = Signed(sign, o)
    OBVIOUS
  <2>2. /\ f = [s \in Securities |-> sign[s] * q.weight[s]] /\ DOMAIN f = Securities
        /\ g = [s \in Securities |-> sign[s] * q.old[s]] /\ DOMAIN g = Securities
    BY <1>3, <2>1 DEF Signed
  <2>3. SumFunction(f) = a /\ SumFunction(g) = b
    BY <1>1, <1>3, <2>1, <2>2, SumIs
  <2>4. Candidate(q, i) =
          Rational(Unit * (q.nav * Scale + q.rate * SumFunction(g)), Scale * Unit + q.rate * SumFunction(f))
    BY <1>1, <2>2 DEF Candidate, SideOf
  <2>5. QED
    BY <2>3, <2>4
<1>12. QED
  BY <1>1, <1>2, <1>3, <1>6, <1>7, <1>10, <1>11 DEF Rational

\* The solution a request is given.
LEMMA SolutionIs ==
  ASSUME NEW q, ValidRequest(q), FundingFailure(q) = "none"
  PROVE  LET nav == PostFeeNav(q) IN
         /\ nav[1] \in Int /\ nav[2] \in Int /\ nav[1] > 0 /\ nav[2] > 0
         /\ SolvesEquation(q, nav)
<1>1. PICK nav : nav = PostFeeNav(q)
  OBVIOUS
<1>2. /\ ~ (q.rate * (Long(q.weight) + Short(q.weight)) >= Scale * Unit)
      /\ Roots(q) # {} /\ SolvesEquation(q, nav)
  BY <1>1 DEF FundingFailure
<1>3. SlopeBound(q)
  <2>1. PICK w : w = q.weight
    OBVIOUS
  <2>2. w \in [Securities -> Int] /\ IsFiniteSet(Securities) /\ q.rate \in Nat
    BY <2>1, AccountAssumption DEF ValidRequest
  <2>3. PICK m : m = [s \in Securities |-> Magnitude(w[s])]
    OBVIOUS
  <2>4. \A s \in Securities : m[s] = Magnitude(w[s])
    BY <2>3
  <2>5. Long(w) \in Nat /\ Short(w) \in Nat
    BY <2>2, <2>4, Sleeves
  <2>6. PICK x, z : x = q.rate * (Long(w) + Short(w)) /\ z = Scale * Unit
    OBVIOUS
  <2>7. x \in Int /\ z \in Int
    BY <2>2, <2>5, <2>6, FundingAssumption
  <2>8. ~ (x >= z)
    BY <1>2, <2>1, <2>6
  <2>9. x < z
    BY <2>7, <2>8
  <2>10. QED
    BY <2>1, <2>6, <2>9 DEF SlopeBound
<1>4. PICK root \in Roots(q) : root = CHOOSE x \in Roots(q) : TRUE
  BY <1>2
<1>5. nav = root[2]
  BY <1>1, <1>4 DEF PostFeeNav
<1>6. PICK i \in Intervals(q) : root = <<i, Candidate(q, i)>>
  BY <1>4 DEF Roots
<1>7. nav = Candidate(q, i)
  BY <1>5, <1>6
<1>8. PICK a, b : /\ a \in Int /\ b \in Int /\ Scale * Unit + q.rate * a > 0
                  /\ nav = <<Unit * (q.nav * Scale + q.rate * b), Scale * Unit + q.rate * a>>
  BY <1>3, <1>7, CandidateIs
<1>9. nav[1] = Unit * (q.nav * Scale + q.rate * b) /\ nav[2] = Scale * Unit + q.rate * a
  BY <1>8
<1>10. nav[1] \in Int /\ nav[2] \in Int
  <2>1. q.nav \in Int /\ q.rate \in Int /\ Scale \in Int /\ Unit \in Int
    BY FundingAssumption DEF ValidRequest
  <2>2. QED
    BY <1>8, <1>9, <2>1
<1>11. nav[1] > 0 /\ nav[2] > 0
  BY <1>2, <1>8, <1>9 DEF SolvesEquation
<1>12. QED
  BY <1>1, <1>2, <1>10, <1>11

\* Proportional notionals have proportional sleeves.
LEMMA LongTimes ==
  ASSUME NEW f \in [Securities -> Int], NEW g \in [Securities -> Int],
         NEW a \in Nat, NEW b \in Nat, a > 0, b > 0, \A s \in Securities : a * f[s] = b * g[s]
  PROVE  a * Long(f) = b * Long(g)
<1>1. PICK S, up, top, h :
        /\ S = Securities
        /\ up = [s \in S |-> IF f[s] > 0 THEN f[s] ELSE 0]
        /\ top = [s \in S |-> IF g[s] > 0 THEN g[s] ELSE 0]
        /\ h = [s \in S |-> a * up[s]]
  OBVIOUS
<1>2. IsFiniteSet(S) /\ a \in Int /\ b \in Int
  BY <1>1, AccountAssumption
<1>3. \A s \in S : up[s] \in Int /\ h[s] = a * up[s]
  BY <1>1
<1>4. \A s \in S : top[s] \in Int /\ h[s] = b * top[s]
  <2>1. SUFFICES ASSUME NEW s \in S PROVE top[s] \in Int /\ h[s] = b * top[s]
    OBVIOUS
  <2>2. PICK x \in Int, y \in Int : x = f[s] /\ y = g[s]
    BY <1>1
  <2>3. a * x = b * y
    BY <1>1, <2>2
  <2>4. x > 0 <=> y > 0
    <3>1. x > 0 => a * x > 0
      OBVIOUS
    <3>2. x <= 0 => a * x <= 0
      OBVIOUS
    <3>3. y > 0 => b * y > 0
      OBVIOUS
    <3>4. y <= 0 => b * y <= 0
      OBVIOUS
    <3>5. QED
      BY <2>3, <3>1, <3>2, <3>3, <3>4
  <2>5. /\ up[s] = IF x > 0 THEN x ELSE 0
        /\ top[s] = IF y > 0 THEN y ELSE 0
        /\ h[s] = a * up[s]
    BY <1>1, <2>2
  <2>6. CASE x > 0
    BY <2>3, <2>4, <2>5, <2>6
  <2>7. CASE ~ (x > 0)
    BY <2>4, <2>5, <2>7
  <2>8. QED
    BY <2>6, <2>7
<1>5. SumFunctionOnSet(h, S) = a * SumFunctionOnSet(up, S)
  BY <1>2, <1>3, SumTimes
<1>6. SumFunctionOnSet(h, S) = b * SumFunctionOnSet(top, S)
  BY <1>2, <1>4, SumTimes
<1>7. Long(f) = SumFunctionOnSet(up, S) /\ Long(g) = SumFunctionOnSet(top, S)
  <2>1. DOMAIN f = S /\ DOMAIN g = S /\ DOMAIN up = S /\ DOMAIN top = S
    BY <1>1
  <2>2. Long(f) = SumFunction(up) /\ Long(g) = SumFunction(top)
    BY <1>1, <2>1 DEF Long
  <2>3. QED
    BY <2>1, <2>2, SumIs
<1>8. QED
  BY <1>5, <1>6, <1>7

Target(plan, q, price) ==
  [s \in Securities |-> IF s \in Positions(q) THEN plan.quantity[s] * price[s] ELSE 0]

Moved(plan, q, price) == [s \in Securities |-> Magnitude(Target(plan, q, price)[s] - q.old[s])]

Turnover(plan, q, price) == SumFunctionOnSet(Moved(plan, q, price), Securities)

\* The value left after the costs of a plan.
Left(plan, q, price) == q.nav - (Turnover(plan, q, price) * q.rate) \div Scale

\* Prices are known where they are needed, and notionals are quantities at prices.
Priced(q, price) ==
  /\ ValidRequest(q)
  /\ \A s \in Positions(q) : price[s] \in Prices
  /\ \A s \in Securities : \E u \in Int : q.old[s] = Scale * u

\* No fraction of the costs of a plan is lost.
LEMMA CostIsExact ==
  ASSUME NEW q, NEW price, Priced(q, price), NEW plan, plan.quantity \in [Securities -> Int]
  PROVE  /\ Target(plan, q, price) \in [Securities -> Int]
         /\ Moved(plan, q, price) \in [Securities -> Nat]
         /\ Turnover(plan, q, price) \in Int
         /\ (Turnover(plan, q, price) * q.rate) \div Scale \in Int
         /\ Scale * ((Turnover(plan, q, price) * q.rate) \div Scale)
              = Turnover(plan, q, price) * q.rate
<1>1. PICK S, target, m, c, v, rate :
        /\ S = Securities /\ target = Target(plan, q, price) /\ m = Moved(plan, q, price)
        /\ c = Scale /\ v = [s \in S |-> m[s] \div c] /\ rate = q.rate
  OBVIOUS
<1>2. c \in Nat /\ c > 0 /\ IsFiniteSet(S) /\ rate \in Nat
  BY <1>1, FundingAssumption, AccountAssumption DEF Priced, ValidRequest
<1>3. \A s \in S : target[s] \in Int /\ \E u \in Int : target[s] = c * u
  <2>1. SUFFICES ASSUME NEW s \in S PROVE target[s] \in Int /\ \E u \in Int : target[s] = c * u
    OBVIOUS
  <2>2. CASE s \in Positions(q)
    <3>1. PICK p, n : p = price[s] /\ n = plan.quantity[s]
      OBVIOUS
    <3>2. p \in Prices /\ n \in Int
      BY <1>1, <2>2, <3>1 DEF Priced
    <3>3. PICK u \in Nat : p = c * u
      BY <1>1, <3>2, PriceIs
    <3>4. target[s] = n * p
      BY <1>1, <2>2, <3>1 DEF Target
    <3>5. n * p = c * (u * n) /\ u * n \in Int /\ n * p \in Int
      BY <1>2, <3>2, <3>3
    <3>6. QED
      BY <3>4, <3>5
  <2>3. CASE s \notin Positions(q)
    <3>1. target[s] = 0
      BY <1>1, <2>3 DEF Target
    <3>2. QED
      BY <1>2, <3>1
  <2>4. QED
    BY <2>2, <2>3
<1>4. \A s \in S : m[s] \in Nat /\ v[s] \in Int /\ m[s] = c * v[s]
  <2>1. SUFFICES ASSUME NEW s \in S PROVE m[s] \in Nat /\ v[s] \in Int /\ m[s] = c * v[s]
    OBVIOUS
  <2>2. PICK t \in Int, o \in Int, u \in Int, w \in Int :
          t = target[s] /\ o = q.old[s] /\ t = c * u /\ o = c * w
    BY <1>1, <1>3 DEF Priced, ValidRequest
  <2>3. m[s] = Magnitude(t - o)
    BY <1>1, <2>2 DEF Moved
  <2>4. t - o = c * (u - w)
    BY <1>2, <2>2
  <2>5. PICK x \in Int : x = u - w
    BY <2>2
  <2>6. Magnitude(t - o) = c * Magnitude(x) /\ Magnitude(x) \in Nat
    <3>1. CASE x >= 0
      <4>1. c * x >= 0
        BY <1>2, <3>1
      <4>2. QED
        BY <2>4, <2>5, <3>1, <4>1 DEF Magnitude
    <3>2. CASE x < 0
      <4>1. c * x < 0 /\ c * (-x) = -(c * x)
        BY <1>2, <3>2
      <4>2. QED
        BY <2>4, <2>5, <3>2, <4>1 DEF Magnitude
    <3>3. QED
      BY <3>1, <3>2
  <2>7. PICK y \in Nat : y = Magnitude(x)
    BY <2>6
  <2>8. m[s] = c * y
    BY <2>3, <2>6, <2>7
  <2>9. m[s] \in Int /\ m[s] >= 0
    BY <1>2, <2>8
  <2>10. m[s] \div c = y
    BY <1>2, <2>8, <2>9, QuotientIs
  <2>11. v[s] = y
    BY <1>1, <2>10
  <2>12. QED
    BY <2>8, <2>9, <2>11
<1>5. \A s \in S : v[s] \in Int /\ m[s] = c * v[s]
  BY <1>4
<1>6. SumFunctionOnSet(m, S) = c * SumFunctionOnSet(v, S)
  <2>1. c \in Int
    BY <1>2
  <2>2. QED
    BY <1>2, <1>5, <2>1, SumTimes
<1>7. SumFunctionOnSet(v, S) \in Int
  <2>1. \A s \in S : v[s] \in Int
    BY <1>4
  <2>2. QED
    BY <1>2, <2>1, SumType
<1>8. PICK total, part : total = SumFunctionOnSet(m, S) /\ part = SumFunctionOnSet(v, S)
  OBVIOUS
<1>9. total = c * part /\ part \in Int /\ total \in Int
  BY <1>2, <1>6, <1>7, <1>8
<1>10. total * rate = c * (part * rate) /\ part * rate \in Int /\ total * rate \in Int
  BY <1>2, <1>9
<1>11. (total * rate) \div c = part * rate
  BY <1>2, <1>10, QuotientIs
<1>12. Turnover(plan, q, price) = total
  BY <1>1, <1>8 DEF Turnover
<1>13. target \in [S -> Int] /\ m \in [S -> Nat]
  <2>1. target = [s \in S |-> target[s]] /\ m = [s \in S |-> m[s]]
    BY <1>1 DEF Target, Moved
  <2>2. QED
    BY <1>3, <1>4, <2>1
<1>14. QED
  BY <1>1, <1>9, <1>10, <1>11, <1>12, <1>13

\* What a plan that is not refused promises.
Promised(plan, q, price) ==
  /\ plan.quantity \in [Securities -> Int]
  /\ \A s \in Securities : s \notin Positions(q) => plan.quantity[s] = 0
  /\ (\A s \in Securities : q.weight[s] = 0) => \A s \in Securities : plan.quantity[s] = 0
  /\ plan.nav[1] \in Int /\ plan.nav[2] \in Int /\ plan.nav[2] > 0
  /\ plan.nav[1] = Left(plan, q, price) * plan.nav[2]
  /\ Left(plan, q, price) > 0
  /\ Long(Target(plan, q, price)) <= Left(plan, q, price)

\* A plan in whole shares.
LEMMA WholePlanIs ==
  ASSUME NEW q, NEW price, Priced(q, price), WholePlan(q, price).failure = "none"
  PROVE  Promised(WholePlan(q, price), q, price)
<1>1. PICK ideal, plan, n : /\ ideal = PostFeeNav(q) /\ plan = WholePlan(q, price)
                            /\ n = [s \in Securities |->
                                 IF s \in Positions(q)
                                 THEN TowardZero(ideal[1] * q.weight[s], ideal[2] * Unit * price[s])
                                 ELSE 0]
  OBVIOUS
<1>2. PICK target, turnover, nav :
        /\ target = [s \in Securities |-> IF s \in Positions(q) THEN n[s] * price[s] ELSE 0]
        /\ turnover = SumFunction([s \in Securities |-> Magnitude(target[s] - q.old[s])])
        /\ nav = q.nav - (turnover * q.rate) \div Scale
  OBVIOUS
<1>3. PICK funded, refused :
        /\ funded = (nav > 0 /\ Long(target) <= nav /\ Short(target) <= nav)
        /\ refused = (~funded \/ (~q.liquidation /\ (Long(target) = 0 \/ Short(target) = 0)))
  OBVIOUS
<1>4. plan = IF Positions(q) = {} THEN Failed("WHOLE_SHARE_SIZING_INVALID")
             ELSE IF FundingFailure(q) # "none" THEN Failed(FundingFailure(q))
             ELSE IF refused THEN Failed("WHOLE_SHARE_SIZING_INVALID")
             ELSE [failure |-> "none", quantity |-> n, nav |-> <<nav, 1>>]
  BY <1>1, <1>2, <1>3 DEF WholePlan
<1>5. \A code : Failed(code).failure = code
  BY DEF Failed
<1>6. FundingFailure(q) = "none" /\ ~refused
  BY <1>1, <1>4, <1>5
<1>7. plan.quantity = n /\ plan.nav = <<nav, 1>>
  BY <1>1, <1>4, <1>5, <1>6
<1>8. funded
  BY <1>3, <1>6
<1>9. /\ ideal[1] \in Int /\ ideal[2] \in Int /\ ideal[2] > 0
  BY <1>1, <1>6, SolutionIs DEF Priced
<1>10. \A s \in Securities : n[s] \in Int /\ (q.weight[s] = 0 => n[s] = 0)
  <2>1. SUFFICES ASSUME NEW s \in Securities
                 PROVE  n[s] \in Int /\ (q.weight[s] = 0 => n[s] = 0)
    OBVIOUS
  <2>2. CASE s \in Positions(q)
    <3>1. PICK p, w : p = price[s] /\ w = q.weight[s]
      OBVIOUS
    <3>2. p \in Nat /\ p > 0 /\ w \in Int
      <4>1. p \in Prices
        BY <2>2, <3>1 DEF Priced
      <4>2. QED
        BY <3>1, <4>1, PriceIs DEF Priced, ValidRequest
    <3>3. PICK d : d = ideal[2] * Unit * p
      OBVIOUS
    <3>4. d \in Int /\ d > 0
      BY <1>9, <3>2, <3>3, FundingAssumption
    <3>5. PICK x : x = ideal[1] * w
      OBVIOUS
    <3>6. x \in Int /\ (w = 0 => x = 0)
      BY <1>9, <3>2, <3>5
    <3>7. n[s] = TowardZero(x, d)
      BY <1>1, <2>2, <3>1, <3>3, <3>5
    <3>8. TowardZero(x, d) \in Int /\ TowardZero(0, d) = 0
      BY <3>4, <3>6 DEF TowardZero
    <3>9. QED
      BY <3>1, <3>6, <3>7, <3>8
  <2>3. CASE s \notin Positions(q)
    BY <1>1, <2>3
  <2>4. QED
    BY <2>2, <2>3
<1>11. plan.quantity \in [Securities -> Int]
  <2>1. n = [s \in Securities |-> n[s]]
    BY <1>1
  <2>2. QED
    BY <1>7, <1>10, <2>1
<1>12. \A s \in Securities : (s \notin Positions(q) \/ q.weight[s] = 0) => plan.quantity[s] = 0
  BY <1>1, <1>7, <1>10
<1>13. target = Target(plan, q, price)
  BY <1>2, <1>7 DEF Target
<1>14. turnover = Turnover(plan, q, price)
  <2>1. PICK m : m = Moved(plan, q, price)
    OBVIOUS
  <2>2. m = [s \in Securities |-> Magnitude(target[s] - q.old[s])] /\ DOMAIN m = Securities
    BY <1>13, <2>1 DEF Moved
  <2>3. turnover = SumFunction(m)
    BY <1>2, <2>2
  <2>4. QED
    BY <2>1, <2>2, <2>3, SumIs DEF Turnover
<1>15. nav = Left(plan, q, price)
  BY <1>2, <1>14 DEF Left
<1>16. nav \in Int
  <2>1. (Turnover(plan, q, price) * q.rate) \div Scale \in Int
    BY <1>11, CostIsExact
  <2>2. QED
    BY <1>2, <1>14, <2>1 DEF Priced, ValidRequest
<1>17. /\ plan.nav[1] = nav /\ plan.nav[2] = 1 /\ nav > 0 /\ Long(target) <= nav
  <2>1. plan.nav[1] = nav /\ plan.nav[2] = 1
    BY <1>7
  <2>2. nav > 0 /\ Long(target) <= nav
    BY <1>3, <1>8
  <2>3. QED
    BY <2>1, <2>2
<1>18. QED
  BY <1>1, <1>11, <1>12, <1>13, <1>15, <1>16, <1>17 DEF Promised

\* What a solution buys in exact shares costs what the solution says.
LEMMA ExactSolution ==
  ASSUME NEW q, NEW price, Priced(q, price), NEW plan, plan.quantity \in [Securities -> Int],
         NEW a \in Int, NEW b \in Int, a > 0, b > 0, SolvesEquation(q, <<a, b>>),
         Long(q.weight) <= Unit,
         \A s \in Securities : a * q.weight[s] = (b * Unit) * Target(plan, q, price)[s]
  PROVE  /\ a = Left(plan, q, price) * b /\ Left(plan, q, price) > 0
         /\ Long(Target(plan, q, price)) <= Left(plan, q, price)
<1>1. PICK S, target, m, k, g, rate, fee, left :
        /\ S = Securities /\ target = Target(plan, q, price) /\ m = Moved(plan, q, price)
        /\ k = b * Unit /\ rate = q.rate
        /\ g = [s \in S |-> Magnitude(a * q.weight[s] - q.old[s] * Unit * b)]
        /\ fee = (Turnover(plan, q, price) * rate) \div Scale
        /\ left = Left(plan, q, price)
  OBVIOUS
<1>2. PICK c, u, nav : c = Scale /\ u = Unit /\ nav = q.nav
  OBVIOUS
<1>3. /\ c \in Nat /\ c > 0 /\ u \in Nat /\ u > 0 /\ nav \in Int /\ rate \in Nat
      /\ k = b * u /\ k \in Int /\ k > 0 /\ IsFiniteSet(S)
  BY <1>1, <1>2, FundingAssumption, AccountAssumption DEF Priced, ValidRequest
<1>4. PICK turnover : turnover = Turnover(plan, q, price)
  OBVIOUS
<1>5. /\ turnover \in Int /\ fee \in Int /\ c * fee = turnover * rate
      /\ target \in [S -> Int] /\ m \in [S -> Nat]
  BY <1>1, <1>2, <1>4, CostIsExact
<1>6. \A s \in S : m[s] \in Int /\ g[s] = k * m[s]
  <2>1. SUFFICES ASSUME NEW s \in S PROVE m[s] \in Int /\ g[s] = k * m[s]
    OBVIOUS
  <2>2. PICK t \in Int, o \in Int, w \in Int : t = target[s] /\ o = q.old[s] /\ w = q.weight[s]
    BY <1>1, <1>5 DEF Priced, ValidRequest
  <2>3. a * w = k * t
    BY <1>1, <2>2
  <2>4. m[s] = Magnitude(t - o)
    BY <1>1, <2>2 DEF Moved
  <2>5. g[s] = Magnitude(a * w - o * u * b)
    BY <1>1, <1>2, <2>2
  <2>6. a * w - o * u * b = k * (t - o)
    <3>1. o * u * b = k * o
      BY <1>3, <2>2
    <3>2. k * (t - o) = k * t - k * o
      BY <1>3, <2>2
    <3>3. QED
      BY <2>3, <3>1, <3>2
  <2>7. PICK x \in Int : x = t - o
    BY <2>2
  <2>8. Magnitude(k * x) = k * Magnitude(x)
    <3>1. CASE x >= 0
      <4>1. k * x >= 0
        BY <1>3, <3>1
      <4>2. QED
        BY <1>3, <3>1, <4>1 DEF Magnitude
    <3>2. CASE x < 0
      <4>1. k * x < 0 /\ k * (-x) = -(k * x)
        BY <1>3, <3>2
      <4>2. QED
        BY <1>3, <3>2, <4>1 DEF Magnitude
    <3>3. QED
      BY <3>1, <3>2
  <2>9. QED
    BY <1>5, <2>4, <2>5, <2>6, <2>7, <2>8
<1>7. SumFunctionOnSet(g, S) = k * SumFunctionOnSet(m, S)
  <2>1. k \in Int
    BY <1>3
  <2>2. QED
    BY <1>3, <1>6, <2>1, SumTimes
<1>8. SumFunctionOnSet(m, S) = turnover
  BY <1>1, <1>4 DEF Turnover
<1>9. SumFunction(g) = k * turnover
  <2>1. DOMAIN g = S
    BY <1>1
  <2>2. QED
    BY <1>7, <1>8, <2>1, SumIs
<1>10. c * u * a + rate * SumFunction(g) = c * u * nav * b
  BY <1>1, <1>2 DEF SolvesEquation
<1>11. c * u * a + rate * (k * turnover) = c * u * nav * b
  BY <1>9, <1>10
<1>12. rate * (k * turnover) = c * u * (b * fee)
  <2>1. rate * (k * turnover) = k * (turnover * rate)
    BY <1>3, <1>5
  <2>2. k * (turnover * rate) = k * (c * fee)
    BY <1>5
  <2>3. k * (c * fee) = c * u * (b * fee)
    BY <1>3, <1>5
  <2>4. QED
    BY <2>1, <2>2, <2>3
<1>13. (c * u) * (a + b * fee) = (c * u) * (nav * b)
  BY <1>3, <1>5, <1>11, <1>12
<1>14. a + b * fee = nav * b
  <2>1. PICK z, x, y : z = c * u /\ x = a + b * fee /\ y = nav * b
    OBVIOUS
  <2>2. z \in Int /\ z > 0 /\ x \in Int /\ y \in Int
    BY <1>3, <1>5, <2>1
  <2>3. z * x = z * y
    BY <1>13, <2>1
  <2>4. x = y
    BY <2>2, <2>3
  <2>5. QED
    BY <2>1, <2>4
<1>15. left = nav - fee /\ left \in Int
  BY <1>1, <1>2, <1>3, <1>5 DEF Left
<1>16. a = left * b
  BY <1>3, <1>5, <1>14, <1>15
<1>17. left > 0
  BY <1>15, <1>16
<1>18. a * Long(q.weight) = k * Long(target)
  <2>1. q.weight \in [Securities -> Int] /\ target \in [Securities -> Int]
    BY <1>1, <1>5 DEF Priced, ValidRequest
  <2>2. PICK w : w = q.weight
    OBVIOUS
  <2>3. \A s \in Securities : a * w[s] = k * target[s]
    BY <1>1, <2>2
  <2>4. a \in Nat /\ k \in Nat /\ w \in [Securities -> Int]
    BY <1>3, <2>1, <2>2
  <2>5. a * Long(w) = k * Long(target)
    BY <1>3, <2>1, <2>3, <2>4, LongTimes
  <2>6. QED
    BY <2>2, <2>5
<1>19. Long(target) <= left
  <2>1. Long(q.weight) \in Nat /\ Long(target) \in Nat
    <3>1. PICK w, mw, mt : /\ w = q.weight /\ mw = [s \in S |-> Magnitude(w[s])]
                           /\ mt = [s \in S |-> Magnitude(target[s])]
      OBVIOUS
    <3>2. w \in [S -> Int]
      BY <1>1, <3>1 DEF Priced, ValidRequest
    <3>3. \A s \in S : mw[s] = Magnitude(w[s])
      BY <3>1
    <3>4. \A s \in S : mt[s] = Magnitude(target[s])
      BY <3>1
    <3>5. Long(w) \in Nat
      BY <1>3, <3>2, <3>3, Sleeves
    <3>6. Long(target) \in Nat
      BY <1>3, <1>5, <3>4, Sleeves
    <3>7. QED
      BY <3>1, <3>5, <3>6
  <2>2. PICK x, y : x = Long(q.weight) /\ y = Long(target)
    OBVIOUS
  <2>3. x \in Int /\ y \in Int /\ x <= u /\ a * x = k * y
    BY <1>2, <1>18, <2>1, <2>2
  <2>4. a * x <= a * u
    BY <1>3, <2>3
  <2>5. a * u = k * left
    BY <1>3, <1>15, <1>16
  <2>6. k * y <= k * left
    BY <2>3, <2>4, <2>5
  <2>7. y <= left
    BY <1>3, <1>15, <2>3, <2>6
  <2>8. QED
    BY <2>2, <2>7
<1>20. QED
  BY <1>1, <1>16, <1>17, <1>19

\* A plan in quantities the ledger holds exactly.
LEMMA ExactPlanIs ==
  ASSUME NEW q, NEW price, Priced(q, price), Long(q.weight) <= Unit,
         ExactPlan(q, price).failure = "none"
  PROVE  Promised(ExactPlan(q, price), q, price)
<1>1. PICK nav, plan, n : /\ nav = PostFeeNav(q) /\ plan = ExactPlan(q, price)
                          /\ n = [s \in Securities |->
                               IF s \in Positions(q)
                               THEN (nav[1] * q.weight[s]) \div (nav[2] * Unit * price[s]) ELSE 0]
  OBVIOUS
<1>2. PICK inexact :
        inexact = \E s \in Positions(q) : ~ ((nav[1] * q.weight[s]) % (nav[2] * Unit * price[s]) = 0)
  OBVIOUS
<1>3. plan = IF FundingFailure(q) # "none" THEN Failed(FundingFailure(q))
             ELSE IF inexact THEN Failed("FUNDING_QUANTITY_PRECISION")
             ELSE [failure |-> "none", nav |-> nav, quantity |-> n]
  BY <1>1, <1>2 DEF ExactPlan
<1>4. \A code : Failed(code).failure = code
  BY DEF Failed
<1>5. FundingFailure(q) = "none" /\ ~inexact
  BY <1>1, <1>3, <1>4
<1>6. plan.quantity = n /\ plan.nav = nav
  BY <1>1, <1>3, <1>4, <1>5
<1>7. /\ nav[1] \in Int /\ nav[2] \in Int /\ nav[1] > 0 /\ nav[2] > 0 /\ SolvesEquation(q, nav)
  BY <1>1, <1>5, SolutionIs DEF Priced
<1>8. PICK a, b, k : a = nav[1] /\ b = nav[2] /\ k = b * Unit
  OBVIOUS
<1>9. SolvesEquation(q, <<a, b>>)
  BY <1>7, <1>8 DEF SolvesEquation
<1>10. /\ a \in Int /\ b \in Int /\ a > 0 /\ b > 0 /\ k \in Int /\ k > 0
  BY <1>7, <1>8, FundingAssumption
<1>11. \A s \in Securities : /\ n[s] \in Int /\ (q.weight[s] = 0 => n[s] = 0)
                             /\ s \in Positions(q) => a * q.weight[s] = k * (n[s] * price[s])
  <2>1. SUFFICES ASSUME NEW s \in Securities
                 PROVE  /\ n[s] \in Int /\ (q.weight[s] = 0 => n[s] = 0)
                        /\ s \in Positions(q) => a * q.weight[s] = k * (n[s] * price[s])
    OBVIOUS
  <2>2. CASE s \in Positions(q)
    <3>1. PICK p, w : p = price[s] /\ w = q.weight[s]
      OBVIOUS
    <3>2. p \in Nat /\ p > 0 /\ w \in Int
      <4>1. p \in Prices
        BY <2>2, <3>1 DEF Priced
      <4>2. QED
        BY <3>1, <4>1, PriceIs DEF Priced, ValidRequest
    <3>3. PICK d, x, y : d = k * p /\ x = a * w /\ y = x \div d
      OBVIOUS
    <3>4. d \in Int /\ d > 0 /\ x \in Int /\ (w = 0 => x = 0)
      BY <1>10, <3>2, <3>3
    <3>5. n[s] = y
      BY <1>1, <1>8, <2>2, <3>1, <3>3
    <3>6. x % d = 0
      BY <1>2, <1>5, <1>8, <2>2, <3>1, <3>3
    <3>7. x = d * y /\ y \in Int
      BY <3>3, <3>4, <3>6, ExactQuotient
    <3>8. x = 0 => y = 0
      BY <3>4, <3>7
    <3>9. d * y = k * (y * p)
      <4>1. d = k * p /\ k \in Int /\ p \in Int /\ y \in Int
        BY <1>10, <3>2, <3>3, <3>7
      <4>2. (k * p) * y = k * (y * p)
        BY <4>1
      <4>3. QED
        BY <4>1, <4>2
    <3>10. QED
      BY <3>1, <3>3, <3>4, <3>5, <3>7, <3>8, <3>9
  <2>3. CASE s \notin Positions(q)
    BY <1>1, <2>3
  <2>4. QED
    BY <2>2, <2>3
<1>12. plan.quantity \in [Securities -> Int]
  <2>1. n = [s \in Securities |-> n[s]]
    BY <1>1
  <2>2. QED
    BY <1>6, <1>11, <2>1
<1>13. \A s \in Securities : (s \notin Positions(q) \/ q.weight[s] = 0) => plan.quantity[s] = 0
  BY <1>1, <1>6, <1>11
<1>14. \A s \in Securities : a * q.weight[s] = k * Target(plan, q, price)[s]
  <2>1. SUFFICES ASSUME NEW s \in Securities
                 PROVE  a * q.weight[s] = k * Target(plan, q, price)[s]
    OBVIOUS
  <2>2. CASE s \in Positions(q)
    BY <1>6, <1>11, <2>2 DEF Target
  <2>3. CASE s \notin Positions(q)
    <3>1. q.weight[s] = 0 /\ Target(plan, q, price)[s] = 0
      BY <2>3 DEF Target, Positions
    <3>2. QED
      BY <1>10, <3>1
  <2>4. QED
    BY <2>2, <2>3
<1>15. \A s \in Securities : a * q.weight[s] = (b * Unit) * Target(plan, q, price)[s]
  BY <1>8, <1>14
<1>16. /\ a = Left(plan, q, price) * b /\ Left(plan, q, price) > 0
       /\ Long(Target(plan, q, price)) <= Left(plan, q, price)
  BY <1>9, <1>10, <1>12, <1>15, ExactSolution
<1>17. QED
  BY <1>1, <1>6, <1>7, <1>8, <1>12, <1>13, <1>16 DEF Promised

-----------------------------------------------------------------------------
(* The inductive invariant *)

Running == stage \in {"observe", "trade", "form", "measure", "completed"}

\* The instant up to which the books are carried on.
CarriedTo == IF stage = "observe" THEN clock - 1 ELSE clock

TypeOK ==
  /\ spec \in Specs
  /\ clock \in 0 .. Terminal
  /\ stage \in {"schedule", "observe", "trade", "form", "measure", "completed", "failed"}
  /\ quotes \in [Securities -> Prices \cup {Missing}]
  /\ trades \in [0 .. Terminal -> Allocations \cup {Missing}]
  /\ IsSequence(fills) /\ IsSequence(batches) /\ IsSequence(observations) /\ IsSequence(closes)

\* Allocations are traded at opens; the run ends in the close of the last session.
Chronology ==
  /\ \A t \in 0 .. Terminal : t % 2 = 0 => trades[t] = Missing
  /\ stage = "schedule" =>
       /\ clock = 0 /\ fills = <<>> /\ batches = <<>> /\ observations = <<>> /\ closes = <<>>
       /\ ledger = Missing
  /\ stage = "trade" => trades[clock] # Missing \/ clock = Terminal
  /\ stage = "form" => clock % 2 = 0 /\ clock < Terminal
  /\ stage \in {"measure", "completed"} => clock = Terminal
  /\ (stage = "failed") = (failure # "none")

\* The books are those of the events behind them, and the ledger returns their account.
BooksMirrored ==
  /\ stage = "schedule" =>
       books = [cash |-> InitialCash, fees |-> 0, holdings |-> Flat,
                loans |-> [s \in Securities |-> Missing], claims |-> {}, applied |-> {},
                exited |-> {}, failure |-> "none"]
  /\ Running =>
       /\ books.failure = "none"
       /\ Sound(spec.actions, Until(spec.actions, CarriedTo), clock = 0, books)
       /\ FilledBy(fills, CarriedTo)
       /\ LedgerAt(fills, CarriedTo) = AccountOf(books)
       /\ spec.actions = {} => books.claims = {}

\* A cached account is that of its fills.
CacheIsReplay ==
  Running /\ spec.actions = {} /\ ledger # Missing =>
    FilledBy(ledger.fills, clock) /\ ledger.account = Replay(spec.rate, FillEvents(ledger.fills))

\* What is to be traded was valued at the quotes it is traded at.
ValuedForTrade ==
  stage = "trade" =>
    /\ observations # <<>>
    /\ observations[Len(observations)].nav
         = NetAssetValue(books.cash, Request.old, books.claims)
    /\ \A s \in Held(books) : quotes[s] # Missing

RowsInOrder ==
  /\ \A i \in DOMAIN observations : observations[i].at \in Int
  /\ Running => \A i \in DOMAIN observations :
                  observations[i].at <= CarriedTo /\ observations[i].status = "funded"

ClosesInOrder ==
  /\ \A i \in DOMAIN closes : closes[i].at = 2 * i
  /\ stage = "observe" /\ clock = 0 => observations = <<>> /\ closes = <<>>
  /\ Running /\ ~ (stage = "observe" /\ clock = 0) =>
       Closings(observations) = <<[at |-> 0, nav |-> InitialCash]>> \o closes
  /\ stage = "form" => 2 * Len(closes) = clock
  /\ stage \in {"observe", "trade"} /\ clock > 0 =>
       2 * Len(closes) < clock /\ clock <= 2 * Len(closes) + 2
  /\ stage \in {"measure", "completed"} =>
       /\ Len(closes) = Sessions
       /\ observations # <<>>
       /\ observations[Len(observations)].phase = "after_liquidation_close"
       /\ observations[Len(observations)].account.positions = Flat

BatchesInOrder ==
  /\ fills = FlattenSeq([i \in DOMAIN batches |-> batches[i].fills])
  /\ \A i \in DOMAIN batches :
       /\ batches[i].at \in 0 .. clock
       /\ TradeLineageAccepted(batches[i])

IInv ==
  /\ TypeOK
  /\ Chronology
  /\ BooksMirrored
  /\ CacheIsReplay
  /\ ValuedForTrade
  /\ RowsInOrder
  /\ ClosesInOrder
  /\ BatchesInOrder
  /\ HistoryIsStable
  /\ CommittedBatchesAreFunded

-----------------------------------------------------------------------------
(* A batch that is not refused *)

\* The books an invariant state trades on.
LEMMA BooksAre ==
  ASSUME TypeOK, BooksMirrored, Running
  PROVE  /\ IsBooks(books) /\ books.failure = "none" /\ Balanced(books)
         /\ books.cash \in Int /\ books.fees \in Int /\ books.holdings \in [Securities -> Int]
         /\ Market(spec.actions) /\ spec.rate \in Nat
         /\ clock \in Int /\ CarriedTo \in Int
  BY AccountAssumption DEF TypeOK, BooksMirrored, Sound, Balanced, Market, SpecValid, CarriedTo, Terminal

\* Nothing weighs nothing.
LEMMA LongFlat ==
  Long(Flat) = 0
<1>1. PICK S, up : S = Securities /\ up = [s \in S |-> IF Flat[s] > 0 THEN Flat[s] ELSE 0]
  OBVIOUS
<1>2. \A s \in S : up[s] = 0 /\ up[s] \in Int
  BY <1>1 DEF Flat
<1>3. IsFiniteSet(S)
  BY <1>1, AccountAssumption
<1>4. SumFunctionOnSet(up, S) = 0
  <2>1. PICK none : none = {}
    OBVIOUS
  <2>2. none \in SUBSET S /\ \A s \in S \ none : up[s] = 0
    BY <1>2, <2>1
  <2>3. SumFunctionOnSet(up, S) = SumFunctionOnSet(up, none)
    BY <1>2, <1>3, <2>2, SumOfPart
  <2>4. QED
    BY <2>1, <2>3, SumEmpty
<1>5. Long(Flat) = SumFunctionOnSet(up, S)
  <2>1. DOMAIN Flat = S /\ DOMAIN up = S
    BY <1>1 DEF Flat
  <2>2. Long(Flat) = SumFunction(up)
    BY <1>1, <2>1 DEF Long
  <2>3. QED
    BY <2>1, <2>2, SumIs
<1>6. QED
  BY <1>4, <1>5

\* The value of claims is a number.
LEMMA ClaimTotalIs ==
  ASSUME NEW claims, IsFiniteSet(claims), \A c \in claims : c.amount \in Int
  PROVE  ClaimTotal(claims) \in Int /\ (claims = {} => ClaimTotal(claims) = 0)
<1>1. PICK f : f = [c \in claims |-> c.amount]
  OBVIOUS
<1>2. DOMAIN f = claims /\ \A c \in claims : f[c] \in Int
  BY <1>1
<1>3. SumFunction(f) = SumFunctionOnSet(f, claims)
  BY <1>2, SumIs
<1>4. SumFunctionOnSet(f, claims) \in Int
  BY <1>2, SumType
<1>5. claims = {} => SumFunctionOnSet(f, claims) = 0
  BY SumEmpty
<1>6. ClaimTotal(claims) = SumFunction(f)
  BY <1>1 DEF ClaimTotal
<1>7. QED
  BY <1>3, <1>4, <1>5, <1>6

\* The weights of a batch fill a sleeve at most.
LEMMA WeightsAre ==
  ASSUME TypeOK, Chronology, stage = "trade"
  PROVE  Weights \in [Securities -> Int] /\ Long(Weights) <= Unit
<1>1. CASE clock = Terminal
  <2>1. Weights = Flat
    BY <1>1 DEF Weights
  <2>2. Flat \in [Securities -> Int]
    BY DEF Flat
  <2>3. QED
    BY <2>1, <2>2, LongFlat, FundingAssumption
<1>2. CASE clock # Terminal
  <2>1. Weights = trades[clock] /\ trades[clock] # Missing
    BY <1>2 DEF Weights, Chronology
  <2>2. trades[clock] \in Allocations
    BY <2>1 DEF TypeOK
  <2>3. QED
    BY <2>1, <2>2, AccountAssumption
<1>3. QED
  BY <1>1, <1>2

\* The request of a batch, where every quote it needs is there.
LEMMA RequestIs ==
  ASSUME TypeOK, Chronology, BooksMirrored, ValuedForTrade, stage = "trade",
         \A s \in Required : quotes[s] # Missing
  PROVE  /\ Priced(Request, quotes) /\ Long(Request.weight) <= Unit
         /\ Positions(Request) \subseteq Required
         /\ \A s \in Required : quotes[s] \in Prices
         /\ \A s \in Securities : s \notin Positions(Request) => books.holdings[s] = 0
         /\ \A s \in Positions(Request) : Request.old[s] = books.holdings[s] * quotes[s]
         /\ Request.nav = NetAssetValue(books.cash, Request.old, books.claims)
<1>0. Running
  BY DEF Running
<1>1. PICK q, h : q = Request /\ h = books.holdings
  OBVIOUS
<1>2. /\ q.nav = observations[Len(observations)].nav
      /\ q.old = [s \in Securities |-> IF s \in Held(books) THEN books.holdings[s] * quotes[s] ELSE 0]
      /\ q.weight = Weights /\ q.rate = spec.rate
  BY <1>1 DEF Request
<1>3. h \in [Securities -> Int] /\ Balanced(books) /\ spec.rate \in Nat /\ books.cash \in Int
  BY <1>0, <1>1, BooksAre
<1>4. \A s \in Required : s \in Securities /\ quotes[s] \in Prices
  BY DEF TypeOK, Required, Held
<1>5. \A s \in Securities : s \in Held(books) <=> h[s] # 0
  BY <1>1 DEF Held
<1>6. \A s \in Securities : h[s] # 0 => s \in Required
  BY <1>5 DEF Required
<1>7. \A s \in Securities : /\ q.old[s] \in Int /\ \E u \in Int : q.old[s] = Scale * u
                            /\ h[s] = 0 => q.old[s] = 0
                            /\ h[s] # 0 => q.old[s] # 0 /\ q.old[s] = h[s] * quotes[s]
  <2>1. SUFFICES ASSUME NEW s \in Securities
                 PROVE  /\ q.old[s] \in Int /\ \E u \in Int : q.old[s] = Scale * u
                        /\ h[s] = 0 => q.old[s] = 0
                        /\ h[s] # 0 => q.old[s] # 0 /\ q.old[s] = h[s] * quotes[s]
    OBVIOUS
  <2>2. CASE h[s] = 0
    <3>1. q.old[s] = 0
      BY <1>2, <1>5, <2>2
    <3>2. Scale * 0 = 0
      BY FundingAssumption
    <3>3. QED
      BY <2>2, <3>1, <3>2
  <2>3. CASE h[s] # 0
    <3>1. q.old[s] = h[s] * quotes[s]
      BY <1>1, <1>2, <1>5, <2>3
    <3>2. PICK p, n, c : p = quotes[s] /\ n = h[s] /\ c = Scale
      OBVIOUS
    <3>3. p \in Prices /\ n \in Int /\ n # 0 /\ c \in Int
      BY <1>3, <1>4, <1>6, <2>3, <3>2, FundingAssumption
    <3>4. p \in Nat /\ p > 0
      BY <3>3, PriceIs
    <3>5. PICK u \in Nat : p = c * u
      BY <3>2, <3>3, PriceIs
    <3>6. n * p # 0 /\ n * p \in Int
      BY <3>3, <3>4
    <3>7. n * p = c * (n * u) /\ n * u \in Int
      BY <3>3, <3>5
    <3>8. QED
      BY <2>3, <3>1, <3>2, <3>6, <3>7
  <2>4. QED
    BY <2>2, <2>3
<1>8. q.old \in [Securities -> Int]
  BY <1>2, <1>7
<1>9. Positions(q) \subseteq Required
  <2>1. SUFFICES ASSUME NEW s \in Positions(q) PROVE s \in Required
    OBVIOUS
  <2>2. s \in Securities /\ (q.old[s] # 0 \/ q.weight[s] # 0)
    BY DEF Positions
  <2>3. CASE q.old[s] # 0
    BY <1>6, <1>7, <2>2, <2>3
  <2>4. CASE q.weight[s] # 0
    BY <1>2, <2>2, <2>4 DEF Required
  <2>5. QED
    BY <2>2, <2>3, <2>4
<1>10. \A s \in Securities : s \notin Positions(q) => h[s] = 0
  BY <1>7 DEF Positions
<1>11. \A s \in Positions(q) : q.old[s] = h[s] * quotes[s]
  <2>1. SUFFICES ASSUME NEW s \in Positions(q) PROVE q.old[s] = h[s] * quotes[s]
    OBVIOUS
  <2>2. s \in Securities
    BY DEF Positions
  <2>3. quotes[s] \in Nat
    BY <1>4, <1>9, PriceIs
  <2>4. h[s] = 0 => h[s] * quotes[s] = 0
    BY <2>3
  <2>5. QED
    BY <1>7, <2>2, <2>4
<1>12. q.nav = NetAssetValue(books.cash, q.old, books.claims)
  BY <1>1, <1>2 DEF ValuedForTrade
<1>13. q.nav \in Int
  <2>1. PICK o, m : o = q.old /\ m = [s \in Securities |-> Magnitude(o[s])]
    OBVIOUS
  <2>2. \A s \in Securities : m[s] = Magnitude(o[s])
    BY <2>1
  <2>3. IsFiniteSet(Securities) /\ o \in [Securities -> Int]
    BY <1>8, <2>1, AccountAssumption
  <2>4. Long(o) \in Nat /\ Short(o) \in Nat
    BY <2>2, <2>3, Sleeves
  <2>5. ClaimTotal(books.claims) \in Int
    BY <1>3, ClaimTotalIs DEF Balanced
  <2>6. q.nav = books.cash + Long(o) - Short(o) + ClaimTotal(books.claims)
    BY <1>12, <2>1 DEF NetAssetValue
  <2>7. QED
    BY <1>3, <2>4, <2>5, <2>6
<1>14. q.weight \in [Securities -> Int] /\ Long(q.weight) <= Unit
  BY <1>2, WeightsAre
<1>15. ValidRequest(q)
  BY <1>2, <1>3, <1>8, <1>13, <1>14 DEF ValidRequest
<1>16. Priced(q, quotes)
  BY <1>4, <1>7, <1>9, <1>15 DEF Priced
<1>17. QED
  BY <1>1, <1>4, <1>9, <1>10, <1>11, <1>12, <1>14, <1>16

\* Why a batch was not refused.
LEMMA RefusalNone ==
  ASSUME NEW plan, Refusal(plan) = "none"
  PROVE  /\ \A s \in books.exited : Weights[s] = 0
         /\ \A s \in Required : quotes[s] # Missing
         /\ plan.failure = "none"
         /\ Preflight(CashAfter(StagedFills(plan)),
                      [s \in Securities |->
                         IF s \in Required THEN plan.quantity[s] * quotes[s] ELSE 0]) = "funded"
<1>1. PICK exited, unquoted, uncovered, funding :
        /\ exited = \E s \in books.exited : Weights[s] # 0
        /\ unquoted = \E s \in Required : quotes[s] = Missing
        /\ uncovered = \E s \in Shorts(plan) : Cardinality(Loans(s, plan.quantity[s])) # 1
        /\ funding = Preflight(CashAfter(StagedFills(plan)),
                      [s \in Securities |->
                         IF s \in Required THEN plan.quantity[s] * quotes[s] ELSE 0])
  OBVIOUS
<1>2. Refusal(plan) = IF exited THEN "ACCOUNTING_TRADE_AFTER_EXIT"
                      ELSE IF unquoted THEN "MONTHLY_QUOTE_MISSING_OR_UNAVAILABLE"
                      ELSE IF plan.failure # "none" THEN plan.failure
                      ELSE IF uncovered THEN "MONTHLY_BORROW_UNAVAILABLE_OR_AMBIGUOUS"
                      ELSE IF funding # "funded" THEN funding
                      ELSE "none"
  BY <1>1 DEF Refusal
<1>3. ~exited
  BY <1>2
<1>4. ~unquoted
  BY <1>2, <1>3
<1>5. plan.failure = "none"
  BY <1>2, <1>3, <1>4
<1>6. funding # "none"
  BY <1>1 DEF Preflight, CollateralStatus
<1>7. funding = "funded"
  BY <1>2, <1>3, <1>4, <1>5, <1>6
<1>8. QED
  BY <1>1, <1>3, <1>4, <1>5, <1>7

\* A plan that is not refused may be traded, and keeps its promises.
LEMMA TradeIs ==
  ASSUME TypeOK, Chronology, BooksMirrored, ValuedForTrade, stage = "trade",
         NEW plan, plan = Plan, Refusal(plan) = "none"
  PROVE  /\ Priced(Request, quotes) /\ Promised(plan, Request, quotes) /\ Tradable(plan)
<1>0. Running
  BY DEF Running
<1>1. (\A s \in Required : quotes[s] # Missing) /\ plan.failure = "none"
  BY RefusalNone
<1>2. PICK q, h : q = Request /\ h = books.holdings
  OBVIOUS
<1>3. /\ Priced(q, quotes) /\ Long(q.weight) <= Unit /\ Positions(q) \subseteq Required
      /\ \A s \in Required : quotes[s] \in Prices
      /\ \A s \in Securities : s \notin Positions(q) => h[s] = 0
      /\ q.weight = Weights
  BY <1>1, <1>2, RequestIs DEF Request
<1>4. Promised(plan, q, quotes)
  <2>1. CASE spec.quantity = "whole"
    <3>1. plan = WholePlan(q, quotes)
      BY <1>2, <2>1 DEF Plan
    <3>2. WholePlan(q, quotes).failure = "none"
      BY <1>1, <3>1
    <3>3. Promised(WholePlan(q, quotes), q, quotes)
      BY <1>3, <3>2, WholePlanIs
    <3>4. QED
      BY <3>1, <3>3
  <2>2. CASE spec.quantity # "whole"
    <3>1. plan = ExactPlan(q, quotes)
      BY <1>2, <2>2 DEF Plan
    <3>2. ExactPlan(q, quotes).failure = "none"
      BY <1>1, <3>1
    <3>3. Promised(ExactPlan(q, quotes), q, quotes)
      BY <1>3, <3>2, ExactPlanIs
    <3>4. QED
      BY <3>1, <3>3
  <2>3. QED
    BY <2>1, <2>2
<1>5. /\ IsBooks(books) /\ Balanced(books) /\ books.failure = "none"
      /\ clock \in Int /\ h \in [Securities -> Int] /\ spec.rate \in Nat
  BY <1>0, <1>2, BooksAre
<1>6. /\ plan.quantity \in [Securities -> Int]
      /\ \A s \in Securities : s \notin Positions(q) => plan.quantity[s] = 0
  BY <1>4 DEF Promised
<1>7. \A s \in Securities : TradedBy(plan, s) # 0 => quotes[s] \in Prices
  <2>1. SUFFICES ASSUME NEW s \in Securities, TradedBy(plan, s) # 0 PROVE quotes[s] \in Prices
    OBVIOUS
  <2>2. plan.quantity[s] # 0 \/ h[s] # 0
    BY <1>2, <1>5, <1>6, <2>1 DEF TradedBy
  <2>3. s \in Positions(q)
    <3>1. s \notin Positions(q) => plan.quantity[s] = 0
      BY <1>6
    <3>2. s \notin Positions(q) => h[s] = 0
      BY <1>3
    <3>3. QED
      BY <2>2, <3>1, <3>2
  <2>4. QED
    BY <1>3, <2>3
<1>8. Orderable(plan)
  BY <1>2, <1>5, <1>6, <1>7 DEF Orderable
<1>9. \A s \in books.exited \cap Securities : TradedBy(plan, s) = 0
  <2>1. SUFFICES ASSUME NEW s \in books.exited, s \in Securities PROVE TradedBy(plan, s) = 0
    OBVIOUS
  <2>2. h[s] = 0 /\ q.weight[s] = 0
    BY <1>2, <1>3, <1>5, <2>1, RefusalNone DEF Balanced
  <2>3. q.old[s] = 0
    BY <1>2, <2>1, <2>2 DEF Request, Held
  <2>4. plan.quantity[s] = 0
    BY <1>6, <2>1, <2>2, <2>3 DEF Positions
  <2>5. QED
    BY <1>2, <2>2, <2>4 DEF TradedBy
<1>10. Tradable(plan)
  BY <1>5, <1>8, <1>9 DEF Tradable
<1>11. QED
  BY <1>2, <1>3, <1>4, <1>10

\* What is held after a batch is worth the target of its plan.
LEMMA TargetIs ==
  ASSUME TypeOK, Chronology, BooksMirrored, ValuedForTrade, stage = "trade",
         NEW plan, plan = Plan, Refusal(plan) = "none"
  PROVE  LET t == Target(plan, Request, quotes) IN
         /\ [s \in Securities |-> IF s \in Required THEN plan.quantity[s] * quotes[s] ELSE 0] = t
         /\ \A s \in Securities : plan.quantity[s] # 0 => quotes[s] # Missing
         /\ [s \in Securities |-> IF plan.quantity[s] # 0 /\ quotes[s] # Missing
                                  THEN plan.quantity[s] * quotes[s] ELSE 0] = t
         /\ \A s \in Securities : t[s] - Request.old[s] = Change(plan)[s]
<1>1. PICK q, h, n, t : /\ q = Request /\ h = books.holdings /\ n = plan.quantity
                        /\ t = Target(plan, q, quotes)
  OBVIOUS
<1>2. Priced(q, quotes) /\ Promised(plan, q, quotes) /\ Tradable(plan)
  BY <1>1, TradeIs
<1>3. \A s \in Required : quotes[s] # Missing
  BY RefusalNone
<1>4. /\ Positions(q) \subseteq Required
      /\ \A s \in Required : quotes[s] \in Prices
      /\ \A s \in Securities : s \notin Positions(q) => h[s] = 0
      /\ \A s \in Positions(q) : q.old[s] = h[s] * quotes[s]
  BY <1>1, <1>3, RequestIs
<1>5. /\ n \in [Securities -> Int] /\ h \in [Securities -> Int]
      /\ \A s \in Securities : s \notin Positions(q) => n[s] = 0
  <2>1. h \in [Securities -> Int]
    BY <1>1, <1>2 DEF Tradable, Balanced
  <2>2. n \in [Securities -> Int]
    BY <1>1, <1>2 DEF Promised
  <2>3. \A s \in Securities : s \notin Positions(q) => n[s] = 0
    BY <1>1, <1>2 DEF Promised
  <2>4. QED
    BY <2>1, <2>2, <2>3
<1>6. \A s \in Securities : t[s] = IF s \in Positions(q) THEN n[s] * quotes[s] ELSE 0
  BY <1>1 DEF Target
<1>7. \A s \in Required : quotes[s] \in Nat
  BY <1>4, PriceIs
<1>8. \A s \in Securities :
        /\ t[s] = IF s \in Required THEN n[s] * quotes[s] ELSE 0
        /\ n[s] # 0 => quotes[s] # Missing
        /\ t[s] = IF n[s] # 0 /\ quotes[s] # Missing THEN n[s] * quotes[s] ELSE 0
        /\ t[s] - q.old[s] = Change(plan)[s]
  <2>1. SUFFICES ASSUME NEW s \in Securities
                 PROVE  /\ t[s] = IF s \in Required THEN n[s] * quotes[s] ELSE 0
                        /\ n[s] # 0 => quotes[s] # Missing
                        /\ t[s] = IF n[s] # 0 /\ quotes[s] # Missing THEN n[s] * quotes[s] ELSE 0
                        /\ t[s] - q.old[s] = Change(plan)[s]
    OBVIOUS
  <2>2. PICK x, y, p : x = n[s] /\ y = h[s] /\ p = quotes[s] /\ x \in Int /\ y \in Int
    BY <1>5
  <2>3. Change(plan)[s] = IF x - y = 0 THEN 0 ELSE (x - y) * p
    BY <1>1, <2>2 DEF Change, TradedBy
  <2>4. CASE s \in Positions(q)
    <3>1. s \in Required /\ p \in Nat /\ p # Missing
      BY <1>3, <1>4, <1>7, <2>2, <2>4
    <3>2. t[s] = x * p /\ q.old[s] = y * p
      BY <1>4, <1>6, <2>2, <2>4
    <3>3. x = 0 => x * p = 0
      BY <3>1
    <3>4. x * p - y * p = IF x - y = 0 THEN 0 ELSE (x - y) * p
      <4>1. p \in Int /\ x \in Int /\ y \in Int
        BY <2>2, <3>1
      <4>2. (x - y) * p = x * p - y * p
        BY <4>1
      <4>3. x - y = 0 => x * p - y * p = 0
        BY <4>1
      <4>4. QED
        BY <4>2, <4>3
    <3>5. QED
      BY <2>2, <2>3, <3>1, <3>2, <3>3, <3>4
  <2>5. CASE s \notin Positions(q)
    <3>1. x = 0 /\ y = 0 /\ t[s] = 0
      BY <1>4, <1>5, <1>6, <2>2, <2>5
    <3>2. q.old[s] = 0
      BY <2>5 DEF Positions
    <3>3. s \in Required => x * p = 0
      BY <1>7, <2>2, <3>1
    <3>4. QED
      BY <2>2, <2>3, <3>1, <3>2, <3>3
  <2>6. QED
    BY <2>4, <2>5
<1>9. t = [s \in Securities |-> t[s]]
  BY <1>1 DEF Target
<1>10. [s \in Securities |-> IF s \in Required THEN n[s] * quotes[s] ELSE 0] = t
  BY <1>8, <1>9
<1>11. [s \in Securities |-> IF n[s] # 0 /\ quotes[s] # Missing THEN n[s] * quotes[s] ELSE 0] = t
  BY <1>8, <1>9
<1>12. QED
  BY <1>1, <1>8, <1>10, <1>11

\* A batch leaves the value its plan solved for, and the account funded.
LEMMA BatchIsFunded ==
  ASSUME TypeOK, Chronology, BooksMirrored, ValuedForTrade, stage = "trade", quotes' = quotes,
         NEW plan, plan = Plan, Refusal(plan) = "none", NEW b, b = BooksAfter(plan)
  PROVE  /\ NetAssetValue(b.cash, Notional(b), b.claims) * plan.nav[2] = plan.nav[1]
         /\ CollateralStatus(b.cash, Notional(b), b.claims) = "funded"
         /\ \A s \in Held(b) : quotes'[s] # Missing
<1>0. Running
  BY DEF Running
<1>1. PICK q, t, o, staged, S :
        /\ q = Request /\ t = Target(plan, q, quotes) /\ o = q.old /\ staged = StagedFills(plan)
        /\ S = Securities
  OBVIOUS
<1>2. Priced(q, quotes) /\ Promised(plan, q, quotes) /\ Tradable(plan) /\ Orderable(plan)
  BY <1>1, TradeIs DEF Tradable
<1>3. IsBooks(books) /\ books.failure = "none" /\ Balanced(books) /\ books.cash \in Int
  BY <1>0, BooksAre
<1>4. /\ b.cash = CashAfter(staged) /\ b.holdings = plan.quantity /\ b.claims = books.claims
  BY <1>1, <1>3, BooksAfterFields
<1>5. /\ [s \in S |-> IF s \in Required THEN plan.quantity[s] * quotes[s] ELSE 0] = t
      /\ \A s \in S : plan.quantity[s] # 0 => quotes[s] # Missing
      /\ [s \in S |-> IF plan.quantity[s] # 0 /\ quotes[s] # Missing
                               THEN plan.quantity[s] * quotes[s] ELSE 0] = t
      /\ \A s \in S : t[s] - o[s] = Change(plan)[s]
  BY <1>1, TargetIs
<1>6. Notional(b) = t
  BY <1>1, <1>4, <1>5 DEF Notional, Held
<1>7. \A s \in Held(b) : quotes'[s] # Missing
  BY <1>1, <1>4, <1>5 DEF Held
<1>8. PICK m, g, c : /\ m = Moved(plan, q, quotes) /\ c = Change(plan)
                     /\ g = [s \in S |-> Magnitude(c[s])]
  OBVIOUS
<1>9. /\ t \in [S -> Int] /\ m \in [S -> Nat] /\ Turnover(plan, q, quotes) \in Int
      /\ (Turnover(plan, q, quotes) * q.rate) \div Scale \in Int
  <2>1. plan.quantity \in [Securities -> Int]
    BY <1>2 DEF Promised
  <2>2. QED
    BY <1>1, <1>2, <1>8, <2>1, CostIsExact
<1>10. o \in [S -> Int] /\ q.nav \in Int /\ IsFiniteSet(S)
  BY <1>1, <1>2, AccountAssumption DEF Priced, ValidRequest
<1>11. \A s \in S : c[s] \in Int /\ c[s] = t[s] - o[s] /\ m[s] = Magnitude(c[s])
  <2>1. SUFFICES ASSUME NEW s \in S
                 PROVE  c[s] \in Int /\ c[s] = t[s] - o[s] /\ m[s] = Magnitude(c[s])
    OBVIOUS
  <2>2. c[s] = t[s] - o[s] /\ t[s] \in Int /\ o[s] \in Int
    BY <1>5, <1>8, <1>9, <1>10
  <2>3. m[s] = Magnitude(t[s] - o[s])
    BY <1>1, <1>8 DEF Moved
  <2>4. QED
    BY <2>2, <2>3
<1>12. /\ Long(Traded(staged)) \in Nat /\ Short(Traded(staged)) \in Nat
       /\ Long(Traded(staged)) - Short(Traded(staged)) = SumFunctionOnSet(c, S)
       /\ Long(Traded(staged)) + Short(Traded(staged)) = SumFunctionOnSet(m, S)
  <2>1. \A s \in Securities : m[s] = Magnitude(Change(plan)[s])
    BY <1>1, <1>8, <1>11
  <2>2. QED
    BY <1>1, <1>2, <1>8, <2>1, StagedSums
<1>13. PICK turnover, fee : /\ turnover = Turnover(plan, q, quotes)
                            /\ fee = (turnover * q.rate) \div Scale
  OBVIOUS
<1>14. Fee(staged) = fee /\ fee \in Int
  <2>1. SumFunctionOnSet(m, S) = turnover
    BY <1>1, <1>8, <1>13 DEF Turnover
  <2>2. q.rate = spec.rate
    BY <1>1 DEF Request
  <2>3. Long(Traded(staged)) + Short(Traded(staged)) = turnover
    BY <1>12, <2>1
  <2>4. Fee(staged) = (turnover * spec.rate) \div Scale
    BY <2>3 DEF Fee
  <2>5. QED
    BY <1>9, <1>13, <2>2, <2>4
<1>15. PICK lo, so, lt, st, k, change, left :
         /\ lo = Long(o) /\ so = Short(o) /\ lt = Long(t) /\ st = Short(t)
         /\ k = ClaimTotal(books.claims) /\ change = SumFunctionOnSet(c, S)
         /\ left = Left(plan, q, quotes)
  OBVIOUS
<1>16. lo \in Nat /\ so \in Nat /\ lo - so = SumFunctionOnSet(o, S)
  <2>1. PICK z : z = [s \in S |-> Magnitude(o[s])]
    OBVIOUS
  <2>2. \A s \in S : z[s] = Magnitude(o[s])
    BY <2>1
  <2>3. QED
    BY <1>10, <1>15, <2>2, Sleeves
<1>17. lt \in Nat /\ st \in Nat /\ lt - st = SumFunctionOnSet(t, S)
  <2>1. PICK z : z = [s \in S |-> Magnitude(t[s])]
    OBVIOUS
  <2>2. \A s \in S : z[s] = Magnitude(t[s])
    BY <2>1
  <2>3. QED
    BY <1>9, <1>10, <1>15, <2>2, Sleeves
<1>18. SumFunctionOnSet(t, S) = SumFunctionOnSet(o, S) + change /\ change \in Int
  <2>1. \A s \in S : o[s] \in Int /\ c[s] \in Int /\ t[s] = o[s] + c[s]
    <3>1. \A s \in S : o[s] \in Int /\ t[s] \in Int /\ c[s] \in Int /\ c[s] = t[s] - o[s]
      BY <1>9, <1>10, <1>11
    <3>2. QED
      BY <3>1
  <2>2. SumFunctionOnSet(t, S) = SumFunctionOnSet(o, S) + SumFunctionOnSet(c, S)
    BY <1>10, <2>1, SumPlus
  <2>3. change \in Int
    BY <1>12, <1>15
  <2>4. QED
    BY <1>15, <2>2, <2>3
<1>19. lt - st = lo - so + change
  BY <1>16, <1>17, <1>18
<1>20. k \in Int /\ (books.claims = {} => k = 0)
  BY <1>3, <1>15, ClaimTotalIs DEF Balanced
<1>21. q.nav = books.cash + lo - so + k
  <2>1. \A s \in Required : quotes[s] # Missing
    BY RefusalNone
  <2>2. q.nav = NetAssetValue(books.cash, o, books.claims)
    BY <1>1, <2>1, RequestIs
  <2>3. QED
    BY <1>15, <2>2 DEF NetAssetValue
<1>22. b.cash = books.cash - change - fee
  <2>1. CashAfter(staged) = books.cash - Long(Traded(staged)) + Short(Traded(staged)) - Fee(staged)
    BY DEF CashAfter
  <2>2. PICK x, y : x = Long(Traded(staged)) /\ y = Short(Traded(staged))
    OBVIOUS
  <2>3. x \in Nat /\ y \in Nat /\ x - y = change
    BY <1>12, <1>15, <2>2
  <2>4. b.cash = books.cash - x + y - fee
    BY <1>4, <1>14, <2>1, <2>2
  <2>5. QED
    BY <1>3, <1>14, <2>3, <2>4
<1>23. left = q.nav - fee /\ left \in Int /\ left > 0 /\ lt <= left
  <2>1. left = q.nav - fee
    BY <1>13, <1>15 DEF Left
  <2>2. left > 0 /\ lt <= left
    BY <1>1, <1>2, <1>15 DEF Promised
  <2>3. QED
    BY <1>10, <1>14, <2>1, <2>2
<1>24. NetAssetValue(b.cash, Notional(b), b.claims) = left
  <2>1. NetAssetValue(b.cash, t, books.claims) = b.cash + lt - st + k
    BY <1>15 DEF NetAssetValue
  <2>2. b.cash + lt - st + k = left
    BY <1>3, <1>14, <1>16, <1>17, <1>18, <1>19, <1>20, <1>21, <1>22, <1>23
  <2>3. QED
    BY <1>4, <1>6, <2>1, <2>2
<1>25. left * plan.nav[2] = plan.nav[1]
  BY <1>1, <1>2, <1>15 DEF Promised
<1>26. CollateralStatus(b.cash, Notional(b), b.claims) = "funded"
  <2>1. CASE spec.actions # {}
    <3>1. Preflight(CashAfter(staged),
                    [s \in S |-> IF s \in Required THEN plan.quantity[s] * quotes[s] ELSE 0]) = "funded"
      BY <1>1, RefusalNone
    <3>2. Preflight(CashAfter(staged), t) = "funded"
      BY <1>5, <3>1
    <3>3. CollateralStatus(CashAfter(staged), t, books.claims) = "funded"
      BY <2>1, <3>2 DEF Preflight
    <3>4. QED
      BY <1>4, <1>6, <3>3
  <2>2. CASE spec.actions = {}
    <3>1. books.claims = {}
      BY <1>0, <2>2 DEF BooksMirrored
    <3>2. PICK owed : owed = SumFunction([x \in books.claims |-> IF x.amount < 0 THEN -x.amount ELSE 0])
      OBVIOUS
    <3>3. owed = 0
      <4>1. PICK f : f = [x \in books.claims |-> IF x.amount < 0 THEN -x.amount ELSE 0]
        OBVIOUS
      <4>2. DOMAIN f = {}
        BY <3>1, <4>1
      <4>3. SumFunction(f) = SumFunctionOnSet(f, {})
        BY <4>2, SumIs
      <4>4. QED
        BY <3>2, <4>1, <4>3, SumEmpty
    <3>4. FreeCash(b.cash, t, books.claims) = b.cash - st - owed
      BY <1>15, <3>2 DEF FreeCash
    <3>5. b.cash - st - owed = left - lt
      BY <1>3, <1>14, <1>16, <1>17, <1>18, <1>19, <1>20, <1>21, <1>22, <1>23, <3>1, <3>3
    <3>6. left - lt >= 0 /\ left - lt \in Int
      BY <1>17, <1>23
    <3>7. ~ (NetAssetValue(b.cash, t, books.claims) <= 0)
      BY <1>4, <1>6, <1>23, <1>24
    <3>8. ~ (FreeCash(b.cash, t, books.claims) < 0)
      BY <3>4, <3>5, <3>6
    <3>9. CollateralStatus(b.cash, t, books.claims) = "funded"
      BY <3>7, <3>8 DEF CollateralStatus
    <3>10. QED
      BY <1>4, <1>6, <3>9
  <2>3. QED
    BY <2>1, <2>2
<1>27. QED
  BY <1>7, <1>24, <1>25, <1>26

\* The fills of a batch come after everything that is behind the books.
LEMMA StagedFollow ==
  ASSUME Market(spec.actions), NEW plan, Orderable(plan), FilledBy(fills, clock),
         NEW fs, fs = fills \o StagedFills(plan), NEW m, m = Len(fills), NEW k, k = Len(StagedFills(plan))
  PROVE  /\ m \in Nat /\ k \in Nat /\ FilledBy(fs, clock) /\ IsSequence(fs)
         /\ EventsUntil(fs, clock) = EventsUntil(fills, clock) \cup StagedEvents(plan, m, k)
         /\ OnTimeline(EventsUntil(fills, clock) \cup StagedEvents(plan, m, k))
         /\ \A e \in EventsUntil(fills, clock) : \A f \in StagedEvents(plan, m, k) : Before(e, f)
         /\ \A at \in Int : at < clock => EventsUntil(fs, at) = EventsUntil(fills, at)
<1>1. PICK order, n : StagedIn(plan, order, n)
  BY StagedInOrder
<1>2. PICK staged : staged = StagedFills(plan)
  OBVIOUS
<1>3. n \in Nat /\ clock \in Int /\ \A i \in 1 .. n : staged[i] \in Fill /\ staged[i].time = clock
  <2>1. n \in Nat /\ clock \in Int
    BY <1>1 DEF StagedIn, Orderable
  <2>2. \A i \in 1 .. n : staged[i] \in Fill /\ staged[i].time = clock
    BY <1>1, <1>2, StagedFill
  <2>3. QED
    BY <2>1, <2>2
<1>4. staged \in Seq(Fill) /\ Len(staged) = n
  <2>1. PICK g : g = [i \in 1 .. n |-> [security |-> order[i], quantity |-> TradedBy(plan, order[i]),
                                        price |-> quotes[order[i]], time |-> clock]]
    OBVIOUS
  <2>2. staged = g
    BY <1>1, <1>2, <2>1 DEF StagedIn
  <2>3. staged = [i \in 1 .. n |-> staged[i]]
    BY <2>1, <2>2
  <2>4. staged \in Seq(Fill)
    BY <1>3, <2>3
  <2>5. DOMAIN staged = 1 .. n
    BY <2>3
  <2>6. QED
    BY <1>3, <2>4, <2>5
<1>5. k = n
  BY <1>2, <1>4
<1>6. fills \in Seq(Fill) /\ m \in Nat /\ DOMAIN fills = 1 .. m /\ \A i \in 1 .. m : fills[i].time <= clock
  BY DEF FilledBy
<1>7. /\ fs \in Seq(Fill) /\ DOMAIN fs = 1 .. m + k
      /\ \A i \in 1 .. m : fs[i] = fills[i]
      /\ \A i \in 1 .. k : fs[m + i] = staged[i]
  BY <1>2, <1>4, <1>5, <1>6
<1>8. FillEvents(fs) = FillEvents(fills) \cup StagedEvents(plan, m, k)
  <2>1. ASSUME NEW e \in FillEvents(fs) PROVE e \in FillEvents(fills) \cup StagedEvents(plan, m, k)
    <3>1. PICK i \in 1 .. m + k : e = Event(fs[i].time, 2, i, fs[i])
      BY <1>7 DEF FillEvents
    <3>2. CASE i <= m
      <4>1. i \in 1 .. m
        BY <1>6, <3>2
      <4>2. e = Event(fills[i].time, 2, i, fills[i])
        BY <1>7, <3>1, <4>1
      <4>3. QED
        BY <1>6, <4>1, <4>2 DEF FillEvents
    <3>3. CASE i > m
      <4>1. PICK j : j = i - m
        OBVIOUS
      <4>2. j \in 1 .. k /\ i = m + j
        BY <1>3, <1>5, <1>6, <3>3, <4>1
      <4>3. fs[i] = staged[j] /\ staged[j].time = clock
        BY <1>3, <1>5, <1>7, <4>2
      <4>4. e = Event(clock, 2, m + j, staged[j])
        BY <3>1, <4>2, <4>3
      <4>5. QED
        BY <1>2, <4>2, <4>4 DEF StagedEvents
    <3>4. QED
      BY <1>3, <1>5, <1>6, <3>2, <3>3
  <2>2. ASSUME NEW e \in FillEvents(fills) PROVE e \in FillEvents(fs)
    <3>1. PICK i \in 1 .. m : e = Event(fills[i].time, 2, i, fills[i])
      BY <1>6 DEF FillEvents
    <3>2. i \in 1 .. m + k /\ fs[i] = fills[i]
      BY <1>3, <1>5, <1>6, <1>7
    <3>3. QED
      BY <1>7, <3>1, <3>2 DEF FillEvents
  <2>3. ASSUME NEW e \in StagedEvents(plan, m, k) PROVE e \in FillEvents(fs)
    <3>1. PICK j \in 1 .. k : e = Event(clock, 2, m + j, staged[j])
      BY <1>2 DEF StagedEvents
    <3>2. PICK i : i = m + j
      OBVIOUS
    <3>3. i \in 1 .. m + k /\ fs[i] = staged[j] /\ staged[j].time = clock
      BY <1>3, <1>5, <1>6, <1>7, <3>2
    <3>4. e = Event(fs[i].time, 2, i, fs[i])
      BY <3>1, <3>2, <3>3
    <3>5. QED
      BY <1>7, <3>3, <3>4 DEF FillEvents
  <2>4. QED
    BY <2>1, <2>2, <2>3
<1>9. \A f \in StagedEvents(plan, m, k) : /\ f.time = clock /\ f.phase = 2 /\ f.id \in Int /\ f.id > m
  BY <1>3, <1>5, <1>6 DEF StagedEvents, Event
<1>10. \A e \in FillEvents(fills) : /\ e.time <= clock /\ e.time \in Int /\ e.phase = 2
                                    /\ e.id \in Int /\ e.id <= m
  <2>1. SUFFICES ASSUME NEW i \in 1 .. m
                 PROVE  fills[i].time <= clock /\ fills[i].time \in Int /\ i \in Int /\ i <= m
    BY <1>6 DEF FillEvents, Event
  <2>2. fills[i].time \in Int
    BY <1>6, FillAt
  <2>3. QED
    BY <1>6, <2>2
<1>11. \A e \in ActionEvents(spec.actions) : e.time \in Int /\ e.phase \in {0, 1} /\ e.id \in Int
  BY ActionEventIs
<1>12. EventsUntil(fs, clock) = EventsUntil(fills, clock) \cup StagedEvents(plan, m, k)
  BY <1>3, <1>8, <1>9 DEF EventsUntil
<1>13. \A at \in Int : at < clock => EventsUntil(fs, at) = EventsUntil(fills, at)
  <2>1. SUFFICES ASSUME NEW at \in Int, at < clock PROVE EventsUntil(fs, at) = EventsUntil(fills, at)
    OBVIOUS
  <2>2. \A f \in StagedEvents(plan, m, k) : ~ (f.time <= at)
    BY <1>3, <1>9, <2>1
  <2>3. QED
    BY <1>8, <2>2 DEF EventsUntil
<1>14. OnTimeline(EventsUntil(fs, clock))
  <2>1. OnTimeline(ActionEvents(spec.actions) \cup FillEvents(fs))
    BY <1>7, EventsOnTimeline
  <2>2. EventsUntil(fs, clock) \in SUBSET (ActionEvents(spec.actions) \cup FillEvents(fs))
    BY DEF EventsUntil
  <2>3. QED
    BY <2>1, <2>2, PartOfTimeline
<1>15. ASSUME NEW e \in EventsUntil(fills, clock), NEW f \in StagedEvents(plan, m, k)
       PROVE  Before(e, f)
  <2>1. e.time <= clock /\ (e \in ActionEvents(spec.actions) \/ e \in FillEvents(fills))
    BY <1>15 DEF EventsUntil
  <2>2. f.time = clock /\ f.phase = 2 /\ f.id \in Int /\ f.id > m
    BY <1>9, <1>15
  <2>3. CASE e \in ActionEvents(spec.actions)
    <3>1. e.time \in Int /\ e.phase \in {0, 1}
      BY <1>11, <2>3
    <3>2. QED
      BY <1>3, <2>1, <2>2, <3>1 DEF Before
  <2>4. CASE e \in FillEvents(fills)
    <3>1. e.time \in Int /\ e.phase = 2 /\ e.id \in Int /\ e.id <= m
      BY <1>10, <2>4
    <3>2. QED
      BY <1>3, <1>6, <2>1, <2>2, <3>1 DEF Before
  <2>5. QED
    BY <2>1, <2>3, <2>4
<1>16. FilledBy(fs, clock)
  <2>1. ASSUME NEW i \in 1 .. m + k PROVE fs[i].time <= clock
    <3>1. CASE i <= m
      BY <1>6, <1>7, <2>1, <3>1
    <3>2. CASE i > m
      <4>1. PICK j : j = i - m
        OBVIOUS
      <4>2. j \in 1 .. k /\ i = m + j
        BY <1>3, <1>5, <1>6, <2>1, <3>2, <4>1
      <4>3. fs[i] = staged[j] /\ staged[j].time = clock
        BY <1>3, <1>5, <1>7, <4>2
      <4>4. QED
        BY <1>3, <4>3
    <3>3. i \in Int /\ m \in Int
      BY <1>6
    <3>4. i <= m \/ i > m
      BY <3>3
    <3>5. QED
      BY <3>1, <3>2, <3>4
  <2>2. QED
    BY <1>7, <2>1 DEF FilledBy
<1>17. IsSequence(fs)
  BY <1>7, SequenceIs
<1>18. QED
  BY <1>3, <1>5, <1>6, <1>12, <1>13, <1>14, <1>15, <1>16, <1>17

\* Costs and cash after a batch are numbers.
LEMMA CashAfterIs ==
  ASSUME NEW plan, Tradable(plan)
  PROVE  Fee(StagedFills(plan)) \in Int /\ CashAfter(StagedFills(plan)) \in Int
<1>1. PICK m, t : m = [s \in Securities |-> Magnitude(Change(plan)[s])] /\ t = Traded(StagedFills(plan))
  OBVIOUS
<1>2. Long(t) \in Nat /\ Short(t) \in Nat
  <2>1. Orderable(plan)
    BY DEF Tradable
  <2>2. \A s \in Securities : m[s] = Magnitude(Change(plan)[s])
    BY <1>1
  <2>3. QED
    BY <1>1, <2>1, <2>2, StagedSums
<1>3. spec.rate \in Nat /\ books.cash \in Int /\ Scale \in Nat /\ Scale > 0
  BY FundingAssumption DEF Tradable, Balanced
<1>4. PICK x : x = (Long(t) + Short(t)) * spec.rate
  OBVIOUS
<1>5. x \in Int
  BY <1>2, <1>3, <1>4
<1>6. Fee(StagedFills(plan)) = x \div Scale /\ x \div Scale \in Int
  BY <1>1, <1>3, <1>4, <1>5 DEF Fee
<1>7. CashAfter(StagedFills(plan)) = books.cash - Long(t) + Short(t) - Fee(StagedFills(plan))
  BY <1>1 DEF CashAfter
<1>8. QED
  BY <1>2, <1>3, <1>6, <1>7

\* After a batch the ledger still answers with the account of the books.
LEMMA LedgerAfterTrade ==
  ASSUME TypeOK, Chronology, BooksMirrored, ValuedForTrade, stage = "trade",
         NEW plan, plan = Plan, Refusal(plan) = "none", NEW b, b = BooksAfter(plan),
         NEW fs, fs = fills \o StagedFills(plan)
  PROVE  /\ clock \in Nat /\ clock > 0
         /\ FilledBy(fs, clock) /\ IsSequence(fs) /\ LedgerAt(fs, clock) = AccountOf(b)
         /\ Sound(spec.actions, Until(spec.actions, clock), FALSE, b)
         /\ b.failure = "none" /\ b.claims = books.claims
         /\ \A at \in Int : at < clock => LedgerAt(fs, at) = LedgerAt(fills, at)
<1>0. Running /\ CarriedTo = clock
  BY DEF Running, CarriedTo
<1>1. Tradable(plan) /\ Orderable(plan) /\ plan.quantity \in [Securities -> Int]
  BY TradeIs DEF Tradable, Promised
<1>2. PICK m, k, staged, A :
        m = Len(fills) /\ k = Len(StagedFills(plan)) /\ staged = StagedFills(plan) /\ A = spec.actions
  OBVIOUS
<1>3. /\ Market(A) /\ IsBooks(books) /\ Balanced(books) /\ books.failure = "none"
      /\ clock \in Int /\ FilledBy(fills, clock)
      /\ Sound(A, Until(A, clock), clock = 0, books)
      /\ LedgerAt(fills, clock) = AccountOf(books)
  <2>1. /\ Market(A) /\ IsBooks(books) /\ Balanced(books) /\ books.failure = "none" /\ clock \in Int
    BY <1>0, <1>2, BooksAre
  <2>2. /\ FilledBy(fills, clock) /\ Sound(A, Until(A, clock), clock = 0, books)
        /\ LedgerAt(fills, clock) = AccountOf(books)
    BY <1>0, <1>2 DEF BooksMirrored
  <2>3. QED
    BY <2>1, <2>2
<1>4. clock \in Nat /\ clock > 0
  <2>1. clock \in 0 .. Terminal /\ Terminal \in Nat /\ Terminal > 0
    BY AccountAssumption DEF TypeOK, Terminal
  <2>2. clock # 0
    <3>1. 0 % 2 = 0
      OBVIOUS
    <3>2. trades[0] = Missing
      BY <2>1, <3>1 DEF Chronology
    <3>3. QED
      BY <2>1, <3>2 DEF Chronology
  <2>3. QED
    BY <2>1, <2>2
<1>5. /\ m \in Nat /\ k \in Nat /\ FilledBy(fs, clock) /\ IsSequence(fs)
      /\ EventsUntil(fs, clock) = EventsUntil(fills, clock) \cup StagedEvents(plan, m, k)
      /\ OnTimeline(EventsUntil(fills, clock) \cup StagedEvents(plan, m, k))
      /\ \A e \in EventsUntil(fills, clock) : \A f \in StagedEvents(plan, m, k) : Before(e, f)
      /\ \A at \in Int : at < clock => EventsUntil(fs, at) = EventsUntil(fills, at)
  BY <1>1, <1>2, <1>3, StagedFollow
<1>6. LedgerAt(fs, clock) = AccountOf(b)
  <2>1. PICK E, S, start, side, rate :
          /\ E = EventsUntil(fills, clock) /\ S = StagedEvents(plan, m, k) /\ start = Opening
          /\ side = FALSE /\ rate = spec.rate
    OBVIOUS
  <2>2. LedgerAt(fs, clock) = Folded(side, rate, start, E \cup S)
    BY <1>5, <2>1, ReplayIsFold DEF LedgerAt
  <2>3. OnTimeline(E \cup S) /\ \A e \in E : \A f \in S : Before(e, f)
    BY <1>5, <2>1
  <2>4. Folded(side, rate, start, E \cup S) = Folded(side, rate, Folded(side, rate, start, E), S)
    BY <2>3, FoldedJoin
  <2>5. Folded(side, rate, start, E) = AccountOf(books)
    BY <1>3, <2>1, ReplayIsFold DEF LedgerAt
  <2>6. Folded(FALSE, spec.rate, AccountOf(books), StagedEvents(plan, m, Len(StagedFills(plan))))
          = AccountOf(BooksAfter(plan))
    BY <1>1, <1>5, LedgerFollowsBatch
  <2>7. Folded(side, rate, AccountOf(books), S) = AccountOf(b)
    BY <1>2, <2>1, <2>6
  <2>8. QED
    BY <2>2, <2>4, <2>5, <2>7
<1>7. /\ IsBooks(b) /\ b.cash = CashAfter(staged) /\ b.fees = books.fees + Fee(staged)
      /\ b.holdings = plan.quantity /\ b.claims = books.claims
      /\ b.applied = books.applied /\ b.exited = books.exited /\ b.failure = "none"
  BY <1>2, <1>3, BooksAfterFields
<1>8. Balanced(b)
  <2>1. b.cash \in Int /\ b.fees \in Int
    BY <1>1, <1>2, <1>3, <1>7, CashAfterIs DEF Balanced
  <2>2. \A s \in b.exited : b.holdings[s] = 0
    <3>1. SUFFICES ASSUME NEW s \in b.exited PROVE plan.quantity[s] = 0
      BY <1>7
    <3>2. s \in Securities /\ books.holdings[s] = 0 /\ TradedBy(plan, s) = 0
      BY <1>1, <1>3, <1>7 DEF Balanced, Tradable
    <3>3. plan.quantity[s] \in Int
      BY <1>1, <3>2
    <3>4. QED
      BY <3>2, <3>3 DEF TradedBy
  <2>3. QED
    BY <1>1, <1>3, <1>7, <2>1, <2>2 DEF Balanced
<1>9. b.applied = Marks(Until(A, clock)) /\ ClaimsPending(A, Until(A, clock), b)
  BY <1>3, <1>7 DEF Sound, ClaimsPending
<1>10. Sound(A, Until(A, clock), FALSE, b)
  BY <1>7, <1>8, <1>9 DEF Sound, ActionRefusals
<1>11. \A at \in Int : at < clock => LedgerAt(fs, at) = LedgerAt(fills, at)
  BY <1>5 DEF LedgerAt
<1>12. QED
  BY <1>2, <1>4, <1>5, <1>6, <1>7, <1>10, <1>11

\* A batch that is kept is one the validator accepts.
LEMMA LineageOfBatch ==
  ASSUME TypeOK, Chronology, BooksMirrored, ValuedForTrade, stage = "trade",
         NEW plan, plan = Plan, Refusal(plan) = "none", NEW batch,
         batch = [at |-> clock, fills |-> StagedFills(plan), request |-> Request,
                  quantity |-> plan.quantity, prices |-> quotes]
  PROVE  TradeLineageAccepted(batch)
<1>0. Running
  BY DEF Running
<1>1. PICK order, n : StagedIn(plan, order, n)
  BY StagedInOrder
<1>2. PICK staged, emitted, h, q :
        /\ staged = StagedFills(plan) /\ emitted = {batch.fills[j] : j \in DOMAIN batch.fills}
        /\ h = books.holdings /\ q = plan.quantity
  OBVIOUS
<1>3. /\ batch.at = clock /\ batch.fills = staged /\ batch.quantity = q /\ batch.prices = quotes
      /\ batch.request.weight = Weights
      /\ batch.request.old = [s \in Securities |-> IF s \in Held(books) THEN books.holdings[s] * quotes[s] ELSE 0]
  BY <1>2 DEF Request
<1>4. Tradable(plan) /\ Orderable(plan) /\ q \in [Securities -> Int] /\ h \in [Securities -> Int]
  BY <1>2, TradeIs DEF Tradable, Orderable
<1>5. n \in Nat /\ DOMAIN staged = 1 .. n
  BY <1>1, <1>2 DEF StagedIn
<1>6. \A i \in 1 .. n : /\ staged[i].security = order[i] /\ staged[i].time = clock
                        /\ staged[i].quantity = TradedBy(plan, order[i])
                        /\ staged[i].price = quotes[order[i]]
                        /\ order[i] \in TradedSet(plan) /\ order[i] \in Securities
                        /\ quotes[order[i]] \in Prices
  <2>1. SUFFICES ASSUME NEW i \in 1 .. n
                 PROVE  /\ staged[i].security = order[i] /\ staged[i].time = clock
                        /\ staged[i].quantity = TradedBy(plan, order[i])
                        /\ staged[i].price = quotes[order[i]]
                        /\ order[i] \in TradedSet(plan) /\ order[i] \in Securities
                        /\ quotes[order[i]] \in Prices
    OBVIOUS
  <2>2. /\ staged[i].security = order[i] /\ staged[i].time = clock
        /\ staged[i].quantity = TradedBy(plan, order[i])
        /\ staged[i].price = quotes[order[i]]
        /\ order[i] \in TradedSet(plan)
    BY <1>1, <1>2, <1>4, StagedFill
  <2>3. order[i] \in Securities /\ TradedBy(plan, order[i]) # 0
    BY <2>2 DEF TradedSet
  <2>4. QED
    BY <1>4, <2>2, <2>3 DEF Orderable
<1>7. emitted = {staged[i] : i \in 1 .. n}
  BY <1>2, <1>3, <1>5
<1>8. Cardinality(emitted) = Len(batch.fills)
  <2>1. \A i, j \in 1 .. n : order[i] = order[j] => i = j
    BY <1>1 DEF StagedIn
  <2>2. staged = [i \in 1 .. n |-> staged[i]]
    BY <1>1, <1>2 DEF StagedIn
  <2>3. staged \in [1 .. n -> emitted]
    BY <1>7, <2>2
  <2>4. staged \in Bijection(1 .. n, emitted)
    <3>1. \A i, j \in 1 .. n : staged[i] = staged[j] => i = j
      BY <1>6, <2>1
    <3>2. staged \in Injection(1 .. n, emitted)
      BY <1>5, <2>3, <3>1 DEF Injection, IsInjective
    <3>3. staged \in Surjection(1 .. n, emitted)
      BY <1>7, <2>3 DEF Surjection
    <3>4. QED
      BY <3>2, <3>3 DEF Bijection
  <2>5. ExistsBijection(1 .. n, emitted)
    BY <2>4 DEF ExistsBijection
  <2>6. IsFiniteSet(1 .. n) /\ Cardinality(1 .. n) = n
    BY <1>5, FS_Interval
  <2>7. Cardinality(emitted) = n
    BY <2>5, <2>6, FS_Bijection
  <2>8. Len(staged) = n
    BY <1>5, <2>2
  <2>9. QED
    BY <1>3, <2>7, <2>8
<1>9. \A f \in emitted : f.time = batch.at /\ f.price = batch.prices[f.security]
  BY <1>3, <1>6, <1>7
<1>10. PICK solved : solved = [s \in Securities |-> q[s] * quotes[s] - batch.request.old[s]]
  OBVIOUS
<1>11. \A s \in Securities : quotes[s] # Missing =>
         /\ solved[s] = TradedBy(plan, s) * quotes[s]
         /\ solved[s] # 0 <=> TradedBy(plan, s) # 0
  <2>1. SUFFICES ASSUME NEW s \in Securities, quotes[s] # Missing
                 PROVE  /\ solved[s] = TradedBy(plan, s) * quotes[s]
                        /\ solved[s] # 0 <=> TradedBy(plan, s) # 0
    OBVIOUS
  <2>2. PICK x, y, p : /\ x = q[s] /\ y = h[s] /\ p = quotes[s] /\ x \in Int /\ y \in Int
                       /\ p \in Prices
    BY <1>4, <2>1 DEF TypeOK
  <2>3. p \in Nat /\ p > 0
    BY <2>2, PriceIs
  <2>4. batch.request.old[s] = y * p
    <3>1. batch.request.old[s] = IF y # 0 THEN y * p ELSE 0
      BY <1>2, <1>3, <2>2 DEF Held
    <3>2. y = 0 => y * p = 0
      BY <2>3
    <3>3. QED
      BY <3>1, <3>2
  <2>5. solved[s] = x * p - y * p
    BY <1>10, <2>2, <2>4
  <2>6. TradedBy(plan, s) = x - y
    BY <1>2, <2>2 DEF TradedBy
  <2>7. x * p - y * p = (x - y) * p
    BY <2>2, <2>3
  <2>8. (x - y) * p # 0 <=> x - y # 0
    <3>1. PICK z : z = x - y
      OBVIOUS
    <3>2. z \in Int
      BY <2>2, <3>1
    <3>3. z * p # 0 <=> z # 0
      BY <2>3, <3>2
    <3>4. QED
      BY <3>1, <3>3
  <2>9. QED
    BY <2>2, <2>5, <2>6, <2>7, <2>8
<1>12. {f.security : f \in emitted}
         = {s \in Securities : batch.prices[s] # Missing
              /\ batch.quantity[s] * batch.prices[s] - batch.request.old[s] # 0}
  <2>1. {f.security : f \in emitted} = {s \in Securities : TradedBy(plan, s) # 0}
    <3>1. {f.security : f \in emitted} = {order[i] : i \in 1 .. n}
      BY <1>6, <1>7
    <3>2. {order[i] : i \in 1 .. n} = TradedSet(plan)
      BY <1>1 DEF StagedIn
    <3>3. QED
      BY <3>1, <3>2 DEF TradedSet
  <2>2. \A s \in Securities : TradedBy(plan, s) # 0 => quotes[s] # Missing
    <3>1. SUFFICES ASSUME NEW s \in Securities, TradedBy(plan, s) # 0 PROVE quotes[s] # Missing
      OBVIOUS
    <3>2. s \in Required
      <4>1. /\ Positions(Request) \subseteq Required
            /\ \A x \in Securities : x \notin Positions(Request) => books.holdings[x] = 0
        BY RefusalNone, RequestIs
      <4>2. s \notin Positions(Request) => q[s] = 0 /\ h[s] = 0
        BY <1>2, <4>1, TradeIs DEF Promised
      <4>3. q[s] # 0 \/ h[s] # 0
        BY <1>2, <1>4, <3>1 DEF TradedBy
      <4>4. QED
        BY <4>1, <4>2, <4>3
    <3>3. QED
      BY <3>2, RefusalNone
  <2>3. \A s \in Securities : quotes[s] # Missing =>
          batch.quantity[s] * batch.prices[s] - batch.request.old[s] = solved[s]
    BY <1>3, <1>10
  <2>4. QED
    BY <1>3, <1>11, <2>1, <2>2, <2>3
<1>13. \A f \in emitted : f.quantity * f.price
                            = batch.quantity[f.security] * batch.prices[f.security]
                                - batch.request.old[f.security]
  <2>1. SUFFICES ASSUME NEW i \in 1 .. n
                 PROVE  staged[i].quantity * staged[i].price
                          = batch.quantity[staged[i].security] * batch.prices[staged[i].security]
                              - batch.request.old[staged[i].security]
    BY <1>7
  <2>2. PICK s : s = order[i]
    OBVIOUS
  <2>3. /\ s \in Securities /\ quotes[s] \in Prices
        /\ staged[i].security = s /\ staged[i].quantity = TradedBy(plan, s)
        /\ staged[i].price = quotes[s]
    BY <1>6, <2>2
  <2>4. quotes[s] # Missing
    <3>1. s \in {f.security : f \in emitted}
      BY <1>7, <2>3
    <3>2. QED
      BY <1>3, <1>12, <3>1
  <2>5. solved[s] = TradedBy(plan, s) * quotes[s]
    BY <1>11, <2>3, <2>4
  <2>6. solved[s] = batch.quantity[s] * batch.prices[s] - batch.request.old[s]
    BY <1>3, <1>10, <2>3
  <2>7. QED
    BY <2>3, <2>5, <2>6
<1>14. batch.at # Terminal => batch.request.weight = trades[batch.at]
  BY <1>3 DEF Weights
<1>15. QED
  BY <1>2, <1>8, <1>9, <1>12, <1>13, <1>14 DEF TradeLineageAccepted

-----------------------------------------------------------------------------
(* One more observation *)

\* The last row of every instant is what the instant replays to.
StableRows(rows, replayed) ==
  \A i \in DOMAIN rows :
    (\A j \in DOMAIN rows : j > i => rows[j].at # rows[i].at) =>
      replayed[rows[i].at] = rows[i].account

\* A row of a later instant, or of the same one, keeps the earlier rows stable.
LEMMA StableAppend ==
  ASSUME NEW rows, NEW row, NEW old, NEW new, IsSequence(rows), row.at \in Int,
         \A i \in DOMAIN rows : rows[i].at \in Int /\ rows[i].at <= row.at,
         StableRows(rows, old), new[row.at] = row.account,
         \A t \in Int : t < row.at => new[t] = old[t]
  PROVE  StableRows(Append(rows, row), new)
<1>1. PICK n, more : n = Len(rows) /\ more = Append(rows, row)
  OBVIOUS
<1>2. /\ n \in Nat /\ DOMAIN rows = 1 .. n /\ DOMAIN more = 1 .. n + 1
      /\ (\A i \in 1 .. n : more[i] = rows[i]) /\ more[n + 1] = row
  BY <1>1, AppendedIs
<1>3. SUFFICES ASSUME NEW i \in 1 .. n + 1, \A j \in 1 .. n + 1 : j > i => more[j].at # more[i].at
               PROVE  new[more[i].at] = more[i].account
  BY <1>1, <1>2 DEF StableRows
<1>4. CASE i = n + 1
  BY <1>2, <1>4
<1>5. CASE i # n + 1
  <2>1. i \in 1 .. n /\ n + 1 > i /\ more[i] = rows[i] /\ n + 1 \in 1 .. n + 1
    BY <1>2, <1>5
  <2>2. rows[i].at # row.at
    BY <1>2, <1>3, <2>1
  <2>3. \A j \in 1 .. n : j > i => rows[j].at # rows[i].at
    <3>1. SUFFICES ASSUME NEW j \in 1 .. n, j > i PROVE rows[j].at # rows[i].at
      OBVIOUS
    <3>2. j \in 1 .. n + 1 /\ more[j] = rows[j]
      BY <1>2
    <3>3. QED
      BY <1>3, <2>1, <3>1, <3>2
  <2>4. old[rows[i].at] = rows[i].account
    BY <1>2, <2>1, <2>3 DEF StableRows
  <2>5. rows[i].at \in Int /\ rows[i].at < row.at
    BY <1>2, <2>1, <2>2
  <2>6. QED
    BY <2>1, <2>4, <2>5
<1>6. QED
  BY <1>4, <1>5

\* The replays of the fills at every instant.
Replays(fs) == [t \in Int |-> LedgerAt(fs, t)]

\* The stability of the history, row by row.
LEMMA StableIs ==
  ASSUME \A i \in DOMAIN observations : observations[i].at \in Int
  PROVE  HistoryIsStable <=> StableRows(observations, Replays(fills))
  BY DEF HistoryIsStable, StableRows, Replays

\* A first value before the others.
LEMMA FirstAppend ==
  ASSUME NEW first, NEW s, IsSequence(s), NEW x
  PROVE  <<first>> \o Append(s, x) = Append(<<first>> \o s, x)
<1>1. PICK S, f : S = Range(s) \cup {x, first} /\ f = <<first>>
  OBVIOUS
<1>2. s \in Seq(S) /\ x \in S /\ f \in Seq(S)
  <2>1. s \in Seq(Range(s))
    BY DEF IsSequence
  <2>2. s = [i \in 1 .. Len(s) |-> s[i]] /\ Len(s) \in Nat /\ \A i \in 1 .. Len(s) : s[i] \in Range(s)
    BY <2>1
  <2>3. s \in Seq(S)
    BY <1>1, <2>2
  <2>4. QED
    BY <1>1, <2>3
<1>3. f \o Append(s, x) = Append(f \o s, x)
  BY <1>2
<1>4. QED
  BY <1>1, <1>3

\* Two instants of a clock that counts closes in twos.
LEMMA Parity ==
  ASSUME NEW n \in Int, NEW m \in Int, n = 2 * m
  PROVE  n % 2 = 0 /\ (n + 1) % 2 = 1
  OBVIOUS

\* The last instant is a close after the first one.
LEMMA TerminalIs ==
  Sessions \in Nat /\ Sessions > 0 /\ Terminal \in Nat /\ Terminal = 2 * Sessions /\ Terminal > 0
  BY AccountAssumption DEF Terminal

\* Books on which nothing has happened yet.
OpeningBooks ==
  [cash |-> InitialCash, fees |-> 0, holdings |-> Flat,
   loans |-> [s \in Securities |-> Missing], claims |-> {}, applied |-> {},
   exited |-> {}, failure |-> "none"]

-----------------------------------------------------------------------------
(* The invariant holds initially and is kept by every step *)

\* A run that has not begun satisfies the invariant.
LEMMA InitialInvariant ==
  Init => IInv
<1> SUFFICES ASSUME Init PROVE IInv
  OBVIOUS
<1>1. /\ spec \in Specs /\ clock = 0 /\ stage = "schedule" /\ failure = "none"
      /\ quotes = [s \in Securities |-> Missing] /\ trades = [t \in 0 .. Terminal |-> Missing]
      /\ ledger = Missing /\ fills = <<>> /\ batches = <<>> /\ observations = <<>> /\ closes = <<>>
      /\ books = OpeningBooks
  BY DEF Init, OpeningBooks
<1>2. ~Running
  BY <1>1 DEF Running
<1>3. PICK none : none = <<>>
  OBVIOUS
<1>4. DOMAIN none = {} /\ IsSequence(none)
  <2>1. PICK T : T = {0}
    OBVIOUS
  <2>2. none \in Seq(T) /\ DOMAIN none = {}
    BY <1>3
  <2>3. QED
    BY <2>2, SequenceIs
<1>5. TypeOK
  <2>1. 0 \in 0 .. Terminal
    BY TerminalIs
  <2>2. quotes \in [Securities -> Prices \cup {Missing}] /\ trades \in [0 .. Terminal -> Allocations \cup {Missing}]
    BY <1>1
  <2>3. QED
    BY <1>1, <1>3, <1>4, <2>1, <2>2 DEF TypeOK
<1>6. Chronology
  BY <1>1 DEF Chronology
<1>7. BooksMirrored
  BY <1>1, <1>2 DEF BooksMirrored, OpeningBooks
<1>8. CacheIsReplay
  BY <1>2 DEF CacheIsReplay
<1>9. ValuedForTrade
  BY <1>1 DEF ValuedForTrade
<1>10. RowsInOrder
  BY <1>1, <1>2, <1>3, <1>4 DEF RowsInOrder
<1>11. ClosesInOrder
  BY <1>1, <1>2, <1>3, <1>4 DEF ClosesInOrder
<1>12. BatchesInOrder
  <2>1. [i \in DOMAIN batches |-> batches[i].fills] = none
    BY <1>1, <1>3, <1>4
  <2>2. FlattenSeq(none) = none
    BY <1>3 DEF FlattenSeq
  <2>3. QED
    BY <1>1, <1>3, <1>4, <2>1, <2>2 DEF BatchesInOrder
<1>13. HistoryIsStable /\ CommittedBatchesAreFunded
  BY <1>1, <1>3, <1>4 DEF HistoryIsStable, CommittedBatchesAreFunded
<1>14. QED
  BY <1>5, <1>6, <1>7, <1>8, <1>9, <1>10, <1>11, <1>12, <1>13 DEF IInv

\* Before the first instant of the sample there is nothing to replay.
LEMMA OpeningIs ==
  ASSUME TypeOK, \A a \in spec.actions : ~ (a.effective < 0),
         NEW b, b = OpeningBooks, NEW none, none = <<>>
  PROVE  /\ Sound(spec.actions, Until(spec.actions, -1), TRUE, b)
         /\ FilledBy(none, -1) /\ LedgerAt(none, -1) = AccountOf(b)
<1>1. PICK A, before : A = spec.actions /\ before = -1
  OBVIOUS
<1>2. Market(A) /\ before \in Int /\ before < 0
  BY <1>1, AccountAssumption DEF TypeOK, SpecValid, Market
<1>3. Until(A, before) = {}
  <2>1. SUFFICES ASSUME NEW e \in ActionEvents(A), e.time <= before PROVE FALSE
    BY DEF Until
  <2>2. /\ e.body \in A /\ ActionValid(e.body)
        /\ \/ e.time = e.body.effective
           \/ e.time = e.body.pay /\ e.body.pay # Missing
    BY <1>2, ActionEventIs
  <2>3. PICK effective, pay : effective = e.body.effective /\ pay = e.body.pay
    OBVIOUS
  <2>4. effective \in Int /\ ~ (effective < 0)
    BY <1>1, <2>2, <2>3 DEF ActionValid
  <2>5. CASE e.time = effective
    BY <1>1, <1>2, <2>1, <2>4, <2>5
  <2>6. CASE e.time = pay /\ pay # Missing
    <3>1. pay \in Int /\ effective <= pay
      BY <2>2, <2>3, <2>6 DEF ActionValid
    <3>2. QED
      BY <1>2, <2>1, <2>4, <2>6, <3>1
  <2>7. QED
    BY <2>2, <2>3, <2>5, <2>6
<1>4. Sound(A, {}, TRUE, b)
  <2>1. /\ IsBooks(b) /\ b.cash = InitialCash /\ b.fees = 0 /\ b.holdings = Flat
        /\ b.claims = {} /\ b.applied = {} /\ b.exited = {} /\ b.failure = "none"
    BY DEF OpeningBooks, IsBooks
  <2>2. Marks({}) = {}
    BY DEF Marks
  <2>3. IsFiniteSet({}) /\ InitialCash \in Int /\ Flat \in [Securities -> Int]
    BY FS_EmptySet, AccountAssumption DEF Flat
  <2>4. Balanced(b)
    BY <2>1, <2>3 DEF Balanced
  <2>5. ClaimsPending(A, {}, b)
    BY DEF ClaimsPending
  <2>6. Untouched(b)
    BY <2>1 DEF Untouched
  <2>7. b.failure \in ActionRefusals
    BY <2>1 DEF ActionRefusals
  <2>8. QED
    BY <2>1, <2>2, <2>4, <2>5, <2>6, <2>7 DEF Sound
<1>5. FilledBy(none, before)
  BY DEF FilledBy
<1>6. EventsUntil(none, before) = {}
  <2>1. FillEvents(none) = {}
    BY DEF FillEvents
  <2>2. QED
    BY <1>1, <1>3, <2>1 DEF EventsUntil, Until
<1>7. LedgerAt(none, before) = Opening
  <2>1. PICK rate, nothing : rate = spec.rate /\ nothing = EventsUntil(none, before)
    OBVIOUS
  <2>2. OnTimeline(nothing) /\ nothing = {}
    BY <1>6, <2>1, FS_EmptySet DEF OnTimeline
  <2>3. Folded(FALSE, rate, Opening, nothing) = Opening
    BY <2>2, FoldedStep
  <2>4. QED
    BY <2>1, <2>3, ReplayIsFold DEF LedgerAt
<1>8. Opening = AccountOf(b)
  BY DEF Opening, AccountOf, OpeningBooks
<1>9. QED
  BY <1>1, <1>3, <1>4, <1>5, <1>7, <1>8

\* A replay depends on the inputs alone.
LEMMA ReplayFrame ==
  ASSUME spec' = spec
  PROVE  \A fs, at : LedgerAt(fs, at)' = LedgerAt(fs, at)
  BY DEF LedgerAt, EventsUntil

\* What is left of the invariant when nothing is observed or traded.
LEMMA RecordsFrame ==
  ASSUME IInv, UNCHANGED <<spec, fills, observations>>
  PROVE  HistoryIsStable' /\ CommittedBatchesAreFunded'
<1>1. HistoryIsStable /\ CommittedBatchesAreFunded
  BY DEF IInv
<1>2. \A fs, at : LedgerAt(fs, at)' = LedgerAt(fs, at)
  BY ReplayFrame
<1>3. HistoryIsStable'
  BY <1>1, <1>2 DEF HistoryIsStable
<1>4. CommittedBatchesAreFunded'
  BY <1>1 DEF CommittedBatchesAreFunded
<1>5. QED
  BY <1>3, <1>4

\* The baseline is carried on from an account on which nothing has happened.
LEMMA ScheduleKeeps ==
  ASSUME IInv, Schedule
  PROVE  IInv'
<1>1. /\ stage = "schedule"
      /\ UNCHANGED <<spec, clock, quotes, books, ledger, fills, batches, trades, observations, closes>>
      /\ \/ stage' = "observe" /\ failure' = failure /\ \A a \in spec.actions : ~ (a.effective < 0)
         \/ stage' = "failed" /\ failure' # "none"
  BY DEF Schedule, Fail
<1>2. /\ TypeOK /\ Chronology /\ BooksMirrored /\ RowsInOrder /\ ClosesInOrder /\ BatchesInOrder
  BY DEF IInv
<1>3. /\ clock = 0 /\ fills = <<>> /\ batches = <<>> /\ observations = <<>> /\ closes = <<>>
      /\ ledger = Missing /\ failure = "none" /\ books = OpeningBooks
  BY <1>1, <1>2 DEF Chronology, BooksMirrored, OpeningBooks
<1>4. TypeOK'
  BY <1>1, <1>2 DEF TypeOK
<1>5. Chronology'
  <2>1. (stage' = "failed") = (failure' # "none")
    BY <1>1, <1>3
  <2>2. QED
    BY <1>1, <1>2, <2>1 DEF Chronology
<1>6. BooksMirrored'
  <2>1. CASE stage' = "observe"
    <3>1. CarriedTo' = -1 /\ \A a \in spec.actions : ~ (a.effective < 0)
      BY <1>1, <1>3, <2>1 DEF CarriedTo
    <3>2. PICK r, none : r = -1 /\ none = <<>>
      OBVIOUS
    <3>3. /\ Sound(spec.actions, Until(spec.actions, r), TRUE, books)
          /\ FilledBy(none, r) /\ LedgerAt(none, r) = AccountOf(books)
      BY <1>2, <1>3, <3>1, <3>2, OpeningIs
    <3>4. LedgerAt(none, r)' = LedgerAt(none, r)
      BY <1>1, ReplayFrame
    <3>5. /\ Sound(spec.actions, Until(spec.actions, CarriedTo), clock = 0, books)'
          /\ FilledBy(fills, CarriedTo)' /\ LedgerAt(fills, CarriedTo)' = AccountOf(books)'
      BY <1>1, <1>3, <3>1, <3>2, <3>3, <3>4
    <3>6. books'.failure = "none" /\ books'.claims = {}
      BY <1>1, <1>3 DEF OpeningBooks
    <3>7. QED
      BY <2>1, <3>5, <3>6 DEF BooksMirrored
  <2>2. CASE stage' # "observe"
    BY <1>1, <2>2 DEF BooksMirrored, Running
  <2>3. QED
    BY <2>1, <2>2
<1>7. CacheIsReplay' /\ ValuedForTrade'
  BY <1>1, <1>3 DEF CacheIsReplay, ValuedForTrade
<1>8. RowsInOrder' /\ ClosesInOrder'
  <2>1. PICK none : none = <<>>
    OBVIOUS
  <2>2. DOMAIN none = {} /\ observations' = none /\ closes' = none /\ clock' = 0
    BY <1>1, <1>3, <2>1
  <2>3. RowsInOrder'
    BY <2>2 DEF RowsInOrder
  <2>4. ClosesInOrder'
    BY <1>1, <2>1, <2>2 DEF ClosesInOrder, Running
  <2>5. QED
    BY <2>3, <2>4
<1>9. BatchesInOrder'
  <2>1. PICK none : none = <<>>
    OBVIOUS
  <2>2. DOMAIN none = {} /\ batches' = none
    BY <1>1, <1>3, <2>1
  <2>3. QED
    BY <1>1, <1>2, <2>2 DEF BatchesInOrder
<1>10. HistoryIsStable' /\ CommittedBatchesAreFunded'
  BY <1>1, RecordsFrame
<1>11. QED
  BY <1>4, <1>5, <1>6, <1>7, <1>8, <1>9, <1>10 DEF IInv

\* Fills of the past stay of the past.
LEMMA FilledLater ==
  ASSUME NEW fs, NEW t \in Int, NEW u \in Int, t <= u, FilledBy(fs, t)
  PROVE  FilledBy(fs, u)
<1>1. fs \in Seq(Fill) /\ \A i \in DOMAIN fs : fs[i].time <= t
  BY DEF FilledBy
<1>2. \A i \in DOMAIN fs : fs[i].time \in Int
  BY <1>1, FillAt
<1>3. \A i \in DOMAIN fs : fs[i].time <= u
  BY <1>1, <1>2
<1>4. QED
  BY <1>1, <1>3 DEF FilledBy

\* The lineage of a batch looks at the allocation of its instant alone.
LEMMA LineageFrame ==
  ASSUME NEW batch, trades'[batch.at] = trades[batch.at], TradeLineageAccepted(batch)
  PROVE  TradeLineageAccepted(batch)'
  BY DEF TradeLineageAccepted

\* Batches that stay, at a clock that does not go back.
LEMMA BatchesFrame ==
  ASSUME BatchesInOrder, UNCHANGED <<fills, batches>>, clock \in Int, clock' \in Int, clock <= clock',
         \A t \in 0 .. clock : trades'[t] = trades[t]
  PROVE  BatchesInOrder'
<1>1. \A i \in DOMAIN batches : batches[i].at \in 0 .. clock /\ TradeLineageAccepted(batches[i])
  BY DEF BatchesInOrder
<1>2. SUFFICES ASSUME NEW i \in DOMAIN batches
               PROVE  batches[i].at \in 0 .. clock' /\ TradeLineageAccepted(batches[i])'
  BY <1>1 DEF BatchesInOrder
<1>3. PICK batch : batch = batches[i]
  OBVIOUS
<1>4. batch.at \in 0 .. clock /\ TradeLineageAccepted(batch) /\ trades'[batch.at] = trades[batch.at]
  BY <1>1, <1>3
<1>5. TradeLineageAccepted(batch)'
  BY <1>4, LineageFrame
<1>6. batch.at \in 0 .. clock'
  BY <1>4
<1>7. batches' = batches
  OBVIOUS
<1>8. TradeLineageAccepted(batches[i])'
  BY <1>3, <1>5, <1>7 DEF TradeLineageAccepted
<1>9. QED
  BY <1>3, <1>6, <1>8

\* An allocation that is formed belongs to a later instant.
LEMMA FormKeeps ==
  ASSUME IInv, Form
  PROVE  IInv'
<1>1. /\ stage = "form"
      /\ UNCHANGED <<spec, quotes, books, ledger, fills, batches, observations, closes>>
      /\ \/ /\ \E allocation \in Allocations : trades' = [trades EXCEPT ![clock + 1] = allocation]
            /\ stage' = "observe" /\ clock' = clock + 1 /\ failure' = failure
         \/ stage' = "failed" /\ failure' # "none" /\ clock' = clock /\ trades' = trades
  BY DEF Form, Fail
<1>2. /\ TypeOK /\ Chronology /\ BooksMirrored /\ CacheIsReplay /\ RowsInOrder /\ ClosesInOrder
      /\ BatchesInOrder
  BY DEF IInv
<1>3. /\ clock \in Int /\ 0 <= clock /\ clock < Terminal /\ clock % 2 = 0 /\ Terminal \in Int
      /\ (clock + 1) % 2 = 1 /\ failure = "none"
  BY <1>1, <1>2, TerminalIs DEF TypeOK, Chronology
<1>4. /\ clock' \in 0 .. Terminal /\ clock <= clock'
      /\ trades' \in [0 .. Terminal -> Allocations \cup {Missing}]
      /\ \A t \in 0 .. Terminal : trades'[t] # trades[t] => t = clock + 1
  <2>1. trades \in [0 .. Terminal -> Allocations \cup {Missing}]
    BY <1>2 DEF TypeOK
  <2>2. CASE stage' = "failed"
    BY <1>1, <1>3, <2>1, <2>2
  <2>3. CASE stage' = "observe"
    <3>1. clock' = clock + 1
      BY <1>1, <2>3
    <3>2. PICK allocation \in Allocations : trades' = [trades EXCEPT ![clock + 1] = allocation]
      BY <1>1, <2>3
    <3>3. clock + 1 \in 0 .. Terminal
      BY <1>3
    <3>4. QED
      BY <1>3, <2>1, <3>1, <3>2, <3>3
  <2>4. QED
    BY <1>1, <2>2, <2>3
<1>5. TypeOK'
  BY <1>1, <1>2, <1>4 DEF TypeOK
<1>6. Chronology'
  <2>1. \A t \in 0 .. Terminal : t % 2 = 0 => trades'[t] = Missing
    BY <1>2, <1>3, <1>4 DEF Chronology
  <2>2. (stage' = "failed") = (failure' # "none")
    BY <1>1, <1>3
  <2>3. stage' \in {"observe", "failed"}
    BY <1>1
  <2>4. QED
    BY <2>1, <2>2, <2>3 DEF Chronology
<1>7. BooksMirrored' /\ CacheIsReplay' /\ RowsInOrder' /\ ClosesInOrder' /\ ValuedForTrade'
  <2>1. CASE stage' = "failed"
    BY <1>1, <1>2, <2>1 DEF BooksMirrored, CacheIsReplay, RowsInOrder, ClosesInOrder, ValuedForTrade, Running
  <2>2. CASE stage' = "observe"
    <3>1. clock' = clock + 1 /\ CarriedTo = clock /\ CarriedTo' = clock /\ Running /\ Running'
      BY <1>1, <1>3, <2>2 DEF CarriedTo, Running
    <3>2. PICK t, idle : t = clock /\ idle = (clock = 0)
      OBVIOUS
    <3>3. /\ books.failure = "none" /\ Sound(spec.actions, Until(spec.actions, t), idle, books)
          /\ FilledBy(fills, t) /\ LedgerAt(fills, t) = AccountOf(books)
          /\ spec.actions = {} => books.claims = {}
      BY <1>2, <3>1, <3>2 DEF BooksMirrored
    <3>4. Sound(spec.actions, Until(spec.actions, t), FALSE, books)
      BY <3>3 DEF Sound
    <3>5. LedgerAt(fills, t)' = LedgerAt(fills, t) /\ clock' # 0
      BY <1>1, <1>3, <3>1, ReplayFrame
    <3>6. BooksMirrored'
      <4>1. (clock = 0)' = FALSE /\ CarriedTo' = t
        BY <3>1, <3>2, <3>5
      <4>2. Sound(spec.actions, Until(spec.actions, CarriedTo), clock = 0, books)'
        BY <1>1, <3>4, <4>1
      <4>3. LedgerAt(fills, CarriedTo)' = LedgerAt(fills, t)'
        BY <4>1
      <4>4. QED
        BY <1>1, <2>2, <3>3, <3>5, <4>1, <4>2, <4>3 DEF BooksMirrored
    <3>7. CacheIsReplay'
      <4>1. SUFFICES ASSUME spec.actions = {}, ledger # Missing
                     PROVE  /\ FilledBy(ledger.fills, clock')
                            /\ ledger.account = Replay(spec.rate, FillEvents(ledger.fills))
        BY <1>1 DEF CacheIsReplay
      <4>2. /\ FilledBy(ledger.fills, clock)
            /\ ledger.account = Replay(spec.rate, FillEvents(ledger.fills))
        BY <1>2, <3>1, <4>1 DEF CacheIsReplay
      <4>3. FilledBy(ledger.fills, clock')
        BY <1>3, <3>1, <4>2, FilledLater
      <4>4. QED
        BY <4>2, <4>3
    <3>8. RowsInOrder'
      BY <1>1, <1>2, <3>1 DEF RowsInOrder
    <3>9. ClosesInOrder'
      <4>1. 2 * Len(closes) = clock
        BY <1>1, <1>2 DEF ClosesInOrder
      <4>2. 2 * Len(closes) < clock' /\ clock' <= 2 * Len(closes) + 2
        BY <1>3, <3>1, <4>1
      <4>3. /\ \A i \in DOMAIN closes : closes[i].at = 2 * i
            /\ Closings(observations) = <<[at |-> 0, nav |-> InitialCash]>> \o closes
        BY <1>1, <1>2, <3>1 DEF ClosesInOrder
      <4>4. QED
        BY <1>1, <2>2, <3>5, <4>2, <4>3 DEF ClosesInOrder
    <3>10. QED
      BY <2>2, <3>6, <3>7, <3>8, <3>9 DEF ValuedForTrade
  <2>3. QED
    BY <1>1, <2>1, <2>2
<1>8. BatchesInOrder'
  <2>1. \A t \in 0 .. clock : trades'[t] = trades[t]
    BY <1>3, <1>4
  <2>2. clock' \in Int
    BY <1>3, <1>4
  <2>3. QED
    BY <1>1, <1>2, <1>3, <1>4, <2>1, <2>2, BatchesFrame
<1>9. HistoryIsStable' /\ CommittedBatchesAreFunded'
  BY <1>1, RecordsFrame
<1>10. QED
  BY <1>5, <1>6, <1>7, <1>8, <1>9 DEF IInv

\* Measuring a run, and doing nothing, changes no balance.
LEMMA MeasureKeeps ==
  ASSUME IInv, Measure
  PROVE  IInv'
<1>1. /\ stage = "measure"
      /\ UNCHANGED <<spec, clock, quotes, books, ledger, fills, batches, trades, observations, closes>>
      /\ \/ stage' = "completed" /\ failure' = failure
         \/ stage' = "failed" /\ failure' # "none"
  BY DEF Measure, Fail
<1>2. /\ TypeOK /\ Chronology /\ BooksMirrored /\ CacheIsReplay /\ RowsInOrder /\ ClosesInOrder
      /\ BatchesInOrder
  BY DEF IInv
<1>3. /\ clock \in Int /\ clock = Terminal /\ failure = "none" /\ Running /\ CarriedTo = clock
      /\ CarriedTo' = clock
  BY <1>1, <1>2 DEF TypeOK, Chronology, Running, CarriedTo
<1>4. TypeOK'
  BY <1>1, <1>2 DEF TypeOK
<1>5. Chronology'
  <2>1. (stage' = "failed") = (failure' # "none")
    BY <1>1, <1>3
  <2>2. stage' \in {"completed", "failed"}
    BY <1>1
  <2>3. QED
    BY <1>1, <1>2, <1>3, <2>1, <2>2 DEF Chronology
<1>6. BooksMirrored'
  <2>1. CASE stage' = "failed"
    BY <2>1 DEF BooksMirrored, Running
  <2>2. CASE stage' = "completed"
    <3>1. PICK t : t = clock
      OBVIOUS
    <3>2. LedgerAt(fills, t)' = LedgerAt(fills, t)
      BY <1>1, ReplayFrame
    <3>3. /\ books.failure = "none" /\ Sound(spec.actions, Until(spec.actions, t), clock = 0, books)
          /\ FilledBy(fills, t) /\ LedgerAt(fills, t) = AccountOf(books)
          /\ spec.actions = {} => books.claims = {}
      BY <1>2, <1>3, <3>1 DEF BooksMirrored
    <3>4. CarriedTo' = t /\ LedgerAt(fills, CarriedTo)' = LedgerAt(fills, t)'
      BY <1>3, <3>1
    <3>5. Sound(spec.actions, Until(spec.actions, CarriedTo), clock = 0, books)'
      BY <1>1, <3>3, <3>4
    <3>6. QED
      BY <1>1, <2>2, <3>2, <3>3, <3>4, <3>5 DEF BooksMirrored
  <2>3. QED
    BY <1>1, <2>1, <2>2
<1>7. CacheIsReplay' /\ ValuedForTrade'
  BY <1>1, <1>2, <1>3 DEF CacheIsReplay, ValuedForTrade
<1>8. RowsInOrder'
  <2>1. CASE stage' = "failed"
    BY <1>1, <1>2, <2>1 DEF RowsInOrder, Running
  <2>2. CASE stage' # "failed"
    BY <1>1, <1>2, <1>3, <2>2 DEF RowsInOrder
  <2>3. QED
    BY <2>1, <2>2
<1>9. ClosesInOrder'
  <2>1. CASE stage' = "failed"
    BY <1>1, <1>2, <2>1 DEF ClosesInOrder, Running
  <2>2. CASE stage' = "completed"
    <3>1. Closings(observations) = <<[at |-> 0, nav |-> InitialCash]>> \o closes
      BY <1>1, <1>2, <1>3 DEF ClosesInOrder
    <3>2. QED
      BY <1>1, <1>2, <2>2, <3>1 DEF ClosesInOrder
  <2>3. QED
    BY <1>1, <2>1, <2>2
<1>10. BatchesInOrder'
  <2>1. \A t \in 0 .. clock : trades'[t] = trades[t]
    BY <1>1
  <2>2. clock' \in Int /\ clock <= clock'
    BY <1>1, <1>3
  <2>3. QED
    BY <1>1, <1>2, <1>3, <2>1, <2>2, BatchesFrame
<1>11. HistoryIsStable' /\ CommittedBatchesAreFunded'
  BY <1>1, RecordsFrame
<1>12. QED
  BY <1>4, <1>5, <1>6, <1>7, <1>8, <1>9, <1>10, <1>11 DEF IInv

\* A step that changes nothing.
LEMMA StutterKeeps ==
  ASSUME IInv, UNCHANGED vars
  PROVE  IInv'
<1>1. UNCHANGED <<spec, clock, stage, quotes, books, ledger, fills, batches, trades, observations,
                  closes, failure>>
  BY DEF vars
<1>2. /\ TypeOK /\ Chronology /\ BooksMirrored /\ CacheIsReplay /\ ValuedForTrade /\ RowsInOrder
      /\ ClosesInOrder /\ BatchesInOrder
  BY DEF IInv
<1>3. TypeOK' /\ Chronology'
  BY <1>1, <1>2 DEF TypeOK, Chronology
<1>4. (Running' = Running) /\ CarriedTo' = CarriedTo
  BY <1>1 DEF Running, CarriedTo
<1>5. BooksMirrored'
  <2>1. PICK t : t = CarriedTo
    OBVIOUS
  <2>2. LedgerAt(fills, t)' = LedgerAt(fills, t)
    BY <1>1, ReplayFrame
  <2>3. LedgerAt(fills, CarriedTo)' = LedgerAt(fills, t)' /\ LedgerAt(fills, CarriedTo) = LedgerAt(fills, t)
    BY <1>4, <2>1
  <2>4. QED
    BY <1>1, <1>2, <1>4, <2>2, <2>3 DEF BooksMirrored
<1>6. CacheIsReplay'
  BY <1>1, <1>2, <1>4 DEF CacheIsReplay
<1>7. ValuedForTrade'
  BY <1>1, <1>2 DEF ValuedForTrade, Request, Held
<1>8. RowsInOrder'
  BY <1>1, <1>2, <1>4 DEF RowsInOrder
<1>9. ClosesInOrder'
  BY <1>1, <1>2, <1>4 DEF ClosesInOrder
<1>10. BatchesInOrder'
  <2>1. \A t \in 0 .. clock : trades'[t] = trades[t]
    BY <1>1
  <2>2. clock \in Int
    BY <1>2 DEF TypeOK
  <2>3. QED
    BY <1>1, <1>2, <2>1, <2>2, BatchesFrame
<1>11. HistoryIsStable' /\ CommittedBatchesAreFunded'
  BY <1>1, RecordsFrame
<1>12. QED
  BY <1>3, <1>5, <1>6, <1>7, <1>8, <1>9, <1>10, <1>11 DEF IInv

\* An observation that is retained, after fills that leave the earlier instants alone.
LEMMA RetainedKeeps ==
  ASSUME TypeOK, RowsInOrder, Running, HistoryIsStable, CommittedBatchesAreFunded, spec' = spec,
         NEW fs, fills' = fs, NEW row, observations' = Append(observations, row), row.at = clock,
         LedgerAt(fs, clock) = row.account,
         \A at \in Int : at < clock => LedgerAt(fs, at) = LedgerAt(fills, at),
         row.phase \in {"after_entry", "after_liquidation_close"} => row.status = "funded"
  PROVE  /\ IsSequence(observations') /\ HistoryIsStable' /\ CommittedBatchesAreFunded'
         /\ \A i \in DOMAIN observations' :
              /\ observations'[i].at \in Int /\ observations'[i].at <= clock
              /\ row.status = "funded" => observations'[i].status = "funded"
         /\ observations' # <<>> /\ observations'[Len(observations')] = row
<1>1. PICK rows, more, t : rows = observations /\ more = Append(rows, row) /\ t = clock
  OBVIOUS
<1>2. IsSequence(rows) /\ t \in Int /\ observations' = more
  BY <1>1 DEF TypeOK
<1>3. PICK n : n = Len(rows)
  OBVIOUS
<1>4. /\ IsSequence(more) /\ n \in Nat /\ Len(more) = n + 1 /\ more # <<>>
      /\ DOMAIN rows = 1 .. n /\ DOMAIN more = 1 .. n + 1
      /\ (\A i \in 1 .. n : more[i] = rows[i]) /\ more[n + 1] = row
  BY <1>1, <1>2, <1>3, AppendedIs
<1>5. CarriedTo \in Int /\ CarriedTo <= t
  BY <1>1, <1>2 DEF CarriedTo
<1>6. \A i \in DOMAIN rows : rows[i].at \in Int /\ rows[i].at <= t /\ rows[i].status = "funded"
  <2>1. PICK c : c = CarriedTo
    OBVIOUS
  <2>2. \A i \in DOMAIN rows : rows[i].at \in Int /\ rows[i].at <= c /\ rows[i].status = "funded"
    BY <1>1, <2>1 DEF RowsInOrder
  <2>3. c \in Int /\ c <= t
    BY <1>5, <2>1
  <2>4. QED
    BY <1>2, <2>2, <2>3
<1>7. HistoryIsStable'
  <2>1. StableRows(rows, Replays(fills))
    BY <1>1, <1>6, StableIs
  <2>2. PICK old, new : old = Replays(fills) /\ new = Replays(fs)
    OBVIOUS
  <2>3. new[row.at] = row.account /\ row.at = t
    BY <1>1, <1>2, <2>2 DEF Replays
  <2>4. \A at \in Int : at < row.at => new[at] = old[at]
    BY <1>1, <2>2 DEF Replays
  <2>5. StableRows(more, new)
    BY <1>1, <1>2, <1>6, <2>1, <2>2, <2>3, <2>4, StableAppend
  <2>6. \A i \in DOMAIN more : more[i].at \in Int
    BY <1>2, <1>4, <1>6, <2>3
  <2>7. \A at : LedgerAt(fs, at)' = LedgerAt(fs, at)
    BY ReplayFrame
  <2>8. \A i \in DOMAIN more :
          (\A j \in DOMAIN more : j > i => more[j].at # more[i].at) =>
            LedgerAt(fs, more[i].at) = more[i].account
    BY <2>2, <2>5, <2>6 DEF StableRows, Replays
  <2>9. QED
    BY <1>2, <2>7, <2>8 DEF HistoryIsStable
<1>8. CommittedBatchesAreFunded'
  <2>1. \A i \in DOMAIN more :
          more[i].phase \in {"after_entry", "after_liquidation_close"} => more[i].status = "funded"
    <3>1. SUFFICES ASSUME NEW i \in 1 .. n + 1,
                          more[i].phase \in {"after_entry", "after_liquidation_close"}
                   PROVE  more[i].status = "funded"
      BY <1>4
    <3>2. i \in 1 .. n \/ i = n + 1
      BY <1>4
    <3>3. QED
      BY <1>4, <1>6, <3>1, <3>2
  <2>2. QED
    BY <1>2, <2>1 DEF CommittedBatchesAreFunded
<1>9. \A i \in 1 .. n + 1 : /\ more[i].at \in Int /\ more[i].at <= t
                            /\ row.status = "funded" => more[i].status = "funded"
  <2>1. \A i \in 1 .. n + 1 : i \in 1 .. n \/ i = n + 1
    BY <1>4
  <2>2. QED
    BY <1>1, <1>2, <1>4, <1>6, <2>1
<1>10. QED
  BY <1>1, <1>2, <1>4, <1>7, <1>8, <1>9

\* What is observed are the books carried on to the instant, and the ledger returns them.
LEMMA CarriedOn ==
  ASSUME IInv, stage = "observe", NEW b, b = Advanced(books, clock)
  PROVE  /\ Sound(spec.actions, Until(spec.actions, clock), clock = 0, b)
         /\ FilledBy(fills, clock) /\ LedgerAt(fills, clock) = AccountOf(b)
         /\ LedgerFor(fills, clock) = AccountOf(b)
         /\ b.failure \in ActionRefusals /\ IsBooks(b)
         /\ spec.actions = {} => b.claims = {}
         /\ clock = 0 /\ b.failure = "none" => Untouched(b)
<1>1. /\ TypeOK /\ BooksMirrored /\ CacheIsReplay /\ Running
  BY DEF IInv, Running
<1>2. PICK r, t, idle : r = CarriedTo /\ t = clock /\ idle = (clock = 0)
  OBVIOUS
<1>3. r \in Int /\ t \in Int /\ r <= t /\ Market(spec.actions)
  BY <1>1, <1>2, BooksAre DEF CarriedTo
<1>4. /\ books.failure = "none" /\ Sound(spec.actions, Until(spec.actions, r), idle, books)
      /\ FilledBy(fills, r) /\ LedgerAt(fills, r) = AccountOf(books)
      /\ spec.actions = {} => books.claims = {}
  BY <1>1, <1>2 DEF BooksMirrored
<1>5. b = Advanced(books, t)
  BY <1>2
<1>6. Sound(spec.actions, Until(spec.actions, t), idle, b)
  BY <1>3, <1>4, <1>5, AdvancedKeepsSound
<1>7. LedgerAt(fills, t) = AccountOf(b)
  BY <1>3, <1>4, <1>5, LedgerFollowsBooks
<1>8. FilledBy(fills, t)
  BY <1>3, <1>4, FilledLater
<1>9. LedgerFor(fills, t) = LedgerAt(fills, t)
  <2>1. spec.actions = {} /\ ledger # Missing =>
          /\ FilledBy(ledger.fills, t)
          /\ ledger.account = Replay(spec.rate, FillEvents(ledger.fills))
    BY <1>1, <1>2 DEF CacheIsReplay
  <2>2. QED
    BY <2>1, LedgerForIs
<1>10. spec.actions = {} => b.claims = {}
  <2>1. SUFFICES ASSUME spec.actions = {} PROVE b.claims = {}
    OBVIOUS
  <2>2. Due(books, t) = {}
    BY <2>1 DEF Due, ActionEvents
  <2>3. b = books
    BY <1>5, <2>2, AdvancedNothing
  <2>4. QED
    BY <1>4, <2>1, <2>3
<1>11. IsBooks(b) /\ b.failure \in ActionRefusals
  BY <1>6 DEF Sound
<1>12. idle /\ b.failure = "none" => Untouched(b)
  BY <1>6 DEF Sound
<1>13. QED
  BY <1>2, <1>6, <1>7, <1>8, <1>9, <1>10, <1>11, <1>12

\* What a step of observation does.
RowOf(b, at, phase) ==
  [at |-> at, phase |-> phase, account |-> AccountOf(b),
   status |-> CollateralStatus(b.cash, Notional(b), b.claims),
   nav |-> NetAssetValue(b.cash, Notional(b), b.claims)]

\* What an observation does: its books are retained, and only the market or a loan fails it.
LEMMA ObserveIs ==
  ASSUME IInv, Observe, NEW b, b = Advanced(books, clock),
         NEW row, row = RowOf(b, clock, PhaseName(clock))
  PROVE  /\ stage = "observe" /\ UNCHANGED <<spec, fills, batches, trades>>
         /\ quotes' \in [Securities -> Prices \cup {Missing}]
         /\ books' = b /\ ledger' = [account |-> AccountOf(b), fills |-> fills]
         /\ observations' \in {observations, Append(observations, row)}
         /\ \/ stage' = "failed" /\ failure' # "none" /\ failure' \notin Disagreements
               /\ UNCHANGED <<clock, closes>>
            \/ /\ stage' # "failed" /\ failure' = failure /\ b.failure = "none" /\ row.status = "funded"
               /\ (\A s \in Held(b) : quotes'[s] # Missing)
               /\ observations' = Append(observations, row)
               /\ \/ stage' = "trade" /\ (trades[clock] # Missing \/ clock = Terminal)
                     /\ UNCHANGED <<clock, closes>>
                  \/ /\ trades[clock] = Missing /\ clock # Terminal /\ closes' = ClosesAfter(clock, row.nav)
                     /\ \/ stage' = "form" /\ clock \in Formations /\ clock' = clock
                        \/ stage' = "observe" /\ clock \notin Formations /\ clock' = clock + 1
<1>1. stage = "observe"
  BY DEF Observe
<1>2. PICK o, t, phase : t = clock /\ phase = PhaseName(clock) /\ o = Observation(books, fills, t, phase)
  OBVIOUS
<1>3. LedgerFor(fills, t) = AccountOf(b) /\ b.failure \in ActionRefusals /\ IsBooks(b) /\ b = Advanced(books, t)
  BY <1>1, <1>2, CarriedOn
<1>4. /\ o.books = b /\ o.account = AccountOf(b)
      /\ o.row = [at |-> t, phase |-> phase, account |-> AccountOf(b),
                  status |-> CollateralStatus(b.cash, Notional(b), b.claims),
                  nav |-> NetAssetValue(b.cash, Notional(b), b.claims)]
      /\ o.failure \notin Disagreements
      /\ o.retained = (b.failure = "none" /\ \A s \in Held(b) : quotes'[s] # Missing)
      /\ o.failure = "none" =>
           o.retained /\ CollateralStatus(b.cash, Notional(b), b.claims) = "funded"
  BY <1>2, <1>3, ObservationIs
<1>5. o.row = row
  BY <1>2, <1>4 DEF RowOf
<1>6. row.status = CollateralStatus(b.cash, Notional(b), b.claims)
  BY DEF RowOf
<1>7. /\ UNCHANGED <<spec, fills, batches, trades>>
      /\ books' = o.books
      /\ ledger' = [account |-> o.account, fills |-> fills]
      /\ observations' = (IF o.retained THEN Append(observations, o.row) ELSE observations)
      /\ \/ stage' = "failed" /\ failure' = o.failure /\ o.failure # "none" /\ UNCHANGED <<clock, closes>>
         \/ /\ o.failure = "none" /\ failure' = failure
            /\ \/ stage' = "trade" /\ (trades[clock] # Missing \/ clock = Terminal)
                  /\ UNCHANGED <<clock, closes>>
               \/ /\ trades[clock] = Missing /\ clock # Terminal /\ closes' = ClosesAfter(clock, o.row.nav)
                  /\ \/ stage' = "form" /\ clock \in Formations /\ clock' = clock
                     \/ stage' = "observe" /\ clock \notin Formations /\ clock' = clock + 1
  BY <1>2 DEF Observe, Retain, Fail
<1>8. quotes' \in [Securities -> Prices \cup {Missing}]
  BY DEF Observe, IInv, TypeOK
<1>9. observations' \in {observations, Append(observations, row)}
  BY <1>5, <1>7
<1>10. CASE o.failure # "none"
  BY <1>1, <1>4, <1>5, <1>7, <1>8, <1>9, <1>10
<1>11. CASE o.failure = "none"
  <2>1. o.retained /\ row.status = "funded"
    BY <1>4, <1>6, <1>11
  <2>2. b.failure = "none" /\ (\A s \in Held(b) : quotes'[s] # Missing) /\ observations' = Append(observations, row)
    BY <1>4, <1>5, <1>7, <2>1
  <2>3. stage' # "failed"
    BY <1>7, <1>11
  <2>4. QED
    BY <1>1, <1>4, <1>5, <1>7, <1>8, <1>9, <1>11, <2>1, <2>2, <2>3
<1>12. QED
  BY <1>10, <1>11

\* A sum of nothing but zeros.
LEMMA SumOfZeros ==
  ASSUME NEW f, IsFiniteSet(DOMAIN f), \A y \in DOMAIN f : f[y] = 0
  PROVE  SumFunction(f) = 0
<1>1. PICK S, none : S = DOMAIN f /\ none = {}
  OBVIOUS
<1>2. IsFiniteSet(S) /\ (\A y \in S : f[y] \in Int /\ f[y] = 0) /\ none \in SUBSET S
  BY <1>1
<1>3. \A y \in S \ none : f[y] = 0
  BY <1>2
<1>4. SumFunctionOnSet(f, S) = SumFunctionOnSet(f, none)
  BY <1>2, <1>3, SumOfPart
<1>5. SumFunctionOnSet(f, none) = 0
  BY <1>1, SumEmpty
<1>6. QED
  BY <1>1, <1>4, <1>5, SumIs

\* Nothing held short reserves nothing.
LEMMA ShortFlat ==
  Short(Flat) = 0
<1>1. PICK f : f = [s \in DOMAIN Flat |-> IF Flat[s] < 0 THEN -Flat[s] ELSE 0]
  OBVIOUS
<1>2. DOMAIN f = Securities /\ \A y \in DOMAIN f : f[y] = 0
  BY <1>1 DEF Flat
<1>3. IsFiniteSet(DOMAIN f)
  BY <1>2, AccountAssumption
<1>4. SumFunction(f) = 0
  BY <1>2, <1>3, SumOfZeros
<1>5. QED
  BY <1>1, <1>4 DEF Short

\* Claims that do not exist reserve nothing and are worth nothing.
LEMMA ClaimsOfNothing ==
  ASSUME NEW claims, IsFiniteSet(claims), \A c \in claims : c.amount = 0
  PROVE  ClaimTotal(claims) = 0
<1>1. PICK f : f = [c \in claims |-> c.amount]
  OBVIOUS
<1>2. IsFiniteSet(DOMAIN f) /\ \A y \in DOMAIN f : f[y] = 0
  BY <1>1
<1>3. SumFunction(f) = 0
  BY <1>2, SumOfZeros
<1>4. QED
  BY <1>1, <1>3 DEF ClaimTotal

\* An observation that comes before a trade closes no session, and the others do at every close.
LEMMA PhaseIs ==
  ASSUME NEW at \in Int
  PROVE  /\ PhaseName(at) \notin {"after_entry", "after_liquidation_close"}
         /\ at = 0 => PhaseName(at) \in ClosingPhases
         /\ at # 0 /\ at % 2 = 1 => PhaseName(at) \notin ClosingPhases
         /\ at = Terminal => PhaseName(at) \notin ClosingPhases
         /\ at # 0 /\ at % 2 = 0 /\ at # Terminal => PhaseName(at) \in ClosingPhases
<1>1. at = Terminal => at # 0 /\ at % 2 = 0
  BY TerminalIs, Parity
<1>2. at % 2 \in {0, 1}
  OBVIOUS
<1>3. QED
  BY <1>1, <1>2 DEF PhaseName, ClosingPhases

\* The closes after an observation.
LEMMA ObserveCloses ==
  ASSUME IInv, Observe, NEW b, b = Advanced(books, clock),
         NEW row, row = RowOf(b, clock, PhaseName(clock))
  PROVE  ClosesInOrder'
<1>1. /\ stage = "observe" /\ UNCHANGED <<spec, fills, batches, trades>>
      /\ \/ stage' = "failed" /\ UNCHANGED <<clock, closes>>
         \/ /\ stage' # "failed" /\ b.failure = "none"
            /\ observations' = Append(observations, row)
            /\ \/ stage' = "trade" /\ (trades[clock] # Missing \/ clock = Terminal)
                  /\ UNCHANGED <<clock, closes>>
               \/ /\ trades[clock] = Missing /\ clock # Terminal /\ closes' = ClosesAfter(clock, row.nav)
                  /\ \/ stage' = "form" /\ clock \in Formations /\ clock' = clock
                     \/ stage' = "observe" /\ clock \notin Formations /\ clock' = clock + 1
  BY ObserveIs
<1>2. /\ TypeOK /\ Chronology /\ ClosesInOrder /\ Running
  BY <1>1 DEF IInv, Running
<1>3. /\ clock \in Int /\ 0 <= clock /\ clock <= Terminal /\ Terminal \in Int /\ Terminal > 0
      /\ IsSequence(closes) /\ IsSequence(observations)
      /\ \A i \in DOMAIN closes : closes[i].at = 2 * i
  BY <1>2, TerminalIs DEF TypeOK, ClosesInOrder
<1>4. PICK n, first, rows : n = Len(closes) /\ first = [at |-> 0, nav |-> InitialCash] /\ rows = observations
  OBVIOUS
<1>5. n \in Nat /\ DOMAIN closes = 1 .. n
  BY <1>3, <1>4, AppendedIs
<1>6. /\ row.at = clock /\ row.phase = PhaseName(clock)
      /\ row.nav = NetAssetValue(b.cash, Notional(b), b.claims)
  BY DEF RowOf
<1>7. Closings(Append(rows, row)) =
        IF row.phase \in ClosingPhases THEN Append(Closings(rows), ClosingOf(row)) ELSE Closings(rows)
  BY <1>3, <1>4, ClosingsAppend
<1>8. CASE stage' = "failed"
  BY <1>1, <1>3, <1>8 DEF ClosesInOrder, Running
<1>9. CASE stage' # "failed" /\ clock = 0
  <2>1. rows = <<>> /\ closes = <<>> /\ n = 0
    BY <1>1, <1>2, <1>4, <1>9 DEF ClosesInOrder
  <2>2. trades[clock] = Missing /\ clock # Terminal /\ clock \in Formations
    <3>1. 0 \in 0 .. Terminal /\ 0 % 2 = 0
      BY <1>3
    <3>2. QED
      BY <1>2, <1>3, <1>9, <3>1, AccountAssumption DEF Chronology
  <2>3. stage' = "form" /\ clock' = clock /\ closes' = closes /\ observations' = Append(rows, row)
    BY <1>1, <1>4, <1>9, <2>2 DEF ClosesAfter
  <2>4. row.nav = InitialCash
    <3>1. Untouched(b) /\ Balanced(b)
      <4>1. /\ Sound(spec.actions, Until(spec.actions, clock), clock = 0, b)
            /\ clock = 0 /\ b.failure = "none" => Untouched(b)
        BY <1>1, CarriedOn
      <4>2. QED
        BY <1>1, <1>9, <4>1 DEF Sound
    <3>2. Held(b) = {}
      BY <3>1 DEF Held, Untouched, Flat
    <3>3. Notional(b) = Flat
      BY <3>2 DEF Notional, Flat
    <3>4. ClaimTotal(b.claims) = 0
      <4>1. PICK claims : claims = b.claims
        OBVIOUS
      <4>2. IsFiniteSet(claims) /\ \A c \in claims : c.amount = 0
        BY <3>1, <4>1 DEF Untouched, Balanced
      <4>3. ClaimTotal(claims) = 0
        BY <4>2, ClaimsOfNothing
      <4>4. QED
        BY <4>1, <4>3
    <3>5. NetAssetValue(b.cash, Flat, b.claims) = b.cash + Long(Flat) - Short(Flat) + ClaimTotal(b.claims)
      BY DEF NetAssetValue
    <3>6. InitialCash \in Int
      BY AccountAssumption
    <3>7. QED
      BY <1>6, <3>1, <3>3, <3>4, <3>5, <3>6, LongFlat, ShortFlat DEF Untouched
  <2>5. Closings(rows) = <<>> /\ ClosingOf(row) = first
    BY <1>4, <1>6, <1>9, <2>1, <2>4, ClosingsNone DEF ClosingOf
  <2>6. row.phase \in ClosingPhases
    BY <1>3, <1>6, <1>9, PhaseIs
  <2>7. Closings(observations') = Append(<<>>, first)
    BY <1>7, <2>3, <2>5, <2>6
  <2>8. Append(<<>>, first) = <<first>> \o <<>>
    <3>1. PICK T, none : T = {first} /\ none = <<>>
      OBVIOUS
    <3>2. none \in Seq(T) /\ first \in T
      BY <3>1
    <3>3. Append(none, first) = <<first>> \o none
      BY <3>1, <3>2
    <3>4. QED
      BY <3>1, <3>3
  <2>9. closes' = <<>> /\ Len(closes') = 0 /\ DOMAIN closes' = {} /\ clock' = 0
    BY <1>5, <1>9, <2>1, <2>3
  <2>10. QED
    BY <1>4, <2>3, <2>7, <2>8, <2>9 DEF ClosesInOrder
<1>10. CASE stage' # "failed" /\ clock # 0
  <2>1. /\ 2 * n < clock /\ clock <= 2 * n + 2
        /\ Closings(rows) = <<first>> \o closes
    BY <1>1, <1>2, <1>3, <1>4, <1>10 DEF ClosesInOrder
  <2>2. observations' = Append(rows, row)
    BY <1>1, <1>4, <1>10
  <2>3. CASE stage' = "trade"
    <3>1. clock % 2 = 1 \/ clock = Terminal
      <4>1. trades[clock] # Missing \/ clock = Terminal
        BY <1>1, <2>3
      <4>2. clock \in 0 .. Terminal
        BY <1>3
      <4>3. clock % 2 # 0 \/ clock = Terminal
        BY <1>2, <4>1, <4>2 DEF Chronology
      <4>4. QED
        BY <1>3, <4>3
    <3>2. row.phase \notin ClosingPhases
      BY <1>3, <1>6, <1>10, <3>1, PhaseIs
    <3>3. closes' = closes /\ clock' = clock
      BY <1>1, <2>3
    <3>4. Closings(observations') = <<first>> \o closes'
      BY <1>7, <2>1, <2>2, <3>2, <3>3
    <3>5. QED
      BY <1>3, <1>4, <1>10, <2>1, <2>3, <3>3, <3>4 DEF ClosesInOrder
  <2>4. CASE stage' # "trade" /\ clock % 2 = 1
    <3>1. clock \notin Formations
      <4>1. SUFFICES ASSUME clock \in Formations PROVE FALSE
        OBVIOUS
      <4>2. PICK k \in 0 .. Sessions : clock = 2 * k
        BY <4>1, AccountAssumption
      <4>3. k \in Int
        BY <4>2, AccountAssumption
      <4>4. QED
        BY <1>3, <2>4, <4>2, <4>3, Parity
    <3>2. stage' = "observe" /\ clock' = clock + 1 /\ closes' = closes
      BY <1>1, <1>10, <2>4, <3>1 DEF ClosesAfter
    <3>3. row.phase \notin ClosingPhases
      BY <1>3, <1>6, <1>10, <2>4, PhaseIs
    <3>4. Closings(observations') = <<first>> \o closes'
      BY <1>7, <2>1, <2>2, <3>2, <3>3
    <3>5. 2 * n < clock + 1 /\ clock + 1 <= 2 * n + 2
      BY <1>3, <1>5, <2>1, <2>4
    <3>6. clock' # 0
      BY <1>3, <3>2
    <3>7. QED
      BY <1>3, <1>4, <3>2, <3>4, <3>5, <3>6 DEF ClosesInOrder
  <2>5. CASE stage' # "trade" /\ clock % 2 # 1
    <3>1. clock # Terminal /\ clock % 2 = 0 /\ clock > 0 /\ clock = 2 * n + 2
      BY <1>1, <1>3, <1>5, <1>10, <2>1, <2>5
    <3>2. PICK x, more : x = [at |-> clock, nav |-> row.nav] /\ more = Append(closes, x)
      OBVIOUS
    <3>3. closes' = more
      BY <1>1, <1>10, <2>5, <3>1, <3>2 DEF ClosesAfter
    <3>4. /\ Len(more) = n + 1 /\ DOMAIN more = 1 .. n + 1 /\ \A i \in 1 .. n : more[i] = closes[i]
          /\ more[n + 1] = x
      BY <1>3, <1>4, <3>2, AppendedIs
    <3>5. row.phase \in ClosingPhases /\ ClosingOf(row) = x
      BY <1>3, <1>6, <3>1, <3>2, PhaseIs DEF ClosingOf
    <3>6. Closings(observations') = <<first>> \o more
      <4>1. Closings(observations') = Append(<<first>> \o closes, x)
        BY <1>7, <2>1, <2>2, <3>5
      <4>2. <<first>> \o Append(closes, x) = Append(<<first>> \o closes, x)
        BY <1>3, FirstAppend
      <4>3. QED
        BY <3>2, <4>1, <4>2
    <3>7. \A i \in DOMAIN more : more[i].at = 2 * i
      <4>1. SUFFICES ASSUME NEW i \in 1 .. n + 1 PROVE more[i].at = 2 * i
        BY <3>4
      <4>2. i \in 1 .. n \/ i = n + 1
        BY <1>5
      <4>3. CASE i \in 1 .. n
        BY <1>3, <1>5, <3>4, <4>3
      <4>4. CASE i = n + 1
        BY <1>5, <3>1, <3>2, <3>4, <4>4
      <4>5. QED
        BY <4>2, <4>3, <4>4
    <3>8. \/ stage' = "form" /\ clock' = clock
          \/ stage' = "observe" /\ clock' = clock + 1
      BY <1>1, <1>10, <2>5
    <3>9. 2 * Len(closes') = clock
      BY <1>5, <3>1, <3>3, <3>4
    <3>10. CASE stage' = "form" /\ clock' = clock
      BY <1>4, <3>3, <3>6, <3>7, <3>9, <3>10 DEF ClosesInOrder
    <3>11. CASE stage' = "observe" /\ clock' = clock + 1
      <4>1. 2 * Len(closes') < clock' /\ clock' <= 2 * Len(closes') + 2 /\ clock' # 0
        BY <1>3, <3>9, <3>11
      <4>2. QED
        BY <1>4, <3>3, <3>6, <3>7, <3>11, <4>1 DEF ClosesInOrder
    <3>12. QED
      BY <3>8, <3>10, <3>11
  <2>6. QED
    BY <2>3, <2>4, <2>5
<1>11. QED
  BY <1>8, <1>9, <1>10

\* An observation carries the books on and records them.
LEMMA ObserveKeeps ==
  ASSUME IInv, Observe
  PROVE  IInv'
<1>1. PICK b, row : b = Advanced(books, clock) /\ row = RowOf(b, clock, PhaseName(clock))
  OBVIOUS
<1>2. /\ stage = "observe" /\ UNCHANGED <<spec, fills, batches, trades>>
      /\ quotes' \in [Securities -> Prices \cup {Missing}]
      /\ books' = b /\ ledger' = [account |-> AccountOf(b), fills |-> fills]
      /\ observations' \in {observations, Append(observations, row)}
      /\ \/ stage' = "failed" /\ failure' # "none" /\ UNCHANGED <<clock, closes>>
         \/ /\ stage' # "failed" /\ failure' = failure /\ b.failure = "none" /\ row.status = "funded"
            /\ (\A s \in Held(b) : quotes'[s] # Missing)
            /\ observations' = Append(observations, row)
            /\ \/ stage' = "trade" /\ (trades[clock] # Missing \/ clock = Terminal)
                  /\ UNCHANGED <<clock, closes>>
               \/ /\ trades[clock] = Missing /\ clock # Terminal /\ closes' = ClosesAfter(clock, row.nav)
                  /\ \/ stage' = "form" /\ clock \in Formations /\ clock' = clock
                     \/ stage' = "observe" /\ clock \notin Formations /\ clock' = clock + 1
  BY <1>1, ObserveIs
<1>3. /\ TypeOK /\ Chronology /\ BooksMirrored /\ RowsInOrder /\ ClosesInOrder /\ BatchesInOrder
      /\ Running /\ HistoryIsStable /\ CommittedBatchesAreFunded
  BY <1>2 DEF IInv, Running
<1>4. PICK A, t : A = spec.actions /\ t = clock
  OBVIOUS
<1>5. /\ t \in Int /\ 0 <= t /\ t <= Terminal /\ Terminal \in Int /\ Terminal > 0
      /\ IsSequence(closes) /\ IsSequence(observations) /\ failure = "none"
  BY <1>2, <1>3, <1>4, TerminalIs DEF TypeOK, Chronology
<1>6. /\ Sound(A, Until(A, t), t = 0, b) /\ FilledBy(fills, t) /\ LedgerAt(fills, t) = AccountOf(b)
      /\ A = {} => b.claims = {}
  BY <1>1, <1>2, <1>4, CarriedOn
<1>7. /\ row.at = t /\ row.phase = PhaseName(t) /\ row.account = AccountOf(b)
      /\ row.nav = NetAssetValue(b.cash, Notional(b), b.claims)
  BY <1>1, <1>4 DEF RowOf
<1>8. /\ IsSequence(observations') /\ HistoryIsStable' /\ CommittedBatchesAreFunded'
      /\ \A i \in DOMAIN observations' : observations'[i].at \in Int
      /\ observations' = Append(observations, row) =>
           /\ \A i \in DOMAIN observations' :
                /\ observations'[i].at <= t
                /\ row.status = "funded" => observations'[i].status = "funded"
           /\ observations' # <<>> /\ observations'[Len(observations')] = row
  <2>1. CASE observations' = observations /\ observations' # Append(observations, row)
    <3>1. HistoryIsStable' /\ CommittedBatchesAreFunded'
      BY <1>2, <2>1, RecordsFrame
    <3>2. QED
      BY <1>3, <1>5, <2>1, <3>1 DEF RowsInOrder
  <2>2. CASE observations' = Append(observations, row)
    <3>1. row.phase \notin {"after_entry", "after_liquidation_close"}
      BY <1>5, <1>7, PhaseIs
    <3>2. PICK fs : fs = fills
      OBVIOUS
    <3>3. fills' = fs /\ row.at = clock /\ LedgerAt(fs, clock) = row.account
      BY <1>2, <1>4, <1>6, <1>7, <3>2
    <3>4. \A at \in Int : at < clock => LedgerAt(fs, at) = LedgerAt(fills, at)
      BY <3>2
    <3>5. spec' = spec
      BY <1>2
    <3>6. /\ IsSequence(observations') /\ HistoryIsStable' /\ CommittedBatchesAreFunded'
          /\ \A i \in DOMAIN observations' :
               /\ observations'[i].at \in Int /\ observations'[i].at <= clock
               /\ row.status = "funded" => observations'[i].status = "funded"
          /\ observations' # <<>> /\ observations'[Len(observations')] = row
      BY <1>3, <2>2, <3>1, <3>3, <3>4, <3>5, RetainedKeeps
    <3>7. QED
      BY <1>4, <3>6
  <2>3. QED
    BY <1>2, <2>1, <2>2
<1>9. stage' \in {"trade", "form", "observe"} \/ stage' = "failed"
  BY <1>2
<1>10. clock' \in 0 .. Terminal /\ clock <= clock' /\ clock' \in Int /\ IsSequence(closes')
  <2>1. closes' = closes \/ \E x : closes' = Append(closes, x)
    BY <1>2 DEF ClosesAfter
  <2>2. IsSequence(closes')
    BY <1>5, <2>1, AppendedIs
  <2>3. clock' = clock \/ (clock' = clock + 1 /\ clock # Terminal)
    BY <1>2
  <2>4. clock' = t \/ (clock' = t + 1 /\ t # Terminal)
    BY <1>4, <2>3
  <2>5. QED
    BY <1>4, <1>5, <2>2, <2>4
<1>11. TypeOK'
  BY <1>2, <1>3, <1>8, <1>9, <1>10 DEF TypeOK
<1>12. Chronology'
  <2>1. (stage' = "failed") = (failure' # "none")
    BY <1>2, <1>5
  <2>2. stage' = "form" => clock' % 2 = 0 /\ clock' < Terminal
    <3>1. SUFFICES ASSUME stage' = "form" PROVE clock % 2 = 0 /\ clock < Terminal /\ clock' = clock
      OBVIOUS
    <3>2. clock' = clock /\ clock \in Formations /\ clock # Terminal
      BY <1>2, <3>1
    <3>3. PICK k \in 0 .. Sessions : clock = 2 * k
      BY <3>2, AccountAssumption
    <3>4. k \in Int
      BY <3>3, AccountAssumption
    <3>5. QED
      BY <1>4, <1>5, <3>2, <3>3, <3>4, Parity
  <2>3. stage' = "trade" => trades'[clock'] # Missing \/ clock' = Terminal
    BY <1>2
  <2>4. QED
    BY <1>2, <1>3, <1>9, <2>1, <2>2, <2>3 DEF Chronology
<1>13. stage' # "failed" => Running' /\ CarriedTo' = t /\ (t = 0 => clock' = 0 \/ stage' = "observe")
  BY <1>2, <1>4, <1>5, <1>9 DEF Running, CarriedTo
<1>14. LedgerAt(fills, t)' = LedgerAt(fills, t)
  BY <1>2, ReplayFrame
<1>15. BooksMirrored'
  <2>1. CASE stage' = "failed"
    BY <2>1 DEF BooksMirrored, Running
  <2>2. CASE stage' # "failed"
    <3>1. CarriedTo' = t /\ books' = b /\ b.failure = "none" /\ spec'.actions = A
      BY <1>2, <1>4, <1>13, <2>2
    <3>2. Sound(A, Until(A, t), FALSE, b)
      BY <1>6 DEF Sound
    <3>3. (clock' = 0) = FALSE \/ (clock' = 0) = (t = 0)
      BY <1>2, <1>4, <1>5
    <3>4. Sound(A, Until(A, t), clock' = 0, b)
      <4>1. CASE clock' = 0
        <5>1. t = 0
          BY <1>4, <1>5, <1>10, <4>1
        <5>2. PICK idle : idle = TRUE
          OBVIOUS
        <5>3. (t = 0) = idle /\ (clock' = 0) = idle
          BY <4>1, <5>1, <5>2
        <5>4. QED
          BY <1>6, <5>3
      <4>2. CASE clock' # 0
        <5>1. (clock' = 0) = FALSE
          BY <4>2
        <5>2. QED
          BY <3>2, <5>1
      <4>3. QED
        BY <4>1, <4>2
    <3>5. LedgerAt(fills, CarriedTo)' = LedgerAt(fills, t)'
      BY <3>1
    <3>6. Sound(spec.actions, Until(spec.actions, CarriedTo), clock = 0, books)'
      BY <3>1, <3>4
    <3>7. LedgerAt(fills, CarriedTo)' = AccountOf(books)'
      BY <1>6, <1>14, <3>1, <3>5
    <3>8. FilledBy(fills, CarriedTo)' /\ books'.failure = "none" /\ (spec'.actions = {} => books'.claims = {})
      BY <1>2, <1>6, <3>1
    <3>9. QED
      BY <1>9, <2>2, <3>6, <3>7, <3>8 DEF BooksMirrored
  <2>3. QED
    BY <2>1, <2>2
<1>16. CacheIsReplay'
  <2>1. SUFFICES ASSUME spec.actions = {}
                 PROVE  /\ FilledBy(fills, clock')
                        /\ AccountOf(b) = Replay(spec.rate, FillEvents(fills))
    BY <1>2 DEF CacheIsReplay
  <2>2. EventsUntil(fills, t) = FillEvents(fills)
    BY <1>6, <2>1, FillsAlone
  <2>3. AccountOf(b) = Replay(spec.rate, FillEvents(fills))
    BY <1>6, <2>2 DEF LedgerAt
  <2>4. FilledBy(fills, clock')
    BY <1>4, <1>5, <1>6, <1>10, FilledLater
  <2>5. QED
    BY <2>3, <2>4
<1>17. ValuedForTrade'
  <2>1. SUFFICES ASSUME stage' = "trade"
                 PROVE  /\ observations' # <<>>
                        /\ observations'[Len(observations')].nav
                             = NetAssetValue(b.cash, Request.old', b.claims)
                        /\ \A s \in Held(b) : quotes'[s] # Missing
    BY <1>2 DEF ValuedForTrade, Held
  <2>2. (\A s \in Held(b) : quotes'[s] # Missing) /\ observations' = Append(observations, row)
    BY <1>2, <2>1
  <2>3. Request.old' = [s \in Securities |-> IF s \in Held(b) THEN b.holdings[s] * quotes'[s] ELSE 0]
    BY <1>2 DEF Request, Held
  <2>4. Request.old' = Notional(b)
    BY <2>2, <2>3 DEF Notional
  <2>5. QED
    BY <1>7, <1>8, <2>2, <2>4
<1>18. RowsInOrder'
  <2>1. CASE stage' = "failed"
    BY <1>8, <2>1 DEF RowsInOrder, Running
  <2>2. CASE stage' # "failed"
    <3>1. observations' = Append(observations, row) /\ row.status = "funded" /\ CarriedTo' = t
      BY <1>2, <1>13, <2>2
    <3>2. \A i \in DOMAIN observations' : observations'[i].at <= CarriedTo' /\ observations'[i].status = "funded"
      BY <1>8, <3>1
    <3>3. QED
      BY <1>8, <3>2 DEF RowsInOrder
  <2>3. QED
    BY <2>1, <2>2
<1>19. ClosesInOrder'
  BY <1>1, ObserveCloses
<1>20. BatchesInOrder'
  <2>1. \A i \in 0 .. clock : trades'[i] = trades[i]
    BY <1>2
  <2>2. QED
    BY <1>2, <1>3, <1>4, <1>5, <1>10, <2>1, BatchesFrame
<1>21. QED
  BY <1>8, <1>11, <1>12, <1>15, <1>16, <1>17, <1>18, <1>19, <1>20 DEF IInv

\* What a batch is recorded as.
BatchOf(plan) ==
  [at |-> clock, fills |-> StagedFills(plan), request |-> Request, quantity |-> plan.quantity,
   prices |-> quotes]

\* A batch that is refused leaves everything as it was.
LEMMA RefusedIs ==
  ASSUME Trade, Refusal(Plan) # "none"
  PROVE  /\ UNCHANGED <<spec, clock, quotes, books, ledger, fills, batches, trades, observations, closes>>
         /\ stage' = "failed" /\ failure' = Refusal(Plan)
<1>1. PICK refusal, plan : plan = Plan /\ refusal = Refusal(plan)
  OBVIOUS
<1>2. /\ UNCHANGED <<spec, quotes, trades>> /\ fills' = FillsAfter(refusal, plan)
      /\ Fail(refusal) /\ UNCHANGED <<clock, books, ledger, batches, observations, closes>>
  BY <1>1 DEF Trade
<1>3. FillsAfter(refusal, plan) = fills
  BY <1>1 DEF FillsAfter
<1>4. QED
  BY <1>1, <1>2, <1>3 DEF Fail

\* A batch that is not refused is kept, observed and funded.
LEMMA CommittedIs ==
  ASSUME IInv, Trade, NEW plan, plan = Plan, Refusal(plan) = "none", NEW b, b = BooksAfter(plan),
         NEW fs, fs = fills \o StagedFills(plan), NEW row, row = RowOf(b, clock, AfterName),
         NEW batch, batch = BatchOf(plan)
  PROVE  /\ UNCHANGED <<spec, quotes, trades>> /\ fills' = fs /\ books' = b
         /\ ledger' = [account |-> AccountOf(b), fills |-> fs]
         /\ observations' = Append(observations, row) /\ batches' = Append(batches, batch)
         /\ row.status = "funded"
         /\ \/ stage' = "failed" /\ failure' # "none" /\ failure' \notin Disagreements
               /\ UNCHANGED <<clock, closes>>
            \/ /\ stage' # "failed" /\ failure' = failure /\ closes' = ClosesAfter(clock, row.nav)
               /\ \/ stage' = "measure" /\ clock = Terminal /\ clock' = clock
                  \/ stage' = "observe" /\ clock # Terminal /\ clock' = clock + 1
<1>1. /\ TypeOK /\ Chronology /\ BooksMirrored /\ CacheIsReplay /\ ValuedForTrade /\ stage = "trade"
      /\ quotes' = quotes /\ Running
  BY DEF Trade, IInv, Running
<1>2. /\ clock \in Nat /\ LedgerAt(fs, clock) = AccountOf(b)
      /\ Sound(spec.actions, Until(spec.actions, clock), FALSE, b) /\ b.failure = "none"
  BY <1>1, LedgerAfterTrade
<1>3. /\ NetAssetValue(b.cash, Notional(b), b.claims) * plan.nav[2] = plan.nav[1]
      /\ CollateralStatus(b.cash, Notional(b), b.claims) = "funded"
      /\ \A s \in Held(b) : quotes'[s] # Missing
  BY <1>1, BatchIsFunded
<1>4. PICK o, t, phase, idle :
        t = clock /\ phase = AfterName /\ idle = FALSE /\ o = Observation(b, fs, t, phase)
  OBVIOUS
<1>5. Advanced(b, t) = b
  <2>1. Market(spec.actions) /\ t \in Int
    BY <1>1, <1>4, BooksAre
  <2>2. Sound(spec.actions, Until(spec.actions, t), idle, b)
    BY <1>2, <1>4
  <2>3. Due(b, t) = Until(spec.actions, t) \ Until(spec.actions, t)
    BY <1>2, <2>1, <2>2, DueIs
  <2>4. Due(b, t) = {}
    BY <2>3
  <2>5. QED
    BY <2>4, AdvancedNothing
<1>6. LedgerFor(fs, t) = AccountOf(b)
  <2>1. spec.actions = {} /\ ledger # Missing =>
          /\ FilledBy(ledger.fills, t)
          /\ ledger.account = Replay(spec.rate, FillEvents(ledger.fills))
    BY <1>1, <1>4 DEF CacheIsReplay
  <2>2. LedgerFor(fs, t) = LedgerAt(fs, t)
    BY <2>1, LedgerForIs
  <2>3. QED
    BY <1>2, <1>4, <2>2
<1>7. IsBooks(b) /\ b.failure \in ActionRefusals /\ b = Advanced(b, t)
  BY <1>2, <1>5 DEF Sound
<1>8. /\ o.books = b /\ o.account = AccountOf(b)
      /\ o.row = [at |-> t, phase |-> phase, account |-> AccountOf(b),
                  status |-> CollateralStatus(b.cash, Notional(b), b.claims),
                  nav |-> NetAssetValue(b.cash, Notional(b), b.claims)]
      /\ o.failure \notin Disagreements
      /\ o.retained = (b.failure = "none" /\ \A s \in Held(b) : quotes'[s] # Missing)
  BY <1>4, <1>6, <1>7, ObservationIs
<1>9. o.row = row /\ o.retained
  BY <1>2, <1>3, <1>4, <1>8 DEF RowOf
<1>10. /\ row.status = "funded" /\ row.nav * plan.nav[2] = plan.nav[1]
  BY <1>3 DEF RowOf
<1>11. /\ fills' = FillsAfter("none", plan) /\ UNCHANGED <<spec, quotes, trades>>
  BY DEF Trade
<1>12. fills' = fs
  BY <1>11 DEF FillsAfter
<1>13. /\ books' = o.books
       /\ ledger' = [account |-> o.account, fills |-> fs]
       /\ observations' = (IF o.retained THEN Append(observations, o.row) ELSE observations)
       /\ batches' = Append(batches, [at |-> clock, fills |-> StagedFills(plan), request |-> Request,
                                      quantity |-> plan.quantity, prices |-> quotes])
       /\ \/ stage' = "failed" /\ failure' = o.failure /\ o.failure # "none" /\ UNCHANGED <<clock, closes>>
          \/ o.failure = "none" /\ o.row.nav * plan.nav[2] # plan.nav[1]
          \/ /\ o.failure = "none" /\ failure' = failure /\ closes' = ClosesAfter(clock, o.row.nav)
             /\ \/ stage' = "measure" /\ clock = Terminal /\ clock' = clock
                \/ stage' = "observe" /\ clock # Terminal /\ clock' = clock + 1
  BY <1>4, <1>12 DEF Trade, Retain, Fail
<1>14. batches' = Append(batches, batch)
  BY <1>13 DEF BatchOf
<1>15. QED
  BY <1>8, <1>9, <1>10, <1>11, <1>12, <1>13, <1>14

\* A step that only fails leaves an account that is on record.
LEMMA RefusedKeeps ==
  ASSUME IInv, stage' = "failed", failure' # "none",
         UNCHANGED <<spec, clock, quotes, books, ledger, fills, batches, trades, observations, closes>>
  PROVE  IInv'
<1>1. /\ TypeOK /\ Chronology /\ RowsInOrder /\ ClosesInOrder /\ BatchesInOrder
  BY DEF IInv
<1>2. ~Running'
  BY DEF Running
<1>3. TypeOK' /\ Chronology'
  BY <1>1 DEF TypeOK, Chronology
<1>4. BooksMirrored' /\ CacheIsReplay' /\ ValuedForTrade'
  BY <1>2 DEF BooksMirrored, CacheIsReplay, ValuedForTrade
<1>5. RowsInOrder' /\ ClosesInOrder'
  BY <1>1, <1>2 DEF RowsInOrder, ClosesInOrder, Running
<1>6. BatchesInOrder'
  <2>1. \A t \in 0 .. clock : trades'[t] = trades[t]
    OBVIOUS
  <2>2. clock \in Int
    BY <1>1 DEF TypeOK
  <2>3. QED
    BY <1>1, <2>1, <2>2, BatchesFrame
<1>7. HistoryIsStable' /\ CommittedBatchesAreFunded'
  BY RecordsFrame
<1>8. QED
  BY <1>3, <1>4, <1>5, <1>6, <1>7 DEF IInv

\* A batch closes the session it liquidates in, and no other.
LEMMA AfterNameIs ==
  /\ AfterName \in {"after_entry", "after_liquidation_close"}
  /\ AfterName \in ClosingPhases <=> clock = Terminal
  /\ clock = Terminal => AfterName = "after_liquidation_close"
  BY DEF AfterName, ClosingPhases

\* A liquidation ends flat.
LEMMA LiquidatedIs ==
  ASSUME IInv, stage = "trade", clock = Terminal, NEW plan, plan = Plan, Refusal(plan) = "none"
  PROVE  plan.quantity = Flat
<1>1. TypeOK /\ Chronology /\ BooksMirrored /\ ValuedForTrade
  BY DEF IInv
<1>2. Promised(plan, Request, quotes)
  BY <1>1, TradeIs
<1>3. PICK q, n : q = Request /\ n = plan.quantity
  OBVIOUS
<1>4. q.weight = Flat
  BY <1>3 DEF Request, Weights
<1>5. \A s \in Securities : q.weight[s] = 0
  BY <1>4 DEF Flat
<1>6. n \in [Securities -> Int] /\ \A s \in Securities : n[s] = 0
  BY <1>2, <1>3, <1>5 DEF Promised
<1>7. QED
  BY <1>3, <1>6 DEF Flat

\* A function on the first numbers is a sequence.
LEMMA FunctionIsSequence ==
  ASSUME NEW n \in Nat, NEW T, NEW f, f = [i \in 1 .. n |-> f[i]], \A i \in 1 .. n : f[i] \in T
  PROVE  f \in Seq(T) /\ Len(f) = n
<1>1. f \in [1 .. n -> T]
  OBVIOUS
<1>2. f \in Seq(T)
  BY <1>1
<1>3. Len(f) = n
  BY <1>1, <1>2
<1>4. QED
  BY <1>2, <1>3

\* The batches after one more.
LEMMA TradeBatches ==
  ASSUME IInv, stage = "trade", NEW plan, plan = Plan, Refusal(plan) = "none",
         NEW batch, batch = BatchOf(plan), fills' = fills \o StagedFills(plan),
         batches' = Append(batches, batch), trades' = trades, clock' \in Int, clock <= clock'
  PROVE  BatchesInOrder' /\ IsSequence(batches')
<1>1. TypeOK /\ Chronology /\ BooksMirrored /\ ValuedForTrade /\ BatchesInOrder /\ Running
  BY DEF IInv, Running
<1>2. PICK n, old, staged : n = Len(batches) /\ old = batches /\ staged = StagedFills(plan)
  OBVIOUS
<1>3. IsSequence(old) /\ clock \in Int /\ clock \in 0 .. clock'
  BY <1>1, <1>2 DEF TypeOK
<1>4. PICK more : more = Append(old, batch)
  OBVIOUS
<1>5. /\ IsSequence(more) /\ n \in Nat /\ DOMAIN old = 1 .. n /\ DOMAIN more = 1 .. n + 1
      /\ (\A i \in 1 .. n : more[i] = old[i]) /\ more[n + 1] = batch /\ Len(old) = n
  BY <1>2, <1>3, <1>4, AppendedIs
<1>6. TradeLineageAccepted(batch)
  BY <1>1, LineageOfBatch DEF BatchOf
<1>7. batch.at = clock /\ batch.fills = staged
  BY <1>2 DEF BatchOf
<1>8. \A i \in 1 .. n + 1 : more[i].at \in 0 .. clock' /\ TradeLineageAccepted(more[i])'
  <2>1. SUFFICES ASSUME NEW i \in 1 .. n + 1
                 PROVE  more[i].at \in 0 .. clock' /\ TradeLineageAccepted(more[i])'
    OBVIOUS
  <2>2. PICK x : x = more[i]
    OBVIOUS
  <2>3. x.at \in 0 .. clock' /\ TradeLineageAccepted(x)
    <3>1. CASE i \in 1 .. n
      <4>1. x = batches[i] /\ i \in DOMAIN batches
        BY <1>2, <1>5, <2>2, <3>1
      <4>2. x.at \in 0 .. clock /\ TradeLineageAccepted(x)
        BY <1>1, <4>1 DEF BatchesInOrder
      <4>3. QED
        BY <1>3, <4>2
    <3>2. CASE i \notin 1 .. n
      <4>1. i = n + 1
        BY <1>5, <3>2
      <4>2. x = batch
        BY <1>5, <2>2, <4>1
      <4>3. QED
        BY <1>3, <1>6, <1>7, <4>2
    <3>3. QED
      BY <3>1, <3>2
  <2>4. TradeLineageAccepted(x)'
    BY <2>3, LineageFrame
  <2>5. QED
    BY <2>2, <2>3, <2>4
<1>9. fills' = FlattenSeq([i \in DOMAIN more |-> more[i].fills])
  <2>1. PICK f, g, h : /\ f = [i \in DOMAIN old |-> old[i].fills]
                       /\ g = [i \in DOMAIN more |-> more[i].fills] /\ h = Append(f, staged)
    OBVIOUS
  <2>2. IsSequence(f) /\ Len(f) = n
    <3>1. PICK T : T = Range(f)
      OBVIOUS
    <3>2. f = [i \in 1 .. n |-> f[i]] /\ \A i \in 1 .. n : f[i] \in T
      BY <1>5, <2>1, <3>1 DEF Range
    <3>3. n \in Nat
      BY <1>5
    <3>4. f \in Seq(T)
      BY <3>2, <3>3, FunctionIsSequence
    <3>5. Len(f) = n
      BY <3>2, <3>3, <3>4
    <3>6. QED
      BY <3>1, <3>4, <3>5 DEF IsSequence
  <2>3. g = h
    <3>1. /\ DOMAIN h = 1 .. n + 1 /\ (\A i \in 1 .. n : h[i] = f[i]) /\ h[n + 1] = staged /\ IsSequence(h)
          /\ Len(h) = n + 1
      BY <2>1, <2>2, AppendedIs
    <3>2. h = [i \in 1 .. n + 1 |-> h[i]]
      <4>1. h \in Seq(Range(h))
        BY <3>1 DEF IsSequence
      <4>2. h = [i \in 1 .. Len(h) |-> h[i]]
        BY <4>1
      <4>3. QED
        BY <3>1, <4>2
    <3>3. g = [i \in 1 .. n + 1 |-> more[i].fills]
      BY <1>5, <2>1
    <3>4. \A i \in 1 .. n + 1 : more[i].fills = h[i]
      <4>1. SUFFICES ASSUME NEW i \in 1 .. n + 1 PROVE more[i].fills = h[i]
        OBVIOUS
      <4>2. i \in 1 .. n \/ i = n + 1
        BY <1>5
      <4>3. CASE i \in 1 .. n
        BY <1>5, <2>1, <3>1, <4>3
      <4>4. CASE i = n + 1
        BY <1>5, <1>7, <3>1, <4>4
      <4>5. QED
        BY <4>2, <4>3, <4>4
    <3>5. QED
      BY <3>2, <3>3, <3>4
  <2>4. staged \in Seq(Fill)
    <3>1. Orderable(plan)
      BY <1>1, TradeIs DEF Tradable
    <3>2. PICK order, k : StagedIn(plan, order, k)
      BY StagedInOrder
    <3>3. k \in Nat /\ staged = [i \in 1 .. k |-> staged[i]]
      BY <1>2, <3>2 DEF StagedIn
    <3>4. \A i \in 1 .. k : staged[i] \in Fill
      BY <1>2, <3>1, <3>2, StagedFill
    <3>5. PICK T : T = Fill
      OBVIOUS
    <3>6. k \in Nat /\ staged = [i \in 1 .. k |-> staged[i]] /\ \A i \in 1 .. k : staged[i] \in T
      BY <3>3, <3>4, <3>5
    <3>7. staged \in Seq(T)
      BY <3>6, FunctionIsSequence
    <3>8. QED
      BY <3>5, <3>7
  <2>5. FlattenSeq(h) = FlattenSeq(f) \o staged
    BY <2>1, <2>2, <2>4, FlattenAppend
  <2>6. fills = FlattenSeq(f)
    BY <1>1, <1>2, <2>1 DEF BatchesInOrder
  <2>7. QED
    BY <1>2, <2>1, <2>3, <2>5, <2>6
<1>10. BatchesInOrder'
  <2>1. batches' = more
    BY <1>2, <1>4
  <2>2. \A i \in DOMAIN batches' : TradeLineageAccepted(batches[i])'
    <3>1. SUFFICES ASSUME NEW i \in 1 .. n + 1 PROVE TradeLineageAccepted(batches[i])'
      BY <1>5, <2>1
    <3>2. PICK x : x = more[i]
      OBVIOUS
    <3>3. TradeLineageAccepted(x)' /\ batches'[i] = x
      BY <1>8, <2>1, <3>2
    <3>4. QED
      BY <3>3 DEF TradeLineageAccepted
  <2>3. QED
    BY <1>5, <1>8, <1>9, <2>1, <2>2 DEF BatchesInOrder
<1>11. QED
  BY <1>2, <1>4, <1>5, <1>10

\* The closes after a batch.
LEMMA TradeCloses ==
  ASSUME IInv, stage = "trade", NEW plan, plan = Plan, Refusal(plan) = "none",
         NEW b, b = BooksAfter(plan), NEW row, row = RowOf(b, clock, AfterName),
         observations' = Append(observations, row), trades' = trades, IsBooks(b),
         \/ stage' = "failed" /\ UNCHANGED <<clock, closes>>
         \/ /\ stage' # "failed" /\ closes' = ClosesAfter(clock, row.nav)
            /\ \/ stage' = "measure" /\ clock = Terminal /\ clock' = clock
               \/ stage' = "observe" /\ clock # Terminal /\ clock' = clock + 1
  PROVE  ClosesInOrder'
<1>1. TypeOK /\ Chronology /\ ClosesInOrder /\ BooksMirrored /\ ValuedForTrade /\ Running
  BY DEF IInv, Running
<1>2. /\ clock \in Int /\ 0 < clock /\ clock <= Terminal /\ Terminal \in Int
      /\ IsSequence(closes) /\ IsSequence(observations)
      /\ \A i \in DOMAIN closes : closes[i].at = 2 * i
  <2>1. clock > 0
    BY <1>1, LedgerAfterTrade
  <2>2. QED
    BY <1>1, <2>1, TerminalIs DEF TypeOK, ClosesInOrder
<1>3. PICK n, first, rows : n = Len(closes) /\ first = [at |-> 0, nav |-> InitialCash] /\ rows = observations
  OBVIOUS
<1>4. n \in Nat /\ DOMAIN closes = 1 .. n
  BY <1>2, <1>3, AppendedIs
<1>5. row.at = clock /\ row.phase = AfterName /\ row.account.positions = b.holdings
  BY DEF RowOf, AccountOf
<1>6. Closings(Append(rows, row)) =
        IF row.phase \in ClosingPhases THEN Append(Closings(rows), ClosingOf(row)) ELSE Closings(rows)
  BY <1>2, <1>3, ClosingsAppend
<1>7. /\ 2 * n < clock /\ clock <= 2 * n + 2 /\ Closings(rows) = <<first>> \o closes
  BY <1>1, <1>2, <1>3 DEF ClosesInOrder
<1>8. CASE stage' = "failed"
  BY <1>2, <1>8 DEF ClosesInOrder, Running
<1>9. CASE stage' = "observe"
  <2>1. clock # Terminal /\ clock' = clock + 1 /\ closes' = ClosesAfter(clock, row.nav)
    BY <1>9
  <2>2. clock % 2 = 1
    <3>1. clock \in 0 .. Terminal
      BY <1>2
    <3>2. clock % 2 # 0
      BY <1>1, <2>1, <3>1 DEF Chronology
    <3>3. QED
      BY <1>2, <3>2
  <2>3. closes' = closes
    BY <2>1, <2>2 DEF ClosesAfter
  <2>4. Closings(observations') = <<first>> \o closes'
    BY <1>3, <1>5, <1>6, <1>7, <2>1, <2>3, AfterNameIs
  <2>5. 2 * n < clock + 1 /\ clock + 1 <= 2 * n + 2 /\ clock + 1 # 0
    <3>1. PICK t : t = clock
      OBVIOUS
    <3>2. t \in Int /\ 0 < t /\ n \in Nat
      BY <1>2, <1>4, <3>1
    <3>3. 2 * n < t /\ t <= 2 * n + 2 /\ t % 2 = 1
      BY <1>7, <2>2, <3>1
    <3>4. 2 * n < t + 1 /\ t + 1 <= 2 * n + 2 /\ t + 1 # 0
      BY <3>2, <3>3
    <3>5. QED
      BY <3>1, <3>4
  <2>6. QED
    BY <1>2, <1>3, <1>9, <2>1, <2>3, <2>4, <2>5 DEF ClosesInOrder
<1>10. CASE stage' = "measure"
  <2>1. clock = Terminal /\ clock' = clock /\ closes' = ClosesAfter(clock, row.nav)
    BY <1>10
  <2>2. clock % 2 = 0 /\ n + 1 = Sessions /\ clock = 2 * (n + 1)
    BY <1>2, <1>4, <1>7, <2>1, TerminalIs
  <2>3. PICK x, more : x = [at |-> clock, nav |-> row.nav] /\ more = Append(closes, x)
    OBVIOUS
  <2>4. closes' = more
    BY <1>2, <2>1, <2>2, <2>3 DEF ClosesAfter
  <2>5. /\ Len(more) = n + 1 /\ DOMAIN more = 1 .. n + 1 /\ (\A i \in 1 .. n : more[i] = closes[i])
        /\ more[n + 1] = x
    BY <1>2, <1>3, <2>3, AppendedIs
  <2>6. row.phase \in ClosingPhases /\ row.phase = "after_liquidation_close" /\ ClosingOf(row) = x
    BY <1>5, <2>1, <2>3, AfterNameIs DEF ClosingOf
  <2>7. Closings(observations') = <<first>> \o more
    <3>1. Closings(observations') = Append(<<first>> \o closes, x)
      BY <1>3, <1>6, <1>7, <2>6
    <3>2. <<first>> \o Append(closes, x) = Append(<<first>> \o closes, x)
      BY <1>2, FirstAppend
    <3>3. QED
      BY <2>3, <3>1, <3>2
  <2>8. \A i \in DOMAIN more : more[i].at = 2 * i
    <3>1. SUFFICES ASSUME NEW i \in 1 .. n + 1 PROVE more[i].at = 2 * i
      BY <2>5
    <3>2. i \in 1 .. n \/ i = n + 1
      BY <1>4
    <3>3. CASE i \in 1 .. n
      BY <1>2, <1>4, <2>5, <3>3
    <3>4. CASE i = n + 1
      BY <2>2, <2>3, <2>5, <3>4
    <3>5. QED
      BY <3>2, <3>3, <3>4
  <2>9. observations' # <<>> /\ observations'[Len(observations')] = row
    BY <1>2, AppendedIs
  <2>10. b.holdings = Flat
    <3>1. plan.quantity = Flat
      BY <2>1, LiquidatedIs
    <3>2. IsBooks(books)
      BY <1>1, BooksAre
    <3>3. b.holdings = plan.quantity
      BY <3>2, BooksAfterFields
    <3>4. QED
      BY <3>1, <3>3
  <2>11. QED
    BY <1>3, <1>5, <1>10, <2>2, <2>4, <2>5, <2>6, <2>7, <2>8, <2>9, <2>10 DEF ClosesInOrder
<1>11. QED
  BY <1>8, <1>9, <1>10

\* A batch is kept whole, with its fills, or not at all.
LEMMA TradeKeeps ==
  ASSUME IInv, Trade
  PROVE  IInv'
<1>1. PICK plan, b, fs, row, batch :
        /\ plan = Plan /\ b = BooksAfter(plan) /\ fs = fills \o StagedFills(plan)
        /\ row = RowOf(b, clock, AfterName) /\ batch = BatchOf(plan)
  OBVIOUS
<1>2. CASE Refusal(plan) # "none"
  BY <1>1, <1>2, RefusedIs, RefusedKeeps
<1>3. CASE Refusal(plan) = "none"
  <2>1. /\ UNCHANGED <<spec, quotes, trades>> /\ fills' = fs /\ books' = b
        /\ ledger' = [account |-> AccountOf(b), fills |-> fs]
        /\ observations' = Append(observations, row) /\ batches' = Append(batches, batch)
        /\ row.status = "funded"
        /\ \/ stage' = "failed" /\ failure' # "none" /\ UNCHANGED <<clock, closes>>
           \/ /\ stage' # "failed" /\ failure' = failure /\ closes' = ClosesAfter(clock, row.nav)
              /\ \/ stage' = "measure" /\ clock = Terminal /\ clock' = clock
                 \/ stage' = "observe" /\ clock # Terminal /\ clock' = clock + 1
    BY <1>1, <1>3, CommittedIs
  <2>2. /\ TypeOK /\ Chronology /\ BooksMirrored /\ CacheIsReplay /\ ValuedForTrade /\ RowsInOrder
        /\ stage = "trade" /\ Running /\ HistoryIsStable /\ CommittedBatchesAreFunded
    BY DEF Trade, IInv, Running
  <2>3. PICK A, t : A = spec.actions /\ t = clock
    OBVIOUS
  <2>4. /\ t \in Nat /\ t > 0 /\ FilledBy(fs, t) /\ IsSequence(fs) /\ LedgerAt(fs, t) = AccountOf(b)
        /\ Sound(A, Until(A, t), FALSE, b) /\ b.failure = "none" /\ b.claims = books.claims
        /\ \A at \in Int : at < t => LedgerAt(fs, at) = LedgerAt(fills, at)
    BY <1>1, <1>3, <2>2, <2>3, LedgerAfterTrade
  <2>5. t \in Int /\ t <= Terminal /\ Terminal \in Int /\ IsSequence(closes) /\ failure = "none"
    BY <2>2, <2>3, TerminalIs DEF TypeOK, Chronology
  <2>6. /\ row.at = t /\ row.account = AccountOf(b)
    BY <1>1, <2>3 DEF RowOf
  <2>7. /\ IsSequence(observations') /\ HistoryIsStable' /\ CommittedBatchesAreFunded'
        /\ \A i \in DOMAIN observations' :
             /\ observations'[i].at \in Int /\ observations'[i].at <= t
             /\ observations'[i].status = "funded"
    <3>1. LedgerAt(fs, clock) = row.account /\ row.at = clock /\ spec' = spec /\ fills' = fs
      BY <2>1, <2>3, <2>4, <2>6
    <3>2. \A at \in Int : at < clock => LedgerAt(fs, at) = LedgerAt(fills, at)
      BY <2>3, <2>4
    <3>3. /\ IsSequence(observations') /\ HistoryIsStable' /\ CommittedBatchesAreFunded'
          /\ \A i \in DOMAIN observations' :
               /\ observations'[i].at \in Int /\ observations'[i].at <= clock
               /\ row.status = "funded" => observations'[i].status = "funded"
      BY <2>1, <2>2, <3>1, <3>2, RetainedKeeps
    <3>4. QED
      BY <2>1, <2>3, <3>3
  <2>8. /\ clock' \in 0 .. Terminal /\ clock <= clock' /\ clock' \in Int /\ IsSequence(closes')
    <3>1. closes' = closes \/ \E x : closes' = Append(closes, x)
      BY <2>1 DEF ClosesAfter
    <3>2. IsSequence(closes')
      BY <2>5, <3>1, AppendedIs
    <3>3. clock' = clock \/ (clock' = clock + 1 /\ clock # Terminal)
      BY <2>1
    <3>4. QED
      BY <2>3, <2>4, <2>5, <3>2, <3>3
  <2>9. BatchesInOrder' /\ IsSequence(batches')
    <3>1. trades' = trades /\ fills' = fills \o StagedFills(plan)
      BY <1>1, <2>1
    <3>2. QED
      BY <1>1, <1>3, <2>1, <2>2, <2>8, <3>1, TradeBatches
  <2>10. stage' \in {"failed", "measure", "observe"}
    BY <2>1
  <2>11. TypeOK'
    BY <2>1, <2>2, <2>4, <2>7, <2>8, <2>9, <2>10 DEF TypeOK
  <2>12. Chronology'
    <3>1. (stage' = "failed") = (failure' # "none")
      BY <2>1, <2>5
    <3>2. stage' = "measure" => clock' = Terminal
      BY <2>1
    <3>3. QED
      BY <2>1, <2>2, <2>10, <3>1, <3>2 DEF Chronology
  <2>13. stage' # "failed" => CarriedTo' = t /\ (clock' = 0) = FALSE
    <3>1. SUFFICES ASSUME stage' # "failed" PROVE CarriedTo' = t /\ clock' # 0
      OBVIOUS
    <3>2. CASE stage' = "measure"
      <4>1. clock' = t
        BY <2>1, <2>3, <3>2
      <4>2. QED
        BY <2>4, <3>2, <4>1 DEF CarriedTo
    <3>3. CASE stage' = "observe"
      <4>1. clock' = t + 1
        BY <2>1, <2>3, <3>3
      <4>2. QED
        BY <2>4, <3>3, <4>1 DEF CarriedTo
    <3>4. QED
      BY <2>10, <3>1, <3>2, <3>3
  <2>14. BooksMirrored'
    <3>1. CASE stage' = "failed"
      BY <3>1 DEF BooksMirrored, Running
    <3>2. CASE stage' # "failed"
      <4>1. CarriedTo' = t /\ (clock' = 0) = FALSE /\ spec'.actions = A
        BY <2>1, <2>3, <2>13, <3>2
      <4>2. Sound(spec.actions, Until(spec.actions, CarriedTo), clock = 0, books)'
        BY <2>1, <2>4, <4>1
      <4>3. LedgerAt(fills, CarriedTo)' = AccountOf(books)'
        <5>1. LedgerAt(fs, t)' = LedgerAt(fs, t)
          BY <2>1, ReplayFrame
        <5>2. LedgerAt(fills, CarriedTo)' = LedgerAt(fs, t)'
          BY <2>1, <4>1 DEF LedgerAt, EventsUntil
        <5>3. QED
          BY <2>1, <2>4, <5>1, <5>2
      <4>4. spec'.actions = {} => books'.claims = {}
        BY <2>1, <2>2, <2>4 DEF BooksMirrored
      <4>5. FilledBy(fills, CarriedTo)' /\ books'.failure = "none"
        BY <2>1, <2>4, <4>1
      <4>6. QED
        BY <2>10, <3>2, <4>2, <4>3, <4>4, <4>5 DEF BooksMirrored
    <3>3. QED
      BY <3>1, <3>2
  <2>15. CacheIsReplay'
    <3>1. SUFFICES ASSUME spec.actions = {}
                   PROVE  /\ FilledBy(fs, clock')
                          /\ AccountOf(b) = Replay(spec.rate, FillEvents(fs))
      BY <2>1 DEF CacheIsReplay
    <3>2. EventsUntil(fs, t) = FillEvents(fs)
      BY <2>4, <3>1, FillsAlone
    <3>3. AccountOf(b) = Replay(spec.rate, FillEvents(fs))
      BY <2>4, <3>2 DEF LedgerAt
    <3>4. FilledBy(fs, clock')
      BY <2>3, <2>4, <2>5, <2>8, FilledLater
    <3>5. QED
      BY <3>3, <3>4
  <2>16. ValuedForTrade'
    BY <2>10 DEF ValuedForTrade
  <2>17. RowsInOrder'
    <3>1. CASE stage' = "failed"
      BY <2>7, <3>1 DEF RowsInOrder, Running
    <3>2. CASE stage' # "failed"
      <4>1. CarriedTo' = t
        BY <2>13, <3>2
      <4>2. \A i \in DOMAIN observations' : observations'[i].at <= CarriedTo'
        BY <2>7, <4>1
      <4>3. QED
        BY <2>7, <4>2 DEF RowsInOrder
    <3>3. QED
      BY <3>1, <3>2
  <2>18. ClosesInOrder'
    <3>1. IsBooks(b)
      BY <2>4 DEF Sound
    <3>2. \/ stage' = "failed" /\ UNCHANGED <<clock, closes>>
          \/ /\ stage' # "failed" /\ closes' = ClosesAfter(clock, row.nav)
             /\ \/ stage' = "measure" /\ clock = Terminal /\ clock' = clock
                \/ stage' = "observe" /\ clock # Terminal /\ clock' = clock + 1
      BY <2>1
    <3>3. observations' = Append(observations, row) /\ trades' = trades
      BY <2>1
    <3>4. QED
      BY <1>1, <1>3, <2>2, <3>1, <3>2, <3>3, TradeCloses
  <2>19. QED
    BY <2>7, <2>9, <2>11, <2>12, <2>14, <2>15, <2>16, <2>17, <2>18 DEF IInv
<1>4. QED
  BY <1>2, <1>3

-----------------------------------------------------------------------------
(* The post-fee equation has a solution *)

IsRational(p) == p[1] \in Int /\ p[2] \in Int /\ p[2] > 0

\* What is more than nothing is more than nothing once a positive factor is taken out.
LEMMA FactorOut ==
  ASSUME NEW k \in Int, NEW x \in Int, k > 0, k * x >= 0
  PROVE  x >= 0
  OBVIOUS

\* Rationals are ordered as their fractions are.
LEMMA LeqOrders ==
  ASSUME NEW p, NEW q, NEW r, IsRational(p), IsRational(q), IsRational(r)
  PROVE  /\ Leq(p, p) /\ (Leq(p, q) \/ Leq(q, p))
         /\ Leq(p, q) /\ Leq(q, r) => Leq(p, r)
<1>1. PICK a \in Int, b \in Int, c \in Int, d \in Int, e \in Int, f \in Int :
        a = p[1] /\ b = p[2] /\ c = q[1] /\ d = q[2] /\ e = r[1] /\ f = r[2]
  BY DEF IsRational
<1>2. b > 0 /\ d > 0 /\ f > 0
  BY <1>1 DEF IsRational
<1>3. /\ Leq(p, p) <=> a * b <= a * b
      /\ Leq(p, q) <=> a * d <= c * b
      /\ Leq(q, p) <=> c * b <= a * d
      /\ Leq(q, r) <=> c * f <= e * d
      /\ Leq(p, r) <=> a * f <= e * b
  BY <1>1 DEF Leq
<1>4. PICK ad, cb : ad = a * d /\ cb = c * b
  OBVIOUS
<1>5. ad \in Int /\ cb \in Int
  BY <1>4
<1>6. Leq(p, q) \/ Leq(q, p)
  BY <1>3, <1>4, <1>5
<1>7. ASSUME a * d <= c * b, c * f <= e * d PROVE a * f <= e * b
  <2>1. f * (c * b - a * d) >= 0
    <3>1. PICK x : x = c * b - a * d
      OBVIOUS
    <3>2. x \in Nat
      BY <1>4, <1>5, <1>7, <3>1
    <3>3. QED
      BY <1>2, <3>1, <3>2
  <2>2. b * (e * d - c * f) >= 0
    <3>1. PICK x, ed, cf : ed = e * d /\ cf = c * f /\ x = ed - cf
      OBVIOUS
    <3>2. ed \in Int /\ cf \in Int /\ cf <= ed
      BY <1>7, <3>1
    <3>3. x \in Nat
      BY <3>1, <3>2
    <3>4. QED
      BY <1>2, <3>1, <3>3
  <2>3. d * (e * b - a * f) = f * (c * b - a * d) + b * (e * d - c * f)
    OBVIOUS
  <2>4. PICK y, u, v : y = e * b - a * f /\ u = f * (c * b - a * d) /\ v = b * (e * d - c * f)
    OBVIOUS
  <2>5. y \in Int /\ u \in Int /\ v \in Int /\ u >= 0 /\ v >= 0 /\ d * y = u + v
    BY <2>1, <2>2, <2>3, <2>4
  <2>6. d * y >= 0
    BY <2>5
  <2>7. y >= 0
    BY <1>2, <2>5, <2>6, FactorOut
  <2>8. PICK eb, af : eb = e * b /\ af = a * f
    OBVIOUS
  <2>9. eb \in Int /\ af \in Int /\ y = eb - af
    BY <2>4, <2>8
  <2>10. QED
    BY <2>7, <2>8, <2>9
<1>8. Leq(p, p)
  BY <1>3
<1>9. QED
  BY <1>3, <1>6, <1>7, <1>8

Ordered(up, p, q) == IF up THEN Leq(p, q) ELSE Leq(q, p)

\* Finitely many rationals have a greatest, and a least.
LEMMA ExtremeExists ==
  ASSUME NEW S, IsFiniteSet(S), S # {}, \A p \in S : IsRational(p), NEW up \in BOOLEAN
  PROVE  \E m \in S : \A p \in S : Ordered(up, p, m)
<1> DEFINE Good == {s \in SUBSET S : s = {} \/ \E m \in s : \A p \in s : Ordered(up, p, m)}
<1>0. \A p, q, r \in S : /\ Ordered(up, p, p) /\ (Ordered(up, p, q) \/ Ordered(up, q, p))
                         /\ Ordered(up, p, q) /\ Ordered(up, q, r) => Ordered(up, p, r)
  <2>1. SUFFICES ASSUME NEW p \in S, NEW q \in S, NEW r \in S
                 PROVE  /\ Ordered(up, p, p) /\ (Ordered(up, p, q) \/ Ordered(up, q, p))
                        /\ Ordered(up, p, q) /\ Ordered(up, q, r) => Ordered(up, p, r)
    OBVIOUS
  <2>2. IsRational(p) /\ IsRational(q) /\ IsRational(r)
    OBVIOUS
  <2>3. /\ Leq(p, p) /\ (Leq(p, q) \/ Leq(q, p))
        /\ Leq(p, q) /\ Leq(q, r) => Leq(p, r)
    BY <2>2, LeqOrders
  <2>4. Leq(r, q) /\ Leq(q, p) => Leq(r, p)
    BY <2>2, LeqOrders
  <2>5. QED
    BY <2>3, <2>4 DEF Ordered
<1>1. {} \in Good
  OBVIOUS
<1>2. ASSUME NEW s \in Good, NEW x \in S \ s
      PROVE  s \cup {x} \in Good
  <2>0. s \in SUBSET S /\ x \in S /\ s \cup {x} \in SUBSET S
    OBVIOUS
  <2>1. CASE s = {}
    BY <1>0, <2>0, <2>1
  <2>2. CASE s # {}
    <3>1. PICK m \in s : \A p \in s : Ordered(up, p, m)
      BY <2>2
    <3>2. m \in S
      BY <2>0
    <3>3. CASE Ordered(up, x, m)
      <4>1. \A p \in s \cup {x} : Ordered(up, p, m)
        BY <3>1, <3>3
      <4>2. QED
        BY <2>0, <4>1
    <3>4. CASE ~Ordered(up, x, m)
      <4>1. Ordered(up, m, x) /\ Ordered(up, x, x)
        BY <1>0, <2>0, <3>2, <3>4
      <4>2. \A p \in s : Ordered(up, p, x)
        BY <1>0, <2>0, <3>1, <3>2, <4>1
      <4>3. \A p \in s \cup {x} : Ordered(up, p, x)
        BY <4>1, <4>2
      <4>4. QED
        BY <2>0, <4>3
    <3>5. QED
      BY <3>3, <3>4
  <2>3. QED
    BY <2>1, <2>2
<1>3. Good = SUBSET S
  <2>1. Good \in SUBSET (SUBSET S)
    OBVIOUS
  <2> HIDE DEF Good
  <2>2. QED
    BY <1>1, <1>2, <2>1, SubsetInduction
<1>4. S \in Good
  BY <1>3
<1>5. QED
  BY <1>4

\* The breakpoint of a security: where its target is what is held.
PointOf(q, s) == Rational(q.old[s] * Unit, q.weight[s])

\* A breakpoint is a rational where a security changes its direction.
LEMMA PointIs ==
  ASSUME NEW q, ValidRequest(q), NEW s \in Securities, q.weight[s] # 0
  PROVE  /\ IsRational(PointOf(q, s))
         /\ q.weight[s] > 0 => PointOf(q, s) = <<q.old[s] * Unit, q.weight[s]>>
         /\ q.weight[s] < 0 => PointOf(q, s) = <<-(q.old[s] * Unit), -q.weight[s]>>
<1>1. PICK w, k : w = q.weight[s] /\ k = q.old[s] * Unit
  OBVIOUS
<1>2. w \in Int /\ k \in Int /\ w # 0
  BY <1>1, FundingAssumption DEF ValidRequest
<1>3. PointOf(q, s) = IF w > 0 THEN <<k, w>> ELSE <<-k, -w>>
  BY <1>1 DEF PointOf, Rational
<1>4. CASE w > 0
  <2>1. PointOf(q, s) = <<k, w>>
    BY <1>3, <1>4
  <2>2. QED
    BY <1>1, <1>2, <1>4, <2>1 DEF IsRational
<1>5. CASE w < 0
  <2>1. PointOf(q, s) = <<-k, -w>>
    BY <1>2, <1>3, <1>5
  <2>2. -w > 0 /\ -w \in Int /\ -k \in Int /\ ~ (w > 0)
    BY <1>2, <1>5
  <2>3. QED
    BY <1>1, <2>1, <2>2 DEF IsRational
<1>6. QED
  BY <1>2, <1>4, <1>5

\* The points between which the equation is affine.
LEMMA BreakpointsAre ==
  ASSUME NEW q, ValidRequest(q), q.nav > 0
  PROVE  /\ IsFiniteSet(Breakpoints(q))
         /\ <<0, 1>> \in Breakpoints(q) /\ <<q.nav, 1>> \in Breakpoints(q)
         /\ \A p \in Breakpoints(q) : IsRational(p) /\ Leq(<<0, 1>>, p) /\ Leq(p, <<q.nav, 1>>)
         /\ \A s \in Securities :
              q.weight[s] # 0 => \/ PointOf(q, s) \in Breakpoints(q)
                                 \/ Leq(PointOf(q, s), <<0, 1>>) \/ Leq(<<q.nav, 1>>, PointOf(q, s))
<1>1. PICK zero, top, W, all :
        /\ zero = <<0, 1>> /\ top = <<q.nav, 1>> /\ W = {t \in Securities : q.weight[t] # 0}
        /\ all = {PointOf(q, s) : s \in W}
  OBVIOUS
<1>2. IsRational(zero) /\ IsRational(top) /\ Leq(zero, top)
  BY <1>1 DEF IsRational, Leq, ValidRequest
<1>3. Breakpoints(q) = {zero, top} \cup {p \in all : Less(zero, p) /\ Less(p, top)}
  BY <1>1 DEF Breakpoints, PointOf
<1>4. \A p \in all : IsRational(p)
  <2>1. SUFFICES ASSUME NEW s \in W PROVE IsRational(PointOf(q, s))
    BY <1>1
  <2>2. s \in Securities /\ q.weight[s] # 0
    BY <1>1
  <2>3. QED
    BY <2>2, PointIs
<1>5. IsFiniteSet(all)
  <2>1. PICK f : f = [s \in W |-> PointOf(q, s)]
    OBVIOUS
  <2>2. IsFiniteSet(W)
    BY <1>1, AccountAssumption, FS_Subset
  <2>3. IsFiniteSet({f[s] : s \in W})
    BY <2>2, ImageIsFinite
  <2>4. {f[s] : s \in W} = all
    BY <1>1, <2>1
  <2>5. QED
    BY <2>3, <2>4
<1>6. IsFiniteSet(Breakpoints(q))
  <2>1. PICK some : some = {p \in all : Less(zero, p) /\ Less(p, top)}
    OBVIOUS
  <2>2. IsFiniteSet(some)
    BY <1>5, <2>1, FS_Subset
  <2>3. IsFiniteSet(some \cup {top})
    BY <2>2, FS_AddElement
  <2>4. IsFiniteSet((some \cup {top}) \cup {zero})
    BY <2>3, FS_AddElement
  <2>5. Breakpoints(q) = (some \cup {top}) \cup {zero}
    BY <1>3, <2>1
  <2>6. QED
    BY <2>4, <2>5
<1>7. \A p \in Breakpoints(q) : IsRational(p) /\ Leq(zero, p) /\ Leq(p, top)
  <2>1. SUFFICES ASSUME NEW p \in Breakpoints(q) PROVE IsRational(p) /\ Leq(zero, p) /\ Leq(p, top)
    OBVIOUS
  <2>2. p = zero \/ p = top \/ (p \in all /\ ~Leq(p, zero) /\ ~Leq(top, p))
    BY <1>3 DEF Less
  <2>3. IsRational(p)
    BY <1>2, <1>4, <2>2
  <2>4. (Leq(p, zero) \/ Leq(zero, p)) /\ (Leq(p, top) \/ Leq(top, p)) /\ Leq(p, p)
    BY <1>2, <2>3, LeqOrders
  <2>5. QED
    BY <1>2, <2>2, <2>3, <2>4
<1>8. ASSUME NEW s \in Securities, q.weight[s] # 0
      PROVE  \/ PointOf(q, s) \in Breakpoints(q)
             \/ Leq(PointOf(q, s), zero) \/ Leq(top, PointOf(q, s))
  BY <1>1, <1>3, <1>8 DEF Less
<1>9. zero \in Breakpoints(q) /\ top \in Breakpoints(q)
  BY <1>3
<1>10. QED
  BY <1>1, <1>6, <1>7, <1>8, <1>9

\* What a security is moved by, times the denominator.
Shift(w, k, p) == p[1] * w - k * p[2]

\* Between two points that its own does not separate, a security is bought at both or sold at both.
LEMMA OneDirection ==
  ASSUME NEW w \in Int, NEW k \in Int, NEW a \in Int, NEW b \in Int, NEW c \in Int, NEW d \in Int,
         b > 0, d > 0, a * d <= c * b, w >= 0, k * b <= a * w \/ c * w <= k * d
  PROVE  \/ a * w - k * b >= 0 /\ c * w - k * d >= 0
         \/ a * w - k * b <= 0 /\ c * w - k * d <= 0
<1>1. PICK x, y, z : x = a * w - k * b /\ y = c * w - k * d /\ z = c * b - a * d
  OBVIOUS
<1>2. x \in Int /\ y \in Int /\ z \in Int /\ z >= 0
  <2>1. PICK cb, ad : cb = c * b /\ ad = a * d
    OBVIOUS
  <2>2. cb \in Int /\ ad \in Int /\ ad <= cb /\ z = cb - ad
    BY <1>1, <2>1
  <2>3. x \in Int /\ y \in Int
    BY <1>1
  <2>4. QED
    BY <2>2, <2>3
<1>3. b * y = d * x + w * z
  BY <1>1
<1>4. w * z >= 0
  BY <1>2
<1>5. x >= 0 \/ y <= 0
  <2>1. PICK kb, aw, cw, kd : kb = k * b /\ aw = a * w /\ cw = c * w /\ kd = k * d
    OBVIOUS
  <2>2. kb \in Int /\ aw \in Int /\ cw \in Int /\ kd \in Int /\ (kb <= aw \/ cw <= kd)
    BY <2>1
  <2>3. x = aw - kb /\ y = cw - kd
    BY <1>1, <2>1
  <2>4. QED
    BY <2>2, <2>3
<1>6. PICK wz : wz = w * z
  OBVIOUS
<1>7. wz \in Int /\ wz >= 0 /\ b * y = d * x + wz
  BY <1>2, <1>3, <1>4, <1>6
<1>8. x >= 0 => y >= 0
  <2>1. SUFFICES ASSUME x >= 0 PROVE y >= 0
    OBVIOUS
  <2>2. d * x >= 0 /\ d * x \in Int
    BY <1>2, <2>1
  <2>3. b * y >= 0
    BY <1>7, <2>2
  <2>4. QED
    BY <1>2, <2>3, FactorOut
<1>9. y <= 0 => x <= 0
  <2>1. SUFFICES ASSUME y <= 0 PROVE x <= 0
    OBVIOUS
  <2>2. PICK v : v = -x
    OBVIOUS
  <2>3. v \in Int /\ d * v = wz - b * y
    <3>1. d * v = -(d * x)
      BY <1>2, <2>2
    <3>2. PICK by, dx, dv : by = b * y /\ dx = d * x /\ dv = d * v
      OBVIOUS
    <3>3. by \in Int /\ dx \in Int /\ by = dx + wz /\ dv = -dx
      BY <1>2, <1>7, <3>1, <3>2
    <3>4. dv = wz - by
      BY <1>7, <3>3
    <3>5. QED
      BY <1>2, <2>2, <3>2, <3>4
  <2>4. b * y <= 0 /\ b * y \in Int
    BY <1>2, <2>1
  <2>5. d * v >= 0
    BY <1>7, <2>3, <2>4
  <2>6. v >= 0
    BY <2>3, <2>5, FactorOut
  <2>7. QED
    BY <1>2, <2>2, <2>6
<1>10. QED
  BY <1>1, <1>5, <1>8, <1>9

\* The side of the middle is the side of both ends.
LEMMA MiddleSide ==
  ASSUME NEW x \in Int, NEW y \in Int, NEW b \in Int, NEW d \in Int, b > 0, d > 0,
         (x >= 0 /\ y >= 0) \/ (x <= 0 /\ y <= 0),
         NEW sign, sign = IF d * x + b * y >= 0 THEN 1 ELSE -1
  PROVE  sign * x >= 0 /\ sign * y >= 0
<1>1. PICK dx, byy : dx = d * x /\ byy = b * y
  OBVIOUS
<1>2. dx \in Int /\ byy \in Int
  BY <1>1
<1>3. CASE x >= 0 /\ y >= 0
  <2>1. dx >= 0 /\ byy >= 0
    BY <1>1, <1>3
  <2>2. sign = 1
    BY <1>1, <1>2, <2>1
  <2>3. QED
    BY <1>3, <2>2
<1>4. CASE x <= 0 /\ y <= 0
  <2>1. CASE sign = -1
    BY <1>4, <2>1
  <2>2. CASE sign # -1
    <3>1. dx + byy >= 0 /\ sign = 1
      BY <1>1, <2>2
    <3>2. dx <= 0 /\ byy <= 0
      BY <1>1, <1>4
    <3>3. dx = 0 /\ byy = 0
      BY <1>2, <3>1, <3>2
    <3>4. x >= 0 /\ y >= 0
      BY <1>1, <3>3, FactorOut
    <3>5. QED
      BY <3>1, <3>4
  <2>3. QED
    BY <2>1, <2>2
<1>5. QED
  BY <1>3, <1>4

\* In an interval of the equation every security keeps its direction.
LEMMA IntervalIs ==
  ASSUME NEW q, ValidRequest(q), q.nav > 0, NEW i \in Intervals(q)
  PROVE  /\ i = <<i[1], i[2]>> /\ IsRational(i[1]) /\ IsRational(i[2])
         /\ Leq(<<0, 1>>, i[1]) /\ Leq(i[2], <<q.nav, 1>>)
         /\ \A s \in Securities :
              LET w == q.weight[s]
                  k == q.old[s] * Unit
                  sign == SideOf(q, i)[s]
              IN sign * Shift(w, k, i[1]) >= 0 /\ sign * Shift(w, k, i[2]) >= 0
<1>1. PICK points : points = Breakpoints(q)
  OBVIOUS
<1>2. /\ i = <<i[1], i[2]>> /\ i[1] \in points /\ i[2] \in points
      /\ Less(i[1], i[2]) /\ ~\E p \in points : Less(i[1], p) /\ Less(p, i[2])
  BY <1>1 DEF Intervals
<1>3. PICK m, u : m = i[1] /\ u = i[2]
  OBVIOUS
<1>4. \A p \in points : IsRational(p) /\ Leq(<<0, 1>>, p) /\ Leq(p, <<q.nav, 1>>)
  BY <1>1, BreakpointsAre
<1>5. /\ IsRational(m) /\ IsRational(u) /\ Leq(<<0, 1>>, m) /\ Leq(u, <<q.nav, 1>>)
      /\ Leq(m, u)
  <2>1. IsRational(m) /\ IsRational(u) /\ ~Leq(u, m)
    BY <1>2, <1>3, <1>4 DEF Less
  <2>2. Leq(m, u)
    BY <2>1, LeqOrders
  <2>3. QED
    BY <1>2, <1>3, <1>4, <2>1, <2>2
<1>6. PICK a \in Int, b \in Int, c \in Int, d \in Int :
        a = m[1] /\ b = m[2] /\ c = u[1] /\ d = u[2]
  BY <1>5 DEF IsRational
<1>7. b > 0 /\ d > 0 /\ a * d <= c * b
  BY <1>5, <1>6 DEF IsRational, Leq
<1>8. ASSUME NEW s \in Securities
      PROVE  SideOf(q, i)[s] * Shift(q.weight[s], q.old[s] * Unit, m) >= 0
             /\ SideOf(q, i)[s] * Shift(q.weight[s], q.old[s] * Unit, u) >= 0
  <2>1. PICK w, k, o, sign : w = q.weight[s] /\ o = q.old[s] /\ k = o * Unit /\ sign = SideOf(q, i)[s]
    OBVIOUS
  <2>2. w \in Int /\ k \in Int /\ o \in Int /\ Unit \in Int
    BY <2>1, FundingAssumption DEF ValidRequest
  <2>3. PICK x, y : x = a * w - k * b /\ y = c * w - k * d
    OBVIOUS
  <2>4. x \in Int /\ y \in Int
    BY <2>2, <2>3
  <2>5. w # 0 => Leq(PointOf(q, s), m) \/ Leq(u, PointOf(q, s))
    <3>1. SUFFICES ASSUME w # 0 PROVE Leq(PointOf(q, s), m) \/ Leq(u, PointOf(q, s))
      OBVIOUS
    <3>2. PICK p, zero, top : p = PointOf(q, s) /\ zero = <<0, 1>> /\ top = <<q.nav, 1>>
      OBVIOUS
    <3>3. IsRational(p)
      BY <2>1, <3>1, <3>2, PointIs
    <3>4. IsRational(zero) /\ IsRational(top)
      BY <3>2 DEF IsRational, ValidRequest
    <3>5. p \in points \/ Leq(p, zero) \/ Leq(top, p)
      BY <1>1, <2>1, <3>1, <3>2, BreakpointsAre
    <3>6. CASE p \in points
      <4>1. ~Less(m, p) \/ ~Less(p, u)
        BY <1>2, <1>3, <3>6
      <4>2. QED
        BY <3>2, <4>1 DEF Less
    <3>7. CASE Leq(p, zero)
      <4>1. Leq(p, m)
        BY <1>5, <3>2, <3>3, <3>4, <3>7, LeqOrders
      <4>2. QED
        BY <3>2, <4>1
    <3>8. CASE Leq(top, p)
      <4>1. Leq(u, p)
        BY <1>5, <3>2, <3>3, <3>4, <3>8, LeqOrders
      <4>2. QED
        BY <3>2, <4>1
    <3>9. QED
      BY <3>5, <3>6, <3>7, <3>8
  <2>6. \/ x >= 0 /\ y >= 0
        \/ x <= 0 /\ y <= 0
    <3>1. CASE w > 0
      <4>1. PICK p : p = PointOf(q, s)
        OBVIOUS
      <4>2. p = <<k, w>>
        BY <2>1, <3>1, <4>1, PointIs
      <4>3. Leq(p, m) \/ Leq(u, p)
        BY <2>2, <2>5, <3>1, <4>1
      <4>4. k * b <= a * w \/ c * w <= k * d
        BY <1>6, <4>2, <4>3 DEF Leq
      <4>5. QED
        BY <1>7, <2>2, <2>3, <3>1, <4>4, OneDirection
    <3>2. CASE w = 0
      <4>1. a * w = 0 /\ c * w = 0
        BY <3>2
      <4>2. k * b <= 0 \/ 0 <= k * d
        <5>1. CASE k <= 0
          <6>1. k * b <= 0
            BY <1>7, <2>2, <5>1
          <6>2. QED
            BY <6>1
        <5>2. CASE k >= 0
          <6>1. 0 <= k * d
            BY <1>7, <2>2, <5>2
          <6>2. QED
            BY <6>1
        <5>3. QED
          BY <2>2, <5>1, <5>2
      <4>3. k * b <= a * w \/ c * w <= k * d
        BY <4>1, <4>2
      <4>4. w >= 0
        BY <3>2
      <4>5. QED
        BY <1>7, <2>2, <2>3, <4>3, <4>4, OneDirection
    <3>3. CASE w < 0
      <4>1. PICK p, v, j : p = PointOf(q, s) /\ v = -w /\ j = -k
        OBVIOUS
      <4>2. p = <<j, v>> /\ v \in Int /\ j \in Int /\ v >= 0
        BY <2>1, <2>2, <3>3, <4>1, PointIs
      <4>3. Leq(p, m) \/ Leq(u, p)
        BY <2>2, <2>5, <3>3, <4>1
      <4>4. j * b <= a * v \/ c * v <= j * d
        BY <1>6, <4>2, <4>3 DEF Leq
      <4>5. \/ a * v - j * b >= 0 /\ c * v - j * d >= 0
            \/ a * v - j * b <= 0 /\ c * v - j * d <= 0
        BY <1>7, <4>2, <4>4, OneDirection
      <4>6. a * v - j * b = -x /\ c * v - j * d = -y
        BY <2>2, <2>3, <4>1
      <4>7. QED
        BY <2>4, <4>5, <4>6
    <3>4. QED
      BY <2>2, <3>1, <3>2, <3>3
  <2>7. sign = IF d * x + b * y >= 0 THEN 1 ELSE -1
    <3>1. PICK one, two : one = a * d + c * b /\ two = 2 * b * d
      OBVIOUS
    <3>2. Middle(i[1], i[2]) = <<one, two>>
      BY <1>3, <1>6, <3>1 DEF Middle
    <3>3. sign = IF one * w >= o * Unit * two THEN 1 ELSE -1
      BY <2>1, <3>2 DEF SideOf
    <3>4. one * w - k * two = d * x + b * y
      BY <2>2, <2>3, <3>1
    <3>5. PICK l, r, e : l = one * w /\ r = k * two /\ e = d * x + b * y
      OBVIOUS
    <3>6. l \in Int /\ r \in Int /\ e \in Int /\ l - r = e
      BY <2>2, <2>4, <3>1, <3>4, <3>5
    <3>7. one * w >= o * Unit * two <=> e >= 0
      <4>1. o * Unit * two = r
        BY <2>1, <3>5
      <4>2. QED
        BY <3>5, <3>6, <4>1
    <3>8. QED
      BY <3>3, <3>5, <3>7
  <2>8. sign * x >= 0 /\ sign * y >= 0
    BY <1>7, <2>4, <2>6, <2>7, MiddleSide
  <2>9. Shift(w, k, m) = x /\ Shift(w, k, u) = y
    BY <1>6, <2>3 DEF Shift
  <2>10. QED
    BY <2>1, <2>8, <2>9
<1>9. QED
  BY <1>2, <1>3, <1>5, <1>8

\* What it costs, times the denominator, to hold the target of a value, and how much more than
\* the value before the trade that makes.
CostOf(q, p) ==
  SumFunction([s \in Securities |-> Magnitude(p[1] * q.weight[s] - q.old[s] * Unit * p[2])])

Excess(q, p) == Scale * Unit * p[1] + q.rate * CostOf(q, p) - Scale * Unit * q.nav * p[2]

\* Where the directions are those of an interval, the costs are affine.
LEMMA CostIsSigned ==
  ASSUME NEW q, ValidRequest(q), NEW p, IsRational(p), NEW sign \in [Securities -> {1, -1}],
         \A s \in Securities : sign[s] * Shift(q.weight[s], q.old[s] * Unit, p) >= 0,
         NEW a, a = SumFunctionOnSet(Signed(sign, q.weight), Securities),
         NEW b, b = SumFunctionOnSet(Signed(sign, q.old), Securities)
  PROVE  a \in Int /\ b \in Int /\ CostOf(q, p) = p[1] * a - (Unit * p[2]) * b
<1>1. PICK x, y, S, w, o, f, g : /\ x = p[1] /\ y = p[2] /\ S = Securities /\ w = q.weight /\ o = q.old
                                 /\ f = Signed(sign, w) /\ g = Signed(sign, o)
  OBVIOUS
<1>2. x \in Int /\ y \in Int /\ IsFiniteSet(S) /\ w \in [S -> Int] /\ o \in [S -> Int]
  BY <1>1, AccountAssumption DEF IsRational, ValidRequest
<1>3. PICK c, k : c = -(Unit * y) /\ k = Unit
  OBVIOUS
<1>4. c \in Int /\ k \in Int /\ c = -(k * y)
  BY <1>2, <1>3, FundingAssumption
<1>5. PICK cost, one, two :
        /\ cost = [s \in S |-> Magnitude(x * w[s] - o[s] * k * y)]
        /\ one = [s \in S |-> x * f[s]] /\ two = [s \in S |-> c * g[s]]
  OBVIOUS
<1>6. \A s \in S : /\ f[s] \in Int /\ g[s] \in Int /\ one[s] \in Int /\ two[s] \in Int /\ cost[s] \in Int
                   /\ one[s] = x * f[s] /\ two[s] = c * g[s] /\ cost[s] = one[s] + two[s]
  <2>1. SUFFICES ASSUME NEW s \in S
                 PROVE  /\ f[s] \in Int /\ g[s] \in Int /\ one[s] \in Int /\ two[s] \in Int /\ cost[s] \in Int
                        /\ one[s] = x * f[s] /\ two[s] = c * g[s] /\ cost[s] = one[s] + two[s]
    OBVIOUS
  <2>2. PICK u \in {1, -1}, v \in Int, z \in Int : u = sign[s] /\ v = w[s] /\ z = o[s]
    BY <1>1, <1>2
  <2>3. f[s] = u * v /\ g[s] = u * z
    BY <1>1, <2>2 DEF Signed
  <2>4. u * (v * x - z * k * y) >= 0
    <3>1. Shift(q.weight[s], q.old[s] * Unit, p) = x * v - (z * k) * y
      BY <1>1, <1>3, <2>2 DEF Shift
    <3>2. x * v - (z * k) * y = v * x - z * k * y
      BY <1>2, <1>4
    <3>3. QED
      BY <1>1, <2>2, <3>1, <3>2
  <2>5. PICK d : d = v * x - z * k * y
    OBVIOUS
  <2>6. d \in Int /\ x * w[s] - o[s] * k * y = d
    BY <1>2, <1>4, <2>2, <2>5
  <2>7. cost[s] = Magnitude(d) /\ one[s] = x * (u * v) /\ two[s] = c * (u * z)
    BY <1>5, <2>3, <2>6
  <2>8. Magnitude(d) = u * d
    <3>1. CASE u = 1
      <4>1. d >= 0 /\ u * d = d
        BY <2>4, <2>5, <2>6, <3>1
      <4>2. QED
        BY <2>6, <4>1 DEF Magnitude
    <3>2. CASE u = -1
      <4>1. d <= 0 /\ u * d = -d
        BY <2>4, <2>5, <2>6, <3>2
      <4>2. QED
        BY <2>6, <4>1 DEF Magnitude
    <3>3. QED
      BY <3>1, <3>2
  <2>9. u * d = x * (u * v) + c * (u * z)
    BY <1>2, <1>4, <2>2, <2>5
  <2>10. u \in Int
    BY <2>2
  <2>11. f[s] \in Int /\ g[s] \in Int /\ one[s] \in Int /\ two[s] \in Int
    BY <1>2, <1>4, <2>3, <2>7, <2>10
  <2>12. cost[s] = one[s] + two[s]
    BY <2>7, <2>8, <2>9
  <2>13. QED
    BY <2>3, <2>7, <2>11, <2>12
<1>7. SumFunctionOnSet(one, S) = x * SumFunctionOnSet(f, S)
  <2>1. \A s \in S : f[s] \in Int /\ one[s] = x * f[s]
    BY <1>6
  <2>2. QED
    BY <1>2, <2>1, SumTimes
<1>8. SumFunctionOnSet(two, S) = c * SumFunctionOnSet(g, S)
  <2>1. \A s \in S : g[s] \in Int /\ two[s] = c * g[s]
    BY <1>6
  <2>2. QED
    BY <1>2, <1>4, <2>1, SumTimes
<1>9. SumFunctionOnSet(cost, S) = SumFunctionOnSet(one, S) + SumFunctionOnSet(two, S)
  <2>1. \A s \in S : one[s] \in Int /\ two[s] \in Int /\ cost[s] = one[s] + two[s]
    BY <1>6
  <2>2. QED
    BY <1>2, <2>1, SumPlus
<1>10. a \in Int /\ b \in Int /\ a = SumFunctionOnSet(f, S) /\ b = SumFunctionOnSet(g, S)
  <2>1. (\A s \in S : f[s] \in Int) /\ (\A s \in S : g[s] \in Int)
    BY <1>6
  <2>2. SumFunctionOnSet(f, S) \in Int /\ SumFunctionOnSet(g, S) \in Int
    BY <1>2, <2>1, SumType
  <2>3. QED
    BY <1>1, <2>2
<1>11. CostOf(q, p) = SumFunctionOnSet(cost, S)
  <2>1. DOMAIN cost = S
    BY <1>5
  <2>2. CostOf(q, p) = SumFunction(cost)
    BY <1>1, <1>3, <1>5 DEF CostOf
  <2>3. QED
    BY <2>1, <2>2, SumIs
<1>12. CostOf(q, p) = x * a + c * b
  BY <1>7, <1>8, <1>9, <1>10, <1>11
<1>13. x * a + c * b = x * a - (k * y) * b
  BY <1>2, <1>4, <1>10
<1>14. QED
  BY <1>1, <1>3, <1>10, <1>12, <1>13

\* And so is the equation: it is solved by the candidate of the interval.
LEMMA ExcessIs ==
  ASSUME NEW q, ValidRequest(q), NEW p, IsRational(p), NEW a \in Int, NEW b \in Int,
         CostOf(q, p) = p[1] * a - (Unit * p[2]) * b
  PROVE  /\ Excess(q, p) = p[1] * (Scale * Unit + q.rate * a) - (Unit * (q.nav * Scale + q.rate * b)) * p[2]
         /\ Excess(q, p) \in Int
<1>1. PICK x \in Int, y \in Int, r \in Int, v \in Int, c \in Int, k \in Int :
        x = p[1] /\ y = p[2] /\ r = q.rate /\ v = q.nav /\ c = Scale /\ k = Unit
  BY FundingAssumption DEF IsRational, ValidRequest
<1>2. Excess(q, p) = c * k * x + r * (x * a - (k * y) * b) - c * k * v * y
  BY <1>1 DEF Excess
<1>3. c * k * x + r * (x * a - (k * y) * b) - c * k * v * y
        = x * (c * k + r * a) - (k * (v * c + r * b)) * y
  OBVIOUS
<1>4. x * (c * k + r * a) - (k * (v * c + r * b)) * y \in Int
  OBVIOUS
<1>5. QED
  BY <1>1, <1>2, <1>3, <1>4

\* Costs are not negative.
LEMMA CostIsNatural ==
  ASSUME NEW q, ValidRequest(q), NEW p, IsRational(p)
  PROVE  CostOf(q, p) \in Nat /\ Excess(q, p) \in Int
<1>1. PICK x, y, S, w, o, k : /\ x = p[1] /\ y = p[2] /\ S = Securities /\ w = q.weight /\ o = q.old
                              /\ k = Unit
  OBVIOUS
<1>2. x \in Int /\ y \in Int /\ IsFiniteSet(S) /\ w \in [S -> Int] /\ o \in [S -> Int] /\ k \in Int
  BY <1>1, AccountAssumption, FundingAssumption DEF IsRational, ValidRequest
<1>3. PICK cost : cost = [s \in S |-> Magnitude(x * w[s] - o[s] * k * y)]
  OBVIOUS
<1>4. \A s \in S : cost[s] \in Nat
  <2>1. SUFFICES ASSUME NEW s \in S PROVE cost[s] \in Nat
    OBVIOUS
  <2>2. PICK d : d = x * w[s] - o[s] * k * y
    OBVIOUS
  <2>3. w[s] \in Int /\ o[s] \in Int
    BY <1>2
  <2>4. d \in Int
    BY <1>2, <2>2, <2>3
  <2>5. cost[s] = Magnitude(d)
    BY <1>3, <2>2
  <2>6. QED
    BY <2>4, <2>5 DEF Magnitude
<1>5. SumFunctionOnSet(cost, S) \in Nat
  BY <1>2, <1>4, SumNatural
<1>6. CostOf(q, p) = SumFunctionOnSet(cost, S)
  <2>1. DOMAIN cost = S
    BY <1>3
  <2>2. CostOf(q, p) = SumFunction(cost)
    BY <1>1, <1>3 DEF CostOf
  <2>3. QED
    BY <2>1, <2>2, SumIs
<1>7. PICK n : n = CostOf(q, p)
  OBVIOUS
<1>8. n \in Nat
  BY <1>5, <1>6, <1>7
<1>9. Excess(q, p) = Scale * k * x + q.rate * n - Scale * k * q.nav * y
  BY <1>1, <1>7 DEF Excess
<1>10. q.rate \in Int /\ q.nav \in Int /\ Scale \in Int
  BY FundingAssumption DEF ValidRequest
<1>11. QED
  BY <1>2, <1>7, <1>8, <1>9, <1>10

\* Nothing is left that costs more than what is held, and the costs of all there is are not less
\* than nothing.
LEMMA EndsAre ==
  ASSUME NEW q, ValidRequest(q), q.rate * (Long(q.old) + Short(q.old)) < q.nav * Scale
  PROVE  /\ q.nav > 0 /\ Excess(q, <<0, 1>>) < 0
         /\ \A p : IsRational(p) /\ Leq(<<q.nav, 1>>, p) /\ Leq(p, <<q.nav, 1>>) => Excess(q, p) >= 0
<1>1. PICK r, v, c, k, S, o : /\ r = q.rate /\ v = q.nav /\ c = Scale /\ k = Unit /\ S = Securities
                              /\ o = q.old
  OBVIOUS
<1>2. /\ r \in Nat /\ v \in Int /\ c \in Nat /\ c > 0 /\ k \in Nat /\ k > 0 /\ IsFiniteSet(S)
      /\ o \in [S -> Int]
  BY <1>1, AccountAssumption, FundingAssumption DEF ValidRequest
<1>3. PICK m, held : m = [s \in S |-> Magnitude(o[s])] /\ held = Long(o) + Short(o)
  OBVIOUS
<1>4. held \in Nat /\ held = SumFunctionOnSet(m, S) /\ \A s \in S : m[s] \in Int
  <2>1. \A s \in S : m[s] = Magnitude(o[s])
    BY <1>3
  <2>2. /\ Long(o) \in Nat /\ Short(o) \in Nat
        /\ Long(o) + Short(o) = SumFunctionOnSet(m, S)
    BY <1>2, <2>1, Sleeves
  <2>3. \A s \in S : o[s] \in Int
    BY <1>2
  <2>4. \A s \in S : m[s] \in Int
    BY <2>1, <2>3 DEF Magnitude
  <2>5. QED
    BY <1>3, <2>2, <2>4
<1>5. PICK paid, all : paid = r * held /\ all = v * c
  OBVIOUS
<1>6. paid \in Nat /\ all \in Int /\ paid < all
  BY <1>1, <1>2, <1>3, <1>4, <1>5
<1>7. v > 0
  <2>1. CASE v <= 0
    <3>1. v * c <= 0
      BY <1>2, <2>1
    <3>2. QED
      BY <1>5, <1>6, <3>1
  <2>2. QED
    BY <1>2, <2>1
<1>8. Excess(q, <<0, 1>>) < 0
  <2>1. PICK p, cost : /\ p = <<0, 1>>
                       /\ cost = [s \in S |-> Magnitude(p[1] * q.weight[s] - o[s] * k * p[2])]
    OBVIOUS
  <2>2. \A s \in S : m[s] \in Int /\ cost[s] = k * m[s]
    <3>1. SUFFICES ASSUME NEW s \in S PROVE cost[s] = k * m[s]
      BY <1>4
    <3>2. PICK x \in Int, w \in Int : x = o[s] /\ w = q.weight[s]
      BY <1>1, <1>2 DEF ValidRequest
    <3>3. p[1] = 0 /\ p[2] = 1 /\ 0 * w - x * k * 1 = -(k * x)
      BY <1>2, <2>1
    <3>4. cost[s] = Magnitude(-(k * x)) /\ m[s] = Magnitude(x)
      BY <1>3, <2>1, <3>2, <3>3
    <3>5. CASE x >= 0
      <4>1. k * x >= 0 /\ k * x \in Int
        BY <1>2, <3>5
      <4>2. QED
        BY <3>4, <3>5, <4>1 DEF Magnitude
    <3>6. CASE x < 0
      <4>1. PICK z : z = -x
        OBVIOUS
      <4>2. z \in Nat /\ k * z = -(k * x) /\ k * z >= 0 /\ k * z \in Int
        BY <1>2, <3>6, <4>1
      <4>3. QED
        BY <3>4, <3>6, <4>1, <4>2 DEF Magnitude
    <3>7. QED
      BY <3>5, <3>6
  <2>3. SumFunctionOnSet(cost, S) = k * held
    <3>1. k \in Int
      BY <1>2
    <3>2. SumFunctionOnSet(cost, S) = k * SumFunctionOnSet(m, S)
      BY <1>2, <2>2, <3>1, SumTimes
    <3>3. QED
      BY <1>4, <3>2
  <2>4. CostOf(q, p) = k * held
    <3>1. DOMAIN cost = S
      BY <2>1
    <3>2. CostOf(q, p) = SumFunction(cost)
      BY <1>1, <2>1 DEF CostOf
    <3>3. QED
      BY <2>3, <3>1, <3>2, SumIs
  <2>5. p[1] = 0 /\ p[2] = 1
    BY <2>1
  <2>6. Excess(q, p) = c * k * 0 + r * (k * held) - c * k * v * 1
    BY <1>1, <2>4, <2>5 DEF Excess
  <2>7. c * k * 0 + r * (k * held) - c * k * v * 1 = k * (paid - all)
    BY <1>2, <1>4, <1>5
  <2>8. k * (all - paid) > 0
    <3>1. PICK z : z = all - paid
      OBVIOUS
    <3>2. z \in Nat /\ z > 0
      BY <1>6, <3>1
    <3>3. QED
      BY <1>2, <3>1, <3>2
  <2>9. k * (paid - all) = -(k * (all - paid)) /\ k * (all - paid) \in Int
    BY <1>2, <1>6
  <2>10. QED
    BY <2>1, <2>6, <2>7, <2>8, <2>9
<1>9. ASSUME NEW p, IsRational(p), Leq(<<q.nav, 1>>, p), Leq(p, <<q.nav, 1>>)
      PROVE  Excess(q, p) >= 0
  <2>1. PICK x, y, n, top : x = p[1] /\ y = p[2] /\ n = CostOf(q, p) /\ top = <<v, 1>>
    OBVIOUS
  <2>2. x \in Int /\ y \in Int /\ n \in Nat
    BY <1>9, <2>1, CostIsNatural DEF IsRational
  <2>3. top[1] = v /\ top[2] = 1 /\ Leq(top, p) /\ Leq(p, top)
    BY <1>1, <1>9, <2>1
  <2>4. v * y <= x * 1 /\ x * 1 <= v * y
    BY <2>1, <2>3 DEF Leq
  <2>5. x = v * y
    <3>1. PICK z : z = v * y
      OBVIOUS
    <3>2. z \in Int /\ z <= x /\ x <= z
      BY <1>2, <2>2, <2>4, <3>1
    <3>3. QED
      BY <2>2, <3>1, <3>2
  <2>6. Excess(q, p) = c * k * x + r * n - c * k * v * y
    BY <1>1, <2>1 DEF Excess
  <2>7. c * k * x = c * k * v * y
    BY <1>2, <2>2, <2>5
  <2>8. r * n \in Nat /\ c * k * x \in Int
    BY <1>2, <2>2
  <2>9. QED
    BY <2>6, <2>7, <2>8
<1>10. QED
  BY <1>1, <1>7, <1>8, <1>9

\* In one interval the equation changes its sign.
LEMMA CrossingExists ==
  ASSUME NEW q, ValidRequest(q), q.rate * (Long(q.old) + Short(q.old)) < q.nav * Scale
  PROVE  \E i \in Intervals(q) : Excess(q, i[1]) < 0 /\ Excess(q, i[2]) >= 0
<1>1. PICK P, zero, top : P = Breakpoints(q) /\ zero = <<0, 1>> /\ top = <<q.nav, 1>>
  OBVIOUS
<1>2. /\ q.nav > 0 /\ Excess(q, zero) < 0
      /\ \A p : IsRational(p) /\ Leq(top, p) /\ Leq(p, top) => Excess(q, p) >= 0
  BY <1>1, EndsAre
<1>3. /\ IsFiniteSet(P) /\ zero \in P /\ top \in P
      /\ \A p \in P : IsRational(p) /\ Leq(zero, p) /\ Leq(p, top) /\ Excess(q, p) \in Int
  BY <1>1, <1>2, BreakpointsAre, CostIsNatural
<1>4. PICK low, up : low = {p \in P : Excess(q, p) < 0} /\ up = TRUE
  OBVIOUS
<1>5. PICK m \in low : \A p \in low : Leq(p, m)
  <2>1. IsFiniteSet(low) /\ low # {} /\ (\A p \in low : IsRational(p)) /\ up \in BOOLEAN
    BY <1>2, <1>3, <1>4, FS_Subset
  <2>2. \E m \in low : \A p \in low : Ordered(up, p, m)
    BY <2>1, ExtremeExists
  <2>3. QED
    BY <1>4, <2>2 DEF Ordered
<1>6. m \in P /\ Excess(q, m) < 0 /\ IsRational(m) /\ Excess(q, m) \in Int
  BY <1>3, <1>4, <1>5
<1>7. ~Leq(top, m)
  <2>1. SUFFICES ASSUME Leq(top, m) PROVE FALSE
    OBVIOUS
  <2>2. Excess(q, m) >= 0
    BY <1>2, <1>3, <1>6, <2>1
  <2>3. QED
    BY <1>6, <2>2
<1>8. PICK high, down : high = {p \in P : ~Leq(p, m)} /\ down = FALSE
  OBVIOUS
<1>9. PICK u \in high : \A p \in high : Leq(u, p)
  <2>1. IsFiniteSet(high) /\ high # {} /\ (\A p \in high : IsRational(p)) /\ down \in BOOLEAN
    BY <1>3, <1>7, <1>8, FS_Subset
  <2>2. \E x \in high : \A p \in high : Ordered(down, p, x)
    BY <2>1, ExtremeExists
  <2>3. QED
    BY <1>8, <2>2 DEF Ordered
<1>10. u \in P /\ ~Leq(u, m) /\ Excess(q, u) \in Int
  BY <1>3, <1>8, <1>9
<1>11. Excess(q, u) >= 0
  <2>1. ~ (Excess(q, u) < 0)
    BY <1>4, <1>5, <1>10
  <2>2. QED
    BY <1>10, <2>1
<1>12. PICK i : i = <<m, u>>
  OBVIOUS
<1>13. i \in Intervals(q)
  <2>1. i \in P \X P /\ i[1] = m /\ i[2] = u
    BY <1>6, <1>10, <1>12
  <2>2. Less(m, u)
    BY <1>10 DEF Less
  <2>3. ~\E p \in P : Less(m, p) /\ Less(p, u)
    BY <1>8, <1>9 DEF Less
  <2>4. QED
    BY <1>1, <2>1, <2>2, <2>3 DEF Intervals
<1>14. i[1] = m /\ i[2] = u
  BY <1>12
<1>15. QED
  BY <1>6, <1>11, <1>13, <1>14

\* What holds at the ends of an interval of a security's direction holds between them.
LEMMA BetweenSides ==
  ASSUME NEW w \in Int, NEW k \in Int, NEW a \in Int, NEW b \in Int, NEW c \in Int, NEW d \in Int,
         NEW n \in Int, NEW e \in Int, b > 0, d > 0, e > 0, a * e <= n * b, n * d <= c * e,
         a * w - k * b >= 0, c * w - k * d >= 0
  PROVE  n * w - k * e >= 0
<1>1. PICK x, y, z, f, g : /\ x = a * w - k * b /\ y = c * w - k * d /\ z = n * w - k * e
                           /\ f = n * b - a * e /\ g = c * e - n * d
  OBVIOUS
<1>2. x \in Nat /\ y \in Nat /\ z \in Int
  <2>1. x \in Int /\ y \in Int /\ z \in Int
    BY <1>1
  <2>2. QED
    BY <1>1, <2>1
<1>3. f \in Nat /\ g \in Nat
  <2>1. PICK nb, ae, ce, nd : nb = n * b /\ ae = a * e /\ ce = c * e /\ nd = n * d
    OBVIOUS
  <2>2. nb \in Int /\ ae \in Int /\ ce \in Int /\ nd \in Int /\ ae <= nb /\ nd <= ce
    BY <2>1
  <2>3. f = nb - ae /\ g = ce - nd
    BY <1>1, <2>1
  <2>4. QED
    BY <2>2, <2>3
<1>4. CASE w >= 0
  <2>1. b * z = w * f + e * x
    BY <1>1
  <2>2. w * f \in Nat /\ e * x \in Nat
    BY <1>2, <1>3, <1>4
  <2>3. b * z >= 0
    BY <2>1, <2>2
  <2>4. QED
    BY <1>1, <1>2, <2>3, FactorOut
<1>5. CASE w < 0
  <2>1. PICK v : v = -w
    OBVIOUS
  <2>2. v \in Nat
    BY <1>5, <2>1
  <2>3. d * z = v * g + e * y
    BY <1>1, <2>1
  <2>4. v * g \in Nat /\ e * y \in Nat
    BY <1>2, <1>3, <2>2
  <2>5. d * z >= 0
    BY <2>3, <2>4
  <2>6. QED
    BY <1>1, <1>2, <2>5, FactorOut
<1>6. QED
  BY <1>4, <1>5

\* The equation at the ends of an interval, and at its candidate.
LEMMA AtRational ==
  ASSUME NEW q, ValidRequest(q), SlopeBound(q), NEW i, NEW p, IsRational(p),
         \A s \in Securities : SideOf(q, i)[s] * Shift(q.weight[s], q.old[s] * Unit, p) >= 0,
         NEW c, c = Candidate(q, i)
  PROVE  /\ c[1] \in Int /\ c[2] \in Int /\ c[2] > 0
         /\ Excess(q, p) = p[1] * c[2] - c[1] * p[2]
<1>1. PICK sign, a, b : /\ sign = SideOf(q, i)
                        /\ a = SumFunctionOnSet(Signed(sign, q.weight), Securities)
                        /\ b = SumFunctionOnSet(Signed(sign, q.old), Securities)
  OBVIOUS
<1>2. /\ sign \in [Securities -> {1, -1}] /\ a \in Int /\ b \in Int
      /\ Scale * Unit + q.rate * a > 0
      /\ c = <<Unit * (q.nav * Scale + q.rate * b), Scale * Unit + q.rate * a>>
  BY <1>1, CandidateIs
<1>3. c[1] = Unit * (q.nav * Scale + q.rate * b) /\ c[2] = Scale * Unit + q.rate * a
  BY <1>2
<1>4. CostOf(q, p) = p[1] * a - (Unit * p[2]) * b
  BY <1>1, <1>2, CostIsSigned
<1>5. Excess(q, p) = p[1] * c[2] - c[1] * p[2]
  BY <1>2, <1>3, <1>4, ExcessIs
<1>6. c[1] \in Int /\ c[2] \in Int
  <2>1. q.nav \in Int /\ q.rate \in Int /\ Scale \in Int /\ Unit \in Int
    BY FundingAssumption DEF ValidRequest
  <2>2. QED
    BY <1>2, <1>3, <2>1
<1>7. QED
  BY <1>2, <1>3, <1>5, <1>6

\* Some interval contains the solution of its own equation.
LEMMA RootExists ==
  ASSUME NEW q, ValidRequest(q), SlopeBound(q), q.rate * (Long(q.old) + Short(q.old)) < q.nav * Scale
  PROVE  Roots(q) # {}
<1>1. PICK i \in Intervals(q) : Excess(q, i[1]) < 0 /\ Excess(q, i[2]) >= 0
  BY CrossingExists
<1>2. q.nav > 0
  BY EndsAre
<1>3. PICK m, u, c : m = i[1] /\ u = i[2] /\ c = Candidate(q, i)
  OBVIOUS
<1>4. /\ IsRational(m) /\ IsRational(u)
      /\ \A s \in Securities : SideOf(q, i)[s] * Shift(q.weight[s], q.old[s] * Unit, m) >= 0
      /\ \A s \in Securities : SideOf(q, i)[s] * Shift(q.weight[s], q.old[s] * Unit, u) >= 0
  BY <1>2, <1>3, IntervalIs
<1>5. /\ c[1] \in Int /\ c[2] \in Int /\ Excess(q, m) = m[1] * c[2] - c[1] * m[2]
  BY <1>3, <1>4, AtRational
<1>6. Excess(q, u) = u[1] * c[2] - c[1] * u[2]
  BY <1>3, <1>4, AtRational
<1>7. Leq(m, c) /\ Leq(c, u)
  <2>1. PICK mc, cm, uc, cu : mc = m[1] * c[2] /\ cm = c[1] * m[2] /\ uc = u[1] * c[2] /\ cu = c[1] * u[2]
    OBVIOUS
  <2>2. mc \in Int /\ cm \in Int /\ uc \in Int /\ cu \in Int
    BY <1>4, <1>5, <2>1 DEF IsRational
  <2>3. mc - cm < 0 /\ uc - cu >= 0
    BY <1>1, <1>3, <1>5, <1>6, <2>1
  <2>4. mc <= cm /\ cu <= uc
    BY <2>2, <2>3
  <2>5. QED
    BY <2>1, <2>4 DEF Leq
<1>8. PICK root : root = <<i, c>>
  OBVIOUS
<1>9. root[1] = i /\ root[2] = c
  BY <1>8
<1>10. root \in Roots(q)
  BY <1>3, <1>7, <1>8, <1>9 DEF Roots
<1>11. QED
  BY <1>10

\* A solution that its interval contains solves the equation.
LEMMA RootSolves ==
  ASSUME NEW q, ValidRequest(q), SlopeBound(q), q.rate * (Long(q.old) + Short(q.old)) < q.nav * Scale,
         NEW root \in Roots(q)
  PROVE  SolvesEquation(q, root[2])
<1>1. PICK i \in Intervals(q) : root = <<i, Candidate(q, i)>>
  BY DEF Roots
<1>2. PICK m, u, c : m = i[1] /\ u = i[2] /\ c = Candidate(q, i)
  OBVIOUS
<1>3. root[1] = i /\ root[2] = c
  BY <1>1, <1>2
<1>4. Leq(m, c) /\ Leq(c, u)
  BY <1>2, <1>3 DEF Roots
<1>5. q.nav > 0
  BY EndsAre
<1>6. /\ IsRational(m) /\ IsRational(u)
      /\ \A s \in Securities :
           /\ SideOf(q, i)[s] * Shift(q.weight[s], q.old[s] * Unit, m) >= 0
           /\ SideOf(q, i)[s] * Shift(q.weight[s], q.old[s] * Unit, u) >= 0
  BY <1>2, <1>5, IntervalIs
<1>7. PICK sign, sa, sb : /\ sign = SideOf(q, i)
                          /\ sa = SumFunctionOnSet(Signed(sign, q.weight), Securities)
                          /\ sb = SumFunctionOnSet(Signed(sign, q.old), Securities)
  OBVIOUS
<1>8. /\ sign \in [Securities -> {1, -1}] /\ sa \in Int /\ sb \in Int
      /\ Scale * Unit + q.rate * sa > 0
      /\ c = <<Unit * (q.nav * Scale + q.rate * sb), Scale * Unit + q.rate * sa>>
  BY <1>2, <1>7, CandidateIs
<1>9. PICK a \in Int, b \in Int, e \in Int, d \in Int : a = m[1] /\ b = m[2] /\ e = u[1] /\ d = u[2]
  BY <1>6 DEF IsRational
<1>10. PICK n, g : n = c[1] /\ g = c[2]
  OBVIOUS
<1>11. /\ n = Unit * (q.nav * Scale + q.rate * sb) /\ g = Scale * Unit + q.rate * sa /\ g > 0
       /\ n \in Int /\ g \in Int
  <2>1. n = Unit * (q.nav * Scale + q.rate * sb) /\ g = Scale * Unit + q.rate * sa
    BY <1>8, <1>10
  <2>2. q.nav \in Int /\ q.rate \in Int /\ Scale \in Int /\ Unit \in Int
    BY FundingAssumption DEF ValidRequest
  <2>3. QED
    BY <1>8, <2>1, <2>2
<1>12. b > 0 /\ d > 0 /\ a * g <= n * b /\ n * d <= e * g /\ IsRational(c)
  BY <1>4, <1>6, <1>9, <1>10, <1>11 DEF IsRational, Leq
<1>13. \A s \in Securities : sign[s] * Shift(q.weight[s], q.old[s] * Unit, c) >= 0
  <2>1. SUFFICES ASSUME NEW s \in Securities
                 PROVE  sign[s] * Shift(q.weight[s], q.old[s] * Unit, c) >= 0
    OBVIOUS
  <2>2. PICK t, w, k : t = sign[s] /\ w = q.weight[s] /\ k = q.old[s] * Unit
    OBVIOUS
  <2>3. t \in {1, -1} /\ w \in Int /\ k \in Int
    BY <1>8, <2>2, FundingAssumption DEF ValidRequest
  <2>4. t * (a * w - k * b) >= 0 /\ t * (e * w - k * d) >= 0
    BY <1>6, <1>7, <1>9, <2>2 DEF Shift
  <2>5. PICK tw, tk : tw = t * w /\ tk = t * k
    OBVIOUS
  <2>6. /\ tw \in Int /\ tk \in Int
        /\ t * (a * w - k * b) = a * tw - tk * b /\ t * (e * w - k * d) = e * tw - tk * d
        /\ t * (n * w - k * g) = n * tw - tk * g
    <3>1. CASE t = 1
      BY <1>11, <2>3, <2>5, <3>1
    <3>2. CASE t = -1
      BY <1>11, <2>3, <2>5, <3>2
    <3>3. QED
      BY <2>3, <3>1, <3>2
  <2>7. a * tw - tk * b >= 0 /\ e * tw - tk * d >= 0
    BY <2>4, <2>6
  <2>8. n * tw - tk * g >= 0
    <3>1. /\ tw \in Int /\ tk \in Int /\ a \in Int /\ b \in Int /\ e \in Int /\ d \in Int
          /\ n \in Int /\ g \in Int
      BY <1>9, <1>11, <2>6
    <3>2. b > 0 /\ d > 0 /\ g > 0 /\ a * g <= n * b /\ n * d <= e * g
      BY <1>11, <1>12
    <3>3. a * tw - tk * b >= 0 /\ e * tw - tk * d >= 0
      BY <2>7
    <3>4. QED
      BY <3>1, <3>2, <3>3, BetweenSides
  <2>9. Shift(w, k, c) = n * w - k * g
    BY <1>10 DEF Shift
  <2>10. QED
    BY <2>2, <2>6, <2>8, <2>9
<1>14. Excess(q, c) = n * g - n * g
  <2>1. \A s \in Securities : SideOf(q, i)[s] * Shift(q.weight[s], q.old[s] * Unit, c) >= 0
    BY <1>7, <1>13
  <2>2. Excess(q, c) = c[1] * c[2] - c[1] * c[2]
    BY <1>2, <1>12, <2>1, AtRational
  <2>3. QED
    BY <1>10, <2>2
<1>15. n > 0
  <2>1. PICK held, r, v, all : held = Long(q.old) + Short(q.old) /\ r = q.rate /\ v = q.nav * Scale /\ all = r * held
    OBVIOUS
  <2>2. sb <= held /\ -held <= sb
    BY <1>7, <1>8, <2>1, SignedBound DEF ValidRequest
  <2>3. held \in Nat
    <3>1. PICK o, f : o = q.old /\ f = [s \in Securities |-> Magnitude(o[s])]
      OBVIOUS
    <3>2. \A s \in Securities : f[s] = Magnitude(o[s])
      BY <3>1
    <3>3. o \in [Securities -> Int] /\ IsFiniteSet(Securities)
      BY <3>1, AccountAssumption DEF ValidRequest
    <3>4. Long(o) \in Nat /\ Short(o) \in Nat
      BY <3>2, <3>3, Sleeves
    <3>5. QED
      BY <2>1, <3>1, <3>4
  <2>4. r \in Nat /\ v \in Int /\ Unit \in Nat /\ Unit > 0 /\ all < v
    BY <2>1, FundingAssumption DEF ValidRequest
  <2>5. sb + held \in Nat
    BY <1>8, <2>2, <2>3
  <2>6. r * (sb + held) >= 0 /\ r * (sb + held) = r * sb + all
    BY <1>8, <2>1, <2>3, <2>4, <2>5
  <2>7. PICK rb : rb = r * sb
    OBVIOUS
  <2>8. rb \in Int /\ all \in Int /\ rb + all >= 0
    BY <1>8, <2>1, <2>3, <2>4, <2>6, <2>7
  <2>9. v + rb > 0 /\ v + rb \in Int
    BY <2>4, <2>8
  <2>10. n = Unit * (v + rb)
    BY <1>11, <2>1, <2>7
  <2>11. QED
    BY <2>4, <2>9, <2>10
<1>16. SolvesEquation(q, c)
  <2>1. PICK cost : cost = CostOf(q, c)
    OBVIOUS
  <2>2. cost \in Nat /\ Excess(q, c) = Scale * Unit * n + q.rate * cost - Scale * Unit * q.nav * g
    BY <1>10, <1>12, <2>1, CostIsNatural DEF Excess
  <2>3. n * g - n * g = 0
    BY <1>11
  <2>4. PICK x, y, z : x = Scale * Unit * n /\ y = q.rate * cost /\ z = Scale * Unit * q.nav * g
    OBVIOUS
  <2>5. x \in Int /\ y \in Int /\ z \in Int
    <3>1. q.nav \in Int /\ q.rate \in Int /\ Scale \in Int /\ Unit \in Int
      BY FundingAssumption DEF ValidRequest
    <3>2. QED
      BY <1>11, <2>2, <2>4, <3>1
  <2>6. x + y - z = 0
    BY <1>14, <2>2, <2>3, <2>4
  <2>7. x + y = z
    BY <2>5, <2>6
  <2>8. QED
    BY <1>10, <1>15, <2>1, <2>4, <2>7 DEF SolvesEquation, CostOf
<1>17. QED
  BY <1>3, <1>16

\* A request that is not refused before has a solution, and the one that is taken solves it.
LEMMA SolutionNeverInvalid ==
  ASSUME NEW q, ValidRequest(q)
  PROVE  FundingFailure(q) # "FUNDING_SOLUTION_INVALID"
<1>1. PICK slope, worth, bound, held :
        /\ slope = q.rate * (Long(q.weight) + Short(q.weight)) /\ bound = Scale * Unit
        /\ worth = q.nav * Scale /\ held = q.rate * (Long(q.old) + Short(q.old))
  OBVIOUS
<1>2. slope \in Int /\ bound \in Int /\ worth \in Int /\ held \in Int
  <2>1. PICK w, o, f, g : /\ w = q.weight /\ o = q.old
                          /\ f = [s \in Securities |-> Magnitude(w[s])]
                          /\ g = [s \in Securities |-> Magnitude(o[s])]
    OBVIOUS
  <2>2. (\A s \in Securities : f[s] = Magnitude(w[s])) /\ (\A s \in Securities : g[s] = Magnitude(o[s]))
    BY <2>1
  <2>3. o \in [Securities -> Int] /\ w \in [Securities -> Int] /\ IsFiniteSet(Securities)
    BY <2>1, AccountAssumption DEF ValidRequest
  <2>4. Long(o) \in Nat /\ Short(o) \in Nat
    BY <2>2, <2>3, Sleeves
  <2>5. Long(w) \in Nat /\ Short(w) \in Nat
    BY <2>2, <2>3, Sleeves
  <2>6. q.rate \in Nat /\ q.nav \in Int /\ Scale \in Int /\ Unit \in Int
    BY FundingAssumption DEF ValidRequest
  <2>7. QED
    BY <1>1, <2>1, <2>4, <2>5, <2>6
<1>3. CASE slope >= bound
  BY <1>1, <1>3 DEF FundingFailure
<1>4. CASE held >= worth
  BY <1>1, <1>4 DEF FundingFailure
<1>5. CASE slope < bound /\ held < worth
  <2>1. SlopeBound(q) /\ q.rate * (Long(q.old) + Short(q.old)) < q.nav * Scale
    BY <1>1, <1>5 DEF SlopeBound
  <2>2. Roots(q) # {}
    BY <2>1, RootExists
  <2>3. PICK root \in Roots(q) : root = CHOOSE x \in Roots(q) : TRUE
    BY <2>2
  <2>4. SolvesEquation(q, root[2]) /\ PostFeeNav(q) = root[2]
    BY <2>1, <2>3, RootSolves DEF PostFeeNav
  <2>5. ~ (Roots(q) = {} \/ ~SolvesEquation(q, PostFeeNav(q)))
    BY <2>2, <2>4
  <2>6. QED
    BY <2>5 DEF FundingFailure
<1>6. QED
  BY <1>2, <1>3, <1>4, <1>5

-----------------------------------------------------------------------------
(* The theorems *)

\* Every step of a run keeps the invariant.
LEMMA StepKeeps ==
  IInv /\ [Next]_vars => IInv'
<1> SUFFICES ASSUME IInv, [Next]_vars PROVE IInv'
  OBVIOUS
<1>1. CASE Schedule
  BY <1>1, ScheduleKeeps
<1>2. CASE Observe
  BY <1>2, ObserveKeeps
<1>3. CASE Form
  BY <1>3, FormKeeps
<1>4. CASE Trade
  BY <1>4, TradeKeeps
<1>5. CASE Measure
  BY <1>5, MeasureKeeps
<1>6. CASE UNCHANGED vars
  BY <1>6, StutterKeeps
<1>7. QED
  BY <1>1, <1>2, <1>3, <1>4, <1>5, <1>6 DEF Next

\* In every state of a run the books of the simulator are those of the corporate actions and the
\* fills up to the instant, and the account the ledger replays for it is theirs (monthly.py:552-689).
THEOREM BooksAreMirrored ==
  Spec => []IInv
<1>1. Init => IInv
  BY InitialInvariant
<1>2. IInv /\ [Next]_vars => IInv'
  BY StepKeeps
<1>3. QED
  BY <1>1, <1>2, PTL DEF Spec

\* Nothing that happens later changes the account of an earlier instant: its last observation is
\* what the final fills replay to, for every market, allocation and price (accounting.py:108-111).
THEOREM HistoryStaysStable ==
  Spec => []HistoryIsStable
<1>1. IInv => HistoryIsStable
  BY DEF IInv
<1>2. QED
  BY <1>1, BooksAreMirrored, PTL

\* What follows a batch that is kept is funded, however it is rounded and whatever claims are
\* outstanding (monthly.py:850-867).
THEOREM BatchesStayFunded ==
  Spec => []CommittedBatchesAreFunded
<1>1. IInv => CommittedBatchesAreFunded
  BY DEF IInv
<1>2. QED
  BY <1>1, BooksAreMirrored, PTL

\* A state of the invariant that ends a run is one its validators accept.
LEMMA RecordableEnd ==
  IInv => ResultIsRecordable
<1> SUFFICES ASSUME IInv, stage \in {"completed", "failed"}
             PROVE  TerminalAccepted /\ \A i \in DOMAIN batches : TradeLineageAccepted(batches[i])
  BY DEF ResultIsRecordable
<1>1. TypeOK /\ Chronology /\ RowsInOrder /\ ClosesInOrder /\ BatchesInOrder
  BY DEF IInv
<1>2. (stage = "completed") = (failure = "none")
  BY <1>1 DEF Chronology
<1>3. /\ fills = FlattenSeq([i \in DOMAIN batches |-> batches[i].fills])
      /\ \A i \in DOMAIN batches : TradeLineageAccepted(batches[i])
  BY <1>1 DEF BatchesInOrder
<1>4. ASSUME stage = "completed"
      PROVE  /\ Closings(observations) = <<[at |-> 0, nav |-> InitialCash]>> \o closes
             /\ [i \in DOMAIN closes |-> closes[i].at] = [i \in 1 .. Sessions |-> 2 * i]
             /\ observations[Len(observations)].phase = "after_liquidation_close"
             /\ observations[Len(observations)].account.positions = Flat
             /\ \A i \in DOMAIN observations : observations[i].status = "funded"
  <2>1. Running /\ ~ (stage = "observe" /\ clock = 0)
    BY <1>4 DEF Running
  <2>2. /\ Closings(observations) = <<[at |-> 0, nav |-> InitialCash]>> \o closes
        /\ Len(closes) = Sessions /\ \A i \in DOMAIN closes : closes[i].at = 2 * i
        /\ observations[Len(observations)].phase = "after_liquidation_close"
        /\ observations[Len(observations)].account.positions = Flat
    BY <1>1, <1>4, <2>1 DEF ClosesInOrder
  <2>3. DOMAIN closes = 1 .. Sessions
    <3>1. IsSequence(closes)
      BY <1>1 DEF TypeOK
    <3>2. DOMAIN closes = 1 .. Len(closes)
      BY <3>1, AppendedIs
    <3>3. QED
      BY <2>2, <3>2
  <2>4. [i \in DOMAIN closes |-> closes[i].at] = [i \in 1 .. Sessions |-> 2 * i]
    BY <2>2, <2>3
  <2>5. \A i \in DOMAIN observations : observations[i].status = "funded"
    BY <1>1, <2>1 DEF RowsInOrder
  <2>6. QED
    BY <2>2, <2>4, <2>5
<1>5. TerminalAccepted
  BY <1>2, <1>3, <1>4 DEF TerminalAccepted
<1>6. QED
  BY <1>3, <1>5

\* Every run that ends is one MonthlyRun accepts, so that it leaves a record (monthly.py:255-391).
THEOREM EveryEndIsRecordable ==
  Spec => []ResultIsRecordable
<1>1. IInv => ResultIsRecordable
  BY RecordableEnd
<1>2. QED
  BY <1>1, BooksAreMirrored, PTL

-----------------------------------------------------------------------------
(* No self-check ever trips *)

\* A plan fails for its request, never because its equation has no solution.
LEMMA PlanFails ==
  ASSUME NEW q, NEW price, ValidRequest(q),
         NEW plan, plan \in {WholePlan(q, price), ExactPlan(q, price)}
  PROVE  plan.failure \notin Disagreements
<1>1. FundingFailure(q) \notin Disagreements
  <2>1. FundingFailure(q) # "FUNDING_SOLUTION_INVALID"
    BY SolutionNeverInvalid
  <2>2. FundingFailure(q) \in {"FUNDING_SLOPE_UNSUPPORTED", "FUNDING_LIQUIDATION_INFEASIBLE",
                               "FUNDING_SOLUTION_INVALID", "none"}
    BY DEF FundingFailure
  <2>3. QED
    BY <2>1, <2>2 DEF Disagreements
<1>2. \A code : Failed(code).failure = code
  BY DEF Failed
<1>3. CASE plan = WholePlan(q, price)
  <2>1. plan.failure \in {"none", "WHOLE_SHARE_SIZING_INVALID", FundingFailure(q)}
    BY <1>2, <1>3 DEF WholePlan
  <2>2. QED
    BY <1>1, <2>1 DEF Disagreements
<1>4. CASE plan = ExactPlan(q, price)
  <2>1. plan.failure \in {"none", "FUNDING_QUANTITY_PRECISION", FundingFailure(q)}
    BY <1>2, <1>4 DEF ExactPlan
  <2>2. QED
    BY <1>1, <2>1 DEF Disagreements
<1>5. QED
  BY <1>3, <1>4

\* A batch is refused for what the market or the account lacks.
LEMMA RefusalIs ==
  ASSUME IInv, stage = "trade"
  PROVE  Refusal(Plan) \notin Disagreements
<1>1. PICK plan, status, code :
        /\ plan = Plan
        /\ status = Preflight(CashAfter(StagedFills(plan)),
                      [s \in Securities |-> IF s \in Required THEN plan.quantity[s] * quotes[s] ELSE 0])
        /\ code = Refusal(plan)
  OBVIOUS
<1>2. status \in {"funded", "FUNDING_INSOLVENT", "FUNDING_COLLATERAL_DEFICIT"}
  BY <1>1 DEF Preflight, CollateralStatus
<1>3. PICK unquoted : unquoted = \E s \in Required : quotes[s] = Missing
  OBVIOUS
<1>4. \/ code \in {"ACCOUNTING_TRADE_AFTER_EXIT", "MONTHLY_QUOTE_MISSING_OR_UNAVAILABLE",
                   "MONTHLY_BORROW_UNAVAILABLE_OR_AMBIGUOUS", "none", status}
      \/ code = plan.failure /\ ~unquoted
  <2>1. PICK out, uncovered : /\ out = \E s \in books.exited : Weights[s] # 0
                              /\ uncovered = \E s \in Shorts(plan) : Cardinality(Loans(s, plan.quantity[s])) # 1
    OBVIOUS
  <2>2. code = IF out THEN "ACCOUNTING_TRADE_AFTER_EXIT"
               ELSE IF unquoted THEN "MONTHLY_QUOTE_MISSING_OR_UNAVAILABLE"
               ELSE IF plan.failure # "none" THEN plan.failure
               ELSE IF uncovered THEN "MONTHLY_BORROW_UNAVAILABLE_OR_AMBIGUOUS"
               ELSE IF status # "funded" THEN status
               ELSE "none"
    BY <1>1, <1>3, <2>1 DEF Refusal
  <2>3. CASE out
    <3>1. code = "ACCOUNTING_TRADE_AFTER_EXIT"
      BY <2>2, <2>3
    <3>2. QED
      BY <3>1
  <2>4. CASE ~out /\ unquoted
    <3>1. code = "MONTHLY_QUOTE_MISSING_OR_UNAVAILABLE"
      BY <2>2, <2>4
    <3>2. QED
      BY <3>1
  <2>5. CASE ~out /\ ~unquoted /\ plan.failure # "none"
    BY <2>2, <2>5
  <2>6. CASE ~out /\ ~unquoted /\ plan.failure = "none" /\ uncovered
    BY <2>2, <2>6
  <2>7. CASE ~out /\ ~unquoted /\ plan.failure = "none" /\ ~uncovered
    BY <2>2, <2>7
  <2>8. QED
    BY <2>3, <2>4, <2>5, <2>6, <2>7
<1>5. ~unquoted => plan.failure \notin Disagreements
  <2>1. SUFFICES ASSUME ~unquoted PROVE plan.failure \notin Disagreements
    OBVIOUS
  <2>2. \A s \in Required : quotes[s] # Missing
    BY <1>3, <2>1
  <2>3. TypeOK /\ Chronology /\ BooksMirrored /\ ValuedForTrade
    BY DEF IInv
  <2>4. PICK q : q = Request
    OBVIOUS
  <2>5. ValidRequest(q)
    BY <2>2, <2>3, <2>4, RequestIs DEF Priced
  <2>6. plan \in {WholePlan(q, quotes), ExactPlan(q, quotes)}
    BY <1>1, <2>4 DEF Plan
  <2>7. QED
    BY <2>5, <2>6, PlanFails
<1>6. code \notin Disagreements
  BY <1>2, <1>4, <1>5 DEF Disagreements
<1>7. QED
  BY <1>1, <1>6

\* No step fails for a disagreement.
LEMMA AgreementKeeps ==
  ASSUME IInv, failure \notin Disagreements, [Next]_vars
  PROVE  failure' \notin Disagreements
<1>1. CASE Schedule
  BY <1>1 DEF Schedule, Fail, Disagreements
<1>2. CASE Observe
  <2>1. PICK b, row : b = Advanced(books, clock) /\ row = RowOf(b, clock, PhaseName(clock))
    OBVIOUS
  <2>2. failure' \notin Disagreements \/ failure' = failure
    BY <1>2, <2>1, ObserveIs
  <2>3. QED
    BY <2>2
<1>3. CASE Form
  BY <1>3 DEF Form, Fail, Disagreements
<1>4. CASE Trade
  <2>1. stage = "trade"
    BY <1>4 DEF Trade
  <2>2. CASE Refusal(Plan) # "none"
    BY <1>4, <2>1, <2>2, RefusedIs, RefusalIs
  <2>3. CASE Refusal(Plan) = "none"
    <3>1. PICK plan, b, fs, row, batch :
            /\ plan = Plan /\ b = BooksAfter(plan) /\ fs = fills \o StagedFills(plan)
            /\ row = RowOf(b, clock, AfterName) /\ batch = BatchOf(plan)
      OBVIOUS
    <3>2. Refusal(plan) = "none"
      BY <2>3, <3>1
    <3>3. failure' \notin Disagreements \/ failure' = failure
      BY <1>4, <3>1, <3>2, CommittedIs
    <3>4. QED
      BY <3>3
  <2>4. QED
    BY <2>2, <2>3
<1>5. CASE Measure
  BY <1>5 DEF Measure, Fail, Disagreements
<1>6. CASE UNCHANGED vars
  BY <1>6 DEF vars
<1>7. QED
  BY <1>1, <1>2, <1>3, <1>4, <1>5, <1>6 DEF Next

\* The two bookkeepings never disagree, a batch is worth what its sizing solved for, and the
\* post-fee equation of every request that is admitted has a solution that the code verifies:
\* no self-check trips (monthly.py:678-689 and 895-896, funding.py:252-253).
THEOREM BooksAlwaysAgree ==
  Spec => []BooksAgree
<1>1. Init => failure \notin Disagreements
  BY DEF Init, Disagreements
<1>2. IInv /\ failure \notin Disagreements /\ [Next]_vars => (failure \notin Disagreements)'
  BY AgreementKeeps
<1>3. failure \notin Disagreements <=> BooksAgree
  BY DEF BooksAgree, Disagreements
<1>4. Init => BooksAgree
  BY <1>1, <1>3
<1>5. IInv /\ BooksAgree /\ [Next]_vars => BooksAgree'
  BY <1>2, <1>3 DEF BooksAgree, Disagreements
<1>6. QED
  BY <1>4, <1>5, BooksAreMirrored, PTL DEF Spec
=============================================================================
