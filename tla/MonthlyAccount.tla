--------------------------- MODULE MonthlyAccount ---------------------------
(***************************************************************************)
(* The monthly raw-price simulator (backtests/monthly.py) and the ledger   *)
(* it is checked against (backtests/accounting.py).  The simulator keeps   *)
(* books of its own, changed by every corporate action and every batch of  *)
(* fills; at each observation of the calendar they are compared with an    *)
(* account replayed from the initial cash.  Both read the same quotes,     *)
(* actions and short loans, all of them inputs.                            *)
(*                                                                         *)
(* The clock counts the instants of the sample: 0 is the close of the      *)
(* first session, 2k - 1 and 2k are the open and the close of session k.   *)
(* A quantity is a number of the smallest unit the ledger can hold.        *)
(***************************************************************************)
EXTENDS PostFeeFunding, SequencesExt

CONSTANTS
  Sessions,     \* sessions after the first
  Formations,   \* closes at which an allocation is formed; 0 is one of them
  Specs,        \* the inputs of a run: strategy policies, actions and loans
  Prices,
  Missing,      \* no quote, no payout, no payment, no loan, no ledger
  Allocations,  \* what a formation may select: weights of the securities
  InitialCash

\* A corporate action pays, if it does, what it is worth a share, and not before its effect.
\* A split multiplies the shares by a whole ratio: of the fractions new/old of the code, the ones
\* that can leave parts of a share, and the refusal of those parts, are not modelled.
ActionValid(a) ==
  /\ {a.id, a.effective, a.ratio} \subseteq Int
  /\ a.security \in Securities
  /\ a.kind \in {"split", "cash_dividend", "terminal_exit"}
  /\ (a.pay = Missing) = (a.cash = Missing)
  /\ a.kind = "split" => a.cash = Missing
  /\ a.pay # Missing => {a.pay, a.cash} \subseteq Int /\ a.effective <= a.pay

\* The actions of a market are told apart by their identities.
SpecValid(sp) ==
  /\ sp.quantity \in {"whole", "exact"}
  /\ sp.rate \in Nat
  /\ IsFiniteSet(sp.actions)
  /\ \A a \in sp.actions : ActionValid(a) /\ \A b \in sp.actions : a.id = b.id => a = b

ASSUME AccountAssumption ==
  /\ IsFiniteSet(Securities)
  /\ Sessions \in Nat \ {0}
  /\ 0 \in Formations /\ Formations \subseteq {2 * k : k \in 0 .. Sessions}
  /\ Prices \subseteq Nat /\ \A p \in Prices : p % Scale = 0 /\ p > 0
  /\ \A sp \in Specs : SpecValid(sp)
  /\ Allocations \subseteq [Securities -> Int]
  /\ \A w \in Allocations : Long(w) <= Unit /\ Short(w) <= Unit
  /\ InitialCash \in Nat \ {0}

VARIABLES
  spec,         \* [quantity, rate, policy, actions, grants], fixed
  clock,        \* the instant under observation
  stage,        \* "schedule", "observe", "trade", "form", "measure", "completed" or "failed"
  quotes,       \* the prices of the instant
  books,        \* the balances the simulator keeps
  ledger,       \* the last account the ledger returned, and from which fills
  fills,        \* in order, with the price they were made at
  batches,      \* the committed batches
  trades,       \* the allocation to be traded at an instant
  observations, \* the retained observations
  closes,       \* the values at the closes
  failure

vars == <<spec, clock, stage, quotes, books, ledger, fills, batches, trades, observations,
          closes, failure>>

Terminal == 2 * Sessions
Flat == [s \in Securities |-> 0]

Init ==
  /\ spec \in Specs
  /\ clock = 0
  /\ stage = "schedule"
  /\ quotes = [s \in Securities |-> Missing]
  /\ books = [cash |-> InitialCash, fees |-> 0, holdings |-> Flat,
              loans |-> [s \in Securities |-> Missing], claims |-> {}, applied |-> {},
              exited |-> {}, failure |-> "none"]
  /\ ledger = Missing
  /\ fills = <<>>
  /\ batches = <<>>
  /\ trades = [t \in 0 .. Terminal |-> Missing]
  /\ observations = <<>>
  /\ closes = <<>>
  /\ failure = "none"

-----------------------------------------------------------------------------
(* The events of an account: effects of actions, payments and fills, in    *)
(* this order at one instant                                               *)

Event(time, phase, id, body) == [time |-> time, phase |-> phase, id |-> id, body |-> body]

ActionEvents(actions) ==
  {Event(a.effective, 0, a.id, a) : a \in actions} \cup
  {Event(a.pay, 1, a.id, a) : a \in {b \in actions : b.pay # Missing}}

FillEvents(fs) == {Event(fs[i].time, 2, i, fs[i]) : i \in DOMAIN fs}

Before(e, f) ==
  \/ e.time < f.time
  \/ e.time = f.time /\ e.phase < f.phase
  \/ e.time = f.time /\ e.phase = f.phase /\ e.id < f.id

\* Apply(event, account) over the events in their order.
InOrder(Apply(_, _), account, events) ==
  MapThenFoldSet(Apply, account, LAMBDA e : e,
                 LAMBDA S : CHOOSE e \in S : \A f \in S \ {e} : Before(f, e), events)

Claim(action, shares) ==
  [id |-> action.id, amount |-> shares * action.cash, pay |-> action.pay]

FailedAs(account, code) == [account EXCEPT !.failure = code]

-----------------------------------------------------------------------------
(* accounting.py: the replay of the ledger *)

LedgerFill(rate, fill, a) ==
  LET notional == fill.quantity * fill.price
      fee == (Magnitude(notional) * rate) \div Scale
  IN IF fill.security \in a.exited THEN FailedAs(a, "ACCOUNTING_TRADE_AFTER_EXIT")
     ELSE [a EXCEPT !.positions[fill.security] = @ + fill.quantity,
                    !.cash = @ - notional - fee,
                    !.fees = @ + fee]

LedgerPayment(id, a) ==
  LET claim == CHOOSE c \in a.claims : c.id = id
  IN [a EXCEPT !.claims = @ \ {claim}, !.cash = @ + claim.amount]

LedgerEffect(action, a) ==
  LET s == action.security
      entitled == IF action.cash = Missing THEN a.claims
                  ELSE a.claims \cup {Claim(action, a.positions[s])}
  IN IF s \in a.exited THEN FailedAs(a, "ACCOUNTING_ACTION_AFTER_EXIT")
     ELSE CASE action.kind = "split" -> [a EXCEPT !.positions[s] = @ * action.ratio]
            [] action.kind = "cash_dividend" -> [a EXCEPT !.claims = entitled]
            [] action.kind = "terminal_exit" ->
                 IF action.cash = Missing /\ a.positions[s] # 0
                 THEN FailedAs(a, "ACCOUNTING_UNKNOWN_EXIT")
                 ELSE [a EXCEPT !.claims = entitled, !.exited = @ \cup {s}, !.positions[s] = 0]

LedgerEvent(rate, e, a) ==
  IF a.failure # "none" THEN a
  ELSE CASE e.phase = 0 -> LedgerEffect(e.body, a)
         [] e.phase = 1 -> LedgerPayment(e.id, a)
         [] e.phase = 2 -> LedgerFill(rate, e.body, a)

\* The slip of a replay that does not stop at the instant asked for.
AllEvents(fs, at) == ActionEvents(spec.actions) \cup FillEvents(fs)

EventsUntil(fs, at) ==
  {e \in ActionEvents(spec.actions) \cup FillEvents(fs) : e.time <= at}

Opening ==
  [cash |-> InitialCash, fees |-> 0, positions |-> Flat, claims |-> {}, exited |-> {},
   failure |-> "none"]

Replay(rate, events) == InOrder(LAMBDA e, a : LedgerEvent(rate, e, a), Opening, events)

\* ledger_at(): from the initial cash, every phase up to the instant once.
LedgerAt(fs, at) == Replay(spec.rate, EventsUntil(fs, at))

-----------------------------------------------------------------------------
(* monthly.py: the books of the simulator *)

\* The slip of not remembering which phases were applied at this instant already.
DueAgain(b, at) == {e \in ActionEvents(spec.actions) : e.time <= at /\
                      (<<e.id, e.phase>> \notin b.applied \/ e.time = at)}

Due(b, at) == {e \in ActionEvents(spec.actions) : e.time <= at /\ <<e.id, e.phase>> \notin b.applied}

AdvanceEvent(e, b) ==
  LET action == e.body
      s == action.security
      quantity == b.holdings[s]
      done == [b EXCEPT !.applied = @ \cup {<<e.id, e.phase>>}]
      claim == CHOOSE c \in b.claims : c.id = e.id
      entitled == IF action.cash = Missing THEN b.claims
                  ELSE b.claims \cup {Claim(action, quantity)}
  IN IF b.failure # "none" THEN b
     ELSE IF e.phase = 1 THEN [done EXCEPT !.claims = @ \ {claim}, !.cash = @ + claim.amount]
     ELSE IF s \in b.exited THEN FailedAs(b, "ACCOUNTING_ACTION_AFTER_EXIT")
     ELSE CASE action.kind = "split" -> [done EXCEPT !.holdings[s] = quantity * action.ratio]
            [] action.kind = "cash_dividend" -> [done EXCEPT !.claims = entitled]
            [] action.kind = "terminal_exit" ->
                 IF action.cash = Missing /\ quantity # 0
                 THEN FailedAs(b, "ACCOUNTING_UNKNOWN_EXIT")
                 ELSE [done EXCEPT !.claims = entitled, !.exited = @ \cup {s},
                                   !.holdings[s] = 0, !.loans[s] = Missing]

\* _advance_actions()
Carried(b, events) == InOrder(AdvanceEvent, b, events)
Advanced(b, at) == Carried(b, Due(b, at))

\* _ledger(): without actions an account of the same fills is only given the new instant.
LedgerFor(fs, at) ==
  IF spec.actions # {} \/ ledger = Missing \/ fs # ledger.fills THEN LedgerAt(fs, at)
  ELSE ledger.account

Held(b) == {s \in Securities : b.holdings[s] # 0}

Notional(b) ==
  [s \in Securities |-> IF s \in Held(b) /\ quotes'[s] # Missing THEN b.holdings[s] * quotes'[s]
                        ELSE 0]

Agree(b, account) ==
  /\ account.cash = b.cash
  /\ account.fees = b.fees
  /\ account.claims = b.claims
  /\ account.positions = b.holdings

Covered(b, s, at) ==
  LET grant == b.loans[s] IN
  /\ grant # Missing
  /\ grant.from <= at /\ at <= grant.through
  /\ grant.max >= -b.holdings[s]

\* _observe(): the actions are applied and the books compared; an observation is retained also
\* when its collateral or its loans then fail the run.
Observation(b0, fs, at, phase) ==
  LET b == Advanced(b0, at)
      account == LedgerFor(fs, at)
      status == CollateralStatus(b.cash, Notional(b), b.claims)
      error ==
        IF b.failure # "none" THEN b.failure
        ELSE IF \E s \in Held(b) : quotes'[s] = Missing
        THEN "MONTHLY_QUOTE_MISSING_OR_UNAVAILABLE"
        ELSE IF account.failure # "none" THEN account.failure
        ELSE IF ~Agree(b, account) THEN "MONTHLY_LEDGER_DISAGREEMENT"
        ELSE "none"
      uncovered == \E s \in Held(b) : b.holdings[s] < 0 /\ ~Covered(b, s, at)
  IN [books |-> b, account |-> account, retained |-> error = "none",
      failure |-> IF error # "none" THEN error
                  ELSE IF status # "funded" THEN status
                  ELSE IF uncovered THEN "MONTHLY_BORROW_EXPIRED_OR_INSUFFICIENT"
                  ELSE "none",
      row |-> [at |-> at, phase |-> phase, account |-> account, status |-> status,
               nav |-> NetAssetValue(b.cash, Notional(b), b.claims)]]

\* What an observation leaves behind, whatever comes of it.
Retain(o, fs) ==
  /\ books' = o.books
  /\ ledger' = [account |-> o.account, fills |-> fs]
  /\ observations' = IF o.retained THEN Append(observations, o.row) ELSE observations

Fail(code) == stage' = "failed" /\ failure' = code

-----------------------------------------------------------------------------
(* The chronology of _loop() *)

\* _schedule() refuses what it can tell from the actions alone; the baseline follows.
Schedule ==
  LET refusal ==
        IF spec.actions # {} /\ spec.policy = "reject_any_events"
        THEN "MONTHLY_ACTIONS_UNSUPPORTED"
        ELSE IF \E a, b \in spec.actions : /\ a # b
                                           /\ a.security = b.security
                                           /\ a.effective = b.effective
        THEN "ACCOUNTING_AMBIGUOUS_EVENT_ORDER"
        ELSE IF \E a \in spec.actions : a.effective < 0 THEN "ACCOUNTING_EVENT_BEFORE_START"
        ELSE "none"
  IN /\ stage = "schedule"
     /\ IF refusal = "none" THEN stage' = "observe" /\ UNCHANGED failure ELSE Fail(refusal)
     /\ UNCHANGED <<spec, clock, quotes, books, ledger, fills, batches, trades, observations,
                    closes>>

PhaseName(at) ==
  IF at = 0 THEN "baseline_close"
  ELSE IF at % 2 = 1 THEN IF trades[at] # Missing THEN "before_entry" ELSE "open"
  ELSE IF at = Terminal THEN "before_liquidation" ELSE "close"

ClosesAfter(at, nav) ==
  IF at % 2 = 0 /\ at > 0 THEN Append(closes, [at |-> at, nav |-> nav]) ELSE closes

\* The quotes of the next instant come in and the account is observed.
Observe ==
  /\ stage = "observe"
  /\ quotes' \in IF clock = 0 THEN {quotes} ELSE [Securities -> Prices \cup {Missing}]
  /\ LET o == Observation(books, fills, clock, PhaseName(clock)) IN
       /\ Retain(o, fills)
       /\ IF o.failure # "none" THEN Fail(o.failure) /\ UNCHANGED <<clock, closes>>
          ELSE /\ UNCHANGED failure
               /\ IF trades[clock] # Missing \/ clock = Terminal
                  THEN stage' = "trade" /\ UNCHANGED <<clock, closes>>
                  ELSE /\ closes' = ClosesAfter(clock, o.row.nav)
                       /\ IF clock \in Formations
                          THEN stage' = "form" /\ UNCHANGED clock
                          ELSE stage' = "observe" /\ clock' = clock + 1
  /\ UNCHANGED <<spec, fills, batches, trades>>

\* _formation(): the allocation is fixed at a close and traded at the next open, unless the
\* signals select what the market does not hold.
Form ==
  /\ stage = "form"
  /\ \/ /\ \E allocation \in Allocations : trades' = [trades EXCEPT ![clock + 1] = allocation]
        /\ stage' = "observe"
        /\ clock' = clock + 1
        /\ UNCHANGED failure
     \/ Fail("MONTHLY_SECURITY_UNSUPPORTED") /\ UNCHANGED <<clock, trades>>
  /\ UNCHANGED <<spec, quotes, books, ledger, fills, batches, observations, closes>>

-----------------------------------------------------------------------------
(* _batch(): a rebalance at an open, or the liquidation at the last close *)

Weights == IF clock = Terminal THEN Flat ELSE trades[clock]

Required == {s \in Securities : Weights[s] # 0} \cup Held(books)

Request ==
  [nav |-> observations[Len(observations)].nav,
   old |-> [s \in Securities |-> IF s \in Held(books) THEN books.holdings[s] * quotes[s] ELSE 0],
   weight |-> Weights,
   rate |-> spec.rate,
   liquidation |-> clock = Terminal]

Plan == IF spec.quantity = "whole" THEN WholePlan(Request, quotes) ELSE ExactPlan(Request, quotes)

\* The grants that cover the whole of a target short; exactly one is wanted.
Loans(s, quantity) ==
  {g \in spec.grants : /\ g.security = s
                       /\ g.from <= clock /\ clock <= g.through
                       /\ g.max >= -quantity}

TradedBy(plan, s) == plan.quantity[s] - books.holdings[s]

StagedFills(plan) ==
  LET staged == {s \in Securities : TradedBy(plan, s) # 0}
      Fill(s) == [security |-> s, quantity |-> TradedBy(plan, s), price |-> quotes[s],
                  time |-> clock]
      order == CHOOSE f \in [1 .. Cardinality(staged) -> staged] : Range(f) = staged
  IN [i \in DOMAIN order |-> Fill(order[i])]

\* The slip of admitting a batch without looking at the claims it leaves unpaid.
PreflightSkipped(cash, notional) == "funded"

\* Unsettled receivables cannot fund fills: the collateral after the batch is checked before
\* anything of it is kept, unless the market has no actions at all.
Preflight(cash, notional) ==
  IF spec.actions = {} THEN "funded" ELSE CollateralStatus(cash, notional, books.claims)

\* The slip of keeping the fills before the collateral of what follows is known.
FillsAfterAll(refusal, plan) ==
  IF refusal \in {"none", "FUNDING_INSOLVENT", "FUNDING_COLLATERAL_DEFICIT"}
  THEN fills \o StagedFills(plan) ELSE fills

FillsAfter(refusal, plan) == IF refusal = "none" THEN fills \o StagedFills(plan) ELSE fills

Traded(staged) == [i \in DOMAIN staged |-> staged[i].quantity * staged[i].price]

Fee(staged) == ((Long(Traded(staged)) + Short(Traded(staged))) * spec.rate) \div Scale

CashAfter(staged) == books.cash - Long(Traded(staged)) + Short(Traded(staged)) - Fee(staged)

Shorts(plan) == {s \in Required : plan.quantity[s] < 0}

\* Why a batch is refused, checked in this order.
Refusal(plan) ==
  LET notional == [s \in Securities |->
                     IF s \in Required THEN plan.quantity[s] * quotes[s] ELSE 0]
      funding == Preflight(CashAfter(StagedFills(plan)), notional)
  IN IF \E s \in books.exited : Weights[s] # 0 THEN "ACCOUNTING_TRADE_AFTER_EXIT"
     ELSE IF \E s \in Required : quotes[s] = Missing THEN "MONTHLY_QUOTE_MISSING_OR_UNAVAILABLE"
     ELSE IF plan.failure # "none" THEN plan.failure
     ELSE IF \E s \in Shorts(plan) : Cardinality(Loans(s, plan.quantity[s])) # 1
     THEN "MONTHLY_BORROW_UNAVAILABLE_OR_AMBIGUOUS"
     ELSE IF funding # "funded" THEN funding
     ELSE "none"

\* The balances a batch leads to.
BooksAfter(plan) ==
  LET staged == StagedFills(plan) IN
  [books EXCEPT
     !.cash = CashAfter(staged), !.fees = @ + Fee(staged), !.holdings = plan.quantity,
     !.loans = [s \in Securities |->
                  IF s \in Shorts(plan) THEN CHOOSE g \in Loans(s, plan.quantity[s]) : TRUE
                  ELSE Missing]]

AfterName == IF clock = Terminal THEN "after_liquidation_close" ELSE "after_entry"

\* A batch is kept whole or not at all, and observed once more at the same quotes.
Trade ==
  LET plan == Plan
      refusal == Refusal(plan)
  IN
  /\ stage = "trade"
  /\ UNCHANGED <<spec, quotes, trades>>
  /\ fills' = FillsAfter(refusal, plan)
  /\ IF refusal # "none"
     THEN Fail(refusal) /\ UNCHANGED <<clock, books, ledger, batches, observations, closes>>
     ELSE LET o == Observation(BooksAfter(plan), fills', clock, AfterName) IN
          /\ Retain(o, fills')
          /\ batches' = Append(batches, [at |-> clock, fills |-> StagedFills(plan),
                                         request |-> Request, quantity |-> plan.quantity,
                                         prices |-> quotes])
          /\ IF o.failure # "none" THEN Fail(o.failure) /\ UNCHANGED <<clock, closes>>
             ELSE IF o.row.nav * plan.nav[2] # plan.nav[1]
             THEN Fail("MONTHLY_FUNDED_BATCH_DISAGREEMENT") /\ UNCHANGED <<clock, closes>>
             ELSE /\ UNCHANGED failure
                  /\ closes' = ClosesAfter(clock, o.row.nav)
                  /\ IF clock = Terminal THEN stage' = "measure" /\ UNCHANGED clock
                     ELSE stage' = "observe" /\ clock' = clock + 1

\* _metrics(): the comparison series may lack one of the intervals between the closes.
Measure ==
  /\ stage = "measure"
  /\ \/ stage' = "completed" /\ UNCHANGED failure
     \/ Fail("MONTHLY_COMPARISON_INTERVAL_UNAVAILABLE")
  /\ UNCHANGED <<spec, clock, quotes, books, ledger, fills, batches, trades, observations,
                 closes>>

-----------------------------------------------------------------------------
(* The validators of the saved run *)

ClosingPhases == {"baseline_close", "close", "after_liquidation_close"}

\* The values of the observations that close a session.
Closings(rows) ==
  LET kept[n \in 0 .. Len(rows)] ==
        IF n = 0 THEN <<>>
        ELSE IF rows[n].phase \in ClosingPhases
        THEN Append(kept[n - 1], [at |-> rows[n].at, nav |-> rows[n].nav])
        ELSE kept[n - 1]
  IN kept[Len(rows)]

\* terminal_coherence(): only complete paths of funded observations claim completion, and the
\* fills are those of the batches in their order.
TerminalAccepted ==
  /\ (stage = "completed") = (failure = "none")
  /\ fills = FlattenSeq([i \in DOMAIN batches |-> batches[i].fills])
  /\ stage = "completed" =>
       LET last == observations[Len(observations)]
       IN /\ Closings(observations) = <<[at |-> 0, nav |-> InitialCash]>> \o closes
          /\ [i \in DOMAIN closes |-> closes[i].at] = [i \in 1 .. Sessions |-> 2 * i]
          /\ last.phase = "after_liquidation_close"
          /\ last.account.positions = Flat
          /\ \A i \in DOMAIN observations : observations[i].status = "funded"

\* source_and_trade_lineage(): the weights of a batch are those of its formation, and its fills
\* are, security by security, the trades its sizing solved for.
TradeLineageAccepted(batch) ==
  LET emitted == {batch.fills[j] : j \in DOMAIN batch.fills}
      Solved(s) == batch.quantity[s] * batch.prices[s] - batch.request.old[s]
  IN /\ \A f \in emitted : f.time = batch.at /\ f.price = batch.prices[f.security]
     /\ Cardinality(emitted) = Len(batch.fills)
     /\ {f.security : f \in emitted}
          = {s \in Securities : batch.prices[s] # Missing /\ Solved(s) # 0}
     /\ \A f \in emitted : f.quantity * f.price = Solved(f.security)
     /\ batch.at # Terminal => batch.request.weight = trades[batch.at]

-----------------------------------------------------------------------------
Next == Schedule \/ Observe \/ Form \/ Trade \/ Measure

Spec == Init /\ [][Next]_vars

-----------------------------------------------------------------------------

\* The two bookkeepings, written apart, never disagree, whatever actions fall on whatever side
\* of which trade, and a batch is worth what its sizing solved for: no self-check of the
\* simulator ever trips (monthly.py:678-689 and 895-896, funding.py:252-253).
BooksAgree ==
  failure \notin {"MONTHLY_LEDGER_DISAGREEMENT", "MONTHLY_FUNDED_BATCH_DISAGREEMENT",
                  "FUNDING_SOLUTION_INVALID"}

\* The past of an account does not depend on what is traded later: the last observation of an
\* instant is still the account that the final fills replay to (accounting.py:108-111).
HistoryIsStable ==
  \A i \in DOMAIN observations :
    LET row == observations[i] IN
    (\A j \in DOMAIN observations : j > i => observations[j].at # row.at) =>
      LedgerAt(fills, row.at) = row.account

\* A batch that is kept never leaves the account short of cash, with claims outstanding on
\* either side and after rounding to whole shares: what follows a batch at its own quotes is
\* funded, and no larger than the sleeve of the value it was sized for (monthly.py:850-867).
CommittedBatchesAreFunded ==
  \A i \in DOMAIN observations :
    observations[i].phase \in {"after_entry", "after_liquidation_close"} =>
      observations[i].status = "funded"

\* Every run that ends, completed or failed, is one MonthlyRun accepts, so that it leaves a
\* record: fills are those of its batches and of their plans, a completed run has every close
\* and ends flat (monthly.py:255-391).
ResultIsRecordable ==
  stage \in {"completed", "failed"} =>
    TerminalAccepted /\ \A i \in DOMAIN batches : TradeLineageAccepted(batches[i])
=============================================================================
