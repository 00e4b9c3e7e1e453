---------------------------- MODULE DecisionCycle -----------------------------
(***************************************************************************)
(* One decision cycle per closed bar: integrity, entry context, decision   *)
(* analytics, monitoring admission, risk sizing, the thirteen ordered      *)
(* gates and the market entry, as the dispatch task runs them.             *)
(*                                                                         *)
(* Bars are stamped with the time they are observed and wait in the        *)
(* dispatch queue; a cycle is evaluated at that stamp, however late it     *)
(* runs.  What matters of the stamps is kept in two flags of a waiting     *)
(* bar: the trading control changed after the bar was observed             *)
(* (overtaken), a primary reference price arrived after it (newref).       *)
(* The serialization lock is held from Begin to the end of the cycle, so   *)
(* commands and marks are handled only while pc = "idle".                  *)
(*                                                                         *)
(* Units: prices are dollars, money and stop prices thousandths of a       *)
(* dollar, expected moves and probabilities percent, expected values basis *)
(* points.  The taker fee is a tenth of a percent, the quantity step one.  *)
(***************************************************************************)
EXTENDS Integers, Sequences, FiniteSets, FiniteSetsExt

CONSTANTS
    Symbols,
    Benchmark,      \* benchmark_symbol of the run policy
    Prices,         \* mark prices
    Signals,        \* what the features and the agents of a bar yield
    Conditions,     \* benchmark, volatility and correlation at a decision
    Slippages,      \* adverse distance of the fill from the decision price
    Capital,        \* initial capital, in dollars
    MinimumNotional,\* exchange filter, in dollars
    MaxBars,        \* bound: closed bars observed
    MaxMarks,       \* bound: mark prices observed
    MaxCommands     \* bound: commands that change the trading control

SignalRecords ==
    [direction : {"long", "short", "neutral"}, voting : BOOLEAN, blocked : BOOLEAN,
     p : 0..100, move : 0..20, carry : Int]
ConditionRecords ==
    [base : BOOLEAN, benchmark : Int, calm : BOOLEAN, correlation : {0, 3, 4, 5}]

ASSUME DecisionConstants ==
    /\ IsFiniteSet(Symbols) /\ Benchmark \in Symbols
    /\ Prices \subseteq Nat \ {0} /\ Slippages \subseteq Int
    /\ Signals \subseteq SignalRecords /\ Conditions \subseteq ConditionRecords
    /\ {Capital, MinimumNotional} \subseteq Nat \ {0}
    /\ {MaxBars, MaxMarks, MaxCommands} \subseteq Nat

VARIABLES
    pending,        \* closed bars waiting for dispatch
    pc,             \* the dispatch task: idle, waiting for a book, or down
    job,            \* the bar in progress, the control and the account it has read
    active,         \* trading control: the kill switch is active
    price,          \* latest mark price dispatched
    positions,      \* open positions with their protective stops
    closed,         \* symbols whose exit plan row is closed
    cash,           \* account cash balance
    peak,           \* account peak equity
    outcome,        \* the outcome persisted last, until the next cycle begins
    fault,          \* what took the worker down
    seen, marks, commands   \* bounds

account == <<positions, closed, cash, peak>>
counters == <<seen, marks, commands>>
vars == <<pending, pc, job, active, price, account, outcome, fault, counters>>

Faults == {"none", "no_loss_at_stop", "book_timeout", "control_from_future",
           "exit_plan_exists"}
Bars == [symbol : Symbols, overtaken : BOOLEAN, newref : BOOLEAN]
NoJob == [symbol |-> Benchmark, overtaken |-> FALSE, newref |-> FALSE, active |-> FALSE,
          equity |-> 0, notional |-> 0, loss |-> 0, quarters |-> 0, others |-> FALSE]
Flat == [side |-> "neutral", qty |-> 0, cost |-> 0, mark |-> 0, move |-> 0, stop |-> 0]
NoOutcome ==
    [disposition |-> "none", gates |-> <<>>, proposal |-> "none", incident |-> FALSE,
     counterfactual |-> FALSE, capability |-> FALSE, execution |-> FALSE,
     qty |-> 0, risk |-> 0]
Dispositions == {"none", "quarantined", "warmup", "neutral", "rejected", "executed", "halted"}

-----------------------------------------------------------------------------
(* The account                                                              *)

Sign(side) == IF side = "long" THEN 1 ELSE -1
Open == {s \in Symbols : positions[s].qty > 0}
Sum(f(_), ps) == MapThenSumSet(LAMBDA s : f(ps[s]), Symbols)
GrossNotional(ps) == Sum(LAMBDA p : 1000 * p.qty * p.mark, ps)
Equity(c, ps) == c + Sum(LAMBDA p : 1000 * Sign(p.side) * (p.qty * p.mark - p.cost), ps)
FreeMargin(c, ps) == Equity(c, ps) - GrossNotional(ps)
Abs(n) == IF n < 0 THEN -n ELSE n
LossAtStop(p) == Abs(1000 * p.cost - p.qty * p.stop)
TotalLoss(ps) == Sum(LossAtStop, ps)

\* The stop of an average entry cost / qty and an expected loss fraction.
StopLevel(side, cost, qty, move) == (10 * cost * (100 - Sign(side) * move)) \div qty

\* ExitPlan.create sets the stop; resize never moves it away from risk.
ProtectiveStop(p, side, level) ==
    IF p.qty = 0 THEN level
    ELSE IF side = "long" THEN Max({p.stop, level}) ELSE Min({p.stop, level})

\* The position and its plan after an entry fill; a resized plan keeps the expected
\* loss fraction of the first entry.
OpenFill(p, side, qty, fill, move) ==
    LET cost     == p.cost + qty * fill
        fraction == IF p.qty = 0 THEN move ELSE p.move
        level    == StopLevel(side, cost, p.qty + qty, fraction)
    IN  [side |-> side, qty |-> p.qty + qty, cost |-> cost, mark |-> fill,
         move |-> fraction, stop |-> ProtectiveStop(p, side, level)]

\* evaluate_mark: the mark is at or beyond the stop or the target.
Crosses(p, mark) ==
    LET target == 10 * p.cost * (100 + Sign(p.side) * p.move)
    IN  IF p.side = "long"
        THEN 1000 * mark <= p.stop \/ 1000 * mark * p.qty >= target
        ELSE 1000 * mark >= p.stop \/ 1000 * mark * p.qty <= target

-----------------------------------------------------------------------------
(* OfficialDecisionAnalytics and monitoring admission                       *)

\* Gross value, carry, round-trip fees and half an expected move of slippage.
NetEv(g) ==
    IF g.direction = "neutral" \/ g.move = 0 THEN 0
    ELSE (2 * g.p - 100) * g.move + g.carry - 20 - 50 * g.move

\* The benchmark symbol uses the spot price of its own frame; the others need
\* the one reference the observation buffer keeps, and not a later one.
BenchmarkAvailable(j, c) == c.base /\ (j.symbol = Benchmark \/ ~j.newref)

\* Kill switch, health, baseline, volatility, liquidity and benchmark.
Admitted(j, c) == ~j.active /\ c.calm /\ BenchmarkAvailable(j, c)

-----------------------------------------------------------------------------
(* OfficialRiskEngine                                                       *)

\* The engine sees the account as it was read before the wait for a book: its
\* equity, gross notional, loss at stop and drawdown step are in the job j.

Kelly(g) == 2 * g.p > 100
RiskPercent(g) == Min({g.p - 50, 25, 2})

\* Drawdown in percent steps: halted at 20, half size at 10, three quarters at 5.
DrawdownAtLeast(percent, equity) == 100 * (peak - equity) >= percent * peak

DrawdownQuarters(equity) ==
    IF DrawdownAtLeast(20, equity) THEN 0
    ELSE IF DrawdownAtLeast(10, equity) THEN 2
    ELSE IF DrawdownAtLeast(5, equity) THEN 3 ELSE 4

CorrelationFifths(j, c) == IF j.others THEN c.correlation ELSE 5

StopDistance(s, g) == 10 * price[s] * g.move

\* Mutant: the loss already at risk in open positions is not deducted.
RemainingLossAll(j) == 6 * j.equity

\* Portfolio loss limit less the existing loss at stop, in hundredths.
RemainingLoss(j) == Max({6 * j.equity - 100 * j.loss, 0})

\* quantity_caps in whole quantity steps; 1x leverage, so margin is notional.
Caps(j, g, c) ==
    LET rest     == Max({j.equity - j.notional, 0})
        distance == StopDistance(j.symbol, g)
        at       == price[j.symbol]
    IN  [trade_loss |-> (j.equity * RiskPercent(g) * j.quarters * CorrelationFifths(j, c))
                            \div (2000 * distance),
         portfolio_loss |-> RemainingLoss(j) \div (100 * distance),
         gross_notional |-> rest \div (1000 * at),
         margin_and_entry_fee |-> rest \div (1001 * at)]

\* Every risk check before sizing passed; a later one is not evaluated otherwise.
Sized(j, g, c) == g.move > 0 /\ Kelly(g) /\ j.quarters > 0 /\ CorrelationFifths(j, c) > 0

Quantity(j, g, c) == LET caps == Caps(j, g, c) IN Min({caps[k] : k \in DOMAIN caps})

\* Some capacity remains, though perhaps less than one quantity step.
Capacity(j) == RemainingLoss(j) > 0 /\ j.equity > j.notional

\* The caps are quotients rounded to 28 digits and compared again with their
\* limits; the recheck of the limiting one may fail by the last digit.
Recheck(j, g, c) ==
    IF ~Sized(j, g, c) THEN {"exact"}
    ELSE {"exact"} \cup
         {k \in {"trade_loss", "portfolio_loss", "margin_and_entry_fee"} :
             Caps(j, g, c)[k] = Quantity(j, g, c)}

\* ExchangeFilters.prepare, after rounding down to the quantity step.
Prepared(j, g, c) ==
    /\ Sized(j, g, c) /\ Capacity(j)
    /\ Quantity(j, g, c) >= 1
    /\ Quantity(j, g, c) * price[j.symbol] >= MinimumNotional

-----------------------------------------------------------------------------
(* The ordered gates of a directional or neutral proposal                   *)

BrokerCapacity(j, g, c) ==
    /\ Prepared(j, g, c)
    /\ positions[j.symbol].qty = 0 \/ positions[j.symbol].side = g.direction
    /\ 1001 * Quantity(j, g, c) * price[j.symbol] <= j.equity - j.notional

\* _gate_facts, in the order of GateType.
GateFacts(j, g, c, recheck) ==
    LET directional == g.direction # "neutral"
        sized == directional /\ Sized(j, g, c)
    IN  << TRUE,                                                \* DATA_QUALITY
           g.voting,                                            \* REGIME_COMPATIBILITY
           directional,                                         \* CONSENSUS
           ~g.blocked,                                          \* ADVERSARIAL
           NetEv(g) > 0,                                        \* EV
           BenchmarkAvailable(j, c) /\ NetEv(g) > c.benchmark,  \* ALPHA
           directional /\ Admitted(j, c),                       \* MONITORING
           directional /\ g.move > 0 /\ Kelly(g) /\ j.quarters > 0,  \* DRAWDOWN
           sized,                                               \* CORRELATION
           sized /\ Capacity(j)                                 \* PORTFOLIO_RISK
               /\ recheck \notin {"trade_loss", "portfolio_loss"},
           sized /\ j.equity >= j.notional                      \* LEVERAGE
               /\ recheck # "margin_and_entry_fee",
           sized /\ Prepared(j, g, c),                          \* EXCHANGE_FILTERS
           sized /\ BrokerCapacity(j, g, c) >>                  \* PAPER_BROKER_CAPACITY

\* Mutant: a gate after the first failing one keeps its own verdict.
GateRecordsRaw(facts) == facts

\* _gate_records: after the first failing gate no gate passes.
GateRecords(facts) == [n \in DOMAIN facts |-> \A m \in 1..n : facts[m]]

AllPassed(gates) == \A n \in DOMAIN gates : gates[n]

-----------------------------------------------------------------------------
Init ==
    /\ pending = <<>> /\ pc = "idle" /\ job = NoJob
    /\ active = FALSE
    /\ price \in [Symbols -> {Max(Prices)}]
    /\ positions = [s \in Symbols |-> Flat] /\ closed = {}
    /\ cash = 1000 * Capital /\ peak = 1000 * Capital
    /\ outcome = NoOutcome /\ fault = "none"
    /\ seen = 0 /\ marks = 0 /\ commands = 0

\* The feed puts a closed bar, stamped with its observation time, in the queue.
ObserveBar(s) ==
    /\ pc # "down" /\ seen < MaxBars
    /\ pending' = Append(pending, [symbol |-> s, overtaken |-> FALSE, newref |-> FALSE])
    /\ seen' = seen + 1
    /\ UNCHANGED <<pc, job, active, price, account, outcome, fault, marks, commands>>

\* The observation buffer replaces its primary reference of the benchmark symbol.
ReferenceArrives ==
    /\ pc # "down"
    /\ pending' = [n \in DOMAIN pending |-> [pending[n] EXCEPT !.newref = TRUE]]
    /\ job' = IF pc = "waiting" THEN [job EXCEPT !.newref = TRUE] ELSE job
    /\ UNCHANGED <<pc, active, price, account, outcome, fault, counters>>

\* Mutant: a command does not wait for the serialization lock.
ChangeControlUnlocked ==
    /\ pc # "down" /\ commands < MaxCommands
    /\ active' = ~active /\ commands' = commands + 1
    /\ pending' = [n \in DOMAIN pending |-> [pending[n] EXCEPT !.overtaken = TRUE]]
    /\ UNCHANGED <<pc, job, price, account, outcome, fault, seen, marks>>

\* An operator command changes the trading control, stamped with the current time.
ChangeControl ==
    /\ pc = "idle" /\ commands < MaxCommands
    /\ active' = ~active /\ commands' = commands + 1
    /\ pending' = [n \in DOMAIN pending |-> [pending[n] EXCEPT !.overtaken = TRUE]]
    /\ UNCHANGED <<pc, job, price, account, outcome, fault, seen, marks>>

\* The continuous observer marks the position; a mark at or beyond its stop or
\* target closes it at that mark.
ObserveMark(s, m) ==
    /\ pc = "idle" /\ marks < MaxMarks /\ m # price[s]
    /\ marks' = marks + 1
    /\ price' = [price EXCEPT ![s] = m]
    /\ LET p == positions[s]
           exits == p.qty > 0 /\ Crosses(p, m)
       IN  /\ positions' = [positions EXCEPT ![s] =
                    IF exits THEN Flat ELSE IF p.qty > 0 THEN [p EXCEPT !.mark = m] ELSE p]
           /\ closed' = IF exits THEN closed \cup {s} ELSE closed
           /\ cash' = IF exits
                      THEN cash + 1000 * Sign(p.side) * (p.qty * m - p.cost) - p.qty * m
                      ELSE cash
    /\ peak' = Max({peak, Equity(cash', positions')})
    /\ UNCHANGED <<pending, pc, job, active, outcome, fault, seen, commands>>

\* Mutant: the worker stops without recording why.
DownSilently(reason) ==
    /\ pc' = "down" /\ job' = NoJob /\ outcome' = NoOutcome
    /\ UNCHANGED <<account, fault>>

\* The dispatch task raises: the supervisor halts the worker and the experiment.
Down(reason) ==
    /\ pc' = "down" /\ job' = NoJob /\ fault' = reason
    /\ outcome' = NoOutcome
    /\ UNCHANGED account

\* The outcome, the cursor and the account are committed in one unit of work.
Persist(o) == pc' = "idle" /\ job' = NoJob /\ outcome' = o /\ fault' = fault

\* MarketIntegrityMachine: a frame that is not admitted either lacks only history
\* that a cold start explains, or failed a check.
QuarantineVerdicts == {"warmup", "quarantined"}

\* A quarantined frame is recorded without an entry context; only a frame that is
\* not an expected warm-up raises an incident.
Quarantine ==
    /\ pc = "idle" /\ pending # <<>>
    /\ pending' = Tail(pending)
    /\ \E verdict \in QuarantineVerdicts :
          Persist([NoOutcome EXCEPT !.disposition = verdict, !.gates = <<FALSE>>,
                                    !.incident = verdict # "warmup"])
    /\ UNCHANGED <<active, price, account, counters>>

\* An admitted frame: the account, the exit plans and the control are read, then
\* the cycle waits for a book observed after the execution latency.
Begin ==
    /\ pc = "idle" /\ pending # <<>>
    /\ pending' = Tail(pending)
    /\ IF \E s \in Open : LossAtStop(positions[s]) = 0
       THEN Down("no_loss_at_stop")
       ELSE LET bar    == Head(pending)
                equity == Equity(cash, positions)
            IN  /\ pc' = "waiting" /\ outcome' = NoOutcome
                /\ job' = [symbol |-> bar.symbol, overtaken |-> bar.overtaken,
                           newref |-> bar.newref, active |-> active, equity |-> equity,
                           notional |-> GrossNotional(positions),
                           loss |-> TotalLoss(positions),
                           quarters |-> DrawdownQuarters(equity),
                           others |-> Open \ {bar.symbol} # {}]
                /\ UNCHANGED <<account, fault>>
    /\ UNCHANGED <<active, price, counters>>

BookTimeout ==
    /\ pc = "waiting"
    /\ Down("book_timeout")
    /\ UNCHANGED <<pending, active, price, counters>>

\* The monitoring context refuses a control that changed after the evaluation time.
ControlFromFuture ==
    /\ pc = "waiting" /\ job.overtaken
    /\ Down("control_from_future")
    /\ UNCHANGED <<pending, active, price, counters>>

\* Features or a mandatory agent failed: a halted outcome with a critical incident.
AnalysisFails ==
    /\ pc = "waiting" /\ ~job.overtaken
    /\ Persist([NoOutcome EXCEPT !.disposition = "halted", !.gates = <<TRUE, FALSE>>,
                                 !.incident = TRUE])
    /\ UNCHANGED <<pending, active, price, account, counters>>

\* The cycle is decided without an approved proposal.
Decline(g, c, recheck) ==
    /\ pc = "waiting" /\ ~job.overtaken
    /\ LET gates == GateRecords(GateFacts(job, g, c, recheck))
       IN  /\ ~AllPassed(gates)
           /\ IF g.direction = "neutral"
              THEN Persist([NoOutcome EXCEPT !.disposition = "neutral", !.gates = gates])
              ELSE Persist([NoOutcome EXCEPT !.disposition = "rejected", !.gates = gates,
                                !.proposal = "rejected", !.counterfactual = TRUE])
    /\ UNCHANGED <<pending, active, price, account, counters>>

\* What an approved proposal persists, with or without its execution.
Approved(g, c, executed) ==
    LET qty == Quantity(job, g, c)
    IN  [NoOutcome EXCEPT
            !.disposition = IF executed THEN "executed" ELSE "halted",
            !.gates = GateRecords(GateFacts(job, g, c, "exact")),
            !.proposal = "approved", !.capability = TRUE,
            !.incident = ~executed, !.execution = executed,
            !.qty = qty, !.risk = qty * StopDistance(job.symbol, g)]

Approves(g, c) ==
    /\ pc = "waiting" /\ ~job.overtaken
    /\ AllPassed(GateRecords(GateFacts(job, g, c, "exact")))

\* The approved entry cannot be filled: the book is stale or not deep enough.
FillRejected(g, c) ==
    /\ Approves(g, c)
    /\ Persist(Approved(g, c, FALSE))
    /\ UNCHANGED <<pending, active, price, account, counters>>

\* AccountState.apply_fill refuses an entry that leaves no free margin.
Funded(s, side, qty, fill, move) ==
    FreeMargin(cash - qty * fill,
               [positions EXCEPT ![s] = OpenFill(@, side, qty, fill, move)]) >= 0

\* The approved entry meets an eligible book with enough depth.
Enter(g, c, slip) ==
    /\ Approves(g, c)
    /\ LET s    == job.symbol
           qty  == Quantity(job, g, c)
           fill == price[s] + Sign(g.direction) * slip
       IN  IF ~Funded(s, g.direction, qty, fill, g.move)
           THEN Persist(Approved(g, c, FALSE)) /\ UNCHANGED account
           ELSE IF s \in closed
           THEN Down("exit_plan_exists")
           ELSE /\ Persist(Approved(g, c, TRUE))
                /\ positions' = [positions EXCEPT ![s] =
                                    OpenFill(@, g.direction, qty, fill, g.move)]
                /\ cash' = cash - qty * fill
                /\ peak' = Max({peak, Equity(cash', positions')})
                /\ UNCHANGED closed
    /\ UNCHANGED <<pending, active, price, counters>>

Decide == pc = "waiting" /\ ~job.overtaken /\
    \E g \in Signals, c \in Conditions :
       \/ \E r \in Recheck(job, g, c) : Decline(g, c, r)
       \/ FillRejected(g, c)
       \/ \E slip \in Slippages : Enter(g, c, slip)

Next ==
    \/ \E s \in Symbols : ObserveBar(s)
    \/ ReferenceArrives
    \/ ChangeControl
    \/ \E s \in Symbols, m \in Prices : ObserveMark(s, m)
    \/ Quarantine
    \/ Begin
    \/ BookTimeout
    \/ ControlFromFuture
    \/ AnalysisFails
    \/ Decide

Spec == Init /\ [][Next]_vars

-----------------------------------------------------------------------------
(* Properties                                                               *)

TypeOK ==
    /\ pending \in Seq(Bars) /\ pc \in {"idle", "waiting", "down"}
    /\ job \in [symbol : Symbols, overtaken : BOOLEAN, newref : BOOLEAN, active : BOOLEAN,
                equity : Int, notional : Nat, loss : Nat, quarters : 0..4, others : BOOLEAN]
    /\ active \in BOOLEAN /\ price \in [Symbols -> Prices]
    /\ \A s \in Symbols :
          /\ positions[s].side \in {"long", "short", "neutral"}
          /\ {positions[s].qty, positions[s].cost, positions[s].mark,
              positions[s].move, positions[s].stop} \subseteq Nat
    /\ closed \subseteq Symbols /\ {cash, peak} \subseteq Int
    /\ outcome.disposition \in Dispositions /\ outcome.gates \in Seq(BOOLEAN)
    /\ fault \in Faults /\ (pc = "down" <=> fault # "none")

\* Every outcome the service builds meets the contract its own constructors
\* enforce (DecisionBundle.validate, OrchestrationOutcome.__post_init__), so no
\* cycle is lost to a contract error: no gate passes after a failure, a proposal
\* is approved exactly when every gate passed, a rejected one is followed as a
\* counterfactual, and an incident is raised for every halt.
OutcomeContract ==
    LET o == outcome
        failed == ~AllPassed(o.gates)
    IN  o.disposition # "none" =>
          /\ \A m, n \in DOMAIN o.gates : m < n /\ ~o.gates[m] => ~o.gates[n]
          /\ (o.proposal = "approved") <=> ~failed
          /\ o.counterfactual <=> (o.proposal = "rejected")
          /\ (o.disposition = "executed") <=> o.execution
          /\ o.execution => o.capability /\ ~o.incident
          /\ o.capability => o.proposal = "approved"
          /\ o.disposition \in {"halted", "quarantined"} <=> o.incident

Enters == \E s \in Symbols : positions'[s].qty > positions[s].qty
Capitalization == Equity(cash, positions)

\* At the decision price, an entry stays within the loss limits at the stop of the
\* trade (2%) and of the portfolio (6%) and within the gross notional limit (100%)
\* of the equity the account has, and none is made in a 20% drawdown, whatever
\* entries, marks and exits came before (OfficialRiskEngine.evaluate); at the fill
\* price, which may be worse, the account keeps free margin (apply_open_fill).
EntriesStayWithinCaps ==
    [][Enters =>
          /\ 100 * outcome'.risk <= 2 * Capitalization
          /\ 100 * (TotalLoss(positions) + outcome'.risk) <= 6 * Capitalization
          /\ GrossNotional(positions) + 1000 * outcome'.qty * price[job.symbol]
                <= Capitalization
          /\ ~DrawdownAtLeast(20, Capitalization)
          /\ FreeMargin(cash', positions') >= 0]_vars

\* An entry is committed only while the kill switch is inactive, although the
\* cycle read the trading control before it waited for a book, and only with the
\* execution of an approved proposal.
DecidesOnCurrentControl ==
    [][Enters => ~active' /\ outcome'.execution /\ AllPassed(outcome'.gates)]_vars

\* A command handled while a bar waits for dispatch does not take the worker down:
\* commands are executed at a safe point between two events.
CommandsAreSafe == fault # "control_from_future"

\* The loss at the recorded stops stays within the portfolio limit when an entry
\* adds to the portfolio.
RecordedLossIsCapped ==
    [][Enters => 100 * TotalLoss(positions') <= 6 * Capitalization]_vars
=============================================================================
