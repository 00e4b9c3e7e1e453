---------------------------- MODULE PaperExecution ----------------------------
(***************************************************************************)
(* The paper account of one worker: market entries, protective exits,      *)
(* funding and operator flattening, as the dispatch task and the command   *)
(* task execute them against the persisted account, positions and exit     *)
(* plans.                                                                  *)
(*                                                                         *)
(* Both tasks hold the supervisor's serialization lock for a whole event   *)
(* or command, so one of them at a time reads the rows, waits for an       *)
(* order book and commits (variable work).  Market events keep arriving    *)
(* in the dispatch queue during the wait, stamped with the time they are   *)
(* observed; that time is what the account is later compared with.         *)
(*                                                                         *)
(* Prices and quantities are small integers.  A fee is one unit per fill.  *)
(* Every exit closes the whole position, so the lots of a position are     *)
(* summarised by their total quantity and cost.                            *)
(***************************************************************************)
EXTENDS Integers, Sequences, FiniteSets, FiniteSetsExt

CONSTANTS
    Symbols,
    Prices,         \* prices of marks and fills; even, so averages are exact
    Quantities,     \* quantities the risk engine may approve
    Fundings,       \* identities of funding settlements
    Capital,        \* initial capital of the experiment
    LossDistance,   \* stop distance: the expected loss fraction
    GainDistance,   \* target distance: the expected gain fraction
    MaximumBars,    \* maximum_bars of an exit plan
    Latency,        \* execution latency
    MaxTime,        \* bound: the clock
    MaxQueue,       \* bound: events waiting for dispatch
    MaxEvents       \* bound: events observed

ASSUME ConstantsAssumption ==
    /\ Symbols # {} /\ IsFiniteSet(Symbols)
    /\ Prices \subseteq {p \in 1..100 : p % 2 = 0}
    /\ Quantities \subseteq 1..2
    /\ IsFiniteSet(Fundings)
    /\ {Capital, LossDistance, GainDistance, MaximumBars} \subseteq Nat \ {0}
    /\ {Latency, MaxTime, MaxQueue, MaxEvents} \subseteq Nat

VARIABLES
    now,            \* the clock
    queue,          \* the dispatch queue; its head is the event in progress
    work,           \* what the holder of the serialization lock waits for
    up,             \* the worker process runs
    status,         \* experiment status; "running" stands for running or paused
    halted,         \* the kill switch is active
    account,        \* latest account snapshot: cash and update time
    pos,            \* positions rows
    plan,           \* exit_plans rows
    funded,         \* funding_entries rows: settlement |-> symbol and amount
    due,            \* history: what each settlement found open at its time
    bars,           \* history: closed bars since the position was opened
    events,         \* number of events observed
    why             \* what stopped the worker

ledger == <<account, pos, plan, funded>>
vars == <<now, queue, work, up, status, halted, account, pos, plan, funded,
          due, bars, events, why>>

Times == 0..MaxTime
Sides == {"long", "short"}
Reasons == {"none", "mark_regressed", "funding_regressed", "already_failed",
            "stale_exit_plan", "triggered_plan", "no_loss_at_stop",
            "no_eligible_book"}
NoWork == [kind |-> "none", since |-> 0]
NoPosition == [side |-> "neutral", qty |-> 0, cost |-> 0, mark |-> 0, opened |-> 0,
               realized |-> 0, fees |-> 0, funding |-> 0]
NoPlan == [status |-> "none", qty |-> 0, stop |-> 0, target |-> 0, version |-> 0]

-----------------------------------------------------------------------------
(* Positions and the account                                                *)

Sign(side) == IF side = "long" THEN 1 ELSE -1
IsFlat(p) == p.qty = 0
AverageEntry(p) == p.cost \div p.qty
UnrealizedPnl(p) == Sign(p.side) * (p.mark * p.qty - p.cost)

\* Mutant: the opening fee is booked with the wrong sign.
OpenFillRebate(p, side, qty, price, at) ==
    [p EXCEPT !.side = side, !.qty = @ + qty, !.cost = @ + qty * price,
              !.mark = price, !.fees = @ - 1,
              !.opened = IF IsFlat(p) THEN at ELSE @]

OpenFill(p, side, qty, price, at) ==
    [p EXCEPT !.side = side, !.qty = @ + qty, !.cost = @ + qty * price,
              !.mark = price, !.fees = @ + 1,
              !.opened = IF IsFlat(p) THEN at ELSE @]

CloseFill(p, price) ==
    [p EXCEPT !.side = "neutral", !.qty = 0, !.cost = 0, !.mark = price,
              !.realized = @ + Sign(p.side) * (price * p.qty - p.cost),
              !.fees = @ + 1]

Mark(p, price) == [p EXCEPT !.mark = price]

FundingAmount(p, price) == -Sign(p.side) * p.qty * price

ApplyFunding(p, price) ==
    [p EXCEPT !.mark = price, !.funding = @ + FundingAmount(p, price)]

\* At 1x leverage the used margin is the gross notional.
FreeMargin(cash, ps) ==
    cash + MapThenSumSet(LAMBDA s : UnrealizedPnl(ps[s]) - ps[s].qty * ps[s].mark, Symbols)

Reconciles(cash, ps) ==
    cash = Capital + MapThenSumSet(
        LAMBDA s : ps[s].realized - ps[s].fees + ps[s].funding, Symbols)

-----------------------------------------------------------------------------
(* ExitPlan                                                                 *)

StopLevel(side, average) == average - Sign(side) * LossDistance
TargetLevel(side, average) == average + Sign(side) * GainDistance

CreatePlan(p) ==
    [status |-> "active", qty |-> p.qty,
     stop |-> StopLevel(p.side, AverageEntry(p)),
     target |-> TargetLevel(p.side, AverageEntry(p)), version |-> 1]

\* Mutant: the stop follows the new average in both directions.
ResizeLoose(x, p) ==
    [x EXCEPT !.qty = p.qty, !.version = @ + 1,
              !.stop = StopLevel(p.side, AverageEntry(p)),
              !.target = TargetLevel(p.side, AverageEntry(p))]

Resize(x, p) ==
    [x EXCEPT !.qty = p.qty, !.version = @ + 1,
              !.stop = LET proposed == StopLevel(p.side, AverageEntry(p))
                       IN  IF p.side = "long" THEN Max({@, proposed}) ELSE Min({@, proposed}),
              !.target = TargetLevel(p.side, AverageEntry(p))]

OpenPlan(x) == x.status \in {"active", "triggered"}

\* evaluate_mark: the mark is at or beyond the stop or the target.
Crosses(x, side, price) ==
    IF side = "long" THEN price <= x.stop \/ price >= x.target
                     ELSE price >= x.stop \/ price <= x.target

Trigger(x) == IF x.status = "active"
              THEN [x EXCEPT !.status = "triggered", !.version = @ + 1] ELSE x
ClosePlan(x) == [Trigger(x) EXCEPT !.status = "closed", !.version = @ + 1]

LossAtStop(s) == pos[s].qty * (AverageEntry(pos[s]) - plan[s].stop)

-----------------------------------------------------------------------------
(* What the market and the operator do                                      *)

Tick ==
    /\ now < MaxTime
    /\ now' = now + 1
    /\ UNCHANGED <<queue, work, up, status, halted, ledger, due, bars, events, why>>

\* The venue settles funding f; the worker learns of it from a later poll.
Settle(f, s, price) ==
    /\ f \notin DOMAIN due
    /\ due' = [g \in DOMAIN due \cup {f} |->
                  IF g = f THEN [sym |-> s, at |-> now, price |-> price,
                                 side |-> pos[s].side, qty |-> pos[s].qty]
                  ELSE due[g]]
    /\ UNCHANGED <<now, queue, work, up, status, halted, ledger, bars, events, why>>

\* _ingest: an event is stamped and queued while the dispatcher is busy.
Observe(event) ==
    /\ up
    /\ Len(queue) < MaxQueue
    /\ events < MaxEvents
    /\ queue' = Append(queue, event)
    /\ events' = events + 1
    /\ UNCHANGED <<now, work, up, status, halted, ledger, due, bars, why>>

ObserveMark(s, price) ==
    Observe([kind |-> "mark", sym |-> s, at |-> now, price |-> price, id |-> 0])
ObserveBar(s) ==
    Observe([kind |-> "bar", sym |-> s, at |-> now, price |-> 0, id |-> 0])
\* A settlement is delivered again when a restarted worker polls its window.
ObserveFunding(f) ==
    /\ f \in DOMAIN due
    /\ Observe([kind |-> "funding", sym |-> due[f].sym, at |-> now,
                price |-> due[f].price, id |-> f])

\* Pause and resume, which decide whether the switch blocks entries.
SetHalt ==
    /\ up /\ work = NoWork /\ status = "running"
    /\ halted' = ~halted
    /\ UNCHANGED <<now, queue, work, up, status, ledger, due, bars, events, why>>

Crash ==
    /\ up
    /\ up' = FALSE
    /\ queue' = <<>>
    /\ work' = NoWork
    /\ UNCHANGED <<now, status, halted, ledger, due, bars, events, why>>

\* _restore refuses an ended experiment and a triggered exit plan.
Boot ==
    /\ ~up
    /\ status = "running"
    /\ \A s \in Symbols : plan[s].status # "triggered"
    /\ up' = TRUE
    /\ UNCHANGED <<now, queue, work, status, halted, ledger, due, bars, events, why>>

-----------------------------------------------------------------------------
(* The dispatch task                                                        *)

Head1 == queue[1]
Ready(kind) == up /\ work = NoWork /\ queue # <<>> /\ Head1.kind = kind
Waiting(kind) == up /\ work.kind = kind

\* An exception leaves the handler: its transaction is rolled back and the
\* supervisor halts the worker and fails the experiment.
Raise(reason) ==
    /\ up' = FALSE
    /\ queue' = <<>>
    /\ work' = NoWork
    /\ status' = "failed"
    /\ halted' = TRUE
    /\ why' = reason
    /\ UNCHANGED <<now, ledger, due, bars, events>>

Done == queue' = Tail(queue) /\ work' = NoWork
Await(kind, since) ==
    /\ work' = [kind |-> kind, since |-> since]
    /\ UNCHANGED <<now, queue, up, status, halted, ledger, due, bars, events, why>>

\* The first book observed after the latency decides the time of the fill.
EligibleAt(at) == at \in (work.since + Latency + 1)..now

\* Mutant: each exit of a flatten starts from the source account, so only
\* the last one reaches the persisted cash.
CloseAllUnchained(closing, price, at) ==
    LET closed == [s \in Symbols |-> IF s \in closing THEN CloseFill(pos[s], price[s])
                                                      ELSE pos[s]]
        last == CHOOSE s \in closing : TRUE
    IN  /\ pos' = closed
        /\ plan' = [s \in Symbols |-> IF s \in closing THEN ClosePlan(plan[s]) ELSE plan[s]]
        /\ account' = [at |-> at,
                       cash |-> account.cash + closed[last].realized - pos[last].realized - 1]
        /\ bars' = [s \in Symbols |-> IF s \in closing THEN 0 ELSE bars[s]]
        /\ UNCHANGED funded

\* Mutant: only one exit plan is persisted with the exits of a flatten.
CloseAllOnePlan(closing, price, at) ==
    LET closed == [s \in Symbols |-> IF s \in closing THEN CloseFill(pos[s], price[s])
                                                      ELSE pos[s]]
        last == CHOOSE s \in closing : TRUE
    IN  /\ pos' = closed
        /\ plan' = [plan EXCEPT ![last] = ClosePlan(@)]
        /\ account' = [at |-> at,
                       cash |-> account.cash + MapThenSumSet(
                           LAMBDA s : closed[s].realized - pos[s].realized - 1, closing)]
        /\ bars' = [s \in Symbols |-> IF s \in closing THEN 0 ELSE bars[s]]
        /\ UNCHANGED funded

\* Every position in closing is reduced to zero in one transaction.
CloseAll(closing, price, at) ==
    LET closed == [s \in Symbols |-> IF s \in closing THEN CloseFill(pos[s], price[s])
                                                      ELSE pos[s]]
    IN  /\ pos' = closed
        /\ plan' = [s \in Symbols |-> IF s \in closing THEN ClosePlan(plan[s]) ELSE plan[s]]
        /\ account' = [at |-> at,
                       cash |-> account.cash + MapThenSumSet(
                           LAMBDA s : closed[s].realized - pos[s].realized - 1, closing)]
        /\ bars' = [s \in Symbols |-> IF s \in closing THEN 0 ELSE bars[s]]
        /\ UNCHANGED funded

\* A mark of an open position is persisted, or starts the exit.
DispatchMark ==
    LET s == Head1.sym
    IN  /\ Ready("mark")
        /\ \/ /\ IsFlat(pos[s])
              /\ Done
              /\ UNCHANGED <<now, up, status, halted, ledger, due, bars, events, why>>
           \/ /\ ~IsFlat(pos[s])
              /\ \/ plan[s].status = "triggered"
                 \/ Crosses(plan[s], pos[s].side, Head1.price)
              /\ Await("exit", Head1.at)
           \/ /\ ~IsFlat(pos[s])
              /\ plan[s].status = "active"
              /\ ~Crosses(plan[s], pos[s].side, Head1.price)
              /\ Head1.at >= account.at
              /\ pos' = [pos EXCEPT ![s] = Mark(@, Head1.price)]
              /\ account' = [account EXCEPT !.at = Head1.at]
              /\ Done
              /\ UNCHANGED <<now, up, status, halted, plan, funded, due, bars, events, why>>
           \/ /\ ~IsFlat(pos[s])
              /\ plan[s].status = "active"
              /\ ~Crosses(plan[s], pos[s].side, Head1.price)
              /\ Head1.at < account.at
              /\ Raise("mark_regressed")

\* The exit fills on the first eligible book; order, account, position and
\* plan are one transaction.
ExitFilled(price, at) ==
    /\ Waiting("exit")
    /\ Head1.at >= account.at
    /\ plan[Head1.sym].qty = pos[Head1.sym].qty
    /\ EligibleAt(at)
    /\ CloseAll({Head1.sym}, [s \in Symbols |-> price], at)
    /\ Done
    /\ UNCHANGED <<now, up, status, halted, due, events, why>>

\* Mutant: the failed exit is persisted without failing the experiment.
ExitUnfilledKeepsRunning ==
    /\ Waiting("exit")
    /\ Head1.at >= account.at
    /\ pos' = [pos EXCEPT ![Head1.sym] = Mark(@, Head1.price)]
    /\ plan' = [plan EXCEPT ![Head1.sym] = Trigger(@)]
    /\ account' = [account EXCEPT !.at = Head1.at]
    /\ Done
    /\ UNCHANGED <<now, up, status, halted, funded, due, bars, events, why>>

\* No book, stale book or too little depth: the triggered plan, the incident
\* and the persistent halt are one transaction.  The failure reason names
\* the mark, so a second failed exit contradicts it and raises.
ExitUnfilled ==
    /\ Waiting("exit")
    /\ Head1.at >= account.at
    /\ \/ /\ status = "running"
          /\ pos' = [pos EXCEPT ![Head1.sym] = Mark(@, Head1.price)]
          /\ plan' = [plan EXCEPT ![Head1.sym] = Trigger(@)]
          /\ account' = [account EXCEPT !.at = Head1.at]
          /\ status' = "failed"
          /\ halted' = TRUE
          /\ Done
          /\ UNCHANGED <<now, up, funded, due, bars, events, why>>
       \/ /\ status = "failed"
          /\ Raise("already_failed")

ExitRegressed ==
    /\ Waiting("exit")
    /\ Head1.at < account.at
    /\ Raise("mark_regressed")

\* A settlement is applied once, to the position that is open when the
\* worker handles it and was open when the venue settled.
DispatchFunding ==
    LET s == Head1.sym
        applies == /\ Head1.id \notin DOMAIN funded
                   /\ ~IsFlat(pos[s])
                   /\ due[Head1.id].at >= pos[s].opened
    IN  /\ Ready("funding")
        /\ \/ /\ ~applies
              /\ Done
              /\ UNCHANGED <<now, up, status, halted, ledger, due, bars, events, why>>
           \/ /\ applies
              /\ Head1.at < account.at
              /\ Raise("funding_regressed")
           \/ /\ applies
              /\ Head1.at >= account.at
              /\ pos' = [pos EXCEPT ![s] = ApplyFunding(@, Head1.price)]
              /\ account' = [cash |-> account.cash + FundingAmount(pos[s], Head1.price),
                             at |-> Head1.at]
              /\ funded' = [g \in DOMAIN funded \cup {Head1.id} |->
                               IF g = Head1.id
                               THEN [sym |-> s, amount |-> FundingAmount(pos[s], Head1.price)]
                               ELSE funded[g]]
              /\ Done
              /\ UNCHANGED <<now, up, status, halted, plan, due, bars, events, why>>

\* History: the bar ends one more minute of an open position.
CountBar(s) == bars' = [bars EXCEPT ![s] = IF IsFlat(pos[s]) THEN 0 ELSE @ + 1]

\* A bar that is not admitted is recorded without an entry context.
BarQuarantined ==
    /\ Ready("bar")
    /\ CountBar(Head1.sym)
    /\ Done
    /\ UNCHANGED <<now, up, status, halted, ledger, due, events, why>>

\* The entry context of an admitted bar reads the rows and waits for a book.
BarAdmitted ==
    LET open == {s \in Symbols : ~IsFlat(pos[s])}
    IN  /\ Ready("bar")
        /\ \/ /\ \E s \in open : LossAtStop(s) = 0
              /\ Raise("no_loss_at_stop")
           \/ /\ \A s \in open : LossAtStop(s) # 0
              /\ \E s \in Symbols : plan[s].status = "triggered"
              /\ Raise("triggered_plan")
           \/ /\ \A s \in open : LossAtStop(s) # 0 /\ plan[s].status = "active"
              /\ Await("entry", Head1.at)

EntryTimeout == Waiting("entry") /\ Raise("no_eligible_book")

\* A gate rejects the proposal, the book cannot fill it or the margin does
\* not carry the fill: the cycle is recorded, the account is left alone.
EntryRejected ==
    /\ Waiting("entry")
    /\ CountBar(Head1.sym)
    /\ Done
    /\ UNCHANGED <<now, up, status, halted, ledger, due, events, why>>


\* The gates that depend on this state: kill switch, direction, capacity.
EntryGate(s, side, qty, decision) ==
    /\ ~halted
    /\ pos[s].side \in {"neutral", side}
    /\ qty * decision + 1 <= FreeMargin(account.cash, pos)

MarginCarries(cash, ps) == FreeMargin(cash, ps) >= 0

\* The approved entry fills.  Position and plan identities depend only on the
\* experiment and the symbol, so an entry after a closed position writes a
\* plan of version one over the closed one, which the repository refuses.
EntryFilled(side, qty, decision, price, at) ==
    LET s == Head1.sym
        opened == [pos EXCEPT ![s] = OpenFill(@, side, qty, price, at)]
        protecting == IF OpenPlan(plan[s]) THEN Resize(plan[s], opened[s])
                                           ELSE CreatePlan(opened[s])
    IN  /\ Waiting("entry")
        /\ EntryGate(s, side, qty, decision)
        /\ EligibleAt(at)
        /\ MarginCarries(account.cash - 1, opened)
        /\ \/ /\ protecting.version < plan[s].version
              /\ Raise("stale_exit_plan")
           \/ /\ protecting.version >= plan[s].version
              /\ pos' = opened
              /\ plan' = [plan EXCEPT ![s] = protecting]
              /\ account' = [cash |-> account.cash - 1, at |-> at]
              /\ CountBar(s)
              /\ Done
              /\ UNCHANGED <<now, up, status, halted, funded, due, events, why>>

-----------------------------------------------------------------------------
(* The command task: an accepted flatten                                    *)

FlattenStart ==
    /\ up /\ work = NoWork
    /\ status = "running" /\ halted
    /\ \E s \in Symbols : ~IsFlat(pos[s])
    /\ Await("flatten", now)

\* All open positions are closed in one transaction, or none.
FlattenFilled(price, at) ==
    /\ Waiting("flatten")
    /\ EligibleAt(at)
    /\ CloseAll({s \in Symbols : ~IsFlat(pos[s])}, price, at)
    /\ work' = NoWork
    /\ UNCHANGED <<now, queue, up, status, halted, due, events, why>>

FlattenRejected ==
    /\ Waiting("flatten")
    /\ work' = NoWork
    /\ UNCHANGED <<now, queue, up, status, halted, ledger, due, bars, events, why>>

-----------------------------------------------------------------------------
Init ==
    /\ now = 0
    /\ queue = <<>>
    /\ work = NoWork
    /\ up = TRUE
    /\ status = "running"
    /\ halted = FALSE
    /\ account = [cash |-> Capital, at |-> 0]
    /\ pos = [s \in Symbols |-> NoPosition]
    /\ plan = [s \in Symbols |-> NoPlan]
    /\ funded = <<>>
    /\ due = <<>>
    /\ bars = [s \in Symbols |-> 0]
    /\ events = 0
    /\ why = "none"

Market ==
    \/ Tick
    \/ \E s \in Symbols, price \in Prices : ObserveMark(s, price)
    \/ \E s \in Symbols : ObserveBar(s)
    \/ \E f \in Fundings : ObserveFunding(f)
    \/ \E f \in Fundings, s \in Symbols, price \in Prices : Settle(f, s, price)

Dispatch ==
    \/ DispatchMark
    \/ \E price \in Prices, at \in Times : ExitFilled(price, at)
    \/ ExitUnfilled
    \/ ExitRegressed
    \/ DispatchFunding
    \/ BarQuarantined
    \/ BarAdmitted
    \/ EntryTimeout
    \/ EntryRejected
    \/ \E side \in Sides, qty \in Quantities, decision, price \in Prices, at \in Times :
           EntryFilled(side, qty, decision, price, at)

Flatten ==
    \/ FlattenStart
    \/ \E price \in [Symbols -> Prices], at \in Times : FlattenFilled(price, at)
    \/ FlattenRejected

Next == Market \/ Dispatch \/ Flatten \/ SetHalt \/ Crash \/ Boot

Spec == Init /\ [][Next]_vars

-----------------------------------------------------------------------------
(* Properties                                                               *)

\* Every row has its type.
TypeOK ==
    /\ now \in Times
    /\ queue \in Seq([kind : {"mark", "bar", "funding"}, sym : Symbols, at : Times,
                      price : Prices \cup {0}, id : Fundings \cup {0}])
    /\ work \in [kind : {"none", "exit", "entry", "flatten"}, since : Times]
    /\ up \in BOOLEAN
    /\ status \in {"running", "failed"}
    /\ halted \in BOOLEAN
    /\ account \in [cash : Int, at : Times]
    /\ pos \in [Symbols -> [side : Sides \cup {"neutral"}, qty : Nat, cost : Nat, mark : Nat,
                            opened : Times, realized : Int, fees : Nat, funding : Int]]
    /\ plan \in [Symbols -> [status : {"none", "active", "triggered", "closed"}, qty : Nat,
                             stop : Int, target : Int, version : Nat]]
    /\ DOMAIN funded \subseteq DOMAIN due /\ DOMAIN due \subseteq Fundings
    /\ bars \in [Symbols -> Nat]
    /\ events \in 0..MaxEvents
    /\ why \in Reasons

\* Cash is the initial capital plus realized profit, less fees, plus funding,
\* after every transaction: what load_account demands of the rows before any
\* handler may use them.  The funding of a position is the sum of the
\* settlements recorded for it, although a settlement may be delivered again.
AccountReconciles ==
    /\ Reconciles(account.cash, pos)
    /\ \A s \in Symbols :
          pos[s].funding = MapThenSumSet(LAMBDA f : funded[f].amount,
                                         {f \in DOMAIN funded : funded[f].sym = s})

\* A position is open exactly when its exit plan is, and the plan covers the
\* whole position: what marks, entry contexts, flattening and start-up demand.
OpenIsProtected ==
    \A s \in Symbols :
        /\ ~IsFlat(pos[s]) <=> OpenPlan(plan[s])
        /\ OpenPlan(plan[s]) => plan[s].qty = pos[s].qty

\* A triggered exit plan is at rest only in a failed experiment behind an
\* active kill switch.
TriggeredIsHalted ==
    \A s \in Symbols : plan[s].status = "triggered" => status = "failed" /\ halted

\* While a position stays open its stop never moves away from the market's
\* risk, whatever is added to the position.
StopsOnlyTighten ==
    [][\A s \in Symbols :
          OpenPlan(plan[s]) /\ OpenPlan(plan'[s]) =>
              IF pos[s].side = "long" THEN plan'[s].stop >= plan[s].stop
                                      ELSE plan'[s].stop <= plan[s].stop]_vars


-----------------------------------------------------------------------------
(* What the documents say and the code does not do                          *)

\* An approved, filled entry is persisted, also on a symbol whose earlier
\* position was closed.
ReentryIsPersisted == why # "stale_exit_plan"

\* A mark of an open position is evaluated, and never ends the worker.
ExitEvaluationContinues == why # "mark_regressed"

\* No position outlives its maximum number of closed bars.
MaximumHold == \A s \in Symbols : bars[s] <= MaximumBars

\* Funding is charged on the position at the settlement's own time.
FundingUsesSettlementPosition ==
    \A f \in DOMAIN funded :
        due[f].qty > 0 =>
            funded[f].amount = -Sign(due[f].side) * due[f].qty * due[f].price
=============================================================================
