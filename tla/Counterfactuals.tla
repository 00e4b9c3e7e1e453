--------------------------- MODULE Counterfactuals ---------------------------
(****************************************************************************)
(* The research projection that follows every rejected directional proposal *)
(* as if it had been traded: maais/research/counterfactuals.py, its         *)
(* repository, and the three places that drive it (a closed-bar dispatch, a *)
(* book, mark or funding observation of the continuous observer).           *)
(*                                                                          *)
(* The worker handles one market event at a time and each handler commits   *)
(* one unit of work, so a handler is one step; what interleaves with it is  *)
(* the clock, the market, crashes and the backfill of the bars missed while *)
(* the worker was away.  Bar k closes at instant 2k and everything observed *)
(* live before the next close happens at instant 2k + 1.                    *)
(****************************************************************************)
EXTENDS Integers, FiniteSets, FiniteSetsExt, TLC

CONSTANTS
    LastBar,        \* bound: bars that close in a behaviour
    MaxProposals,   \* bound: rejected proposals followed
    MaxRestarts,    \* bound: restarts of the worker
    Prices,         \* prices the market shows
    Loss, Gain,     \* distance of the stop and of the target from the entry
    MaximumBars,    \* ExitPlan.maximum_bars
    Horizons,       \* the fixed research horizons, in instants
    Settlements,    \* bars at whose close a funding settlement falls
    FundingAmount,  \* what a long pays at a settlement
    FeeRate         \* fee per unit of price, in pnl units

Bars == 1..LastBar
Unit == 10
Window == Max(Horizons)
Directions == {"long", "short"}
Opposite(d) == IF d = "long" THEN "short" ELSE "long"

ASSUME ConstantsAssumption ==
    /\ LastBar \in Nat /\ MaxProposals \in Nat /\ MaxRestarts \in Nat
    /\ Prices \subseteq Nat /\ Prices # {}
    /\ Loss \in Nat \ {0} /\ Gain \in Nat \ {0} /\ MaximumBars \in Nat \ {0}
    /\ Horizons \subseteq Nat \ {0} /\ Horizons # {} /\ IsFiniteSet(Horizons)
    /\ Settlements \subseteq Bars /\ FundingAmount \in Int /\ FeeRate \in Nat

VARIABLES
    now,        \* the last bar that closed
    up,         \* the worker process runs
    restarts,   \* restarts so far
    cursor,     \* persisted: the last bar dispatched
    live,       \* the event of the last bar is on its way to the worker
    target,     \* the bar the dispatch in progress leads to, cursor when idle
    polled,     \* settlements this process has fetched
    failed,     \* a dispatch raised and took the worker down
    cf          \* persisted: the counterfactual of each bar's proposal

vars == <<now, up, restarts, cursor, live, target, polled, failed, cf>>

Clock == 2 * now + 1
Idle == up /\ cursor = target

Blank == [status |-> "none", dir |-> "long", eligible |-> 0, fillAt |-> 0,
          entry |-> 0, bars |-> 0, streak |-> 0, mfe |-> 0, mae |-> 0,
          outcomes |-> <<>>, applied |-> {}, funding |-> 0,
          reason |-> "none", pnl |-> 0, closedAt |-> 0]

----------------------------------------------------------------------------
(* CounterfactualState and its ExitPlan                                     *)

Create(d) == [Blank EXCEPT !.status = "pending", !.dir = d, !.eligible = 2 * now]

Enter(c, p) ==
    [c EXCEPT !.status = "open", !.fillAt = Clock, !.entry = p]

MarkNoFill(c) == [c EXCEPT !.status = "no_fill", !.closedAt = Clock]

GrossPnl(c, p) == IF c.dir = "long" THEN p - c.entry ELSE c.entry - p

NetPnl(c, p) == Unit * GrossPnl(c, p) - FeeRate * (c.entry + p) + c.funding

\* The level a mark has reached, the stop first.
EvaluateMark(c, p) ==
    CASE GrossPnl(c, p) <= -Loss -> "stop"
      [] GrossPnl(c, p) >= Gain -> "target"
      [] OTHER -> "none"

Close(c, p, reason, at) ==
    [c EXCEPT !.status = "resolved", !.reason = reason, !.pnl = NetPnl(c, p),
              !.closedAt = at]

\* Mutant: an observation settles one horizon at a time, the longest first.
DueOne(c, at) ==
    LET all == {h \in Horizons : h \notin DOMAIN c.outcomes /\ at >= c.fillAt + h}
    IN IF all = {} THEN {} ELSE {Max(all)}

\* The horizons this observation settles: every one that is due and open.
Due(c, at) == {h \in Horizons : h \notin DOMAIN c.outcomes /\ at >= c.fillAt + h}

\* Mutant: a due horizon overwrites what was recorded for it.
SettleAgain(c, p, at) ==
    [c EXCEPT !.outcomes =
        [h \in {h \in Horizons : at >= c.fillAt + h} |-> NetPnl(c, p)] @@ @]

Settle(c, p, at) ==
    [c EXCEPT !.outcomes = [h \in Due(c, at) |-> NetPnl(c, p)] @@ @]

\* Excursions are followed while the hypothetical position is open.
Excurse(c, p) ==
    IF c.status = "open"
    THEN [c EXCEPT !.mfe = Max({@, GrossPnl(c, p)}),
                   !.mae = Max({@, -GrossPnl(c, p)})]
    ELSE c

ObserveMark(c, p, at) ==
    LET seen == Excurse(Settle(c, p, at), p)
        hit  == EvaluateMark(c, p)
    IN IF c.status = "open" /\ hit # "none" THEN Close(seen, p, hit, at) ELSE seen

\* Mutant: the hold ends one bar late.
ObserveBarLate(c, p, at, decision) ==
    LET counted == [c EXCEPT !.bars = @ + 1]
    IN IF counted.bars > MaximumBars THEN Close(counted, p, "maximum_hold", at)
       ELSE counted

\* ExitPlan.observe_closed_bar: the streak of approved opposite decisions and
\* the maximum hold, in this order.
ObserveBar(c, p, at, decision) ==
    LET streak == IF decision = <<"approved", Opposite(c.dir)>>
                  THEN c.streak + 1 ELSE 0
        counted == [c EXCEPT !.bars = @ + 1, !.streak = streak]
    IN CASE streak >= 2 -> Close(counted, p, "opposing_signal", at)
         [] streak < 2 /\ counted.bars >= MaximumBars ->
                Close(counted, p, "maximum_hold", at)
         [] OTHER -> counted

ObserveClosedBar(c, p, at, decision) ==
    LET marked == ObserveMark(c, p, at)
    IN IF marked.status = "open" THEN ObserveBar(marked, p, at, decision) ELSE marked


\* ExitPlan.__post_init__ refuses a trigger that precedes the plan.
Raises(before, after) ==
    before.status = "open" /\ after.status = "resolved"
        /\ after.closedAt < before.fillAt

\* Mutant: a settlement fetched again is applied again.
ApplyFundingAgain(c, k) ==
    [c EXCEPT !.applied = @ \cup {k},
              !.funding = @ + (IF c.dir = "long" THEN -FundingAmount
                                                 ELSE FundingAmount)]

\* A settlement the projection has applied is not applied again.
ApplyFunding(c, k) ==
    IF k \in c.applied THEN c
    ELSE [c EXCEPT !.applied = @ \cup {k},
                   !.funding = @ + (IF c.dir = "long" THEN -FundingAmount
                                                      ELSE FundingAmount)]

----------------------------------------------------------------------------
(* CounterfactualRepository: the rows each handler loads                    *)

Waiting(c) == c.status = "pending" /\ Clock > c.eligible

MarkObservable(c) ==
    \/ c.status = "open"
    \/ c.status = "resolved" /\ Window \notin DOMAIN c.outcomes /\ Due(c, Clock) # {}

FundingObservable(c, k) ==
    /\ c.status \in {"open", "resolved"}
    /\ c.fillAt <= 2 * k
    /\ c.status = "open" \/ (Window \notin DOMAIN c.outcomes /\ c.fillAt >= 2 * k - Window)

----------------------------------------------------------------------------
Init ==
    /\ now = 0 /\ up = TRUE /\ restarts = 0 /\ cursor = 0
    /\ live = FALSE /\ target = 0
    /\ polled = {} /\ failed = FALSE
    /\ cf = [k \in Bars |-> Blank]

\* The venue closes a bar; whether its event reaches the worker is BarArrives.
\* A running worker meets an eligible book before the next close: the entry
\* context of the bar waited for one, which is queued behind the bar, and after
\* a restart the feed is not ready before it has published a book.
Tick ==
    /\ now < LastBar
    /\ up => Idle /\ \A k \in Bars : ~Waiting(cf[k])
    /\ now' = now + 1 /\ live' = up
    /\ UNCHANGED <<up, restarts, cursor, target, polled, failed, cf>>

\* ContinuousPaperObserver._observe_book: every waiting counterfactual of the
\* symbol fills on the book or is given up.
Book ==
    /\ Idle
    /\ \E p \in Prices, fills \in BOOLEAN :
          cf' = [k \in Bars |-> IF ~Waiting(cf[k]) THEN cf[k]
                                ELSE IF fills THEN Enter(cf[k], p)
                                ELSE MarkNoFill(cf[k])]
    /\ UNCHANGED <<now, up, restarts, cursor, live, target, polled, failed>>

\* ContinuousPaperObserver._observe_mark, its counterfactual half.
Mark ==
    /\ Idle
    /\ \E p \in Prices :
          cf' = [k \in Bars |-> IF MarkObservable(cf[k])
                                THEN ObserveMark(cf[k], p, Clock) ELSE cf[k]]
    /\ UNCHANGED <<now, up, restarts, cursor, live, target, polled, failed>>

\* ContinuousPaperObserver._observe_funding, its counterfactual half.  The
\* poll window starts again from the manifest in every process.
Funding ==
    /\ Idle
    /\ \E k \in Settlements \ polled :
          /\ k <= now
          /\ polled' = polled \cup {k}
          /\ cf' = [b \in Bars |-> IF FundingObservable(cf[b], k)
                                   THEN ApplyFunding(cf[b], k) ELSE cf[b]]
    /\ UNCHANGED <<now, up, restarts, cursor, live, target, failed>>

\* The live event of the last bar reaches the worker; bars it skipped are
\* dispatched before it.
BarArrives ==
    /\ Idle /\ live
    /\ target' = now /\ live' = FALSE
    /\ UNCHANGED <<now, up, restarts, cursor, polled, failed, cf>>

\* AtomicCycleDispatcher.dispatch for the first bar behind the cursor: the
\* decision, the counterfactual of a rejected one, and the closed bar shown to
\* every counterfactual that was open before it, in one unit of work that is
\* rolled back as a whole when one of them raises.  A backfilled bar is too
\* old to be admitted and its decision is neutral.
Decisions ==
    {<<"neutral", "none">>} \cup
    (IF cursor + 1 = now THEN {"approved", "rejected"} \X Directions ELSE {})

Dispatch ==
    /\ up /\ cursor < target
    /\ \E p \in Prices, decision \in Decisions :
          LET bar == cursor + 1
              followed == [k \in Bars |->
                  IF cf[k].status = "open"
                  THEN ObserveClosedBar(cf[k], p, 2 * bar, decision) ELSE cf[k]]
          IN /\ decision[1] = "rejected" =>
                   Cardinality({k \in Bars : cf[k].status # "none"}) < MaxProposals
             /\ IF \E k \in Bars : Raises(cf[k], followed[k])
                THEN /\ up' = FALSE /\ failed' = TRUE /\ target' = cursor
                     /\ UNCHANGED <<cursor, cf>>
                ELSE /\ cursor' = bar
                     /\ cf' = IF decision[1] = "rejected"
                              THEN [followed EXCEPT ![bar] = Create(decision[2])]
                              ELSE followed
                     /\ UNCHANGED <<up, failed, target>>
    /\ UNCHANGED <<now, restarts, live, polled>>

\* The process dies, between two units of work.
Crash ==
    /\ up /\ restarts < MaxRestarts
    /\ up' = FALSE /\ target' = cursor /\ live' = FALSE
    /\ UNCHANGED <<now, restarts, cursor, polled, failed, cf>>

Restart ==
    /\ ~up /\ restarts < MaxRestarts
    /\ up' = TRUE /\ restarts' = restarts + 1 /\ polled' = {}
    /\ UNCHANGED <<now, cursor, live, target, failed, cf>>

Next == Tick \/ Book \/ Mark \/ Funding \/ BarArrives \/ Dispatch \/ Crash \/ Restart

Spec == Init /\ [][Next]_vars

----------------------------------------------------------------------------
(* Properties                                                               *)

\* Type invariant: the projection holds well-formed counterfactuals
\* (CounterfactualState), the cursor never passes the market or its target.
TypeOK ==
    /\ now \in 0..LastBar /\ up \in BOOLEAN /\ live \in BOOLEAN /\ restarts \in 0..MaxRestarts
    /\ cursor \in 0..now /\ target \in cursor..now /\ (live => up /\ cursor < now)
    /\ polled \subseteq Settlements /\ failed \in BOOLEAN
    /\ DOMAIN cf = Bars
    /\ \A k \in Bars :
          /\ cf[k].status \in {"none", "pending", "no_fill", "open", "resolved"}
          /\ cf[k].dir \in Directions
          /\ cf[k].mfe \in Nat /\ cf[k].mae \in Nat
          /\ cf[k].bars \in 0..MaximumBars /\ cf[k].streak \in 0..2
          /\ DOMAIN cf[k].outcomes \subseteq Horizons
          /\ cf[k].status = "open" => cf[k].bars < MaximumBars

\* Every settlement counts once in a counterfactual's funding, however often
\* restarts make the worker fetch it again (apply_funding with
\* _source_event_exists), and only settlements after its fill count.
FundingOnce ==
    \A k \in Bars :
        /\ cf[k].funding = (IF cf[k].dir = "long" THEN -FundingAmount ELSE FundingAmount)
                               * Cardinality(cf[k].applied)
        /\ \A s \in cf[k].applied : 2 * s >= cf[k].fillAt


\* get_mark_observable stops showing marks once the longest horizon has its
\* outcome; by then every shorter horizon must have one too.
HorizonsComplete ==
    \A k \in Bars :
        Window \in DOMAIN cf[k].outcomes => DOMAIN cf[k].outcomes = Horizons

\* What research has recorded stays as it was: entry, horizon outcomes, exit
\* and, once resolved, the excursions; later marks, bars, settlements and
\* restarts only add to the record (observe_mark, observe_closed_bar).
RecordedIsFinal ==
    [][\A k \in Bars :
          LET c == cf[k]
              d == cf'[k]
          IN /\ c.status = "open" =>
                   <<d.entry, d.fillAt>> = <<c.entry, c.fillAt>> /\ d.mfe >= c.mfe
                       /\ d.mae >= c.mae
             /\ \A h \in DOMAIN c.outcomes :
                   h \in DOMAIN d.outcomes /\ d.outcomes[h] = c.outcomes[h]
             /\ c.status \in {"resolved", "no_fill"} =>
                   <<d.status, d.reason, d.pnl, d.closedAt, d.mfe, d.mae>>
                       = <<c.status, c.reason, c.pnl, c.closedAt, c.mfe, c.mae>>]_vars

\* Recovery resumes from the persisted cursor and counterfactuals: no missed
\* bar takes the worker down (AtomicCycleDispatcher.dispatch).
BackfillDispatches == ~failed
=============================================================================
