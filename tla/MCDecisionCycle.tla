---------------------------- MODULE MCDecisionCycle ---------------------------
(***************************************************************************)
(* Small instance of DecisionCycle: a benchmark symbol and another one,    *)
(* wide and narrow expected moves, fills at the decision price and worse.  *)
(***************************************************************************)
EXTENDS DecisionCycle

Signal(direction, p, move, carry) ==
    [direction |-> direction, voting |-> TRUE, blocked |-> FALSE,
     p |-> p, move |-> move, carry |-> carry]

\* Wide and narrow stops on both sides, a challenged proposal, a value that only
\* funding carry makes positive, no expected move, and two neutral verdicts.
MCSignals ==
    {Signal("long", 90, 10, 0), Signal("long", 95, 1, 0), Signal("short", 90, 10, 0),
     [Signal("long", 90, 10, 0) EXCEPT !.blocked = TRUE],
     Signal("long", 45, 1, 150), Signal("long", 90, 0, 0),
     Signal("neutral", 50, 0, 0), [Signal("neutral", 50, 0, 0) EXCEPT !.voting = FALSE]}

Condition(base, benchmark, calm, correlation) ==
    [base |-> base, benchmark |-> benchmark, calm |-> calm, correlation |-> correlation]

MCConditions ==
    {Condition(TRUE, 0, TRUE, 5), Condition(TRUE, 0, TRUE, 3), Condition(TRUE, 0, TRUE, 0),
     Condition(TRUE, 500, TRUE, 5), Condition(FALSE, 0, TRUE, 5),
     Condition(TRUE, 0, FALSE, 5)}

MCSlippages == {0, 1}
=============================================================================
