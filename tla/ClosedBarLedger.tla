---------------------------- MODULE ClosedBarLedger ----------------------------
(***************************************************************************)
(* What closed-bar dispatch promises, whatever happens to the live stream  *)
(* and to the worker: the bars whose decision cycles are persisted form    *)
(* one contiguous run, each committed exactly once and in order.           *)
(***************************************************************************)
EXTENDS Naturals, Sequences, SequencesExt

VARIABLE ledger         \* bars in the order their cycles were committed

Init == ledger = <<>>

\* The first bar a worker sees fixes where the run starts.
First == ledger = <<>> /\ ledger' \in Seq(Nat \ {0}) /\ Len(ledger') = 1

\* Every later commit is of the bar that follows the last one.
Advance == ledger # <<>> /\ ledger' = Append(ledger, Last(ledger) + 1)

Next == First \/ Advance

Spec == Init /\ [][Next]_ledger
=============================================================================
