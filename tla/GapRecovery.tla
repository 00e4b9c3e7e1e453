------------------------------ MODULE GapRecovery ------------------------------
(***************************************************************************)
(* Closed-bar dispatch of one symbol: live bars that may be lost or        *)
(* repeated, the durable market cursor, the durable recovery of a gap and  *)
(* a worker that may be killed between any two transactions.               *)
(*                                                                         *)
(* Bars are numbered by their exchange sequence.  A transaction is one     *)
(* step; the in-memory cursor is assigned right after the transaction that *)
(* commits it, so one variable stands for both.                            *)
(***************************************************************************)
EXTENDS Naturals, Sequences, SequencesExt

CONSTANTS
    MaxBars,        \* bound: bars closed by the venue
    MaxAttempts,    \* GapRecoveryManager max_attempts
    MaxCrashes      \* bound: worker processes killed

ASSUME ConstantsAssumption ==
    /\ MaxBars \in Nat
    /\ MaxAttempts \in Nat \ {0}
    /\ MaxCrashes \in Nat

VARIABLES
    head,           \* last bar the venue has closed
    heard,          \* last bar the live connection delivered or lost
    pc,             \* where the worker process is
    cand,           \* the live bar being processed
    journal,        \* bars in the in-memory MarketEventJournal
    cursor,         \* market_cursors row: last committed bar, 0 when absent
    rec,            \* the market_recovery_runs row of the latest gap
    ledger,         \* history: bars in the order their cycles were committed
    entries,        \* history: bars on which a new position may be entered
    lost,           \* history: bars whose live delivery came to nothing
    why,            \* what the process raised
    crashes

durable == <<cursor, rec, ledger, entries>>
vars == <<head, heard, pc, cand, journal, cursor, rec, ledger, entries, lost, why, crashes>>

Bars == 1..MaxBars
Phases == {"down", "idle", "received", "single", "prepare", "recover",
           "raising", "failed", "refused"}
Reasons == {"none", "regressed", "mismatch", "not_adjacent", "exhausted",
            "operator_review"}
NoRecovery == [status |-> "none", start |-> 0, end |-> 0, attempt |-> 0, through |-> 0]
Recoveries ==
    [status : {"none", "detected", "backfilling", "completed", "failed"},
     start : 0..MaxBars, end : 0..MaxBars,
     attempt : 0..MaxAttempts, through : 0..MaxBars]

Running == pc \notin {"down", "failed", "refused"}

-----------------------------------------------------------------------------
(* RecoveryState                                                            *)

Active(r) == r.status \in {"detected", "backfilling"}

Create(first, candidate) ==
    [status |-> "detected", start |-> first, end |-> candidate,
     attempt |-> 0, through |-> 0]

RecoveryBegin(r) == [r EXCEPT !.status = "backfilling", !.attempt = @ + 1]

\* The next bar whose dispatch the recovery may record.
Expected(r) == IF r.through = 0 THEN r.start ELSE r.through + 1

RecordDispatch(r, bar) == [r EXCEPT !.through = bar]

\* A new process and a new candidate both compare progress with the cursor.
CursorMatches(r, c) == c = Expected(r) - 1

-----------------------------------------------------------------------------
(* The venue and the operating system                                       *)

CloseBar ==
    /\ head < MaxBars
    /\ head' = head + 1
    /\ UNCHANGED <<heard, pc, cand, journal, durable, why, lost, crashes>>

Crash ==
    /\ Running
    /\ crashes < MaxCrashes
    /\ crashes' = crashes + 1
    /\ pc' = "down"
    /\ journal' = {}
    /\ cand' = 0
    /\ why' = "none"
    /\ lost' = IF cand > cursor THEN lost \cup {cand} ELSE lost
    /\ UNCHANGED <<head, heard, durable>>

-----------------------------------------------------------------------------
(* Start-up                                                                 *)

\* restore_live_paper_runtime refuses a failed recovery and one whose
\* progress is not the cursor; the new connection only brings later bars.
Boot ==
    /\ pc = "down"
    /\ heard' = head
    /\ lost' = lost \cup (heard + 1)..head
    /\ LET problem == IF rec.status = "failed" THEN "operator_review"
                      ELSE IF Active(rec) /\ ~CursorMatches(rec, cursor) THEN "mismatch"
                      ELSE "none"
       IN /\ pc' = IF problem = "none" THEN "idle" ELSE "refused"
          /\ why' = problem
    /\ UNCHANGED <<head, cand, journal, durable, crashes>>

-----------------------------------------------------------------------------
(* ClosedBarDispatchEngine                                                  *)

\* An exception leaves process(); everything it appended leaves the journal.
Raise(reason) ==
    /\ pc' = "raising"
    /\ why' = reason
    /\ journal' = journal \ {cand}

\* The supervisor halts the experiment for the exception.
HaltExperiment ==
    /\ pc = "raising"
    /\ pc' = "failed"
    /\ UNCHANGED <<head, heard, cand, journal, durable, why, lost, crashes>>

\* The live stream delivers in order; bars it skips were lost while it was
\* disconnected, and it may repeat the bar it delivered last.
Deliverable == (heard + 1)..head \cup (journal \cap {heard})

Receive(bar) ==
    /\ pc = "idle"
    /\ heard' = bar
    /\ lost' = lost \cup (heard + 1)..(bar - 1)
    /\ IF bar \in journal
       THEN UNCHANGED <<cand, journal, pc>>
       ELSE /\ cand' = bar
            /\ journal' = journal \cup {bar}
            /\ pc' = "received"
    /\ UNCHANGED <<head, durable, why, crashes>>

\* A cycle and its cursor are one transaction.  The frame is admitted, and a
\* position may be entered, only when the bar was observed as it closed: a
\* backfilled bar is observed at least one interval later, past the decision
\* lag.
CommitCycle(bar, live) ==
    /\ cursor' = bar
    /\ ledger' = Append(ledger, bar)
    /\ entries' = IF live THEN entries \cup {bar} ELSE entries

\* GapRecoveryManager.prepare up to the first state it must persist.
Prepare ==
    /\ pc = "received"
    /\ IF cursor = 0 THEN pc' = "single" /\ UNCHANGED <<journal, rec, why>>
       ELSE IF Active(rec)
       THEN IF CursorMatches(rec, cursor)
            THEN pc' = "prepare" /\ UNCHANGED <<journal, rec, why>>
            ELSE Raise("mismatch") /\ UNCHANGED rec
       ELSE IF cand <= cursor THEN Raise("regressed") /\ UNCHANGED rec
       ELSE IF cand = cursor + 1 THEN pc' = "single" /\ UNCHANGED <<journal, rec, why>>
       ELSE IF rec.status = "failed" /\ rec.start = cursor + 1 /\ rec.end = cand
       THEN Raise("operator_review") /\ UNCHANGED rec
       ELSE /\ rec' = Create(cursor + 1, cand)
            /\ pc' = "prepare"
            /\ UNCHANGED <<journal, why>>
    /\ UNCHANGED <<head, heard, cand, cursor, ledger, entries, lost, crashes>>

\* The first bar of an experiment, or the one that follows the cursor.
DispatchSingle ==
    /\ pc = "single"
    /\ CommitCycle(cand, TRUE)
    /\ pc' = "idle"
    /\ UNCHANGED <<head, heard, cand, journal, rec, why, lost, crashes>>

BeginBackfill ==
    /\ pc = "prepare" /\ rec.status = "detected"
    /\ rec' = RecoveryBegin(rec)
    /\ UNCHANGED <<head, heard, pc, cand, journal, cursor, ledger, entries, why, lost, crashes>>

\* The complete, validated batch arrived; RecoveryPreparation requires the
\* candidate to be the bar that ends the gap.
Backfill ==
    /\ pc = "prepare" /\ rec.status = "backfilling"
    /\ IF cand = rec.end
       THEN pc' = "recover" /\ UNCHANGED <<journal, why>>
       ELSE Raise("not_adjacent")
    /\ UNCHANGED <<head, heard, cand, durable, lost, crashes>>

\* Mutant: the last attempt is not recognised as the last.
BackfillOneMore ==
    /\ pc = "prepare" /\ rec.status = "backfilling"
    /\ IF rec.attempt > MaxAttempts
       THEN rec' = [rec EXCEPT !.status = "failed"] /\ Raise("exhausted")
       ELSE rec' = [rec EXCEPT !.status = "detected"] /\ UNCHANGED <<pc, journal, why>>
    /\ UNCHANGED <<head, heard, cand, cursor, ledger, entries, lost, crashes>>

\* Mutant: a retry starts the count of attempts again.
BackfillForgetsAttempts ==
    /\ pc = "prepare" /\ rec.status = "backfilling"
    /\ rec' = [rec EXCEPT !.status = "detected", !.attempt = 0]
    /\ UNCHANGED <<head, heard, pc, cand, journal, cursor, ledger, entries, lost, why, crashes>>

\* The REST call failed or its batch was not exactly the gap.
BackfillError ==
    /\ pc = "prepare" /\ rec.status = "backfilling"
    /\ IF rec.attempt >= MaxAttempts
       THEN rec' = [rec EXCEPT !.status = "failed"] /\ Raise("exhausted")
       ELSE rec' = [rec EXCEPT !.status = "detected"] /\ UNCHANGED <<pc, journal, why>>
    /\ UNCHANGED <<head, heard, cand, cursor, ledger, entries, lost, crashes>>

\* Mutant: the batch is dispatched from its start, progress or not.
DispatchFromStart ==
    /\ pc = "recover"
    /\ rec.through < rec.end
    /\ LET bar == IF rec.through = cursor THEN rec.start ELSE Expected(rec)
       IN /\ CommitCycle(bar, bar = cand)
          /\ rec' = RecordDispatch(rec, bar)
          /\ journal' = journal \cup {bar}
    /\ UNCHANGED <<head, heard, pc, cand, why, lost, crashes>>

\* Mutant: the progress of the recovery is saved when it completes.
DispatchWithoutProgress ==
    /\ pc = "recover"
    /\ cursor < rec.end
    /\ CommitCycle(cursor + 1, cursor + 1 = cand)
    /\ rec' = IF cursor + 1 = rec.end THEN RecordDispatch(rec, rec.end) ELSE rec
    /\ journal' = journal \cup {cursor + 1}
    /\ UNCHANGED <<head, heard, pc, cand, why, lost, crashes>>

\* Mutant: recovered bars keep the lag of the live candidate.
DispatchAsLive ==
    /\ pc = "recover"
    /\ Expected(rec) <= rec.end
    /\ CommitCycle(Expected(rec), TRUE)
    /\ rec' = RecordDispatch(rec, Expected(rec))
    /\ journal' = journal \cup {Expected(rec)}
    /\ UNCHANGED <<head, heard, pc, cand, why, lost, crashes>>

\* One bar of the batch, or at last the candidate: cycle, cursor and
\* recovery progress are one transaction.
DispatchRecovered ==
    /\ pc = "recover"
    /\ Expected(rec) <= rec.end
    /\ CommitCycle(Expected(rec), Expected(rec) = cand)
    /\ rec' = RecordDispatch(rec, Expected(rec))
    /\ journal' = journal \cup {Expected(rec)}
    /\ UNCHANGED <<head, heard, pc, cand, why, lost, crashes>>

\* The persisted cursor must be the candidate's.
Complete ==
    /\ pc = "recover"
    /\ rec.through = rec.end /\ cursor = cand
    /\ rec' = [rec EXCEPT !.status = "completed"]
    /\ pc' = "idle"
    /\ UNCHANGED <<head, heard, cand, journal, cursor, ledger, entries, why, lost, crashes>>

-----------------------------------------------------------------------------
Init ==
    /\ head = 0 /\ heard = 0
    /\ pc = "down" /\ cand = 0 /\ journal = {}
    /\ cursor = 0 /\ rec = NoRecovery
    /\ ledger = <<>> /\ entries = {} /\ lost = {}
    /\ why = "none" /\ crashes = 0

WorkerStep ==
    \/ Prepare \/ DispatchSingle
    \/ BeginBackfill \/ Backfill \/ BackfillError
    \/ DispatchRecovered \/ Complete
    \/ HaltExperiment

Next ==
    \/ CloseBar \/ Crash \/ Boot
    \/ \E bar \in Deliverable : Receive(bar)
    \/ WorkerStep

Spec == Init /\ [][Next]_vars

\* The dispatcher task keeps running and the service manager restarts the
\* process; nothing makes the venue close bars or deliver them.
FairSpec == Spec /\ WF_vars(WorkerStep) /\ WF_vars(Boot)

-----------------------------------------------------------------------------
\* Cursor, journal and recovery rows have their type, and a recovery never
\* counts more attempts than GapRecoveryManager allows.
TypeOK ==
    /\ head \in 0..MaxBars /\ heard \in 0..MaxBars
    /\ pc \in Phases
    /\ cand \in 0..MaxBars
    /\ journal \subseteq Bars
    /\ cursor \in 0..MaxBars
    /\ rec \in Recoveries
    /\ ledger \in Seq(Bars)
    /\ entries \subseteq Bars /\ lost \subseteq Bars
    /\ why \in Reasons
    /\ crashes \in 0..MaxCrashes

\* The engine's docstring, "exactly-once closed-bar dispatch": through lost
\* and repeated bars, failed backfills and crashes, the committed cycles are
\* one contiguous run of bars (ClosedBarDispatchEngine, record_cursor).
Ledger == INSTANCE ClosedBarLedger
LedgerSpec == Ledger!Spec

\* A recovery that is still open always says exactly which bar is next: its
\* progress and the cursor were written together, so neither
\* _require_active_cursor_matches nor _validate_recoveries ever refuses.
\* One recorded as completed has dispatched every bar of its gap, also when a
\* crash split the work (complete, _require_caught_up).
ProgressMatchesCursor ==
    /\ Active(rec) => CursorMatches(rec, cursor)
    /\ rec.status = "completed" =>
          \A bar \in rec.start..rec.end : \E i \in DOMAIN ledger : ledger[i] = bar

\* A bar whose live delivery was lost, or whose process died before it
\* committed the cycle, never opens a position when it is recovered later:
\* recovered bars run through the normal cycle, but their observation is past
\* the decision lag (dispatch's cutoff, the observed-lag check).
NoEntryOnLostBar == entries \cap lost = {}

\* A candidate that was taken up is disposed of: its cycle is committed, or
\* the retries end and the experiment is halted, or the process was killed.
CandidateSettles ==
    pc \in {"received", "prepare", "recover"} ~> pc \in {"idle", "failed", "refused", "down"}

\* The phase-3 plan: "persists per-bar recovery progress with the cursor so a
\* mid-gap crash resumes at the first uncommitted sequence".  A resumed
\* recovery is never rejected for the bar that happened to arrive next.
InterruptedRecoveryResumes == why # "not_adjacent"
=============================================================================
