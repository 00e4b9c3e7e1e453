---------------------------- MODULE ControlPlane ----------------------------
(***************************************************************************)
(* The operator control plane of one paper experiment: the experiment      *)
(* status, the persistent kill switch (trading control), the operator      *)
(* command inbox, incidents, and the worker whose command task and         *)
(* dispatch task change them.  Every action is one database transaction.   *)
(*                                                                         *)
(* The two tasks share a serialization lock, so their transactions         *)
(* interleave but never overlap.  Market data, decisions and fills are     *)
(* abstracted to what the control plane reads: whether the account is      *)
(* flat, open, or open with a triggered exit plan.                         *)
(***************************************************************************)
EXTENDS Naturals, Sequences, FiniteSets

CONSTANTS
    Incidents,      \* incident identities
    Blocking,       \* those that are critical or require operator review
    MaxCommands,    \* bound: commands the operator requests
    MaxFaults       \* bound: process crashes and transient task failures

ASSUME ConstantsAssumption ==
    /\ Blocking \subseteq Incidents
    /\ MaxCommands \in Nat
    /\ MaxFaults \in Nat

VARIABLES
    status,         \* experiments.status
    control,        \* the TradingControlSnapshot row
    inbox,          \* operator_commands, in requested_at order
    incidents,      \* incident projection
    recovery,       \* the blocking gap recovery, if one is persisted
    exposure,       \* the paper account as the control plane sees it
    worker,         \* lifecycle phase of the worker process
    tasks,          \* tasks of that process which have not ended
    faults,         \* number of faults injected so far
    unreviewed      \* history: a halt other than a pause since the last reset

vars == <<status, control, inbox, incidents, recovery, exposure, worker, tasks,
          faults, unreviewed>>

-----------------------------------------------------------------------------
ExperimentStatus == {"created", "running", "paused", "stopped", "failed"}

CommandType == {"start", "pause", "resume", "stop", "emergency_halt", "flatten",
                "acknowledge_incident", "resolve_incident", "reset_kill_switch"}

CommandStatus == {"requested", "accepted", "completed", "rejected"}

Terminal == {"completed", "rejected"}

\* A halt reason is a prefix and the identity after the colon; identity 0
\* stands for reasons that carry none the control plane looks at.
NoReason == [by |-> "none", id |-> 0]
Reason(by, id) == [by |-> by, id |-> id]
ReasonPrefix == {"none", "operator_pause", "operator_emergency_halt",
                 "operator_flatten", "operator_stop", "paper_worker",
                 "position_protection"}
ReasonSet == [by : ReasonPrefix, id : Nat]

ControlSet == [active : BOOLEAN, reason : ReasonSet, version : Nat \ {0}]

NoIncident == "no incident"
ASSUME NoIncidentAssumption == NoIncident \notin Incidents

CommandSet ==
    [type : CommandType, seen : ControlSet, valid : BOOLEAN,
     incident : Incidents \cup {NoIncident}, status : CommandStatus]

-----------------------------------------------------------------------------
(* TradingControlSnapshot                                                   *)

InitialControl == [active |-> FALSE, reason |-> NoReason, version |-> 1]

\* Re-halting for the same reason is a no-op; any other reason overwrites it.
Halt(c, reason) ==
    IF c.active /\ c.reason = reason
    THEN c
    ELSE [active |-> TRUE, reason |-> reason, version |-> c.version + 1]

\* Mutant: the reset forgets to clear the reason.
ResetKeepingReason(c) == [c EXCEPT !.active = FALSE, !.version = @ + 1]

Reset(c) == [active |-> FALSE, reason |-> NoReason, version |-> c.version + 1]

\* The control repository: append the event, update the row.
HaltControl(by, id) ==
    /\ control' = Halt(control, Reason(by, id))
    /\ unreviewed' = (unreviewed \/ by # "operator_pause")

ResetControl == control' = Reset(control)

-----------------------------------------------------------------------------
(* ExperimentRepository: each raises when its guard fails                   *)

EnsureRunning == status \in {"created", "running"} /\ status' = "running"
PauseActive == status \in {"running", "paused"} /\ status' = "paused"
ResumePaused == status \in {"running", "paused"} /\ status' = "running"
StopActive == status \in {"running", "paused", "stopped"} /\ status' = "stopped"
FailActive == status \in {"running", "paused"} /\ status' = "failed"

-----------------------------------------------------------------------------
(* Operator command inbox                                                   *)

\* Mutant: an accepted command is no longer taken over.
ClaimableRequestedOnly(i) ==
    /\ i \in DOMAIN inbox
    /\ inbox[i].status = "requested"
    /\ \A j \in DOMAIN inbox : j < i => inbox[j].status # "requested"

\* claim_next takes an accepted command over before it accepts a requested
\* one, and requested ones in the order they were requested.
Claimable(i) ==
    /\ i \in DOMAIN inbox
    /\ \/ inbox[i].status = "accepted"
       \/ /\ inbox[i].status = "requested"
          /\ \A j \in DOMAIN inbox :
                /\ inbox[j].status # "accepted"
                /\ j < i => inbox[j].status # "requested"

Finish(i, s) == inbox' = [inbox EXCEPT ![i].status = s]

Polling == worker \in {"standby", "running", "failing"} /\ "command" \in tasks

\* The command task holds command i of type t in an open transaction.
Executing(i, t) == Polling /\ Claimable(i) /\ inbox[i].type = t

\* An exception ends the task and rolls its transaction back; the monitor
\* will find the ended task and halt the worker.
Raise(t) ==
    /\ tasks' = tasks \ {t}
    /\ worker' = "failing"

RaiseCommand ==
    /\ Raise("command")
    /\ UNCHANGED <<status, control, inbox, incidents, recovery, exposure,
                   faults, unreviewed>>

WorkerUnchanged == UNCHANGED <<worker, tasks, faults>>

Request(t, valid, inc) ==
    /\ Len(inbox) < MaxCommands
    /\ inbox' = Append(inbox, [type |-> t, seen |-> control, valid |-> valid,
                               incident |-> inc, status |-> "requested"])
    /\ UNCHANGED <<status, control, incidents, recovery, exposure, worker,
                   tasks, faults, unreviewed>>

\* POST .../commands checks only that the experiment exists; resets and
\* resumes name the control row the operator saw, incident commands an
\* incident (which need not exist), and any of those payloads may be malformed.
RequestCommand ==
    \/ \E t \in {"start", "pause", "stop", "emergency_halt", "flatten"} :
          Request(t, TRUE, NoIncident)
    \/ \E t \in {"resume", "reset_kill_switch"}, valid \in BOOLEAN :
          Request(t, valid, NoIncident)
    \/ \E t \in {"acknowledge_incident", "resolve_incident"} :
          \/ Request(t, FALSE, NoIncident)
          \/ \E inc \in Incidents : Request(t, TRUE, inc)

-----------------------------------------------------------------------------
(* OperatorCommandExecutor.execute_next, one action per command type        *)

Reject(i) ==
    /\ Finish(i, "rejected")
    /\ WorkerUnchanged
    /\ UNCHANGED <<status, control, incidents, recovery, exposure, unreviewed>>

\* Mutant: start does not look at the kill switch.
ExecuteStartUnchecked(i) ==
    /\ Executing(i, "start")
    /\ EnsureRunning
    /\ Finish(i, "completed")
    /\ worker' = IF worker = "standby" THEN "running" ELSE worker
    /\ tasks' = tasks \cup {"dispatch"}
    /\ UNCHANGED <<control, incidents, recovery, exposure, faults, unreviewed>>

ExecuteStart(i) ==
    /\ Executing(i, "start")
    /\ \/ /\ control.active
          /\ Reject(i)
       \/ /\ ~control.active
          /\ EnsureRunning
          /\ Finish(i, "completed")
          /\ IF status = "created"
             THEN /\ worker' = IF worker = "standby" THEN "running" ELSE worker
                  /\ tasks' = tasks \cup {"dispatch"}
             ELSE UNCHANGED <<worker, tasks>>
          /\ UNCHANGED <<control, incidents, recovery, exposure, faults,
                         unreviewed>>
       \/ /\ ~control.active
          /\ status \notin {"created", "running"}
          /\ RaiseCommand

\* pause and emergency_halt share one branch of the executor.
ExecuteHalt(i, t, prefix) ==
    /\ Executing(i, t)
    /\ \/ /\ HaltControl(prefix, i)
          /\ PauseActive
          /\ Finish(i, "completed")
          /\ WorkerUnchanged
          /\ UNCHANGED <<incidents, recovery, exposure>>
       \/ /\ status \notin {"running", "paused"}
          /\ RaiseCommand

ExecutePause(i) == ExecuteHalt(i, "pause", "operator_pause")
ExecuteEmergencyHalt(i) ==
    ExecuteHalt(i, "emergency_halt", "operator_emergency_halt")

\* Mutant: resume ignores the control version the operator confirmed.
ExecuteResumeUnversioned(i) ==
    /\ Executing(i, "resume")
    /\ inbox[i].valid
    /\ control.active => control.reason.by = "operator_pause"
    /\ IF control.active THEN ResetControl ELSE UNCHANGED control
    /\ ResumePaused
    /\ Finish(i, "completed")
    /\ WorkerUnchanged
    /\ UNCHANGED <<incidents, recovery, exposure, unreviewed>>

ExecuteResume(i) ==
    LET c == inbox[i]
        eligible == c.valid /\ c.seen.version = control.version
                    /\ (control.active => control.reason.by = "operator_pause")
    IN  /\ Executing(i, "resume")
        /\ \/ /\ ~eligible
              /\ Reject(i)
           \/ /\ eligible
              /\ IF control.active THEN ResetControl ELSE UNCHANGED control
              /\ ResumePaused
              /\ Finish(i, "completed")
              /\ WorkerUnchanged
              /\ UNCHANGED <<incidents, recovery, exposure, unreviewed>>
           \/ /\ eligible
              /\ status \notin {"running", "paused"}
              /\ RaiseCommand

BlockingIncidents ==
    {inc \in Blocking : incidents[inc] \in {"open", "acknowledged"}}

\* Mutant: the reset does not look at blocking recoveries.
ResetAllowedInRecovery(c) ==
    /\ c.valid
    /\ status = "paused"
    /\ control.active
    /\ c.seen.version = control.version
    /\ c.seen.reason = control.reason
    /\ exposure = "flat"
    /\ BlockingIncidents = {}

ResetAllowed(c) ==
    /\ c.valid
    /\ status = "paused"
    /\ control.active
    /\ c.seen.version = control.version
    /\ c.seen.reason = control.reason
    /\ exposure = "flat"
    /\ recovery = "none"
    /\ BlockingIncidents = {}

ExecuteReset(i) ==
    /\ Executing(i, "reset_kill_switch")
    /\ \/ /\ ~ResetAllowed(inbox[i])
          /\ Reject(i)
       \/ /\ ResetAllowed(inbox[i])
          /\ ResetControl
          /\ unreviewed' = FALSE
          /\ Finish(i, "completed")
          /\ WorkerUnchanged
          /\ UNCHANGED <<status, incidents, recovery, exposure>>

ExecuteStop(i) ==
    /\ Executing(i, "stop")
    /\ \/ /\ exposure # "flat"
          /\ Reject(i)
       \/ /\ exposure = "flat"
          /\ HaltControl("operator_stop", i)
          /\ StopActive
          /\ Finish(i, "completed")
          /\ WorkerUnchanged
          /\ UNCHANGED <<incidents, recovery, exposure>>
       \/ /\ exposure = "flat"
          /\ status \notin {"running", "paused", "stopped"}
          /\ RaiseCommand

\* Acknowledging needs an open incident, resolving one that is not resolved;
\* anything else, an unknown incident included, raises.
ExecuteIncident(i, t, from, to) ==
    LET inc == inbox[i].incident
    IN  /\ Executing(i, t)
        /\ \/ /\ ~inbox[i].valid
              /\ Reject(i)
           \/ /\ inbox[i].valid
              /\ incidents[inc] \in from
              /\ incidents' = [incidents EXCEPT ![inc] = to]
              /\ Finish(i, "completed")
              /\ WorkerUnchanged
              /\ UNCHANGED <<status, control, recovery, exposure, unreviewed>>
           \/ /\ inbox[i].valid
              /\ incidents[inc] \notin from
              /\ RaiseCommand

ExecuteAcknowledge(i) ==
    ExecuteIncident(i, "acknowledge_incident", {"open"}, "acknowledged")
ExecuteResolve(i) ==
    ExecuteIncident(i, "resolve_incident", {"open", "acknowledged"}, "resolved")

\* First poll of a flatten: trip the switch, pause, leave it accepted.
AcceptFlatten(i) ==
    /\ Executing(i, "flatten")
    /\ inbox[i].status = "requested"
    /\ \/ /\ HaltControl("operator_flatten", i)
          /\ PauseActive
          /\ Finish(i, "accepted")
          /\ WorkerUnchanged
          /\ UNCHANGED <<incidents, recovery, exposure>>
       \/ /\ status \notin {"running", "paused"}
          /\ RaiseCommand

\* Next poll: plan the exits, then persist them all with the completion.
\* Planning can fail on a triggered exit plan, a missing mark, no eligible
\* book or an unfillable exit; the command is then rejected.
CompleteFlatten(i) ==
    LET safe == /\ status = "paused"
                /\ control.active
                /\ control.reason = Reason("operator_flatten", i)
    IN  /\ Executing(i, "flatten")
        /\ inbox[i].status = "accepted"
        /\ \/ /\ exposure # "flat"
              /\ Reject(i)
           \/ /\ exposure # "triggered"
              /\ safe
              /\ exposure' = "flat"
              /\ Finish(i, "completed")
              /\ WorkerUnchanged
              /\ UNCHANGED <<status, control, incidents, recovery, unreviewed>>
           \/ /\ exposure # "triggered"
              /\ ~safe
              /\ RaiseCommand

-----------------------------------------------------------------------------
(* The dispatch task: what market events do to the shared state             *)

Dispatching == worker \in {"running", "failing"} /\ "dispatch" \in tasks

RaiseDispatch ==
    /\ Raise("dispatch")
    /\ UNCHANGED <<status, control, inbox, incidents, exposure, faults,
                   unreviewed>>

DispatchUnchanged == WorkerUnchanged /\ UNCHANGED inbox

\* Mutant: the entry context does not read the kill switch.
DispatchEntryUnchecked ==
    /\ Dispatching
    /\ exposure = "flat"
    /\ exposure' = "open"
    /\ DispatchUnchanged
    /\ UNCHANGED <<status, control, incidents, recovery, unreviewed>>

\* A closed bar whose cycle is approved opens a position.  The entry context
\* reads the kill switch and not the experiment status.
DispatchEntry ==
    /\ Dispatching
    /\ ~control.active
    /\ exposure = "flat"
    /\ exposure' = "open"
    /\ DispatchUnchanged
    /\ UNCHANGED <<status, control, incidents, recovery, unreviewed>>

\* A cycle that fails inside is persisted with a critical incident and
\* touches neither the kill switch nor the experiment.
DispatchIncident(inc) ==
    /\ Dispatching
    /\ incidents[inc] = "absent"
    /\ incidents' = [incidents EXCEPT ![inc] = "open"]
    /\ DispatchUnchanged
    /\ UNCHANGED <<status, control, recovery, exposure, unreviewed>>

\* A mark at stop or target, or the retry of a triggered exit, is filled.
ProtectiveExit ==
    /\ Dispatching
    /\ exposure \in {"open", "triggered"}
    /\ exposure' = "flat"
    /\ DispatchUnchanged
    /\ UNCHANGED <<status, control, incidents, recovery, unreviewed>>

\* The exit cannot be filled: the triggered plan, the incident, the halt and
\* the failed experiment are one transaction.
ProtectiveHalt(inc) ==
    /\ Dispatching
    /\ exposure \in {"open", "triggered"}
    /\ inc \in Blocking /\ incidents[inc] = "absent"
    /\ exposure' = "triggered"
    /\ incidents' = [incidents EXCEPT ![inc] = "open"]
    /\ HaltControl("position_protection", 0)
    /\ FailActive
    /\ DispatchUnchanged
    /\ UNCHANGED recovery

\* The same transaction rolls back when the control row is newer than the
\* mark, or when the experiment already failed for another reason.  A bar
\* dispatched next to a triggered plan raises as well.
ProtectiveRaise ==
    /\ Dispatching
    /\ \/ exposure = "open" /\ control.version > 1
       \/ exposure = "triggered"
    /\ RaiseDispatch
    /\ UNCHANGED recovery

\* Gap recovery fails for good after its last attempt, an interrupted one is
\* completed, or the live bar does not match the interrupted one.
RecoveryFailed ==
    /\ Dispatching
    /\ recovery' = "failed"
    /\ RaiseDispatch

RecoveryResumed ==
    /\ Dispatching
    /\ recovery = "active"
    /\ \/ /\ recovery' = "none"
          /\ DispatchUnchanged
          /\ UNCHANGED <<status, control, incidents, exposure, unreviewed>>
       \/ /\ recovery' = recovery
          /\ RaiseDispatch

-----------------------------------------------------------------------------
(* The worker process                                                       *)

Fault == faults < MaxFaults /\ faults' = faults + 1

\* Bootstrap refuses a failed recovery.  Start-up halts on a triggered exit
\* plan and on an experiment that has ended.
StartWorker ==
    /\ worker = "down"
    /\ recovery # "failed"
    /\ \/ /\ exposure = "triggered" \/ status \in {"stopped", "failed"}
          /\ worker' = "failing"
          /\ tasks' = {}
       \/ /\ exposure # "triggered" /\ status = "created"
          /\ worker' = "standby"
          /\ tasks' = {"command"}
       \/ /\ exposure # "triggered" /\ status \in {"running", "paused"}
          /\ worker' = "running"
          /\ tasks' = {"command", "dispatch"}
    /\ UNCHANGED <<status, control, inbox, incidents, recovery, exposure,
                   faults, unreviewed>>

\* stop(): after a completed stop command, or on a termination signal.
StopWorker ==
    /\ worker \in {"standby", "running"}
    /\ (status = "stopped" /\ UNCHANGED faults) \/ Fault
    /\ worker' = "down"
    /\ tasks' = {}
    /\ UNCHANGED <<status, control, inbox, incidents, recovery, exposure,
                   unreviewed>>

\* _halt(): one transaction fails the experiment and trips the switch.
HaltWorker ==
    /\ worker = "failing"
    /\ \/ FailActive
       \/ status \notin {"running", "paused"} /\ UNCHANGED status
    /\ HaltControl("paper_worker", 0)
    /\ worker' = "down"
    /\ tasks' = {}
    /\ UNCHANGED <<inbox, incidents, recovery, exposure, faults>>

\* The process dies, or _halt() cannot persist; a recovery may be under way.
Crash ==
    /\ worker # "down"
    /\ Fault
    /\ worker' = "down"
    /\ tasks' = {}
    /\ recovery' \in {recovery} \cup
           (IF Dispatching /\ recovery = "none" THEN {"active"} ELSE {})
    /\ UNCHANGED <<status, control, inbox, incidents, exposure, unreviewed>>

\* Heartbeat, checkpoint, ingest or a database error ends a task.
TaskFailure ==
    /\ worker \in {"standby", "running"}
    /\ Fault
    /\ worker' = "failing"
    /\ \E t \in {"command", "dispatch", "other"} : tasks' = tasks \ {t}
    /\ UNCHANGED <<status, control, inbox, incidents, recovery, exposure,
                   unreviewed>>

-----------------------------------------------------------------------------
Init ==
    /\ status = "created"
    /\ control = InitialControl
    /\ inbox = <<>>
    /\ incidents = [inc \in Incidents |-> "absent"]
    /\ recovery = "none"
    /\ exposure = "flat"
    /\ worker = "down"
    /\ tasks = {}
    /\ faults = 0
    /\ unreviewed = FALSE

Poll(i) ==
    \/ ExecuteStart(i)
    \/ ExecutePause(i)
    \/ ExecuteEmergencyHalt(i)
    \/ ExecuteResume(i)
    \/ ExecuteReset(i)
    \/ ExecuteStop(i)
    \/ ExecuteAcknowledge(i)
    \/ ExecuteResolve(i)
    \/ AcceptFlatten(i)
    \/ CompleteFlatten(i)

Dispatch ==
    \/ DispatchEntry
    \/ \E inc \in Incidents : DispatchIncident(inc)
    \/ ProtectiveExit
    \/ \E inc \in Incidents : ProtectiveHalt(inc)
    \/ ProtectiveRaise
    \/ RecoveryFailed
    \/ RecoveryResumed

Next ==
    \/ RequestCommand
    \/ \E i \in 1..MaxCommands : Poll(i)
    \/ Dispatch
    \/ StartWorker
    \/ StopWorker
    \/ HaltWorker
    \/ Crash
    \/ TaskFailure

Spec == Init /\ [][Next]_vars

\* The poll loop sleeps a fixed interval between polls, the monitor halts a
\* worker whose task ended, and the service manager restarts a worker.
FairSpec ==
    /\ Spec
    /\ WF_vars(\E i \in 1..MaxCommands : Poll(i))
    /\ WF_vars(HaltWorker)
    /\ WF_vars(StartWorker)

-----------------------------------------------------------------------------
(* Properties                                                               *)

\* Every row the control plane persists is well formed; the kill switch carries
\* a reason exactly when it is active, as TradingControlSnapshot demands.
TypeOK ==
    /\ status \in ExperimentStatus
    /\ control \in ControlSet
    /\ control.active <=> control.reason # NoReason
    /\ inbox \in Seq(CommandSet)
    /\ incidents \in [Incidents -> {"absent", "open", "acknowledged", "resolved"}]
    /\ recovery \in {"none", "active", "failed"}
    /\ exposure \in {"flat", "open", "triggered"}
    /\ worker \in {"down", "standby", "running", "failing"}
    /\ tasks \subseteq {"command", "dispatch"}
    /\ faults \in 0..MaxFaults
    /\ unreviewed \in BOOLEAN

\* A running experiment never has its kill switch set, an ended one never has it
\* clear and a stopped one holds no position, whatever commands, protective
\* halts, worker halts, crashes and restarts came before (execute_next,
\* record_protection_outcome, _halt).
ControlMatchesStatus ==
    /\ status = "running" => ~control.active
    /\ status \in {"stopped", "failed"} => control.active
    /\ status = "stopped" => exposure = "flat"

\* Once a flatten is completed the account stays flat for as long as that
\* flatten is what holds the kill switch (_complete_flatten, entry context).
CompletedFlattenStaysFlat ==
    \A i \in DOMAIN inbox :
        /\ inbox[i].type = "flatten" /\ inbox[i].status = "completed"
        /\ control.active /\ control.reason = Reason("operator_flatten", i)
        => exposure = "flat"

\* Between the two polls of a flatten no other command can replace its halt
\* or leave the paused state: only a failure of the experiment can.  This is
\* why "flatten safety state changed before persistence" never meets a live
\* experiment, and why two flattens are never accepted together.
AcceptedFlattenHoldsSwitch ==
    \A i \in DOMAIN inbox :
        inbox[i].status = "accepted" =>
            /\ inbox[i].type = "flatten"
            /\ \A j \in DOMAIN inbox : inbox[j].status = "accepted" => j = i
            /\ \/ /\ status = "paused"
                  /\ control.active
                  /\ control.reason = Reason("operator_flatten", i)
               \/ status = "failed"

\* The kill switch is cleared only in a paused experiment, and a halt other
\* than a pause only over a flat account with no blocking recovery and no
\* unresolved review incident, leaving the experiment paused.
ReleaseOnlyWhenSafe ==
    [][control.active /\ ~control'.active =>
          /\ status = "paused"
          /\ control.reason.by # "operator_pause" =>
                /\ exposure = "flat"
                /\ recovery = "none"
                /\ BlockingIncidents = {}
                /\ status' = "paused"]_vars

\* A control version names one control row: a command that quotes the current
\* version was requested while exactly the current row was in force.  This is
\* what makes the version check of a resume enough to name the reason too.
SeenIsHistory ==
    \A i \in DOMAIN inbox :
        /\ inbox[i].seen.version <= control.version
        /\ inbox[i].seen.version = control.version => inbox[i].seen = control

\* A resume or a reset confirmed against one halt never clears a later one:
\* what is cleared is the very control row the operator saw when confirming
\* (expected_control_version), even after further halts and resets.
ReleaseClearsWhatWasSeen ==
    [][control.active /\ ~control'.active =>
          \E i \in DOMAIN inbox :
              /\ inbox'[i].status = "completed"
              /\ inbox[i].status # "completed"
              /\ inbox[i].seen = control]_vars

StatusOf(i) == IF i \in DOMAIN inbox THEN inbox[i].status ELSE "absent"


\* "resume cannot clear an emergency or system halt" (the executor's own
\* rejection text): no resume reopens entries while an emergency, flatten or
\* system halt has not been through a kill-switch reset.
ResumeNeverClearsEmergency ==
    [][control.active /\ ~control'.active /\ status' = "running"
          => ~unreviewed]_vars

\* "observe the record until it reaches completed or rejected": every
\* requested command is eventually finished by a worker that keeps polling.
CommandsFinish ==
    \A i \in 1..MaxCommands :
        StatusOf(i) = "requested" ~> StatusOf(i) \in Terminal

\* A reset "stays paused" and it is resume that "reopens entries": a paused
\* experiment opens no position.
PausedOpensNothing ==
    [][exposure = "flat" /\ exposure' = "open" => status = "running"]_vars
=============================================================================
