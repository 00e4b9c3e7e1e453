------------------------- MODULE ControlPlaneProofs -------------------------
(***************************************************************************)
(* Proofs about the operator control plane, for any number of commands,    *)
(* incidents and faults.                                                   *)
(***************************************************************************)
EXTENDS ControlPlane, SequenceTheorems, TLAPS

\* What the control row looks like after a halt and after a reset.
LEMMA HaltLemma ==
    ASSUME NEW c \in ControlSet, NEW r \in ReasonSet
    PROVE  /\ Halt(c, r) \in ControlSet
           /\ Halt(c, r).active
           /\ Halt(c, r).reason = r
           /\ Halt(c, r) = c \/ Halt(c, r).version = c.version + 1
BY DEF Halt, ControlSet

\* A reset clears the switch and its reason and takes a new version.
LEMMA ResetLemma ==
    ASSUME NEW c \in ControlSet
    PROVE  /\ Reset(c) \in ControlSet
           /\ ~Reset(c).active
           /\ Reset(c).reason = NoReason
           /\ Reset(c).version = c.version + 1
BY DEF Reset, ControlSet, ReasonSet, ReasonPrefix, NoReason

\* The reasons the code writes are never the empty reason.
LEMMA ReasonLemma ==
    ASSUME NEW by \in ReasonPrefix \ {"none"}, NEW id \in Nat
    PROVE  Reason(by, id) \in ReasonSet /\ Reason(by, id) # NoReason
BY DEF Reason, ReasonSet, NoReason

\* Requesting and finishing commands keep the inbox a sequence of commands.
LEMMA RequestLemma ==
    ASSUME TypeOK,
           NEW t \in CommandType, NEW v \in BOOLEAN,
           NEW inc \in Incidents \cup {NoIncident},
           Request(t, v, inc)
    PROVE  inbox' \in Seq(CommandSet)
<1> DEFINE c == [type |-> t, seen |-> control, valid |-> v,
                 incident |-> inc, status |-> "requested"]
<1>1. c \in CommandSet
    BY DEF TypeOK, CommandSet, CommandStatus
<1>2. inbox' = Append(inbox, c)
    BY DEF Request
<1> QED
    BY <1>1, <1>2, AppendProperties DEF TypeOK

\* Finishing command i changes the status of i and nothing else in the inbox.
LEMMA FinishLemma ==
    ASSUME TypeOK, NEW i \in DOMAIN inbox, NEW s \in CommandStatus,
           Finish(i, s)
    PROVE  /\ inbox' \in Seq(CommandSet)
           /\ DOMAIN inbox' = DOMAIN inbox
           /\ \A j \in DOMAIN inbox :
                 /\ inbox'[j].type = inbox[j].type
                 /\ inbox'[j].seen = inbox[j].seen
                 /\ inbox'[j].status = IF j = i THEN s ELSE inbox[j].status
<1>1. inbox[i] \in CommandSet
    BY DEF TypeOK
<1>2. [inbox[i] EXCEPT !.status = s] \in CommandSet
    BY <1>1 DEF CommandSet
<1>3. inbox' \in Seq(CommandSet) /\ DOMAIN inbox' = DOMAIN inbox
    BY <1>2, ExceptSeq DEF Finish, TypeOK
<1>4. \A j \in DOMAIN inbox : inbox[j] \in CommandSet
    BY DEF TypeOK
<1> QED
    BY <1>3, <1>4 DEF Finish, CommandSet

-----------------------------------------------------------------------------
\* The helper operators every action is made of.
USE DEF Executing, Polling, Claimable, Reject, WorkerUnchanged, RaiseCommand,
        RaiseDispatch, Raise, DispatchUnchanged, Dispatching, HaltControl,
        ResetControl, EnsureRunning, PauseActive, ResumePaused, StopActive,
        FailActive

\* The control row is the same, freshly halted, or freshly reset.
ControlStep ==
    \/ control' = control
    \/ \E by \in ReasonPrefix \ {"none"}, id \in Nat :
          control' = Halt(control, Reason(by, id))
    \/ control' = Reset(control)

\* The inbox is the same, has one command more, or one command changed status.
InboxStep ==
    \/ inbox' = inbox
    \/ \E t \in CommandType, v \in BOOLEAN, inc \in Incidents \cup {NoIncident} :
          Request(t, v, inc)
    \/ \E i \in DOMAIN inbox, s \in CommandStatus : Finish(i, s)

\* Every poll changes the control row and the inbox in one of those ways.
LEMMA PollStep ==
    ASSUME NEW i \in 1..MaxCommands, Poll(i), TypeOK
    PROVE  ControlStep /\ InboxStep
<1> USE DEF ControlStep, InboxStep, CommandStatus, ReasonPrefix, ExecuteHalt,
            ExecuteIncident
<1>0. i \in Nat
    BY ConstantsAssumption
<1>1. CASE ExecuteStart(i)
    BY <1>1 DEF ExecuteStart
<1>2. CASE ExecutePause(i)
    BY <1>0, <1>2 DEF ExecutePause
<1>3. CASE ExecuteEmergencyHalt(i)
    BY <1>0, <1>3 DEF ExecuteEmergencyHalt
<1>4. CASE ExecuteResume(i)
    BY <1>4 DEF ExecuteResume
<1>5. CASE ExecuteReset(i)
    BY <1>5 DEF ExecuteReset
<1>6. CASE ExecuteStop(i)
    BY <1>0, <1>6 DEF ExecuteStop
<1>7. CASE ExecuteAcknowledge(i)
    BY <1>7 DEF ExecuteAcknowledge
<1>8. CASE ExecuteResolve(i)
    BY <1>8 DEF ExecuteResolve
<1>9. CASE AcceptFlatten(i)
    BY <1>0, <1>9 DEF AcceptFlatten
<1>10. CASE CompleteFlatten(i)
    BY <1>10 DEF CompleteFlatten
<1> QED
    BY <1>1, <1>2, <1>3, <1>4, <1>5, <1>6, <1>7, <1>8, <1>9, <1>10 DEF Poll

\* And so does every other step.
LEMMA NextStep ==
    ASSUME Next, TypeOK
    PROVE  ControlStep /\ InboxStep
<1> USE DEF ControlStep, InboxStep
<1>1. CASE RequestCommand
    <2>1. control' = control
        BY <1>1 DEF RequestCommand, Request
    <2>2. InboxStep
        BY <1>1 DEF RequestCommand, CommandType
    <2> QED
        BY <2>1, <2>2
<1>2. CASE \E i \in 1..MaxCommands : Poll(i)
    BY <1>2, PollStep
<1>3. CASE Dispatch
    <2>1. CASE \E inc \in Incidents : ProtectiveHalt(inc)
        BY <2>1 DEF ProtectiveHalt, ReasonPrefix
    <2> QED
        BY <1>3, <2>1 DEF Dispatch, DispatchEntry, DispatchIncident, ProtectiveExit,
           ProtectiveRaise, RecoveryFailed, RecoveryResumed
<1>4. CASE HaltWorker
    BY <1>4 DEF HaltWorker, ReasonPrefix
<1>5. CASE StartWorker \/ StopWorker \/ Crash \/ TaskFailure
    BY <1>5 DEF StartWorker, StopWorker, Crash, TaskFailure
<1> QED
    BY <1>1, <1>2, <1>3, <1>4, <1>5 DEF Next

\* Such a step keeps the control row well formed and never reuses a version.
LEMMA ControlType ==
    ASSUME TypeOK, ControlStep
    PROVE  /\ control' \in ControlSet
           /\ control'.active <=> control'.reason # NoReason
           /\ \/ control' = control
              \/ control'.version = control.version + 1
<1>1. CASE control' = control
    BY <1>1 DEF TypeOK
<1>2. CASE control' = Reset(control)
    BY <1>2, ResetLemma DEF TypeOK
<1>3. ASSUME NEW by \in ReasonPrefix \ {"none"}, NEW id \in Nat,
             control' = Halt(control, Reason(by, id))
      PROVE  /\ control' \in ControlSet
             /\ control'.active <=> control'.reason # NoReason
             /\ control' = control \/ control'.version = control.version + 1
    <2> DEFINE r == Reason(by, id)
    <2>1. r \in ReasonSet /\ r # NoReason
        BY ReasonLemma
    <2>2. control \in ControlSet
        BY DEF TypeOK
    <2> HIDE DEF r
    <2>3. /\ Halt(control, r) \in ControlSet
          /\ Halt(control, r).active
          /\ Halt(control, r).reason = r
          /\ Halt(control, r) = control \/ Halt(control, r).version = control.version + 1
        BY <2>1, <2>2, HaltLemma
    <2>4. control' = Halt(control, r)
        BY <1>3 DEF r
    <2> QED
        BY <2>1, <2>3, <2>4
<1> QED
    BY <1>1, <1>2, <1>3 DEF ControlStep

\* Such a step keeps the inbox a sequence of commands.
LEMMA InboxType ==
    ASSUME TypeOK, InboxStep
    PROVE  inbox' \in Seq(CommandSet)
BY RequestLemma, FinishLemma DEF InboxStep, TypeOK

\* Every step preserves the type invariant.
LEMMA TypeStep ==
    ASSUME TypeOK, [Next]_vars
    PROVE  TypeOK'
<1>1. CASE UNCHANGED vars
    BY <1>1 DEF TypeOK, vars
<1>2. CASE Next
    <2>1. control' \in ControlSet /\ (control'.active <=> control'.reason # NoReason)
        BY <1>2, NextStep, ControlType
    <2>2. inbox' \in Seq(CommandSet)
        BY <1>2, NextStep, InboxType
    <2> DEFINE Rest ==
            /\ status \in ExperimentStatus
            /\ incidents \in [Incidents -> {"absent", "open", "acknowledged", "resolved"}]
            /\ recovery \in {"none", "active", "failed"}
            /\ exposure \in {"flat", "open", "triggered"}
            /\ worker \in {"down", "standby", "running", "failing"}
            /\ tasks \subseteq {"command", "dispatch"}
            /\ faults \in 0..MaxFaults
            /\ unreviewed \in BOOLEAN
    <2>3. Rest
        BY DEF TypeOK
    <2>4. Rest'
        <3> USE <2>3 DEF ExperimentStatus
        <3>1. CASE RequestCommand
            <4> DEFINE Same == UNCHANGED <<status, incidents, recovery, exposure,
                                           worker, tasks, faults, unreviewed>>
            <4>1. ASSUME NEW t, NEW v, NEW inc, Request(t, v, inc)
                  PROVE  Same
                BY <4>1 DEF Request
            <4> HIDE DEF Same
            <4>2. Same
                BY <3>1, <4>1, Zenon DEF RequestCommand
            <4> QED
                BY <4>2, Zenon DEF Same
        <3>2. ASSUME NEW i \in 1..MaxCommands, Poll(i)
              PROVE  Rest'
            <4>1. CASE ExecuteStart(i)
                BY <4>1 DEF ExecuteStart
            <4>2. CASE ExecutePause(i) \/ ExecuteEmergencyHalt(i)
                BY <4>2 DEF ExecutePause, ExecuteEmergencyHalt, ExecuteHalt
            <4>3. CASE ExecuteResume(i)
                BY <4>3 DEF ExecuteResume
            <4>4. CASE ExecuteReset(i)
                BY <4>4 DEF ExecuteReset
            <4>5. CASE ExecuteStop(i)
                BY <4>5 DEF ExecuteStop
            <4>6. CASE ExecuteAcknowledge(i) \/ ExecuteResolve(i)
                BY <4>6 DEF ExecuteAcknowledge, ExecuteResolve, ExecuteIncident
            <4>7. CASE AcceptFlatten(i)
                BY <4>7 DEF AcceptFlatten
            <4>8. CASE CompleteFlatten(i)
                BY <4>8 DEF CompleteFlatten
            <4> QED
                BY <3>2, <4>1, <4>2, <4>3, <4>4, <4>5, <4>6, <4>7, <4>8 DEF Poll
        <3>3. CASE Dispatch
            BY <3>3 DEF Dispatch, DispatchEntry, DispatchIncident, ProtectiveExit,
               ProtectiveHalt, ProtectiveRaise, RecoveryFailed, RecoveryResumed
        <3>4. CASE HaltWorker
            BY <3>4 DEF HaltWorker
        <3>5. CASE StartWorker
            BY <3>5 DEF StartWorker
        <3>6. CASE StopWorker
            BY <3>6, ConstantsAssumption DEF StopWorker, Fault
        <3>7. CASE Crash
            BY <3>7, ConstantsAssumption DEF Crash, Fault
        <3>8. CASE TaskFailure
            BY <3>8, ConstantsAssumption DEF TaskFailure, Fault
        <3> QED
            BY <1>2, <3>1, <3>2, <3>3, <3>4, <3>5, <3>6, <3>7, <3>8 DEF Next
    <2> QED
        BY <2>1, <2>2, <2>4 DEF TypeOK
<1> QED
    BY <1>1, <1>2

\* A freshly created experiment satisfies the type invariant.
LEMMA TypeInit == ASSUME Init PROVE TypeOK
<1>1. control \in ControlSet /\ (control.active <=> control.reason # NoReason)
    BY DEF Init, InitialControl, ControlSet, ReasonSet, ReasonPrefix, NoReason
<1>2. inbox \in Seq(CommandSet)
    BY DEF Init
<1>3. /\ incidents \in [Incidents -> {"absent", "open", "acknowledged", "resolved"}]
      /\ tasks \subseteq {"command", "dispatch"}
      /\ faults \in 0..MaxFaults
    BY ConstantsAssumption DEF Init
<1>4. /\ status \in ExperimentStatus
      /\ recovery \in {"none", "active", "failed"}
      /\ exposure \in {"flat", "open", "triggered"}
      /\ worker \in {"down", "standby", "running", "failing"}
      /\ unreviewed \in BOOLEAN
    BY DEF Init, ExperimentStatus
<1> QED
    BY <1>1, <1>2, <1>3, <1>4 DEF TypeOK

\* Every reachable state is well formed, and the kill switch carries a reason
\* exactly when it is set (TradingControlSnapshot.__post_init__).
THEOREM TypeCorrect == Spec => []TypeOK
<1>1. Init => TypeOK
    BY TypeInit
<1>2. TypeOK /\ [Next]_vars => TypeOK'
    BY TypeStep
<1> QED
    BY <1>1, <1>2, PTL DEF Spec

-----------------------------------------------------------------------------
\* A halt leaves the switch set for the given reason, a reset clears it.
LEMMA HaltControlLemma ==
    ASSUME TypeOK, NEW by \in ReasonPrefix \ {"none"}, NEW id \in Nat,
           control' = Halt(control, Reason(by, id))
    PROVE  control'.active /\ control'.reason = Reason(by, id)
<1> DEFINE r == Reason(by, id)
<1>1. r \in ReasonSet
    BY ReasonLemma
<1>2. control \in ControlSet
    BY DEF TypeOK
<1>3. control' = Halt(control, r)
    OBVIOUS
<1> HIDE DEF r
<1>4. control'.active /\ control'.reason = r
    BY <1>1, <1>2, <1>3, HaltLemma
<1> QED
    BY <1>4 DEF r

\* The repository reset leaves the switch clear.
LEMMA ResetControlLemma ==
    ASSUME TypeOK, ResetControl
    PROVE  ~control'.active
BY ResetLemma DEF TypeOK

\* What a poll does to status, switch and account, command by command.
LEMMA PollEffect ==
    ASSUME TypeOK, NEW i \in 1..MaxCommands, Poll(i)
    PROVE  \/ UNCHANGED <<status, control, exposure>>
           \/ ~control.active /\ status' = "running" /\ UNCHANGED <<control, exposure>>
           \/ status' = "paused" /\ control'.active /\ status \in {"running", "paused"}
              /\ UNCHANGED exposure
           \/ status' = "running" /\ ~control'.active /\ status \in {"running", "paused"}
              /\ UNCHANGED exposure
           \/ status' = "paused" /\ ~control'.active /\ status = "paused"
              /\ UNCHANGED exposure
           \/ status' = "stopped" /\ control'.active /\ exposure = "flat"
              /\ UNCHANGED exposure
           \/ UNCHANGED <<status, control>> /\ exposure' = "flat" /\ status = "paused"
<1>0. i \in Nat
    BY ConstantsAssumption
<1>1. CASE ExecuteStart(i)
    BY <1>1 DEF ExecuteStart
<1>2. CASE ExecutePause(i)
    BY <1>0, <1>2, HaltControlLemma DEF ExecutePause, ExecuteHalt, ReasonPrefix
<1>3. CASE ExecuteEmergencyHalt(i)
    BY <1>0, <1>3, HaltControlLemma DEF ExecuteEmergencyHalt, ExecuteHalt, ReasonPrefix
<1>4. CASE ExecuteResume(i)
    BY <1>4, ResetControlLemma DEF ExecuteResume
<1>5. CASE ExecuteReset(i)
    BY <1>5, ResetControlLemma DEF ExecuteReset, ResetAllowed
<1>6. CASE ExecuteStop(i)
    BY <1>0, <1>6, HaltControlLemma DEF ExecuteStop, ReasonPrefix
<1>7. CASE ExecuteAcknowledge(i) \/ ExecuteResolve(i)
    BY <1>7 DEF ExecuteAcknowledge, ExecuteResolve, ExecuteIncident
<1>8. CASE AcceptFlatten(i)
    BY <1>0, <1>8, HaltControlLemma DEF AcceptFlatten, ReasonPrefix
<1>9. CASE CompleteFlatten(i)
    BY <1>9 DEF CompleteFlatten
<1> QED
    BY <1>1, <1>2, <1>3, <1>4, <1>5, <1>6, <1>7, <1>8, <1>9 DEF Poll

\* The same for every step that is not a poll.
LEMMA OtherEffect ==
    ASSUME TypeOK, Next, ~\E i \in 1..MaxCommands : Poll(i)
    PROVE  /\ \/ UNCHANGED <<status, control>>
              \/ control'.active /\ status' = "failed" /\ status \in {"running", "paused"}
              \/ control'.active /\ UNCHANGED <<status, exposure>>
                 /\ status \notin {"running", "paused"}
           /\ \/ exposure' = exposure
              \/ exposure' = "flat"
              \/ exposure' = "open" /\ ~control.active
              \/ exposure' = "triggered" /\ exposure # "flat" /\ status' = "failed"
<1>1. CASE RequestCommand
    BY <1>1 DEF RequestCommand, Request
<1>2. CASE \E inc \in Incidents : ProtectiveHalt(inc)
    BY <1>2, HaltControlLemma DEF ProtectiveHalt, ReasonPrefix
<1>3. CASE Dispatch /\ ~\E inc \in Incidents : ProtectiveHalt(inc)
    BY <1>3 DEF Dispatch, DispatchEntry, DispatchIncident, ProtectiveExit,
       ProtectiveRaise, RecoveryFailed, RecoveryResumed
<1>4. CASE HaltWorker
    BY <1>4, HaltControlLemma DEF HaltWorker, ReasonPrefix
<1>5. CASE StartWorker \/ StopWorker \/ Crash \/ TaskFailure
    BY <1>5 DEF StartWorker, StopWorker, Crash, TaskFailure
<1> QED
    BY <1>1, <1>2, <1>3, <1>4, <1>5 DEF Next, Dispatch

\* Status, switch and account stay consistent over every step.
LEMMA StatusStep ==
    ASSUME TypeOK, ControlMatchesStatus, [Next]_vars
    PROVE  ControlMatchesStatus'
<1> USE DEF ControlMatchesStatus
<1>1. CASE UNCHANGED vars
    BY <1>1 DEF vars
<1>2. CASE \E i \in 1..MaxCommands : Poll(i)
    BY <1>2, PollEffect
<1>3. CASE Next /\ ~\E i \in 1..MaxCommands : Poll(i)
    BY <1>3, OtherEffect DEF TypeOK
<1> QED
    BY <1>1, <1>2, <1>3

-----------------------------------------------------------------------------
\* Requesting a command leaves every earlier one alone; the new one is not yet
\* accepted and quotes the control row in force.
LEMMA RequestElements ==
    ASSUME TypeOK, RequestCommand
    PROVE  \A j \in DOMAIN inbox' :
              \/ j \in DOMAIN inbox /\ inbox'[j] = inbox[j]
              \/ inbox'[j].status = "requested" /\ inbox'[j].seen = control
<1>1. PICK t \in CommandType, v \in BOOLEAN, inc \in Incidents \cup {NoIncident} :
          Request(t, v, inc)
    BY DEF RequestCommand, CommandType
<1> DEFINE c == [type |-> t, seen |-> control, valid |-> v,
                 incident |-> inc, status |-> "requested"]
<1>2. c \in CommandSet
    BY DEF TypeOK, CommandSet, CommandStatus
<1>3. inbox' = Append(inbox, c)
    BY <1>1 DEF Request
<1>4. c.status = "requested" /\ c.seen = control
    OBVIOUS
<1>5. inbox \in Seq(CommandSet)
    BY DEF TypeOK
<1> HIDE DEF c
<1> QED
    BY <1>2, <1>3, <1>4, <1>5, AppendProperties

\* What a poll of command i does to the inbox and to the switch.
LEMMA PollInbox ==
    ASSUME TypeOK, NEW i \in 1..MaxCommands, Poll(i)
    PROVE  /\ Claimable(i)
           /\ \/ UNCHANGED <<status, control, inbox, exposure>>
              \/ /\ Finish(i, "accepted")
                 /\ inbox[i].type = "flatten"
                 /\ status' = "paused" /\ control'.active
                 /\ control'.reason = Reason("operator_flatten", i)
              \/ /\ Finish(i, "completed") \/ Finish(i, "rejected")
                 /\ \/ control' = control
                    \/ ~control'.active
                    \/ \E by \in ReasonPrefix : control'.reason = Reason(by, i)
                 /\ exposure' \in {exposure, "flat"}
                 /\ Finish(i, "completed") /\ inbox[i].type = "flatten"
                    => exposure' = "flat"
<1> USE DEF ExecuteHalt, ExecuteIncident, ReasonPrefix
<1>0. i \in Nat
    BY ConstantsAssumption
<1>a. ASSUME Finish(i, "rejected"), i \in DOMAIN inbox
      PROVE  ~Finish(i, "completed")
    <2>1. inbox'[i].status = "rejected"
        BY <1>a, FinishLemma DEF CommandStatus
    <2>2. Finish(i, "completed") => inbox'[i].status = "completed"
        BY <1>a, FinishLemma DEF CommandStatus
    <2> QED
        BY <2>1, <2>2
<1> USE <1>a
<1>1. CASE ExecuteStart(i)
    BY <1>1 DEF ExecuteStart
<1>2. CASE ExecutePause(i)
    BY <1>0, <1>2, HaltControlLemma DEF ExecutePause
<1>3. CASE ExecuteEmergencyHalt(i)
    BY <1>0, <1>3, HaltControlLemma DEF ExecuteEmergencyHalt
<1>4. CASE ExecuteResume(i)
    BY <1>4, ResetControlLemma DEF ExecuteResume
<1>5. CASE ExecuteReset(i)
    BY <1>5, ResetControlLemma DEF ExecuteReset
<1>6. CASE ExecuteStop(i)
    BY <1>0, <1>6, HaltControlLemma DEF ExecuteStop
<1>7. CASE ExecuteAcknowledge(i) \/ ExecuteResolve(i)
    BY <1>7 DEF ExecuteAcknowledge, ExecuteResolve
<1>8. CASE AcceptFlatten(i)
    BY <1>0, <1>8, HaltControlLemma DEF AcceptFlatten
<1>9. CASE CompleteFlatten(i)
    BY <1>9 DEF CompleteFlatten
<1> QED
    BY <1>1, <1>2, <1>3, <1>4, <1>5, <1>6, <1>7, <1>8, <1>9 DEF Poll

\* Steps other than polls and requests leave the inbox alone and halt only for
\* the worker or for position protection.
LEMMA OtherInbox ==
    ASSUME TypeOK, Next, ~\E i \in 1..MaxCommands : Poll(i)
    PROVE  \/ RequestCommand /\ UNCHANGED <<status, control, exposure>>
           \/ /\ inbox' = inbox
              /\ \/ control' = control
                 \/ \E by \in {"paper_worker", "position_protection"} :
                       control'.reason = Reason(by, 0)
<1>1. CASE RequestCommand
    BY <1>1 DEF RequestCommand, Request
<1>2. CASE \E inc \in Incidents : ProtectiveHalt(inc)
    BY <1>2, HaltControlLemma DEF ProtectiveHalt, ReasonPrefix
<1>3. CASE Dispatch /\ ~\E inc \in Incidents : ProtectiveHalt(inc)
    BY <1>3 DEF Dispatch, DispatchEntry, DispatchIncident, ProtectiveExit,
       ProtectiveRaise, RecoveryFailed, RecoveryResumed
<1>4. CASE HaltWorker
    BY <1>4, HaltControlLemma DEF HaltWorker, ReasonPrefix
<1>5. CASE StartWorker \/ StopWorker \/ Crash \/ TaskFailure
    BY <1>5 DEF StartWorker, StopWorker, Crash, TaskFailure
<1> QED
    BY <1>1, <1>2, <1>3, <1>4, <1>5 DEF Next, Dispatch

-----------------------------------------------------------------------------
\* The accepted flatten keeps its halt over every step.
LEMMA AcceptedStep ==
    ASSUME TypeOK, AcceptedFlattenHoldsSwitch, [Next]_vars
    PROVE  AcceptedFlattenHoldsSwitch'
<1> USE DEF AcceptedFlattenHoldsSwitch
<1>1. CASE UNCHANGED vars
    BY <1>1 DEF vars
<1>2. ASSUME NEW i \in 1..MaxCommands, Poll(i)
      PROVE  AcceptedFlattenHoldsSwitch'
    <2>1. Claimable(i) /\ i \in DOMAIN inbox
        BY <1>2, PollInbox
    <2>2. \A j \in DOMAIN inbox : inbox[j].status = "accepted" => j = i
        BY <2>1
    <2>3. CASE UNCHANGED <<status, control, inbox, exposure>>
        BY <2>3
    <2>4. CASE Finish(i, "accepted") /\ inbox[i].type = "flatten"
               /\ status' = "paused" /\ control'.active
               /\ control'.reason = Reason("operator_flatten", i)
        <3>1. /\ DOMAIN inbox' = DOMAIN inbox
              /\ \A j \in DOMAIN inbox :
                    /\ inbox'[j].type = inbox[j].type
                    /\ inbox'[j].status = IF j = i THEN "accepted" ELSE inbox[j].status
            BY <2>1, <2>4, FinishLemma DEF CommandStatus
        <3> QED
            BY <2>2, <2>4, <3>1
    <2>5. CASE Finish(i, "completed") \/ Finish(i, "rejected")
        <3>1. /\ DOMAIN inbox' = DOMAIN inbox
              /\ \A j \in DOMAIN inbox :
                    inbox'[j].status \in IF j = i THEN {"completed", "rejected"}
                                                  ELSE {inbox[j].status}
            BY <2>1, <2>5, FinishLemma DEF CommandStatus
        <3> QED
            BY <2>2, <3>1
    <2> QED
        BY <1>2, <2>3, <2>4, <2>5, PollInbox
<1>3. CASE Next /\ ~\E i \in 1..MaxCommands : Poll(i)
    <2>1. CASE RequestCommand /\ UNCHANGED <<status, control, exposure>>
        BY <2>1, RequestElements
    <2>2. CASE inbox' = inbox
        BY <1>3, <2>2, OtherEffect
    <2> QED
        BY <1>3, <2>1, <2>2, OtherInbox
<1> QED
    BY <1>1, <1>2, <1>3

\* A completed flatten's account stays flat under its halt over every step.
LEMMA FlatStep ==
    ASSUME TypeOK, CompletedFlattenStaysFlat, [Next]_vars
    PROVE  CompletedFlattenStaysFlat'
<1> USE DEF CompletedFlattenStaysFlat
<1>1. CASE UNCHANGED vars
    BY <1>1 DEF vars
<1>2. ASSUME NEW i \in 1..MaxCommands, Poll(i)
      PROVE  CompletedFlattenStaysFlat'
    <2>1. i \in DOMAIN inbox /\ inbox[i].status \in {"requested", "accepted"}
        BY <1>2, PollInbox
    <2>2. CASE UNCHANGED <<status, control, inbox, exposure>>
        BY <2>2
    <2>3. CASE Finish(i, "accepted")
               /\ control'.reason = Reason("operator_flatten", i)
        <3>1. /\ DOMAIN inbox' = DOMAIN inbox
              /\ inbox'[i].status = "accepted"
            BY <2>1, <2>3, FinishLemma DEF CommandStatus
        <3> QED
            BY <2>3, <3>1 DEF Reason
    <2>4. CASE /\ Finish(i, "completed") \/ Finish(i, "rejected")
               /\ \/ control' = control
                  \/ ~control'.active
                  \/ \E by \in ReasonPrefix : control'.reason = Reason(by, i)
               /\ exposure' \in {exposure, "flat"}
               /\ Finish(i, "completed") /\ inbox[i].type = "flatten"
                  => exposure' = "flat"
        <3>1. /\ DOMAIN inbox' = DOMAIN inbox
              /\ inbox'[i].status = "completed" => Finish(i, "completed")
              /\ \A j \in DOMAIN inbox :
                    /\ inbox'[j].type = inbox[j].type
                    /\ j # i => inbox'[j].status = inbox[j].status
            BY <2>1, <2>4, FinishLemma DEF CommandStatus
        <3> SUFFICES ASSUME NEW j \in DOMAIN inbox, inbox[j].type = "flatten",
                            inbox'[j].status = "completed", control'.active,
                            control'.reason = Reason("operator_flatten", j)
                     PROVE  exposure' = "flat"
            BY <3>1
        <3>2. CASE j = i
            BY <2>4, <3>1, <3>2
        <3>3. CASE j # i
            <4>1. ASSUME NEW by \in ReasonPrefix, control'.reason = Reason(by, i)
                  PROVE  FALSE
                <5>1. control'.reason.id = i
                    BY <4>1 DEF Reason
                <5>2. control'.reason.id = j
                    BY DEF Reason
                <5> QED
                    BY <3>3, <5>1, <5>2
            <4> QED
                BY <2>4, <3>1, <3>3, <4>1
        <3> QED
            BY <3>2, <3>3
    <2> QED
        BY <1>2, <2>2, <2>3, <2>4, PollInbox
<1>3. CASE Next /\ ~\E i \in 1..MaxCommands : Poll(i)
    <2>1. CASE RequestCommand /\ UNCHANGED <<status, control, exposure>>
        BY <2>1, RequestElements
    <2>2. CASE inbox' = inbox /\ control' = control
        BY <1>3, <2>2, OtherEffect DEF TypeOK
    <2>3. CASE inbox' = inbox /\ \E by \in {"paper_worker", "position_protection"} :
                    control'.reason = Reason(by, 0)
        BY <2>3 DEF Reason
    <2> QED
        BY <1>3, <2>1, <2>2, <2>3, OtherInbox
<1> QED
    BY <1>1, <1>2, <1>3

\* A control version keeps naming one control row over every step.
LEMMA SeenStep ==
    ASSUME TypeOK, SeenIsHistory, [Next]_vars
    PROVE  SeenIsHistory'
<1> USE DEF SeenIsHistory
<1>1. CASE UNCHANGED vars
    BY <1>1 DEF vars
<1>2. CASE Next
    <2>0. control.version \in Nat
          /\ \A j \in DOMAIN inbox : inbox[j].seen.version \in Nat
        <3>1. control \in ControlSet /\ \A j \in DOMAIN inbox : inbox[j] \in CommandSet
            BY DEF TypeOK
        <3> QED
            BY <3>1 DEF ControlSet, CommandSet
    <2>1. control' = control \/ control'.version = control.version + 1
        BY <1>2, NextStep, ControlType
    <2>2. CASE RequestCommand
        <3>1. control' = control
            BY <2>2 DEF RequestCommand, Request
        <3> QED
            BY <2>0, <2>2, <3>1, RequestElements
    <2>3. CASE inbox' = inbox
        BY <2>0, <2>1, <2>3
    <2>4. ASSUME NEW i \in DOMAIN inbox, NEW t \in CommandStatus, Finish(i, t)
          PROVE  SeenIsHistory'
        BY <2>0, <2>1, <2>4, FinishLemma
    <2>5. ~RequestCommand => inbox' = inbox \/ \E i \in DOMAIN inbox, t \in CommandStatus : Finish(i, t)
        <3>1. ASSUME NEW i \in 1..MaxCommands, Poll(i)
              PROVE  inbox' = inbox \/ \E t \in CommandStatus : i \in DOMAIN inbox /\ Finish(i, t)
            BY <3>1, PollInbox DEF CommandStatus
        <3> QED
            BY <1>2, <3>1, OtherInbox
    <2> QED
        BY <2>2, <2>3, <2>4, <2>5
<1> QED
    BY <1>1, <1>2

-----------------------------------------------------------------------------
\* The inductive invariant of the control plane.
IInv ==
    /\ TypeOK
    /\ ControlMatchesStatus
    /\ AcceptedFlattenHoldsSwitch
    /\ CompletedFlattenStaysFlat
    /\ SeenIsHistory

\* It holds of the empty inbox and is preserved by every step.
LEMMA Invariance == Spec => []IInv
<1>1. Init => IInv
    <2> SUFFICES ASSUME Init PROVE IInv
        OBVIOUS
    <2>1. ControlMatchesStatus
        BY DEF Init, ControlMatchesStatus, InitialControl
    <2>2. DOMAIN inbox = {}
        BY DEF Init
    <2> QED
        BY <2>1, <2>2, TypeInit DEF IInv, AcceptedFlattenHoldsSwitch,
           CompletedFlattenStaysFlat, SeenIsHistory
<1>2. IInv /\ [Next]_vars => IInv'
    BY TypeStep, StatusStep, AcceptedStep, FlatStep, SeenStep DEF IInv
<1> QED
    BY <1>1, <1>2, PTL DEF Spec

\* For any number of commands, incidents and faults, a running experiment has
\* its kill switch clear, an ended one has it set and a stopped one holds no
\* position (_halt, execute_next).
THEOREM ControlMatches == Spec => []ControlMatchesStatus
<1>1. IInv => ControlMatchesStatus
    BY DEF IInv
<1> QED
    BY <1>1, Invariance, PTL

\* An accepted flatten is the only accepted command and holds the switch until
\* it is finished or the experiment fails (_complete_flatten).
THEOREM FlattenHolds == Spec => []AcceptedFlattenHoldsSwitch
<1>1. IInv => AcceptedFlattenHoldsSwitch
    BY DEF IInv
<1> QED
    BY <1>1, Invariance, PTL

\* No position is opened under the halt of a completed flatten.
THEOREM FlattenStaysFlat == Spec => []CompletedFlattenStaysFlat
<1>1. IInv => CompletedFlattenStaysFlat
    BY DEF IInv
<1> QED
    BY <1>1, Invariance, PTL

\* The only steps that clear the switch are a completed resume and a completed
\* reset, each under the conditions its branch of execute_next checks.
LEMMA ReleaseStep ==
    ASSUME IInv, Next, control.active, ~control'.active
    PROVE  \E i \in 1..MaxCommands :
              /\ i \in DOMAIN inbox /\ Finish(i, "completed")
              /\ inbox[i].status # "completed"
              /\ inbox[i].seen.version = control.version
              /\ \/ status \in {"running", "paused"} /\ control.reason.by = "operator_pause"
                 \/ ResetAllowed(inbox[i]) /\ status' = status
<1>0. TypeOK
    BY DEF IInv
<1>1. PICK i \in 1..MaxCommands : Poll(i)
    BY <1>0, OtherEffect
<1>2. i \in Nat
    BY ConstantsAssumption
<1>3. control' # control
    OBVIOUS
<1>4. CASE ExecuteResume(i)
    BY <1>3, <1>4 DEF ExecuteResume
<1>5. CASE ExecuteReset(i)
    BY <1>3, <1>5 DEF ExecuteReset, ResetAllowed
<1>6. ~ExecutePause(i) /\ ~ExecuteEmergencyHalt(i)
    BY <1>0, <1>2, <1>3, HaltControlLemma DEF ExecutePause, ExecuteEmergencyHalt,
       ExecuteHalt, ReasonPrefix
<1>7. ~ExecuteStop(i) /\ ~AcceptFlatten(i)
    BY <1>0, <1>2, <1>3, HaltControlLemma DEF ExecuteStop, AcceptFlatten, ReasonPrefix
<1>8. ~ExecuteStart(i) /\ ~ExecuteAcknowledge(i) /\ ~ExecuteResolve(i) /\ ~CompleteFlatten(i)
    BY <1>3 DEF ExecuteStart, ExecuteAcknowledge, ExecuteResolve, ExecuteIncident,
       CompleteFlatten
<1> QED
    BY <1>1, <1>4, <1>5, <1>6, <1>7, <1>8 DEF Poll

\* The switch is cleared only in a paused experiment, and for anything but a
\* pause only over a flat account with no recovery and no review incident left.
THEOREM ReleaseSafe == Spec => ReleaseOnlyWhenSafe
<1> DEFINE A == control.active /\ ~control'.active =>
          /\ status = "paused"
          /\ control.reason.by # "operator_pause" =>
                /\ exposure = "flat"
                /\ recovery = "none"
                /\ BlockingIncidents = {}
                /\ status' = "paused"
<1>1. IInv /\ [Next]_vars => [A]_vars
    BY ReleaseStep DEF IInv, ControlMatchesStatus, ResetAllowed
<1> QED
    BY <1>1, Invariance, PTL DEF Spec, ReleaseOnlyWhenSafe

\* What a resume or a reset clears is the very row its operator confirmed.
THEOREM ReleaseSeen == Spec => ReleaseClearsWhatWasSeen
<1> DEFINE A == control.active /\ ~control'.active =>
          \E i \in DOMAIN inbox :
              /\ inbox'[i].status = "completed"
              /\ inbox[i].status # "completed"
              /\ inbox[i].seen = control
<1>1. ASSUME IInv, Next, control.active, ~control'.active
      PROVE  A
    <2>1. PICK i \in DOMAIN inbox : /\ Finish(i, "completed")
                                   /\ inbox[i].status # "completed"
                                   /\ inbox[i].seen.version = control.version
        BY <1>1, ReleaseStep
    <2>2. inbox[i].seen = control
        BY <1>1, <2>1 DEF IInv, SeenIsHistory
    <2>3. inbox'[i].status = "completed"
        BY <1>1, <2>1, FinishLemma DEF IInv, CommandStatus
    <2> QED
        BY <2>1, <2>2, <2>3
<1>2. IInv /\ [Next]_vars => [A]_vars
    BY <1>1
<1> QED
    BY <1>2, Invariance, PTL DEF Spec, ReleaseClearsWhatWasSeen
=============================================================================
