---------------------------- MODULE WorkerFencing ----------------------------
(***************************************************************************)
(* Several paper-worker processes around one experiment: the expiring      *)
(* lease, the versioned checkpoint, the market cursor and the kill switch. *)
(* A process may stall for any time between two of its steps, so a worker  *)
(* whose lease was taken over can still be running (a zombie).             *)
(*                                                                         *)
(* Time is relative: lease.left is the time to the lease's expiry (negative *)
(* once expired) and age[w] the time since process w read the clock for the *)
(* lease transaction it is about to make.                                  *)
(***************************************************************************)
EXTENDS Integers, Sequences, FiniteSets

CONSTANTS
    Workers,        \* worker identities (boot ids); a dead one is reused
                    \* once no row names it, which stands for a fresh id
    TTL,            \* lease time to live
    MaxStall,       \* bound: delay between a clock reading and its transaction
    MaxEpoch,       \* bound: epoch from which no further worker starts
    MaxVersion,     \* bound: checkpoint version up to which snapshots are taken
    MaxBars,        \* bound: closed bars
    MaxCrashes      \* bound: processes killed

ASSUME ConstantsAssumption ==
    /\ TTL \in Nat \ {0}
    /\ MaxStall \in 0..TTL
    /\ MaxEpoch \in Nat
    /\ MaxVersion \in Nat
    /\ MaxBars \in Nat
    /\ MaxCrashes \in Nat

NoWorker == "no worker"
ASSUME NoWorkerAssumption == NoWorker \notin Workers

VARIABLES
    lease,          \* worker_leases row
    ckpt,           \* worker_checkpoints row
    cursor,         \* market cursor sequence
    committed,      \* history: bars in the order their cycles were committed
    status,         \* experiments.status
    switch,         \* kill switch of the trading control
    phase,          \* phase of each process
    dead,           \* tasks of each process that ended with an exception
    age,            \* age of the clock reading of the pending lease step
    version,        \* version of each process's own checkpoint object
    belief,         \* time each process believes its own lease has left
    local,          \* each process's in-memory cursor
    cycle,          \* the cycle a process has decided and not yet persisted
    crashes         \* number of processes killed so far

db == <<lease, ckpt, cursor, committed, status, switch>>
procs == <<phase, dead, age, version, belief, local, cycle>>
vars == <<db, procs, crashes>>

Idle == [bar |-> 0, entry |-> FALSE]
Cycles == [bar : 0..MaxBars, entry : BOOLEAN]
Tasks == {"heartbeat", "checkpoint", "dispatch", "command"}
Phases == {"new", "booted", "starting", "claimed", "audited", "audited_created",
           "standby", "running", "stopping", "ended"}

\* Tasks run between start-up and the end of the process.
Active(w) == phase[w] \in {"standby", "running"}
Alive(w, task) == (Active(w) \/ phase[w] = "stopping") /\ task \notin dead[w]

End(w) ==
    /\ phase' = [phase EXCEPT ![w] = "ended"]
    /\ belief' = [belief EXCEPT ![w] = 0]
    /\ cycle' = [cycle EXCEPT ![w] = Idle]
    /\ dead' = [dead EXCEPT ![w] = {}]
    /\ age' = [age EXCEPT ![w] = -1]
    /\ version' = [version EXCEPT ![w] = 0]
    /\ local' = [local EXCEPT ![w] = 0]

\* An exception ends the task; the monitor task will notice.
Raise(w, task) ==
    /\ dead' = [dead EXCEPT ![w] = @ \cup {task}]
    /\ UNCHANGED db

-----------------------------------------------------------------------------
(* WorkerLeaseRepository                                                    *)


\* valid_at: the reading precedes the expiry.
ValidAt(reading) == lease.active /\ lease.left + reading > 0

\* Mutant: a lease is taken over whether or not it is still valid.
AcquireAnyway(w) ==
    /\ lease' = [owner |-> w, active |-> TRUE, left |-> TTL - age[w],
                 epoch |-> lease.epoch + 1]
    /\ belief' = [belief EXCEPT ![w] = TTL - age[w]]

\* The first lease and every takeover of a released or expired one.
AcquireLease(w) ==
    /\ ~ValidAt(age[w])
    /\ lease' = [owner |-> w, active |-> TRUE, left |-> TTL - age[w],
                 epoch |-> lease.epoch + 1]
    /\ belief' = [belief EXCEPT ![w] = TTL - age[w]]

\* Mutant: renewal does not check who owns the lease.
RenewableByAnyone(w) == lease.active

Renewable(w) == lease.owner = w /\ ValidAt(age[w])

ReleaseLease(w) ==
    /\ lease.owner = w
    /\ lease' = [lease EXCEPT !.active = FALSE, !.left = 0]

-----------------------------------------------------------------------------
(* WorkerCheckpoint and record_checkpoint                                   *)

\* A stale or conflicting version is refused, and so is an owner change other
\* than the starting transition of the lease holder (in Acquire).
Recordable(w) == ckpt.owner = w /\ ckpt.version < version[w] + 1

RecordCheckpoint(w, s) ==
    /\ Recordable(w)
    /\ ckpt' = [owner |-> w, version |-> version[w] + 1, status |-> s]

-----------------------------------------------------------------------------
(* Start-up                                                                 *)

\* The runtime bootstrap restores the cursor before the lease is requested.
Boot(w) ==
    /\ phase[w] = "new"
    /\ phase' = [phase EXCEPT ![w] = "booted"]
    /\ local' = [local EXCEPT ![w] = cursor]
    /\ UNCHANGED <<db, dead, age, version, belief, cycle>>

\* started_at
ReadStart(w) ==
    /\ phase[w] = "booted"
    /\ lease.epoch < MaxEpoch
    /\ phase' = [phase EXCEPT ![w] = "starting"]
    /\ age' = [age EXCEPT ![w] = 0]
    /\ UNCHANGED <<db, dead, version, belief, local, cycle>>

\* First start-up transaction: lease, control row, starting checkpoint.  A
\* lease conflict leaves no checkpoint, so the halt persists nothing.
Acquire(w) ==
    /\ phase[w] = "starting"
    /\ \/ /\ ValidAt(age[w])
          /\ End(w)
          /\ UNCHANGED db
       \/ /\ AcquireLease(w)
          /\ ckpt' = [owner |-> w, version |-> ckpt.version + 1, status |-> "starting"]
          /\ version' = [version EXCEPT ![w] = ckpt.version + 1]
          /\ phase' = [phase EXCEPT ![w] = "claimed"]
          /\ age' = [age EXCEPT ![w] = -1]
          /\ UNCHANGED <<cursor, committed, status, switch, dead, local, cycle>>

\* Mutant: the halt fails the experiment before it tries the checkpoint.
HaltUnfenced(w) ==
    /\ \/ /\ RecordCheckpoint(w, "halted")
          /\ ReleaseLease(w)
       \/ /\ ~Recordable(w) \/ lease.owner # w
          /\ UNCHANGED <<ckpt, lease>>
    /\ status' = IF status \in {"running", "paused"} THEN "failed" ELSE status
    /\ switch' = TRUE
    /\ End(w)
    /\ UNCHANGED <<cursor, committed>>

\* _halt: the failed experiment, the switch, the checkpoint and the release
\* are one transaction, which is rolled back as a whole.
Halt(w) ==
    /\ \/ /\ status' = IF status \in {"running", "paused"} THEN "failed" ELSE status
          /\ switch' = TRUE
          /\ RecordCheckpoint(w, "halted")
          /\ ReleaseLease(w)
          /\ UNCHANGED <<cursor, committed>>
       \/ /\ ~Recordable(w) \/ lease.owner # w
          /\ UNCHANGED db
    /\ End(w)

\* Second start-up transaction: the experiment must be startable, and market
\* data is activated unless it still waits for its start command.
Audit(w) ==
    /\ phase[w] = "claimed"
    /\ \/ /\ status # "failed"
          /\ phase' = [phase EXCEPT ![w] = IF status = "created" THEN "audited_created"
                                                                ELSE "audited"]
          /\ UNCHANGED <<db, dead, age, version, belief, local, cycle>>
       \/ /\ status = "failed"
          /\ Halt(w)

\* The RUNNING transition, then the tasks are created.
GoRunning(w) ==
    /\ phase[w] \in {"audited", "audited_created"}
    /\ \/ /\ RecordCheckpoint(w, "running")
          /\ version' = [version EXCEPT ![w] = @ + 1]
          /\ phase' = [phase EXCEPT ![w] = IF @ = "audited" THEN "running"
                                                           ELSE "standby"]
          /\ UNCHANGED <<lease, cursor, committed, status, switch, dead, age,
                         belief, local, cycle>>
       \/ /\ ~Recordable(w)
          /\ Halt(w)

-----------------------------------------------------------------------------
(* Tasks                                                                    *)

ReadHeartbeat(w) ==
    /\ Alive(w, "heartbeat")
    /\ age[w] = -1
    /\ age' = [age EXCEPT ![w] = 0]
    /\ UNCHANGED <<db, phase, dead, version, belief, local, cycle>>

\* Mutant: renewal extends the old expiry instead of counting from the reading.
RenewExtending(w) ==
    /\ Alive(w, "heartbeat")
    /\ age[w] >= 0
    /\ Renewable(w)
    /\ age' = [age EXCEPT ![w] = -1]
    /\ lease' = [lease EXCEPT !.left = @ + TTL]
    /\ belief' = [belief EXCEPT ![w] = @ + TTL]
    /\ UNCHANGED <<ckpt, cursor, committed, status, switch, phase, dead, version,
                   local, cycle>>

Renew(w) ==
    /\ Alive(w, "heartbeat")
    /\ age[w] >= 0
    /\ age' = [age EXCEPT ![w] = -1]
    /\ \/ /\ Renewable(w)
          /\ lease' = [lease EXCEPT !.left = TTL - age[w]]
          /\ belief' = [belief EXCEPT ![w] = TTL - age[w]]
          /\ UNCHANGED <<ckpt, cursor, committed, status, switch, phase, dead,
                         version, local, cycle>>
       \/ /\ ~Renewable(w)
          /\ Raise(w, "heartbeat")
          /\ UNCHANGED <<phase, version, belief, local, cycle>>

\* The snapshot is assigned before its transaction commits, so a failed commit
\* leaves the process one version ahead of the row.
Snapshot(w) ==
    /\ Active(w) /\ Alive(w, "checkpoint")
    /\ version[w] < MaxVersion
    /\ \/ /\ RecordCheckpoint(w, "running")
          /\ version' = [version EXCEPT ![w] = @ + 1]
          /\ UNCHANGED <<lease, cursor, committed, status, switch, phase, dead,
                         age, belief, local, cycle>>
       \/ /\ Recordable(w)
          /\ version' = [version EXCEPT ![w] = @ + 1]
          /\ Raise(w, "checkpoint")
          /\ UNCHANGED <<phase, age, belief, local, cycle>>
       \/ /\ ~Recordable(w)
          /\ Raise(w, "checkpoint")
          /\ UNCHANGED <<phase, age, version, belief, local, cycle>>

\* A closed bar: the entry context reads the kill switch in one transaction ...
Decide(w) ==
    /\ phase[w] \in {"running", "stopping"} /\ Alive(w, "dispatch")
    /\ cycle[w] = Idle
    /\ local[w] < MaxBars
    /\ \E entry \in {FALSE} \cup {~switch} :
          cycle' = [cycle EXCEPT ![w] = [bar |-> local[w] + 1, entry |-> entry]]
    /\ UNCHANGED <<db, phase, dead, age, version, belief, local>>


\* ... and a later one persists decision, execution and cursor.  It looks at
\* neither lease nor checkpoint nor switch; the cursor version must be the
\* next one (a repeated bar carries another observation time and conflicts).
Commit(w) ==
    /\ Alive(w, "dispatch")
    /\ cycle[w] # Idle
    /\ cycle' = [cycle EXCEPT ![w] = Idle]
    /\ \/ /\ cycle[w].bar = cursor + 1
          /\ cursor' = cycle[w].bar
          /\ committed' = Append(committed, cycle[w].bar)
          /\ local' = [local EXCEPT ![w] = cycle[w].bar]
          /\ UNCHANGED <<lease, ckpt, status, switch, phase, dead, age, version,
                         belief>>
       \/ /\ cycle[w].bar # cursor + 1
          /\ Raise(w, "dispatch")
          /\ UNCHANGED <<phase, age, version, belief, local>>

\* Operator commands that change what a cycle may do.
Command(w) ==
    /\ Active(w) /\ Alive(w, "command")
    /\ \/ /\ status = "created" /\ ~switch
          /\ status' = "running"
          /\ phase' = [phase EXCEPT ![w] = "running"]
          /\ UNCHANGED switch
       \/ /\ status = "running"
          /\ status' = "paused" /\ switch' = TRUE
          /\ UNCHANGED phase
       \/ /\ status = "paused"
          /\ status' = "running" /\ switch' = FALSE
          /\ UNCHANGED phase
    /\ UNCHANGED <<lease, ckpt, cursor, committed, dead, age, version, belief,
                   local, cycle>>

-----------------------------------------------------------------------------
(* End of a process                                                         *)

\* The monitor halts a worker whose task ended.
MonitorHalt(w) ==
    /\ Active(w)
    /\ dead[w] # {}
    /\ Halt(w)

\* stop() on a signal: the STOPPING transition is outside its try block, so a
\* refused one ends the process with its lease still in place.  A task that
\* failed just before is not looked at again, unless it is the dispatch task.
BeginStop(w) ==
    /\ Active(w)
    /\ \/ /\ RecordCheckpoint(w, "stopping")
          /\ version' = [version EXCEPT ![w] = @ + 1]
          /\ phase' = [phase EXCEPT ![w] = "stopping"]
          /\ UNCHANGED <<lease, cursor, committed, status, switch, dead, age,
                         belief, local, cycle>>
       \/ /\ ~Recordable(w)
          /\ End(w)
          /\ UNCHANGED db

\* The dispatch task failed, or did not drain in time.
HaltStopping(w) ==
    /\ phase[w] = "stopping"
    /\ "dispatch" \in dead[w] \/ cycle[w] # Idle
    /\ Halt(w)

FinishStop(w) ==
    /\ phase[w] = "stopping"
    /\ "dispatch" \notin dead[w] /\ cycle[w] = Idle
    /\ \/ /\ RecordCheckpoint(w, "stopped")
          /\ ReleaseLease(w)
          /\ UNCHANGED <<cursor, committed, status, switch>>
       \/ /\ ~Recordable(w) \/ lease.owner # w
          /\ UNCHANGED db
    /\ End(w)

\* The process dies (SIGKILL, out of memory, lost host).
Crash(w) ==
    /\ phase[w] \notin {"new", "ended"}
    /\ crashes < MaxCrashes
    /\ crashes' = crashes + 1
    /\ End(w)
    /\ UNCHANGED db

\* The service manager starts another process, under a fresh identity.
Reboot(w) ==
    /\ phase[w] = "ended"
    /\ lease.owner # w /\ ckpt.owner # w
    /\ phase' = [phase EXCEPT ![w] = "new"]
    /\ UNCHANGED <<db, dead, age, version, belief, local, cycle>>

Older(x) == IF x < 0 THEN x ELSE x + 1
Tick ==
    /\ \A w \in Workers : age[w] < MaxStall
    /\ lease' = [lease EXCEPT !.left = IF @ > -MaxStall THEN @ - 1 ELSE @]
    /\ belief' = [w \in Workers |-> IF belief[w] > 0 THEN belief[w] - 1 ELSE 0]
    /\ age' = [w \in Workers |-> Older(age[w])]
    /\ UNCHANGED <<ckpt, cursor, committed, status, switch, phase, dead, version,
                   local, cycle, crashes>>

-----------------------------------------------------------------------------
Init ==
    /\ lease = [owner |-> NoWorker, active |-> FALSE, left |-> 0, epoch |-> 0]
    /\ ckpt = [owner |-> NoWorker, version |-> 0, status |-> "none"]
    /\ cursor = 0
    /\ committed = <<>>
    /\ status = "created"
    /\ switch = FALSE
    /\ phase = [w \in Workers |-> "new"]
    /\ dead = [w \in Workers |-> {}]
    /\ age = [w \in Workers |-> -1]
    /\ version = [w \in Workers |-> 0]
    /\ belief = [w \in Workers |-> 0]
    /\ local = [w \in Workers |-> 0]
    /\ cycle = [w \in Workers |-> Idle]
    /\ crashes = 0

Starting(w) == Boot(w) \/ ReadStart(w) \/ Acquire(w) \/ Audit(w) \/ GoRunning(w)
Heartbeat(w) == ReadHeartbeat(w) \/ Renew(w)
Ending(w) == MonitorHalt(w) \/ BeginStop(w) \/ HaltStopping(w) \/ FinishStop(w)

Step(w) ==
    /\ \/ Starting(w)
       \/ Heartbeat(w)
       \/ Snapshot(w)
       \/ Decide(w)
       \/ Commit(w)
       \/ Command(w)
       \/ Ending(w)
       \/ Reboot(w)
    /\ UNCHANGED crashes

Next ==
    \/ Tick
    \/ \E w \in Workers : Step(w) \/ Crash(w)

Spec == Init /\ [][Next]_vars

\* Time passes, a process that can start, renew, halt or finish stopping does
\* so, and the service manager restarts ended processes.  No fairness for
\* signals, snapshots, cycles, commands or crashes.
FairSpec ==
    /\ Spec
    /\ WF_vars(Tick)
    /\ \A w \in Workers :
          /\ WF_vars(Starting(w) /\ UNCHANGED crashes)
          /\ WF_vars(Heartbeat(w) /\ UNCHANGED crashes)
          /\ WF_vars(MonitorHalt(w) /\ UNCHANGED crashes)
          /\ WF_vars((HaltStopping(w) \/ FinishStop(w)) /\ UNCHANGED crashes)
          /\ WF_vars(Reboot(w) /\ UNCHANGED crashes)

-----------------------------------------------------------------------------
(* Properties                                                               *)

\* Lease, checkpoint, cursor and every process have their type; no counter
\* leaves its bound.
TypeOK ==
    /\ lease \in [owner : Workers \cup {NoWorker}, active : BOOLEAN,
                  left : (-MaxStall)..TTL, epoch : Nat]
    /\ ckpt \in [owner : Workers \cup {NoWorker}, version : Nat,
                 status : {"none", "starting", "running", "stopping", "stopped",
                           "halted"}]
    /\ cursor \in 0..MaxBars
    /\ committed \in Seq(1..MaxBars)
    /\ status \in {"created", "running", "paused", "failed"}
    /\ switch \in BOOLEAN
    /\ phase \in [Workers -> Phases]
    /\ dead \in [Workers -> SUBSET Tasks]
    /\ age \in [Workers -> -1..MaxStall]
    /\ version \in [Workers -> Nat]
    /\ belief \in [Workers -> 0..TTL]
    /\ local \in [Workers -> 0..MaxBars]
    /\ cycle \in [Workers -> Cycles]
    /\ crashes \in 0..MaxCrashes

\* Two processes never both believe they hold an unexpired lease: a belief
\* that has not run out is the row itself (acquire, renew, release).
LeaseExclusive ==
    \A w \in Workers : belief[w] > 0 => lease.owner = w /\ lease.active


\* A worker that has been superseded cannot fail the experiment or trip the
\* switch by halting: only the owner of the checkpoint and the lease can.
OnlyOwnerHalts ==
    [][status' = "failed" /\ status # "failed" =>
          \E w \in Workers :
              /\ phase[w] # "ended" /\ phase'[w] = "ended"
              /\ ckpt.owner = w /\ lease.owner = w]_vars

\* A worker whose lease was taken over stops running: its next heartbeat is
\* refused and the monitor halts it.
SupersededEnds ==
    \A w \in Workers :
        Active(w) /\ lease.owner # w ~> ~(Active(w) /\ lease.owner # w)


\* "it cannot continue after lease loss": no cycle is committed by a worker
\* other than the holder of the lease.
NothingAfterLeaseLoss ==
    [][cursor' # cursor =>
          \E w \in Workers : local'[w] = cursor' /\ local[w] # local'[w]
                             /\ lease.owner = w]_vars
=============================================================================
