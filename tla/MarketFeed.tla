----------------------------- MODULE MarketFeed -----------------------------
(***************************************************************************)
(* The way of a public event into the paper worker: connector queue, pump, *)
(* runtime queue, ingest task, dispatch queue, dispatch task; and the      *)
(* supervisor that activates the feed, watches its tasks, drains them on a *)
(* stop and tears them down on a halt. Every queue is bounded; nothing may *)
(* be dropped without a failure that halts the worker.                     *)
(***************************************************************************)
EXTENDS DepthConnector

CONSTANTS
    RuntimeSize,    \* queue_size of the public runtime
    DispatchSize,   \* dispatch_queue_size of the supervisor
    MaxPolls        \* bound: events of the polling tasks

ASSUME FeedAssumption ==
    /\ {RuntimeSize, DispatchSize} \subseteq Nat \ {0}
    /\ MaxPolls \in Nat

VARIABLES
    rt,             \* state of PublicMarketDataRuntime
    q2,             \* its queue
    polled,         \* events the polling tasks emitted
    q3,             \* _dispatch_queue: events and _dispatch_stop
    ingest,         \* _ingest_task
    dispatch,       \* _dispatch_task
    held,           \* the event the dispatch task is processing
    failed,         \* the heartbeat, checkpoint or command task has failed
    sup,            \* the supervisor
    handled         \* history: last event of each source processed

feedVars == <<rt, q2, polled, q3, ingest, dispatch, held, failed, sup, handled>>
vars == <<connVars, feedVars>>

Sources == {"ws", "poll"}
StopItem == [src |-> "stop", n |-> 0]
venue == <<vid, marks, wire, snap, buffer, book, pub, out, emitted>>
Ended == {"done", "failed"}

\* Type correctness of the connector, the runtime and the worker's tasks, the
\* bounds of the queues included.
TypeOK ==
    /\ ConnTypeOK
    /\ rt \in {"new", "starting", "ready", "halted", "stopping", "stopped"}
    /\ Len(q2) <= RuntimeSize /\ Len(q3) <= DispatchSize
    /\ polled \in 0..MaxPolls
    /\ ingest \in {"waiting", "run", "eof", "abort"} \cup Ended
    /\ dispatch \in {"waiting", "idle", "busy"} \cup Ended
    /\ (dispatch = "busy") = (held # <<>>)
    /\ failed \in BOOLEAN
    /\ sup \in {"running", "stopping", "draining", "stopped",
                "halting", "cancelling", "halted"}
    /\ handled \in [Sources -> Nat]

-----------------------------------------------------------------------------
(* The public runtime                                                       *)

\* _activate_data, begun by a start command or by a worker that recovers a
\* running experiment.
Activate ==
    /\ sup = "running" /\ rt = "new" /\ ~failed
    /\ rt' = "starting"
    /\ conn' = StartedConn
    /\ UNCHANGED <<venue, q2, polled, q3, ingest, dispatch, held, failed, sup, handled>>

\* start returns: the connector was ready once, the first reference events
\* are queued, the tasks run and the worker's tasks see _data_active.
ActivateReady ==
    /\ sup = "running" /\ rt = "starting"
    /\ conn.waited
    /\ rt' = "ready"
    /\ q2' = <<[src |-> "poll", n |-> 1]>>
    /\ polled' = 1
    /\ ingest' = "run"
    /\ dispatch' = "idle"
    /\ UNCHANGED <<connVars, q3, held, failed, sup, handled>>

\* start fails: the connector was not ready in time or halted, or a request
\* of the runtime failed. The failure ends the task that activates.
ActivateFails ==
    /\ sup = "running" /\ rt = "starting"
    /\ rt' = "halted"
    /\ conn' = IF conn.waited \/ conn.run = "done" THEN StoppedConn ELSE HaltedConn
    /\ failed' = TRUE
    /\ UNCHANGED <<venue, q2, polled, q3, ingest, dispatch, held, sup, handled>>

\* _halt: the failure is kept, the retained tasks end, the connector stops.
RuntimeHalts ==
    /\ rt' = "halted"
    /\ conn' = StoppedConn

\* Mutant: the pump discards what the runtime queue cannot take.
PumpDropping ==
    /\ rt = "ready"
    /\ out # <<>>
    /\ out' = Tail(out)
    /\ q2' = IF Len(q2) < RuntimeSize THEN Append(q2, Head(out)) ELSE q2
    /\ UNCHANGED <<rt, conn, vid, marks, wire, snap, buffer, book, pub, emitted, polled, q3,
                   ingest, dispatch, held, failed, sup, handled>>

\* Mutant: the pump ignores the size of the runtime queue.
PumpUnbounded ==
    /\ rt = "ready"
    /\ out # <<>>
    /\ out' = Tail(out)
    /\ q2' = Append(q2, Head(out))
    /\ UNCHANGED <<rt, conn, vid, marks, wire, snap, buffer, book, pub, emitted, polled, q3,
                   ingest, dispatch, held, failed, sup, handled>>

\* _pump_websocket: one event moves on, or the full queue halts the runtime.
Pump ==
    /\ rt = "ready"
    /\ out # <<>>
    /\ out' = Tail(out)
    /\ IF Len(q2) < RuntimeSize THEN /\ q2' = Append(q2, Head(out))
                                     /\ UNCHANGED <<rt, conn>>
       ELSE RuntimeHalts /\ UNCHANGED q2
    /\ UNCHANGED <<vid, marks, wire, snap, buffer, book, pub, emitted, polled, q3, ingest,
                   dispatch, held, failed, sup, handled>>

\* _pump_websocket at the end of a drained connector.
PumpEnds ==
    /\ rt = "ready"
    /\ out = <<>> /\ conn.run = "done"
    /\ RuntimeHalts
    /\ UNCHANGED <<venue, q2, polled, q3, ingest, dispatch, held, failed, sup, handled>>

\* A polling task queues an event, or fails.
Poll ==
    /\ rt = "ready"
    /\ polled < MaxPolls
    /\ polled' = polled + 1
    /\ \/ /\ Len(q2) < RuntimeSize
          /\ q2' = Append(q2, [src |-> "poll", n |-> polled + 1])
          /\ UNCHANGED <<rt, conn>>
       \/ RuntimeHalts /\ UNCHANGED q2
    /\ UNCHANGED <<venue, q3, ingest, dispatch, held, failed, sup, handled>>

-----------------------------------------------------------------------------
(* The tasks of the worker                                                  *)

\* Mutant: an event the dispatch queue cannot take is skipped.
IngestSkipping ==
    /\ ingest = "run"
    /\ IF q2 # <<>>
       THEN /\ q2' = Tail(q2)
            /\ q3' = IF Len(q3) < DispatchSize THEN Append(q3, Head(q2)) ELSE q3
            /\ UNCHANGED ingest
       ELSE /\ rt \in {"halted", "stopped"}
            /\ ingest' = IF rt = "halted" THEN "abort" ELSE "eof"
            /\ UNCHANGED <<q2, q3>>
    /\ UNCHANGED <<connVars, rt, polled, dispatch, held, failed, sup, handled>>

\* _ingest: events() gives what is queued before it reports the end.
Ingest ==
    /\ ingest = "run"
    /\ IF q2 # <<>>
       THEN /\ q2' = Tail(q2)
            /\ IF Len(q3) < DispatchSize
               THEN q3' = Append(q3, Head(q2)) /\ UNCHANGED ingest
               ELSE ingest' = "abort" /\ UNCHANGED q3
       ELSE /\ rt \in {"halted", "stopped"}
            /\ ingest' = IF rt = "halted" THEN "abort" ELSE "eof"
            /\ UNCHANGED <<q2, q3>>
    /\ UNCHANGED <<connVars, rt, polled, dispatch, held, failed, sup, handled>>

\* The finally clause of _ingest waits for room in the dispatch queue.
PutStop ==
    /\ ingest \in {"eof", "abort"}
    /\ Len(q3) < DispatchSize
    /\ q3' = Append(q3, StopItem)
    /\ ingest' = IF ingest = "eof" THEN "done" ELSE "failed"
    /\ UNCHANGED <<connVars, rt, q2, polled, dispatch, held, failed, sup, handled>>

\* _dispatch takes the next item.
Take ==
    /\ dispatch = "idle"
    /\ q3 # <<>>
    /\ q3' = Tail(q3)
    /\ IF Head(q3) = StopItem THEN dispatch' = "done" /\ UNCHANGED held
       ELSE dispatch' = "busy" /\ held' = <<Head(q3)>>
    /\ UNCHANGED <<connVars, rt, q2, polled, ingest, failed, sup, handled>>

\* engine.process returns or raises.
Process(ok) ==
    /\ dispatch = "busy"
    /\ dispatch' = IF ok THEN "idle" ELSE "failed"
    /\ handled' = IF ok THEN [handled EXCEPT ![held[1].src] = held[1].n] ELSE handled
    /\ held' = <<>>
    /\ UNCHANGED <<connVars, rt, q2, polled, q3, ingest, failed, sup>>

\* The heartbeat, checkpoint or command task ends with an exception.
OtherTaskFails ==
    /\ sup = "running" /\ rt # "starting"
    /\ ~failed /\ failed' = TRUE
    /\ UNCHANGED <<connVars, rt, q2, polled, q3, ingest, dispatch, held, sup, handled>>

-----------------------------------------------------------------------------
(* The supervisor                                                           *)

\* public_data.stop begins: the retained tasks are cancelled and the
\* connector is told to stop. A runtime that never started has nothing to do.
PublicStop ==
    /\ rt' = IF rt \in {"halted", "stopped", "new"} THEN rt ELSE "stopping"
    /\ conn' = IF rt \in {"stopped", "new"} THEN conn ELSE StoppedConn

PublicStopped ==
    /\ conn.run \in {"off", "done"}
    /\ rt' = IF rt = "stopping" THEN "stopped" ELSE rt

\* stop with the feed active.
Stop ==
    /\ sup = "running" /\ ingest # "waiting"
    /\ sup' = "stopping"
    /\ PublicStop
    /\ UNCHANGED <<venue, q2, polled, q3, ingest, dispatch, held, failed, handled>>

\* stop in standby cancels the tasks that wait, an activation included.
StopStandby ==
    /\ sup = "running" /\ ingest = "waiting"
    /\ sup' = "stopped"
    /\ ingest' = "failed" /\ dispatch' = "failed"
    /\ UNCHANGED <<connVars, rt, q2, polled, q3, held, failed, handled>>

\* Mutant: stop waits for the ingest task only.
DrainedByIngest ==
    /\ sup = "draining"
    /\ ingest = "done"
    /\ sup' = "stopped"
    /\ UNCHANGED <<connVars, rt, q2, polled, q3, ingest, dispatch, held, failed, handled>>

Drained ==
    /\ sup = "draining"
    /\ ingest = "done" /\ dispatch = "done"
    /\ sup' = "stopped"
    /\ UNCHANGED <<connVars, rt, q2, polled, q3, ingest, dispatch, held, failed, handled>>

BeginDrain ==
    /\ sup = "stopping"
    /\ PublicStopped
    /\ sup' = "draining"
    /\ UNCHANGED <<connVars, q2, polled, q3, ingest, dispatch, held, failed, handled>>

\* A task that drains fails, or drain_timeout cancels the one awaited.
DrainFails ==
    /\ sup = "draining" /\ ingest # "run"
    /\ {ingest, dispatch} # {"done"}
    /\ ingest' = IF ingest \in {"eof", "abort"} THEN "failed" ELSE ingest
    /\ dispatch' = IF ingest = "done" THEN "failed" ELSE dispatch
    /\ held' = IF ingest = "done" THEN <<>> ELSE held
    /\ sup' = "halting"
    /\ PublicStop
    /\ UNCHANGED <<venue, q2, polled, q3, failed, handled>>

\* Mutant: the monitor does not watch the ingest task.
MonitorDispatchOnly ==
    /\ sup = "running"
    /\ failed \/ dispatch = "failed"
    /\ sup' = "halting"
    /\ PublicStop
    /\ UNCHANGED <<venue, q2, polled, q3, ingest, dispatch, held, failed, handled>>

\* _monitor: the first task to end starts _halt.
Monitor ==
    /\ sup = "running"
    /\ failed \/ ingest \in Ended \/ dispatch \in Ended
    /\ sup' = "halting"
    /\ PublicStop
    /\ UNCHANGED <<venue, q2, polled, q3, ingest, dispatch, held, failed, handled>>

\* _cancel_background_tasks: a cancelled ingest task still runs its finally
\* clause, one that is already in it gives up.
CancelTasks ==
    /\ sup = "halting"
    /\ PublicStopped
    /\ ingest' = IF ingest = "run" THEN "abort" ELSE IF ingest = "done" THEN "done" ELSE "failed"
    /\ dispatch' = IF dispatch = "done" THEN "done" ELSE "failed"
    /\ held' = <<>>
    /\ sup' = "cancelling"
    /\ UNCHANGED <<connVars, q2, polled, q3, failed, handled>>

\* The tasks are gone: status, kill switch, checkpoint and lease are written.
PersistHalt ==
    /\ sup = "cancelling"
    /\ {ingest, dispatch} \subseteq Ended
    /\ sup' = "halted"
    /\ UNCHANGED <<connVars, rt, q2, polled, q3, ingest, dispatch, held, failed, handled>>

-----------------------------------------------------------------------------
Init ==
    /\ ConnInit
    /\ rt = "new"
    /\ q2 = <<>>
    /\ polled = 0
    /\ q3 = <<>>
    /\ ingest = "waiting"
    /\ dispatch = "waiting"
    /\ held = <<>>
    /\ failed = FALSE
    /\ sup = "running"
    /\ handled = [s \in Sources |-> 0]

Next ==
    \/ ConnNext /\ sup # "stopped" /\ UNCHANGED feedVars
    \/ Activate \/ ActivateReady \/ ActivateFails
    \/ Pump \/ PumpEnds \/ Poll
    \/ Ingest \/ PutStop \/ Take
    \/ \E ok \in BOOLEAN : Process(ok)
    \/ OtherTaskFails
    \/ Stop \/ StopStandby \/ BeginDrain \/ Drained \/ DrainFails
    \/ Monitor \/ CancelTasks \/ PersistHalt

Spec == Init /\ [][Next]_vars

\* Tasks that can run do run, opened connections succeed or fail, and a
\* closed socket is noticed. Nothing makes the venue end an open stream.
FairSpec ==
    /\ Spec
    /\ WF_vars((Connect \/ ConnectFails \/ Retry) /\ UNCHANGED feedVars)
    /\ WF_vars(conn.closing /\ StreamEnds /\ UNCHANGED feedVars)
    /\ WF_vars(Pump \/ PumpEnds)
    /\ WF_vars(Ingest \/ PutStop)
    /\ WF_vars(Take \/ \E ok \in BOOLEAN : Process(ok))
    /\ WF_vars(BeginDrain \/ Drained \/ DrainFails \/ Monitor \/ CancelTasks \/ PersistHalt)

-----------------------------------------------------------------------------
(* Properties                                                               *)

Pending(s) == SelectSeq(held \o q3 \o q2 \o out, LAMBDA e : e.src = s)
Produced(s) == IF s = "ws" THEN emitted ELSE polled
InOrder(s) == \A i \in DOMAIN Pending(s) : Pending(s)[i].n = handled[s] + i

\* While no failure is on record every event the connector or a poll emitted
\* is processed or queued, in order, over saturation of each queue.
NoSilentLoss ==
    (rt = "ready" /\ conn.state # "halted" /\ ingest = "run" /\ dispatch # "failed") =>
        \A s \in Sources : /\ InOrder(s)
                           /\ handled[s] + Len(Pending(s)) = Produced(s)

\* What the dispatch task processes of one source comes in order without a
\* hole, also while the worker halts or drains.
ProcessedInOrder ==
    [][\A s \in Sources : handled'[s] # handled[s] => handled'[s] = handled[s] + 1]_vars

\* A worker that stops normally has processed everything the runtime queued.
StopDrains == (sup = "stopped" /\ rt = "stopped") => q2 = <<>> /\ q3 = <<>> /\ held = <<>>

\* A halt of the connector or of the runtime reaches the supervisor of a
\* running worker, through queues that may be full.
FailureReachesWorker ==
    (sup = "running" /\ rt = "ready" /\ conn.state = "halted") ~> sup # "running"

\* An unsafe failure ends with the halt on record: status, kill switch,
\* checkpoint and lease.
HaltCompletes == (sup = "halting") ~> (sup = "halted")
=============================================================================
