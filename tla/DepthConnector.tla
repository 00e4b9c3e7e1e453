--------------------------- MODULE DepthConnector ---------------------------
(***************************************************************************)
(* The public WebSocket connector of one symbol: sessions over two         *)
(* streams, a REST depth snapshot that must be joined with the depth       *)
(* deltas which arrive before and after it, readiness, recovery with       *)
(* back-off, and a bounded output queue that is never dropped silently.    *)
(*                                                                         *)
(* Update n of the venue sets price level n % 2 to the value n, so a book  *)
(* that misses an update differs from the venue's.                         *)
(***************************************************************************)
EXTENDS Naturals, Sequences, FiniteSetsExt, SequencesExt

CONSTANTS
    MaxId,          \* bound: depth updates of the venue
    MaxMarks,       \* bound: messages of the market stream
    MaxSessions,    \* bound: sessions opened
    BufferSize,     \* depth_buffer_size
    QueueSize       \* queue_size of the connector

ASSUME ConnectorAssumption ==
    /\ {MaxId, MaxMarks, MaxSessions} \subseteq Nat
    /\ {BufferSize, QueueSize} \subseteq Nat \ {0}

VARIABLES
    vid,            \* the venue's last depth update
    marks,          \* messages of the market stream so far
    wire,           \* depth deltas sent on the open public stream
    conn,           \* the connector: state, run loop, flags
    snap,           \* REST snapshots of this session: {} not answered yet
    buffer,         \* _depth_buffers: deltas that wait for the snapshot
    book,           \* _books: the reconciled book
    pub,            \* history: the last published book
    out,            \* _queue
    emitted         \* history: number of events emitted

connVars == <<vid, marks, wire, conn, snap, buffer, book, pub, out, emitted>>

Levels == {0, 1}
VenueBook(n) == [l \in Levels |-> Max({k \in 0..n : k % 2 = l} \cup {0})]
Changes(delta) == {k \in delta.first..delta.final : k + 2 > delta.final}
NoBook == [seq |-> 0, started |-> FALSE, levels |-> [l \in Levels |-> 0], open |-> FALSE]

-----------------------------------------------------------------------------
(* BinanceDepthBook                                                         *)

FromSnapshot(id) == [seq |-> id, started |-> FALSE, levels |-> VenueBook(id), open |-> TRUE]

Stale(b, delta) == delta.final <= b.seq

\* Mutant: the first delta may also start after the snapshot.
LinksAnyStart(b, delta) == b.started => delta.prev = b.seq

Links(b, delta) ==
    \/ delta.prev = b.seq
    \/ ~b.started /\ delta.first <= b.seq /\ b.seq <= delta.final

ApplyDelta(b, delta) ==
    [b EXCEPT !.seq = delta.final, !.started = TRUE,
              !.levels = [l \in Levels |->
                  IF \E k \in Changes(delta) : k % 2 = l
                  THEN CHOOSE k \in Changes(delta) : k % 2 = l ELSE @[l]]]

\* Applying the buffered deltas in order: the book, how many books were
\* published and whether the sequence broke.
Replay(b, deltas) ==
    FoldLeft(LAMBDA r, delta :
                 IF r.gap \/ Stale(r.book, delta) THEN r
                 ELSE IF ~Links(r.book, delta) THEN [r EXCEPT !.gap = TRUE]
                 ELSE [r EXCEPT !.book = ApplyDelta(@, delta), !.count = @ + 1],
             [book |-> b, count |-> 0, gap |-> FALSE], deltas)

-----------------------------------------------------------------------------
(* Sessions                                                                 *)

InSession == conn.run = "session"

\* _set_halt: the run loop ends and the failure is kept for the consumer.
HaltedConn == [conn EXCEPT !.state = "halted", !.running = FALSE, !.run = "done"]

\* A recoverable error ends the session; the loop ends too when it was told
\* to stop.
Recovered ==
    IF conn.running THEN [conn EXCEPT !.state = "recovering", !.run = "backoff"]
                    ELSE [conn EXCEPT !.state = "stopped", !.run = "done"]

\* What a session held is not read after it: the next one starts afresh.
Discard ==
    /\ wire' = <<>>
    /\ snap' = {}
    /\ buffer' = <<>>
    /\ book' = NoBook

Recover ==
    /\ conn' = Recovered
    /\ Discard
    /\ UNCHANGED <<vid, marks, pub, out, emitted>>

SetHalt ==
    /\ conn' = HaltedConn
    /\ Discard
    /\ UNCHANGED <<vid, marks, pub, out, emitted>>

\* _emit: the events that fit are queued, the first that does not fit halts.
Emit(count, next) ==
    LET fits == Min({count, QueueSize - Len(out)})
    IN  /\ out' = out \o [i \in 1..fits |-> [src |-> "ws", n |-> emitted + i]]
        /\ emitted' = emitted + count
        /\ conn' = IF fits < count THEN HaltedConn ELSE next

\* _update_readiness
Readiness(c) ==
    IF c.depth /\ c.bookReady /\ c.marketReady
    THEN [c EXCEPT !.state = "ready", !.waited = TRUE] ELSE c


\* Both sockets are open: _run_session starts, even when stop was called
\* while they were being opened.
Connect ==
    /\ conn.run = "connecting"
    /\ conn.sessions < MaxSessions
    /\ conn' = [conn EXCEPT !.run = "session", !.depth = FALSE, !.bookReady = FALSE,
                            !.marketReady = FALSE, !.sessions = @ + 1]
    /\ snap' = {}
    /\ buffer' = <<>>
    /\ book' = NoBook
    /\ UNCHANGED <<vid, marks, wire, pub, out, emitted>>

ConnectFails == conn.run = "connecting" /\ Recover

\* The back-off sleep ends; the loop condition is read again.
Retry ==
    /\ conn.run = "backoff"
    /\ conn' = IF conn.running THEN [conn EXCEPT !.run = "connecting"]
                               ELSE [conn EXCEPT !.state = "stopped", !.run = "done"]
    /\ UNCHANGED <<vid, marks, wire, snap, buffer, book, pub, out, emitted>>

-----------------------------------------------------------------------------
(* The venue and the tasks of a session                                     *)

\* The venue changes its book; the open stream carries the change or, when
\* the venue skips a message, does not.
VenueDelta(n, sent) ==
    /\ conn.run \in {"connecting", "session"}
    /\ vid + n <= MaxId
    /\ vid' = vid + n
    /\ wire' = IF InSession /\ sent
               THEN Append(wire, [first |-> vid + 1, final |-> vid + n, prev |-> vid]) ELSE wire
    /\ UNCHANGED <<marks, conn, snap, buffer, book, pub, out, emitted>>

\* get_depth_snapshot answers with the current book or an older one.
ServeSnapshot(id) ==
    /\ InSession
    /\ snap = {} /\ ~book.open
    /\ id <= vid
    /\ snap' = {id}
    /\ UNCHANGED <<vid, marks, wire, conn, buffer, book, pub, out, emitted>>

\* _initialize_books: the snapshot is joined with the buffered deltas. The
\* books before a gap are published all the same.
InitializeBooks ==
    /\ InSession
    /\ \E id \in snap :
          LET r == Replay(FromSnapshot(id), buffer)
              ready == [conn EXCEPT !.depth = TRUE, !.bookReady = @ \/ r.count > 0]
          IN  /\ Emit(r.count, IF r.gap THEN Recovered ELSE Readiness(ready))
              /\ pub' = IF r.count > 0 THEN r.book ELSE pub
              /\ IF r.gap THEN Discard
                 ELSE book' = r.book /\ snap' = {} /\ buffer' = <<>> /\ UNCHANGED wire
    /\ UNCHANGED <<vid, marks>>

\* _read_messages on the public stream.
ReadDelta ==
    /\ InSession
    /\ wire # <<>>
    /\ LET delta == Head(wire)
       IN  IF ~book.open
           THEN IF Len(buffer) >= BufferSize THEN SetHalt
                ELSE /\ buffer' = Append(buffer, delta)
                     /\ wire' = Tail(wire)
                     /\ UNCHANGED <<vid, marks, conn, snap, book, pub, out, emitted>>
           ELSE IF Stale(book, delta)
           THEN /\ wire' = Tail(wire)
                /\ UNCHANGED <<vid, marks, conn, snap, buffer, book, pub, out, emitted>>
           ELSE IF ~Links(book, delta) THEN Recover
           ELSE /\ Emit(1, Readiness([conn EXCEPT !.bookReady = TRUE]))
                /\ book' = ApplyDelta(book, delta)
                /\ pub' = ApplyDelta(book, delta)
                /\ wire' = Tail(wire)
                /\ UNCHANGED <<vid, marks, snap, buffer>>

\* _read_messages on the market stream: a mark, or another market event.
ReadMarket(mark) ==
    /\ InSession
    /\ marks < MaxMarks
    /\ marks' = marks + 1
    /\ Emit(1, IF mark THEN Readiness([conn EXCEPT !.marketReady = TRUE]) ELSE conn)
    /\ UNCHANGED <<vid, wire, snap, buffer, book, pub>>

\* A stream ends, a snapshot request fails, or a closed socket is noticed.
StreamEnds == InSession /\ Recover

\* A message breaks the public contract.
ContractViolation == InSession /\ SetHalt

\* start, and stop: the loop is told to end and the sockets that are open are closed.
StartedConn == [conn EXCEPT !.state = "starting", !.run = "connecting", !.running = TRUE]

StoppedConn ==
    IF conn.state \in {"stopped", "halted"} THEN [conn EXCEPT !.running = FALSE]
    ELSE [conn EXCEPT !.running = FALSE, !.state = "stopping", !.closing = InSession]

Start ==
    /\ conn.run = "off"
    /\ conn' = StartedConn
    /\ UNCHANGED <<vid, marks, wire, snap, buffer, book, pub, out, emitted>>

StopConn ==
    /\ conn.run # "off" /\ conn # StoppedConn
    /\ conn' = StoppedConn
    /\ UNCHANGED <<vid, marks, wire, snap, buffer, book, pub, out, emitted>>

\* events: the consumer takes the oldest event.
Consume ==
    /\ out # <<>>
    /\ out' = Tail(out)
    /\ UNCHANGED <<vid, marks, wire, conn, snap, buffer, book, pub, emitted>>

ConnInit ==
    /\ vid = 0
    /\ marks = 0
    /\ wire = <<>>
    /\ conn = [state |-> "stopped", run |-> "off", running |-> FALSE,
               closing |-> FALSE, waited |-> FALSE, depth |-> FALSE,
               bookReady |-> FALSE, marketReady |-> FALSE, sessions |-> 0]
    /\ snap = {}
    /\ buffer = <<>>
    /\ book = NoBook
    /\ pub = NoBook
    /\ out = <<>>
    /\ emitted = 0

ConnNext ==
    \/ Connect
    \/ ConnectFails
    \/ Retry
    \/ \E n \in 1..2, sent \in BOOLEAN : VenueDelta(n, sent)
    \/ \E id \in 0..MaxId : ServeSnapshot(id)
    \/ InitializeBooks
    \/ ReadDelta
    \/ \E mark \in BOOLEAN : ReadMarket(mark)
    \/ StreamEnds
    \/ ContractViolation

\* The connector on its own, with a consumer of its queue.
ConnSpec == ConnInit /\ [][ConnNext \/ Start \/ StopConn \/ Consume]_connVars

-----------------------------------------------------------------------------
(* Properties                                                               *)

\* Type correctness of the connector's state and of its bounded queues.
ConnTypeOK ==
    /\ vid \in 0..MaxId /\ marks \in 0..MaxMarks
    /\ conn.state \in {"stopped", "starting", "ready", "recovering", "stopping", "halted"}
    /\ conn.run \in {"off", "connecting", "session", "backoff", "done"}
    /\ conn.sessions \in 0..MaxSessions
    /\ snap \subseteq 0..MaxId
    /\ Len(buffer) <= BufferSize /\ Len(out) <= QueueSize

\* A published book is the venue's book at the update it names, over lost
\* deltas, late snapshots and reconnections: what BinanceDepthBook promises
\* to every fill priced from it.
BookFaithful == pub.open => pub.levels = VenueBook(pub.seq)

=============================================================================
