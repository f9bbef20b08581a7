------------------------------ MODULE EventSpread ------------------------------
(***************************************************************************)
(* event-spread.c: the push and pull attributes.  One perf-prof process    *)
(* broadcasts the events of a tracepoint, over tcp to the clients of its   *)
(* server or into a virtio port; another one pulls them, through one       *)
(* event_block per connection, directly or as streams of order.c.          *)
(***************************************************************************)
EXTENDS Net

CONSTANTS
    Watched,      \* the clients that liveness is about
    Envs,         \* [type : {"tcp", "cdev"}, order, match : BOOLEAN, clients, events,
                  \*  ticks: of the perf-clock service, ends: how order_process() may end]
    MaxRing,      \* events in the ring buffer of the pushing process
    MaxHangups    \* reconnections of a virtio port

VARIABLES
    env,
    \* The pushing process.
    gen,          \* events the kernel has written
    ring,         \* those not processed yet, all at the end
    lost_pause,   \* the first of them was kept back, for a loss that may follow it
    break_reason, \* of order.c: "TARGET" or "HALT" (LOST_WAIT, STREAM_STOP)
    unset,        \* history: ticks whose order_to() left break_reason as it was
    ticks,
    srv,          \* "listen" or "dead"
    st,           \* of a client: "wait", "open", "gone"
    cli, net,     \* its socket, or its cdev_block, and the kernel's buffers
    cast,         \* records broadcast to it
    \* The pulling process.
    blk,          \* event_block: "connect", "open", "free"
    copy,         \* event_copy or event_buf, reassembled
    init,         \* order.c wants a new batch of the stream
    tp,           \* the PERF_RECORD_TP matched, remote_id is known
    seen,         \* records given to perf_event_process_record()
    taken,        \* broadcast records that left the stream, reported losses included
    enabled,      \* prof_dev_enabled(tp->dev)
    kernel,       \* tp->kernel
    freeing,      \* eb_list->freeing
    hangups,
    fault         \* a freed block was used

orderVars == <<lost_pause, break_reason, unset>>
pushVars == <<gen, ring, orderVars, ticks, srv, st, cli, cast>>
pullVars == <<blk, copy, init, tp, seen, taken, enabled, kernel, freeing, hangups, fault>>
vars == <<env, net, pushVars, pullVars>>

Clients == env.clients
Tcp == env.type = "tcp"
TP == <<"TP", 0>>
Connected(c) == st[c] = "open"
Link(c) == [s |-> cli[c], q |-> net[c], up |-> blk[c] = "open"]
--------------------------------------------------------------------------------
\* cdev_block: head is `write', tail is `send'.

CIRC_CNT_TO_END(s) == Smaller(BUF_LEN - s.send, buf_cnt(s))
CIRC_SPACE_TO_END(s) == Smaller(BUF_LEN - s.write, buf_idle(s))

\* block_broadcast(): two copies when the record wraps.
CdevWrite(s, us) ==
    LET n == Smaller(Len(us), CIRC_SPACE_TO_END(s))
    IN  [s EXCEPT !.buf = Copy(Copy(@, s.write, SubSeq(us, 1, n)), 0, SubSeq(us, n + 1, Len(us))),
                  !.write = (@ + Len(us)) % BUF_LEN,
                  !.out = @ \/ buf_is_empty(s)]

\* write(2) to a virtio port takes all of it when it has a free buffer.
CdevRoom(x) == x.up /\ Len(x.q) < SockLen
CdevSend(x) ==
    LET n == CIRC_CNT_TO_END(x.s)
    IN  [x EXCEPT !.q = @ \o SubSeq(Queued(x.s), 1, n), !.s.send = (@ + n) % BUF_LEN]

\* After a write that made room for it the loss is broadcast.
CdevLost(s, wr) ==
    IF s.lost > 0 /\ wr >= Size(LOST(0))
    THEN [CdevWrite(s, Units(LOST(s.lost))) EXCEPT !.lost = 0]
    ELSE s

\* handle_cdev_event() for EPOLLOUT, from `retry'.
RECURSIVE CdevOut(_)
CdevOut(x) ==
    LET n == CIRC_CNT_TO_END(x.s)
        y == CdevSend(x)
    IN  IF n = 0 THEN [x EXCEPT !.s.out = FALSE]
        ELSE IF ~CdevRoom(x) THEN x
        ELSE CdevOut([y EXCEPT !.s = CdevLost(@, n)])

CdevBroadcast(x, us) ==
    LET y == IF buf_idle(x.s) < Len(us) THEN CdevOut(x) ELSE x
    IN  IF buf_idle(y.s) >= Len(us) THEN [y EXCEPT !.s = CdevWrite(@, us)]
        ELSE [y EXCEPT !.s.lost = @ + 1]
--------------------------------------------------------------------------------
\* block_broadcast
Broadcast(x, us) == IF Tcp THEN tcp_send(x, us) ELSE CdevBroadcast(x, us)

Event(n) == <<"SAMPLE", n>>
Order_Time(n) == <<"ORDER_TIME", n>>
Events(from, n) == [i \in 1 .. n |-> Event(from + i)]

\* tp_broadcast_event() for each of a sequence of records, with the links of
\* the clients as they are.
RECURSIVE CastAll(_, _)
CastAll(x, rs) ==
    IF rs = <<>> \/ ~x.s.linked THEN x ELSE CastAll(Broadcast(x, Units(Head(rs))), Tail(rs))

BroadcastAll(rs) ==
    \E R \in {[c \in Clients |-> IF Connected(c) THEN CastAll(Link(c), rs) ELSE Link(c)]} :
        /\ cli' = [c \in Clients |-> R[c].s]
        /\ net' = [c \in Clients |-> R[c].q]
        /\ cast' = [c \in Clients |-> IF Connected(c) THEN cast[c] + Len(rs) ELSE cast[c]]

KernelEvent ==
    /\ srv = "listen" /\ gen < env.events /\ ring < MaxRing
    /\ gen' = gen + 1 /\ ring' = ring + 1
    /\ UNCHANGED <<env, net, orderVars, ticks, srv, st, cli, cast, pullVars>>

Ends == {"TARGET", "LOST_WAIT", "STREAM_STOP"}

\* A call of order_process() stops again where it has stopped before.
StopsAgain(k, end) == end = "LOST_WAIT" /\ lost_pause /\ k = 0

\* order_process() gives the profiler k events.  Its break_reason says how it
\* ended, but not when it stops again.
order_process(k, end) ==
    /\ ring' = ring - k
    /\ lost_pause' = (end = "LOST_WAIT" \/ (lost_pause /\ k = 0))
    /\ break_reason' = IF StopsAgain(k, end) THEN break_reason
                       ELSE IF end = "TARGET" THEN "TARGET" ELSE "HALT"

\* Some ring buffer is readable: the events are broadcast.
ProcessEvents(k, end) ==
    /\ srv = "listen" /\ ring > 0
    /\ CASE end = "TARGET" -> k > 0 [] end = "LOST_WAIT" -> k < ring [] OTHER -> TRUE
    /\ order_process(k, end)
    /\ BroadcastAll(Events(gen - ring, k))
    /\ UNCHANGED <<env, gen, unset, ticks, srv, st, pullVars>>

\* Mutant: the time is announced even if order_to() ended early.
AnnouncedAnyway(t, reason) == gen - ring <= t
\* break_reason is neither LOST_WAIT nor STREAM_STOP, and last_event_time is
\* before the tick.
Announced(t, reason) == reason = "TARGET" /\ gen - ring <= t
\* perf_clock_sample() for a tick that came after event t: unless all events
\* that were processed are later, order_to() processes k of the events before
\* it, all of them unless it ends early.
perf_clock_sample(t, k, end) ==
    LET called == gen - ring <= t
        todo == t - (gen - ring)
    IN  /\ srv = "listen" /\ ticks < env.ticks
        /\ IF called
           THEN /\ CASE end = "TARGET"    -> k = todo
                     [] end = "LOST_WAIT" -> k < todo
                     [] OTHER             -> k <= todo
                /\ order_process(k, end)
           ELSE k = 0 /\ end = "TARGET" /\ UNCHANGED <<ring, lost_pause, break_reason>>
        /\ BroadcastAll(Events(gen - ring, k)
                        \o (IF Announced(t, break_reason') THEN <<Order_Time(t)>> ELSE <<>>))
        /\ unset' = IF called /\ StopsAgain(k, end) THEN unset \cup {t} ELSE unset
        /\ ticks' = ticks + 1
        /\ UNCHANGED <<env, gen, srv, st, pullVars>>

\* The three parts of a PERF_RECORD_TP are sent one by one.
Header(x) ==
    LET u == Units(TP)
    IN  Broadcast(Broadcast(Broadcast(x, <<u[1]>>), <<u[2]>>), <<u[3]>>)

\* tcp_new_client, cdev_write_header: the header, then prof_dev_flush().
HeaderThenFlush(x, rs) == CastAll(Header(x), rs)

\* handle_accept, or EPOLLOUT of a cdev that was not connected, which goes on
\* to write.  The flush reaches the other clients, too.
handle_accept(c) ==
    /\ srv = "listen" /\ st[c] = "wait" /\ blk[c] = "open"
    /\ \E rs \in {Events(gen - ring, ring)} :
       \E x  \in {HeaderThenFlush(Link(c), rs)} :
       \E y  \in {IF Tcp THEN x ELSE CdevOut(x)} :
       \E R  \in {[d \in Clients |-> IF d = c THEN y ELSE IF Connected(d) THEN CastAll(Link(d), rs) ELSE Link(d)]} :
           /\ cli' = [d \in Clients |-> R[d].s]
           /\ net' = [d \in Clients |-> R[d].q]
           /\ cast' = [d \in Clients |-> IF d = c \/ Connected(d) THEN cast[d] + ring ELSE cast[d]]
    /\ IF ring > 0 THEN order_process(ring, "TARGET")
       ELSE UNCHANGED <<ring, lost_pause, break_reason>>
    /\ st' = [st EXCEPT ![c] = "open"]
    /\ UNCHANGED <<env, gen, unset, ticks, srv, pullVars>>

\* EPOLLOUT.
HandleEpollOut(c) ==
    /\ srv = "listen" /\ Connected(c) /\ cli[c].out /\ blk[c] = "open"
    /\ Len(net[c]) < SockLen
    /\ \E x \in {IF Tcp THEN HandleOut(Link(c), FALSE) ELSE CdevOut(Link(c))} :
           cli' = [cli EXCEPT ![c] = x.s] /\ net' = [net EXCEPT ![c] = x.q]
    /\ UNCHANGED <<env, gen, ring, orderVars, ticks, srv, st, cast, pullVars>>

\* handle_inout() finds the end of the connection, by EPOLLIN, EPOLLHUP or an
\* error of send(2): tcp_unref().
HandleHup(c) ==
    /\ Tcp /\ srv = "listen" /\ Connected(c) /\ blk[c] = "free"
    /\ st' = [st EXCEPT ![c] = "gone"]
    /\ cli' = [cli EXCEPT ![c] = tcp_client_init]
    /\ UNCHANGED <<env, net, gen, ring, orderVars, ticks, srv, cast, pullVars>>

\* "reset circ_buf"
CdevReset(s) == [s EXCEPT !.write = 0, !.send = 0, !.lost = 0, !.out = FALSE]
\* EPOLLHUP of a cdev: reset and "reopen".
HandleCdevHup(c) ==
    /\ ~Tcp /\ srv = "listen" /\ Connected(c) /\ blk[c] = "free"
    /\ st' = [st EXCEPT ![c] = "wait"]
    /\ cli' = [cli EXCEPT ![c] = CdevReset(@)]
    /\ cast' = [cast EXCEPT ![c] = 0]
    /\ UNCHANGED <<env, net, gen, ring, orderVars, ticks, srv, pullVars>>

\* The process ends: what the kernel has accepted is delivered, and then the
\* end of the stream.
PushEnds(L) ==
    /\ srv = "listen" /\ srv' = "dead"
    /\ st' = [c \in Clients |-> "gone"]
    /\ cli' = [c \in Clients |-> L[c].s] /\ net' = [c \in Clients |-> L[c].q]
    /\ UNCHANGED <<env, gen, ring, orderVars, ticks, cast, pullVars>>

\* tcp_close() of the server: tcp_close_flush() writes each client's buffer
\* through a blocking socket, once.
tcp_close_flush(c) ==
    IF Tcp /\ Connected(c) /\ cli[c].linked /\ blk[c] = "open" THEN HandleOut(Link(c), TRUE)
    ELSE Link(c)
PushClose == PushEnds([c \in Clients |-> tcp_close_flush(c)])
PushKilled == PushEnds([c \in Clients |-> Link(c)])
--------------------------------------------------------------------------------
\* The pulling process.

AllFree(b) == \A c \in Clients : b[c] = "free"
\* Mutant: every block that goes enables the kernel events.
ReEnableEach(b) == TRUE
\* "re-enable kernel events": with the last block.
ReEnable(b) == ~freeing /\ AllFree(b)

\* block_free: the connection is closed and what was received is dropped.
block_free(c) ==
    LET b == [blk EXCEPT ![c] = "free"]
    IN  /\ blk' = b
        /\ kernel' = (kernel \/ ReEnable(b))
        /\ copy' = [copy EXCEPT ![c] = <<>>] /\ init' = [init EXCEPT ![c] = TRUE]
        /\ tp' = [tp EXCEPT ![c] = FALSE]
        /\ seen' = [seen EXCEPT ![c] = <<>>] /\ taken' = [taken EXCEPT ![c] = 0]
        /\ net' = [net EXCEPT ![c] = <<>>]

\* handle_connect
handle_connect(c) ==
    /\ blk[c] = "connect" /\ ~fault
    /\ IF srv = "listen"
       THEN /\ blk' = [blk EXCEPT ![c] = "open"]
            /\ UNCHANGED <<net, copy, init, tp, seen, taken, kernel>>
       ELSE block_free(c)
    /\ UNCHANGED <<env, pushVars, enabled, freeing, hangups, fault>>

\* A record can be read when all of it is there; its size is in its header.
Complete(s) == Len(s) > 1 /\ Len(s) >= Size(s[1][1])
FirstRecord(s) == IF SubSeq(s, 1, Size(s[1][1])) = Units(s[1][1]) THEN s[1][1] ELSE <<"BAD", 0>>
Behind(s) == SubSeq(s, Size(s[1][1]) + 1, Len(s))

\* A record counts for what was broadcast, or for what it says was lost.
Weight(r) == IF r[1] = "LOST" THEN r[2] ELSE IF r[1] = "TP" THEN 0 ELSE 1

\* block_event_convert: the events of some cpus have no instance here.
block_event_convert(n) == IF n % 3 = 0 THEN -1 ELSE (n % 3) - 1

\* block_process_event: whether the record goes to the profiler.
Passes(r) ==
    \/ r[1] = "BAD"
    \/ r[1] # "TP" /\ enabled /\ (r[1] = "SAMPLE" => block_event_convert(r[2]) >= 0)

\* The records of s, and what is left.
RECURSIVE Records(_)
Records(s) == IF Complete(s) THEN <<FirstRecord(s)>> \o Records(Behind(s)) ELSE <<>>
RECURSIVE Rest(_)
Rest(s) == IF Complete(s) THEN Rest(Behind(s)) ELSE s

RECURSIVE TotalWeight(_)
TotalWeight(rs) == IF rs = <<>> THEN 0 ELSE Weight(Head(rs)) + TotalWeight(Tail(rs))

\* block_process_event() for the records rs, of which none refuses the stream.
Process(c, rs) ==
    /\ tp' = [tp EXCEPT ![c] = @ \/ Contains(rs, TP)]
    /\ seen' = [seen EXCEPT ![c] = @ \o SelectSeq(rs, Passes)]
    /\ taken' = [taken EXCEPT ![c] = @ + TotalWeight(rs)]
    /\ UNCHANGED <<blk, kernel>>

\* One turn of the loop of handle_inout(): recv(2) returns k units, and
\* tcp_process_event() takes the complete records.
Recv(c, k) ==
    /\ blk[c] = "open" /\ ~env.order
    /\ k \in 1 .. Smaller(Len(net[c]), BUF_LEN - Len(copy[c]))
    /\ \E s  \in {copy[c] \o SubSeq(net[c], 1, k)} :
       \E rs \in {Records(s)} :
           IF Contains(rs, TP) /\ ~env.match THEN block_free(c)
           ELSE /\ Process(c, rs)
                /\ copy' = [copy EXCEPT ![c] = Rest(s)]
                /\ net' = [net EXCEPT ![c] = SubSeq(@, k + 1, Len(@))]
                /\ UNCHANGED init
    /\ UNCHANGED <<env, pushVars, enabled, freeing, hangups, fault>>

EndOfStream(c) == Tcp /\ srv = "dead" /\ net[c] = <<>>

\* recv(2) returns 0: handle_errhup(), tcp_disconnect().
RecvEnd(c) ==
    /\ blk[c] = "open" /\ ~env.order /\ EndOfStream(c)
    /\ block_free(c)
    /\ UNCHANGED <<env, pushVars, enabled, freeing, hangups, fault>>

\* block_read_event: the record that was returned before is consumed.
Consumed(s) == IF Complete(s) THEN Behind(s) ELSE s
NeedsRead(c) == init[c] /\ ~Complete(Consumed(copy[c]))

\* From tcp_retry to a return or to the next tcp_retry.  A batch ends with the
\* last complete record; stream_event_init() asks again after a record that
\* has no time.
block_read_event(c, k) ==
    /\ blk[c] = "open" /\ env.order /\ ~fault
    /\ IF NeedsRead(c) THEN k \in 1 .. Smaller(Len(net[c]), BUF_LEN - Len(Consumed(copy[c]))) ELSE k = 0
    /\ LET s == Consumed(copy[c]) \o SubSeq(net[c], 1, k)
           Keep == /\ copy' = [copy EXCEPT ![c] = s]
                   /\ net' = [net EXCEPT ![c] = SubSeq(@, k + 1, Len(@))]
       IN  IF Complete(s)
           THEN IF FirstRecord(s) = TP /\ ~env.match THEN block_free(c)
                ELSE /\ Keep /\ Process(c, <<FirstRecord(s)>>)
                     /\ init' = [init EXCEPT ![c] =
                            @ /\ ~(Passes(FirstRecord(s)) /\ FirstRecord(s)[1] \in {"SAMPLE", "ORDER_TIME"})]
           ELSE /\ Keep /\ init' = [init EXCEPT ![c] = TRUE]
                /\ UNCHANGED <<blk, tp, seen, taken, kernel>>
    /\ UNCHANGED <<env, pushVars, enabled, freeing, hangups, fault>>

\* tcp_recv() returns 0 after handle_errhup() has freed the block, which
\* block_read_event() then writes to.
ReadEnd(c) ==
    /\ blk[c] = "open" /\ env.order /\ ~fault
    /\ NeedsRead(c) /\ EndOfStream(c)
    /\ block_free(c)
    /\ fault' = TRUE
    /\ UNCHANGED <<env, pushVars, enabled, freeing, hangups>>

Enable ==
    /\ ~enabled /\ enabled' = TRUE
    /\ UNCHANGED <<env, net, pushVars, blk, copy, init, tp, seen, taken, kernel, freeing, hangups, fault>>

\* The pulling process ends: block_list_free().
PullClose ==
    /\ ~freeing /\ ~AllFree(blk) /\ freeing' = TRUE
    /\ blk' = [c \in Clients |-> "free"]
    /\ net' = [c \in Clients |-> <<>>] /\ copy' = [c \in Clients |-> <<>>]
    /\ init' = [c \in Clients |-> TRUE] /\ tp' = [c \in Clients |-> FALSE]
    /\ seen' = [c \in Clients |-> <<>>] /\ taken' = [c \in Clients |-> 0]
    /\ UNCHANGED <<env, pushVars, enabled, kernel, hangups, fault>>

\* Another process connects to the virtio port, after the hangup was seen.
Reconnect(c) ==
    /\ ~Tcp /\ blk[c] = "free" /\ st[c] = "wait" /\ hangups < MaxHangups
    /\ blk' = [blk EXCEPT ![c] = "connect"]
    /\ kernel' = FALSE /\ freeing' = FALSE
    /\ hangups' = hangups + 1
    /\ UNCHANGED <<env, net, pushVars, copy, init, tp, seen, taken, enabled, fault>>
--------------------------------------------------------------------------------
Init ==
    /\ env \in Envs
    /\ gen = 0 /\ ring = 0 /\ ticks = 0 /\ srv = "listen"
    /\ lost_pause = FALSE /\ break_reason = "TARGET" /\ unset = {}
    /\ st = [c \in Clients |-> "wait"]
    /\ cli = [c \in Clients |-> tcp_client_init]
    /\ net = [c \in Clients |-> <<>>] /\ cast = [c \in Clients |-> 0]
    \* block_new()
    /\ blk = [c \in Clients |-> "connect"]
    /\ copy = [c \in Clients |-> <<>>] /\ init = [c \in Clients |-> TRUE]
    /\ tp = [c \in Clients |-> FALSE]
    /\ seen = [c \in Clients |-> <<>>] /\ taken = [c \in Clients |-> 0]
    /\ enabled \in BOOLEAN
    /\ kernel = FALSE /\ freeing = FALSE /\ hangups = 0 /\ fault = FALSE

Push ==
    \/ KernelEvent
    \/ \E k \in 0 .. ring, end \in env.ends :
          ProcessEvents(k, end) \/ \E t \in 0 .. gen : perf_clock_sample(t, k, end)
    \/ PushClose \/ PushKilled
    \/ \E c \in Clients : handle_accept(c) \/ HandleEpollOut(c) \/ HandleHup(c) \/ HandleCdevHup(c)

Read(c) == \/ \E k \in 1 .. BUF_LEN : Recv(c, k)
           \/ \E k \in 0 .. BUF_LEN : block_read_event(c, k)
           \/ RecvEnd(c) \/ ReadEnd(c)

Pull ==
    \/ Enable \/ PullClose
    \/ \E c \in Clients : handle_connect(c) \/ Read(c) \/ Reconnect(c)

Next == Push \/ Pull

Spec == Init /\ [][Next]_vars

\* Both processes poll: a socket that can be written or read is.
FairSpec ==
    /\ Spec
    /\ \A c \in Watched : /\ WF_vars(c \in Clients /\ HandleEpollOut(c))
                             /\ WF_vars(c \in Clients /\ Read(c))
--------------------------------------------------------------------------------
\* What has been broadcast to c and has not been taken from the stream.
InTransit(c) ==
    LET s == Consumed(copy[c]) \o net[c] \o Queued(cli[c])
    IN  SelectSeq(s, LAMBDA u : u[2] = 1)

\* The profiler of the pulling process gets whole records, none before the
\* PERF_RECORD_TP of its connection was checked, and the samples in their
\* order, wherever the stream was cut by send(2), by recv(2) and by the ends of
\* the buffers, and after a virtio port was reopened.
WholeStream ==
    \A c \in Clients :
        /\ seen[c] # <<>> => tp[c]
        /\ \A i \in DOMAIN seen[c] : seen[c][i][1] # "BAD"
        /\ \A i, j \in DOMAIN seen[c] :
              i < j /\ seen[c][i][1] = "SAMPLE" /\ seen[c][j][1] = "SAMPLE"
                => seen[c][i][2] < seen[c][j][2]

\* While a connection lasts, every record that was broadcast to it is counted
\* once: it was received, it is on its way, or it is part of a loss that was,
\* or will be, reported.
LossAccounted ==
    \A c \in Clients : Connected(c) /\ blk[c] = "open" =>
        LET transit == InTransit(c)
        IN  cast[c] = taken[c] + cli[c].lost
                      + TotalWeight([i \in DOMAIN transit |-> transit[i][1]])

\* PERF_RECORD_ORDER_TIME is a promise that nothing earlier follows, which the
\* heap sort of the pulling process relies on: it never comes after a later
\* sample, and never before a sample of its time, but for the times of the
\* calls that stopped again and left break_reason as it was.
OrderTimeSafe ==
    \A c \in Clients : \A i, j \in DOMAIN seen[c] : i < j =>
        /\ seen[c][i][1] = "ORDER_TIME" /\ seen[c][j][1] = "SAMPLE"
              => seen[c][i][2] < seen[c][j][2] \/ seen[c][i][2] \in unset
        /\ seen[c][i][1] = "SAMPLE" /\ seen[c][j][1] = "ORDER_TIME" => seen[c][i][2] <= seen[c][j][2]

\* "re-enable kernel events": the events of a tracepoint come from its
\* connections while there is one, and then from the kernel.
FallsBack == ~freeing => (kernel <=> AllFree(blk))

\* Nothing stays in a send buffer, and no loss stays unreported, while the
\* connection lasts: EPOLLOUT is registered whenever it is needed.
Waiting(c) == /\ c \in Clients
              /\ Connected(c) /\ blk[c] = "open"
              /\ ~buf_is_empty(cli[c]) \/ cli[c].lost > 0
Drains == \A c \in Watched : Waiting(c) ~> ~Waiting(c)
================================================================================
