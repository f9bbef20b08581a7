---------------------------------- MODULE Net ----------------------------------
(***************************************************************************)
(* net.c: the send buffer of a tcp client.                                 *)
(*                                                                         *)
(* A socket is [buf, send, write, lost, out, linked]: the circular buffer  *)
(* and its two indices, lost_event.lost, whether EPOLLOUT is registered,   *)
(* and whether the client is in the clilist of its server.  A link is the  *)
(* socket `s' with `q', what the kernel has accepted and the peer has not  *)
(* read, and `up', whether the peer is there.  Memory is counted in units  *)
(* of a perf_event_header.                                                 *)
(***************************************************************************)
EXTENDS Integers, Sequences, FiniteSets, SequencesExt

CONSTANTS
    BUF_LEN,    \* of the send buffer, a power of two
    SockLen     \* what the kernel buffers of a connection hold

\* A record is <<type, n>>: the number of an event, a time, or a count.
Size(r) ==
    CASE r[1] = "SAMPLE" -> IF r[2] % 2 = 1 THEN 3 ELSE 2
      [] r[1] = "TP" -> 3
      [] OTHER -> 2
LOST(n) == <<"LOST", n>>
Units(r) == [k \in 1 .. Size(r) |-> <<r, k>>]

Index == 0 .. BUF_LEN - 1
\* tcp_client_init
tcp_client_init ==
    [buf |-> [i \in Index |-> <<>>], send |-> 0, write |-> 0, lost |-> 0,
     out |-> FALSE, linked |-> TRUE]

CIRC_CNT(h, t) == (h - t) % BUF_LEN
CIRC_SPACE(h, t) == CIRC_CNT(t, h + 1)
buf_cnt(s) == CIRC_CNT(s.write, s.send)
buf_idle(s) == CIRC_SPACE(s.write, s.send)
buf_is_empty(s) == buf_cnt(s) = 0

\* What is in the buffer, in the order in which it will be sent.
Queued(s) == [i \in 1 .. buf_cnt(s) |-> s.buf[(s.send + i - 1) % BUF_LEN]]

Copy(buf, at, us) ==
    [i \in Index |-> IF at <= i /\ i < at + Len(us) THEN us[i - at + 1] ELSE buf[i]]

\* Mutant: only a record that does not end at the end of the buffer is split.
BufWriteOverEnd(s, us) ==
    LET n == IF s.write + Len(us) > BUF_LEN + 1 THEN BUF_LEN - s.write ELSE 0
        w == IF n > 0 THEN 0 ELSE s.write
        rest == SubSeq(us, n + 1, Len(us))
    IN  [s EXCEPT !.buf = Copy(Copy(@, s.write, SubSeq(us, 1, n)), w, rest),
                  !.write = (w + Len(rest)) % BUF_LEN]
\* Up to the end of the buffer, and the rest at its start.
buf_write(s, us) ==
    LET n == IF s.write + Len(us) >= BUF_LEN THEN BUF_LEN - s.write ELSE 0
        w == IF n > 0 THEN 0 ELSE s.write
        rest == SubSeq(us, n + 1, Len(us))
    IN  [s EXCEPT !.buf = Copy(Copy(@, s.write, SubSeq(us, 1, n)), w, rest),
                  !.write = w + Len(rest)]

\* send(2) of n units: as much as there is room for.  A blocking socket waits
\* for the room.
Smaller(a, b) == IF a < b THEN a ELSE b
Sent(x, n, blocking) == IF blocking THEN n ELSE Smaller(n, SockLen - Len(x.q))
Send(x, n, blocking) ==
    LET k == Sent(x, n, blocking)
    IN  [x EXCEPT !.q = @ \o SubSeq(Queued(x.s), 1, k),
                  !.s.send = (@ + k) % BUF_LEN]

\* Mutant: the report of a loss does not reset the count.
WriteLostKeep(s) ==
    IF s.lost > 0 /\ buf_idle(s) > Size(LOST(0)) THEN buf_write(s, Units(LOST(s.lost))) ELSE s
\* "write lost event"
WriteLost(s) ==
    IF s.lost > 0 /\ buf_idle(s) > Size(LOST(0))
    THEN [buf_write(s, Units(LOST(s.lost))) EXCEPT !.lost = 0]
    ELSE s

\* buf_send() fails, but for EAGAIN.
SendFails(x) == ~x.up /\ ~buf_is_empty(x.s)
\* Two calls of send(2) when the data wraps; one that is cut short, or that
\* finds no room, ends the call.
buf_send(x, blocking) ==
    LET len   == buf_cnt(x.s)
        toend == BUF_LEN - x.s.send
        wraps == x.s.send + len >= BUF_LEN
        y     == IF wraps THEN Send(x, toend, blocking) ELSE x
        short == wraps /\ Sent(x, toend, blocking) # toend
        left  == buf_cnt(y.s)
        z     == Send(y, left, blocking)
    IN  IF short THEN y
        ELSE IF left > 0 /\ Sent(y, left, blocking) = 0 THEN y
        ELSE [z EXCEPT !.s = WriteLost(@)]

\* Mutant: EPOLLOUT is registered only when the record is refused.
TcpSendNoOut(x, us) ==
    LET y == IF buf_idle(x.s) < Len(us) THEN buf_send(x, FALSE) ELSE x
    IN  IF buf_idle(x.s) < Len(us) /\ SendFails(x) THEN [x EXCEPT !.s.linked = FALSE]
        ELSE IF buf_idle(y.s) >= Len(us) THEN [y EXCEPT !.s = buf_write(@, us)]
        ELSE [y EXCEPT !.s.lost = @ + 1, !.s.out = TRUE]
\* A record is written whole or counted as lost.  An error takes the client
\* out of the broadcast; its end is left to the event loop.
tcp_send(x, us) ==
    LET full == buf_idle(x.s) < Len(us)
        y == IF full THEN buf_send(x, FALSE) ELSE x
    IN  IF full /\ SendFails(x) THEN [x EXCEPT !.s.linked = FALSE]
        ELSE IF buf_idle(y.s) >= Len(us)
        THEN [y EXCEPT !.s = [buf_write(@, us) EXCEPT !.out = @ \/ buf_is_empty(y.s)]]
        ELSE [y EXCEPT !.s.lost = @ + 1]

\* handle_inout() for EPOLLOUT, when buf_send() does not fail.
HandleOut(x, blocking) ==
    LET y == buf_send(x, blocking)
    IN  [y EXCEPT !.s.out = @ /\ ~buf_is_empty(y.s)]
================================================================================
