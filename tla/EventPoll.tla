------------------------------- MODULE EventPoll -------------------------------
(***************************************************************************)
(* The event loop (lib/epoll.c) and the timers that use it (timer.c).      *)
(*                                                                         *)
(* epoll_wait(2) returns an array of pointers to struct event_poll_data.   *)
(* While the array is being dispatched a handler may add, delete, destroy  *)
(* and free anything, itself included: the pointers that are still to be   *)
(* dispatched must not be left dangling, although malloc() returns freed   *)
(* addresses and the kernel returns closed descriptors again.              *)
(*                                                                         *)
(* The clients are timers; every other user of the loop follows the same   *)
(* order of calls (add, del, close, free).                                 *)
(***************************************************************************)
EXTENDS Integers, Sequences, FiniteSets

CONSTANTS
    Timers,        \* the timer structures, and the objects they are part of
    Fds,           \* the file descriptors
    Addrs,         \* the addresses that malloc() returns for event_poll_data
    NULL,
    maxevents,     \* event_poll__alloc(maxevents)
    max_exp_once,  \* timer_init(timer, max_exp_once, ...)
    MaxTicks       \* bound: expirations that were not read

ASSUME EventPollAssumption ==
    /\ NULL \notin Timers \cup Fds \cup Addrs
    /\ NULL \notin [fd : Fds, ptr : Timers]
    /\ Cardinality(Addrs) >= Cardinality(Fds)
    /\ {maxevents, max_exp_once, MaxTicks} \subseteq Nat \ {0}

VARIABLES
    timer,   \* timer[t]: the structure
    ticks,   \* ticks[f]: the unread expirations of the timerfd f
    armed,   \* armed[f]: timerfd_settime() with a time
    kernel,  \* kernel[f]: event.data.ptr of f in the epoll set, or NULL
    rdlist,  \* the descriptors of the set that the kernel has found ready
    data,    \* data[a]: the event_poll_data at address a, or NULL; the tree
    events,  \* ep->events[0 .. ep->cnt)
    i,       \* the index of the loop in event_poll__poll()
    ep_i,    \* ep->i
    call,    \* the timer whose handler runs, and the calls that remain
    fault    \* freed memory was used

vars == <<timer, ticks, armed, kernel, rdlist, data, events, i, ep_i, call, fault>>

NoCall == [timer |-> NULL, left |-> 0]
Nothing == [mem |-> "freed", fd |-> NULL, started |-> FALSE]

------------------------------------------------------------------------------
(* The kernel. *)
Open(f) == \E t \in Timers : timer[t].mem = "live" /\ timer[t].fd = f
Ready(f) == kernel[f] # NULL /\ ticks[f] > 0

(* EPOLL_CTL_ADD fails for a descriptor in the set, EPOLL_CTL_MOD for one  *)
(* that is not.                                                            *)
epoll_ctl(op, f, a) ==
    CASE op = "ADD" -> IF kernel[f] = NULL THEN a ELSE kernel[f]
      [] op = "MOD" -> IF kernel[f] = NULL THEN NULL ELSE a
      [] op = "DEL" -> NULL

Listed(f) == \E p \in 1..Len(rdlist) : rdlist[p] = f

(* A descriptor leaves the list with EPOLL_CTL_DEL. *)
Unlisted(f) ==
    IF ~Listed(f) THEN rdlist
    ELSE LET p == CHOOSE q \in 1..Len(rdlist) : rdlist[q] = f
         IN  SubSeq(rdlist, 1, p - 1) \o SubSeq(rdlist, p + 1, Len(rdlist))

Expire(f) ==
    /\ fault = FALSE
    /\ armed[f] /\ ticks[f] < MaxTicks
    /\ ticks' = [ticks EXCEPT ![f] = @ + 1]
    /\ rdlist' = IF kernel[f] = NULL \/ Listed(f) THEN rdlist ELSE Append(rdlist, f)
    /\ UNCHANGED <<timer, armed, kernel, data, events, i, ep_i, call, fault>>

------------------------------------------------------------------------------
(* event_poll__add(f, t) and event_poll__del(f): the new tree, kernel set  *)
(* and array of events.                                                    *)
Find(f) == {a \in Addrs : data[a] # NULL /\ data[a].fd = f}

CtlOpSwapped(found) == IF found THEN "ADD" ELSE "MOD"
CtlOp(found) == IF found THEN "MOD" ELSE "ADD"

event_poll__add(f, t) ==
    \E a \in IF Find(f) # {} THEN Find(f) ELSE {b \in Addrs : data[b] = NULL} :
        /\ data' = [data EXCEPT ![a] = [fd |-> f, ptr |-> t]]
        /\ kernel' = [kernel EXCEPT ![f] = epoll_ctl(CtlOp(Find(f) # {}), f, a)]
        /\ UNCHANGED <<rdlist, events>>

(* The entries of the array that may still be dispatched. *)
StillToCome == ep_i + 1 .. Len(events)

event_poll__del(f) ==
    IF Find(f) = {} THEN UNCHANGED <<data, kernel, rdlist, events>>
    ELSE LET a == CHOOSE b \in Find(f) : TRUE
         IN  /\ events' = [n \in DOMAIN events |->
                              IF n \in StillToCome /\ events[n].ptr = a
                              THEN [events[n] EXCEPT !.ptr = NULL] ELSE events[n]]
             /\ data' = [data EXCEPT ![a] = NULL]
             /\ kernel' = [kernel EXCEPT ![f] = epoll_ctl("DEL", f, NULL)]
             /\ rdlist' = Unlisted(f)

------------------------------------------------------------------------------
(* timer.c.  The program is in main() or in a handler: Running.            *)
Running == fault = FALSE /\ (call # NoCall \/ events = <<>>)

timer_init(t) ==
    /\ Running
    /\ timer[t].mem = "freed"
    /\ \E f \in Fds :
          /\ ~Open(f)
          /\ timer' = [timer EXCEPT ![t] = [mem |-> "live", fd |-> f, started |-> FALSE]]
    /\ UNCHANGED <<ticks, armed, kernel, rdlist, data, events, i, ep_i, call, fault>>

timer_start(t) ==
    /\ Running
    /\ timer[t].mem = "live"
    /\ LET f == timer[t].fd
       IN  /\ armed' = [armed EXCEPT ![f] = TRUE]
           /\ ticks' = [ticks EXCEPT ![f] = 0]
           /\ event_poll__add(f, t)
    /\ timer' = [timer EXCEPT ![t].started = TRUE]
    /\ UNCHANGED <<i, ep_i, call, fault>>

(* timer_cancel(), without the assignment to started. *)
CancelledInverted(t) ==
    IF timer[t].started THEN UNCHANGED <<armed, ticks, data, kernel, rdlist, events>>
    ELSE /\ armed' = [armed EXCEPT ![timer[t].fd] = FALSE]
         /\ ticks' = [ticks EXCEPT ![timer[t].fd] = 0]
         /\ event_poll__del(timer[t].fd)
Cancelled(t) ==
    IF ~timer[t].started THEN UNCHANGED <<armed, ticks, data, kernel, rdlist, events>>
    ELSE /\ armed' = [armed EXCEPT ![timer[t].fd] = FALSE]
         /\ ticks' = [ticks EXCEPT ![timer[t].fd] = 0]
         /\ event_poll__del(timer[t].fd)

timer_cancel(t) ==
    /\ Running
    /\ timer[t].mem = "live"
    /\ Cancelled(t)
    /\ timer' = [timer EXCEPT ![t].started = FALSE]
    /\ UNCHANGED <<i, ep_i, call, fault>>

(* timer_destroy() closes the descriptor; the object is freed. *)
timer_destroy(t) ==
    /\ Running
    /\ timer[t].mem = "live"
    /\ Cancelled(t)
    /\ timer' = [timer EXCEPT ![t] = Nothing]
    /\ UNCHANGED <<i, ep_i, call, fault>>

------------------------------------------------------------------------------
(* epoll_wait(2) goes through the first k descriptors of the list and      *)
(* returns the n that are ready, at the positions `at'.  They go to the    *)
(* end of the list; the ones that are no longer ready leave it.            *)
Returns(n, k, at) ==
    /\ \A m1, m2 \in 1..n : m1 < m2 => at[m1] < at[m2]
    /\ \A p \in 1..k : Ready(rdlist[p]) <=> \E m \in 1..n : at[m] = p
    /\ IF n = maxevents THEN at[n] = k ELSE k = Len(rdlist)
    /\ events' = [m \in 1..n |-> [fd |-> rdlist[at[m]], ptr |-> kernel[rdlist[at[m]]]]]
    /\ rdlist' = SubSeq(rdlist, k + 1, Len(rdlist)) \o [m \in 1..n |-> rdlist[at[m]]]

epoll_wait ==
    /\ fault = FALSE /\ events = <<>> /\ call = NoCall
    /\ \E n \in 1..maxevents : \E k \in 1..Len(rdlist) : \E at \in [1..n -> 1..k] : Returns(n, k, at)
    /\ i' = 1
    /\ UNCHANGED <<timer, ticks, armed, kernel, data, ep_i, call, fault>>

Dispatching == fault = FALSE /\ events # <<>> /\ call = NoCall /\ i <= Len(events)
Entry == events[i]

SkipCleared ==
    /\ Dispatching /\ Entry.ptr = NULL
    /\ i' = i + 1
    /\ UNCHANGED <<timer, ticks, armed, kernel, rdlist, data, events, ep_i, call, fault>>

AtMostAll(n) == n  \* mutation: every expiration that was read is handled
AtMost(n) == IF n > max_exp_once THEN max_exp_once ELSE n

(* data->handle(), which is timer_expire(): the read, and the loop around  *)
(* timer->function().  A read that fails with EAGAIN returns.              *)
timer_expire ==
    /\ Dispatching /\ Entry.ptr # NULL
    /\ ep_i' = i
    /\ IF data[Entry.ptr] = NULL \/ timer[data[Entry.ptr].ptr].mem = "freed"
       THEN fault' = TRUE /\ UNCHANGED <<ticks, i, call>>
       ELSE LET d == data[Entry.ptr]
            IN  /\ ticks' = [ticks EXCEPT ![d.fd] = 0]
                /\ i' = i + 1
                /\ call' = IF ticks[d.fd] = 0 THEN NoCall
                           ELSE [timer |-> d.ptr, left |-> AtMost(ticks[d.fd])]
                /\ UNCHANGED fault
    /\ UNCHANGED <<timer, armed, kernel, rdlist, data, events>>

(* timer->function() returns.  The next call reads the timer again. *)
function_returns ==
    /\ fault = FALSE /\ call # NoCall
    /\ IF call.left = 1 THEN call' = NoCall /\ UNCHANGED fault
       ELSE /\ fault' = (timer[call.timer].mem = "freed")
            /\ call' = [call EXCEPT !.left = @ - 1]
    /\ UNCHANGED <<timer, ticks, armed, kernel, rdlist, data, events, i, ep_i>>

event_poll__poll_returns ==
    /\ fault = FALSE /\ events # <<>> /\ call = NoCall /\ i > Len(events)
    /\ events' = <<>>
    /\ i' = 0 /\ ep_i' = 0
    /\ UNCHANGED <<timer, ticks, armed, kernel, rdlist, data, call, fault>>

Init ==
    /\ timer = [t \in Timers |-> Nothing]
    /\ ticks = [f \in Fds |-> 0]
    /\ armed = [f \in Fds |-> FALSE]
    /\ kernel = [f \in Fds |-> NULL]
    /\ rdlist = <<>>
    /\ data = [a \in Addrs |-> NULL]
    /\ events = <<>>
    /\ i = 0 /\ ep_i = 0
    /\ call = NoCall
    /\ fault = FALSE

Loop == epoll_wait \/ SkipCleared \/ timer_expire \/ function_returns \/ event_poll__poll_returns

Client(t) == timer_init(t) \/ timer_start(t) \/ timer_cancel(t) \/ timer_destroy(t)

Next == Loop \/ (\E f \in Fds : Expire(f)) \/ (\E t \in Timers : Client(t))

Spec == Init /\ [][Next]_vars

(* event_poll__poll() is called again and again, and handlers return. *)
FairSpec == Spec /\ WF_vars(Loop)

------------------------------------------------------------------------------
TimerType == [mem : {"live", "freed"}, fd : Fds \cup {NULL}, started : BOOLEAN]

(* The types of the structures of lib/epoll.c and timer.c. *)
TypeOK ==
    /\ timer \in [Timers -> TimerType]
    /\ ticks \in [Fds -> 0..MaxTicks]
    /\ armed \in [Fds -> BOOLEAN]
    /\ kernel \in [Fds -> Addrs \cup {NULL}]
    /\ rdlist \in Seq(Fds)
    /\ data \in [Addrs -> [fd : Fds, ptr : Timers] \cup {NULL}]
    /\ events \in Seq([fd : Fds, ptr : Addrs \cup {NULL}]) /\ Len(events) <= maxevents
    /\ i \in 0..maxevents + 1 /\ ep_i \in 0..maxevents
    /\ call \in [timer : Timers \cup {NULL}, left : 0..max_exp_once]
    /\ fault \in BOOLEAN

(* No handler is called through freed memory, and timer_expire() does not  *)
(* touch a timer that its function has destroyed.                          *)
NoUseAfterFree == ~fault

(* An entry that is still to be dispatched belongs to the descriptor for   *)
(* which the kernel returned it, even when the address of a deleted entry  *)
(* has been allocated again.                                               *)
EntriesCurrent ==
    \A n \in DOMAIN events : n >= i /\ events[n].ptr # NULL =>
        data[events[n].ptr] # NULL /\ data[events[n].ptr].fd = events[n].fd

(* prof_dev_disable: "Disable subsequent interval_handle() calls."  A      *)
(* timer's function is called only while the timer is started, however     *)
(* many events of the same poll are pending.                               *)
NoLateCall == [][\A t \in Timers : call.timer # t /\ call'.timer = t => timer[t].started]_vars

(* Every started timer is known to the kernel under its own entry of the   *)
(* tree, and nothing else is.                                              *)
Registered ==
    \A f \in Fds :
        IF \E t \in Timers : timer[t].started /\ timer[t].fd = f
        THEN kernel[f] # NULL /\ Find(f) = {kernel[f]}
        ELSE kernel[f] = NULL /\ Find(f) = {}

(* An expiration is read, which calls the function, unless the timer is    *)
(* stopped or started again: no descriptor starves in the loop, even when  *)
(* more of them are ready than one epoll_wait() returns.                   *)
TimerFires == \A f \in Fds : ticks[f] > 0 ~> ticks[f] = 0
================================================================================
