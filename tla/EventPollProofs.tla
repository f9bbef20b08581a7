---------------------------- MODULE EventPollProofs ----------------------------
(***************************************************************************)
(* No handler of the event loop is ever called through a stale entry, for  *)
(* any number of timers, descriptors, addresses and pending events.        *)
(***************************************************************************)
EXTENDS EventPoll, TLAPS

EventType == [fd : Fds, ptr : Addrs \cup {NULL}]

StateType ==
    /\ timer \in [Timers -> TimerType]
    /\ ticks \in [Fds -> Nat]
    /\ armed \in [Fds -> BOOLEAN]
    /\ kernel \in [Fds -> Addrs \cup {NULL}]
    /\ data \in [Addrs -> [fd : Fds, ptr : Timers] \cup {NULL}]
    /\ events \in Seq(EventType)
    /\ i \in Nat /\ ep_i \in Nat
    /\ call \in [timer : Timers \cup {NULL}, left : Nat]
    /\ fault \in BOOLEAN

(* A live timer has a descriptor of its own; only a live one is started. *)
TimerInv ==
    \A t \in Timers :
        /\ timer[t].started => timer[t].mem = "live"
        /\ timer[t].mem = "live" =>
              /\ timer[t].fd \in Fds
              /\ \A u \in Timers : timer[u].mem = "live" /\ timer[u].fd = timer[t].fd => u = t

(* The tree holds exactly the started timers, each under its descriptor. *)
TreeInv ==
    /\ \A a \in Addrs : data[a] # NULL =>
          /\ timer[data[a].ptr].started
          /\ timer[data[a].ptr].fd = data[a].fd
          /\ kernel[data[a].fd] = a
    /\ \A t \in Timers : timer[t].started =>
          /\ kernel[timer[t].fd] \in Addrs
          /\ data[kernel[timer[t].fd]] # NULL
          /\ data[kernel[timer[t].fd]].fd = timer[t].fd
    /\ \A f \in Fds : kernel[f] # NULL =>
          data[kernel[f]] # NULL /\ data[kernel[f]].fd = f

(* The entries event_poll__del() looks at include all that are to come. *)
CursorInv ==
    /\ IF events = <<>> THEN ep_i = 0 ELSE ep_i < i
    /\ call # NoCall => call.left = 1

IInv == StateType /\ TimerInv /\ TreeInv /\ CursorInv /\ EntriesCurrent /\ ~fault

(* The kernel's list holds descriptors. *)
ListInv == rdlist \in Seq(Fds)

USE DEF NoCall, Nothing, TimerType

(* What a sequence is, for any set of elements. *)
LEMMA SeqElements ==
    ASSUME NEW S, NEW s \in Seq(S)
    PROVE  /\ Len(s) \in Nat
           /\ DOMAIN s = 1..Len(s)
           /\ \A n \in 1..Len(s) : s[n] \in S
  OBVIOUS

LEMMA SeqFromFunction ==
    ASSUME NEW S, NEW n \in Nat, NEW s \in [1..n -> S]
    PROVE  s \in Seq(S) /\ Len(s) = n
  OBVIOUS

LEMMA InitInv == ASSUME EventPollAssumption, Init PROVE IInv
<1>1. StateType
  <2>1. timer \in [Timers -> TimerType] /\ call \in [timer : Timers \cup {NULL}, left : Nat]
    BY DEF Init
  <2>2. events \in Seq(EventType)
    BY DEF Init
  <2>3. fault \in BOOLEAN /\ armed \in [Fds -> BOOLEAN]
    BY Zenon DEF Init
  <2> QED BY <2>1, <2>2, <2>3 DEF Init, StateType
<1>2. TimerInv /\ TreeInv /\ CursorInv /\ EntriesCurrent
  BY DEF Init, TimerInv, TreeInv, CursorInv, EntriesCurrent
<1> QED BY <1>1, <1>2 DEF IInv, Init

(* The tree holds at most one entry for a descriptor: the kernel's. *)
LEMMA FindKernel ==
    ASSUME EventPollAssumption, IInv, NEW f \in Fds
    PROVE  /\ Find(f) = {} <=> kernel[f] = NULL
           /\ \A a \in Find(f) : a = kernel[f]
<1>1. \A a \in Find(f) : a = kernel[f] /\ a # NULL
  BY DEF IInv, StateType, TreeInv, Find, EventPollAssumption
<1>2. kernel[f] # NULL => kernel[f] \in Find(f)
  BY DEF IInv, StateType, TreeInv, Find
<1> QED BY <1>1, <1>2

(* event_poll__del() removes the entry, and clears it from the events that *)
(* are still to come.                                                      *)
LEMMA DelEffect ==
    ASSUME EventPollAssumption, IInv, NEW f \in Fds, event_poll__del(f)
    PROVE  /\ kernel' = [kernel EXCEPT ![f] = NULL]
           /\ data' = [a \in Addrs |-> IF a = kernel[f] THEN NULL ELSE data[a]]
           /\ Len(events') = Len(events)
           /\ events' \in Seq(EventType)
           /\ events = <<>> => events' = <<>>
           /\ \A n \in DOMAIN events : n > ep_i =>
                 events'[n] = IF events[n].ptr = kernel[f] THEN [events[n] EXCEPT !.ptr = NULL]
                              ELSE events[n]
<1>1. CASE Find(f) = {}
  <2>1. kernel[f] = NULL
    BY <1>1, FindKernel
  <2>2. UNCHANGED <<data, kernel, events>>
    BY <1>1 DEF event_poll__del
  <2>3. data' = [a \in Addrs |-> IF a = kernel[f] THEN NULL ELSE data[a]]
    BY <2>1, <2>2 DEF IInv, StateType, EventPollAssumption
  <2>4. \A n \in DOMAIN events : events[n].ptr = NULL => [events[n] EXCEPT !.ptr = NULL] = events[n]
    <3>1. \A r \in EventType : r.ptr = NULL => [r EXCEPT !.ptr = NULL] = r
      BY DEF EventType
    <3>2. \A n \in DOMAIN events : events[n] \in EventType
      BY SeqElements DEF IInv, StateType
    <3> QED BY <3>1, <3>2
  <2> QED BY <2>1, <2>2, <2>3, <2>4 DEF IInv, StateType
<1>2. CASE Find(f) # {}
  <2> DEFINE a == CHOOSE b \in Find(f) : TRUE
  <2>1. a \in Find(f) /\ a = kernel[f] /\ a \in Addrs
    BY <1>2, FindKernel DEF Find
  <2>2. /\ events' = [n \in DOMAIN events |->
                         IF n \in StillToCome /\ events[n].ptr = a
                         THEN [events[n] EXCEPT !.ptr = NULL] ELSE events[n]]
        /\ data' = [data EXCEPT ![a] = NULL]
        /\ kernel' = [kernel EXCEPT ![f] = NULL]
    BY <1>2 DEF event_poll__del, epoll_ctl
  <2> HIDE DEF a
  <2>3. DOMAIN events = 1..Len(events)
    BY DEF IInv, StateType
  <2>4. events' \in Seq(EventType) /\ Len(events') = Len(events)
    <3>1. Len(events) \in Nat /\ \A n \in 1..Len(events) : events[n] \in EventType
      BY SeqElements DEF IInv, StateType
    <3>2. \A r \in EventType : [r EXCEPT !.ptr = NULL] \in EventType
      BY DEF EventType
    <3>3. events' \in [1..Len(events) -> EventType]
      BY <2>2, <2>3, <3>1, <3>2
    <3> QED BY <3>1, <3>3, SeqFromFunction
  <2>5. \A n \in DOMAIN events : n > ep_i => n \in StillToCome
    BY <2>3 DEF StillToCome, IInv, StateType
  <2>6. events = <<>> => events' = <<>>
    BY <2>4 DEF IInv, StateType
  <2> QED BY <2>1, <2>2, <2>4, <2>5, <2>6, Zenon DEF IInv, StateType
<1> QED BY <1>1, <1>2

(* event_poll__add() writes the kernel's entry, or a free one. *)
LEMMA AddEffect ==
    ASSUME EventPollAssumption, IInv, NEW f \in Fds, NEW t \in Timers, event_poll__add(f, t)
    PROVE  /\ events' = events
           /\ \E a \in Addrs :
                 /\ IF kernel[f] = NULL THEN data[a] = NULL ELSE a = kernel[f]
                 /\ data' = [data EXCEPT ![a] = [fd |-> f, ptr |-> t]]
                 /\ kernel' = [kernel EXCEPT ![f] = a]
<1>1. PICK a \in IF Find(f) # {} THEN Find(f) ELSE {b \in Addrs : data[b] = NULL} :
          /\ data' = [data EXCEPT ![a] = [fd |-> f, ptr |-> t]]
          /\ kernel' = [kernel EXCEPT ![f] = epoll_ctl(CtlOp(Find(f) # {}), f, a)]
  BY Zenon DEF event_poll__add
<1>2. a \in Addrs /\ IF kernel[f] = NULL THEN data[a] = NULL ELSE a = kernel[f]
  BY <1>1, FindKernel DEF Find
<1>3. epoll_ctl(CtlOp(Find(f) # {}), f, a) = a
  BY FindKernel DEF epoll_ctl, CtlOp
<1> QED BY <1>1, <1>2, <1>3, Zenon DEF event_poll__add

(* timer_cancel() and timer_destroy(): the timer leaves the tree. *)
LEMMA LeaveTree ==
    ASSUME EventPollAssumption, IInv, NEW t \in Timers, timer[t].mem = "live", Cancelled(t),
           NEW new \in TimerType, ~new.started, new.mem = "live" => new.fd = timer[t].fd,
           timer' = [timer EXCEPT ![t] = new],
           UNCHANGED <<i, ep_i, call, fault>>
    PROVE  IInv'
<1> DEFINE f == timer[t].fd
<1>0. f \in Fds
  BY DEF IInv, TimerInv
<1>1. CASE ~timer[t].started
  <2>1. UNCHANGED <<armed, ticks, data, kernel, events>>
    BY <1>1 DEF Cancelled
  <2>2. StateType'
    BY <2>1 DEF IInv, StateType
  <2>3. TimerInv'
    BY DEF IInv, TimerInv, StateType
  <2>4. TreeInv'
    BY <1>1, <2>1 DEF IInv, TreeInv, StateType
  <2>5. CursorInv' /\ EntriesCurrent' /\ ~fault'
    BY <2>1 DEF IInv, CursorInv, EntriesCurrent
  <2> QED BY <2>2, <2>3, <2>4, <2>5 DEF IInv
<1>2. CASE timer[t].started
  <2>1. /\ armed' = [armed EXCEPT ![f] = FALSE]
        /\ ticks' = [ticks EXCEPT ![f] = 0]
        /\ event_poll__del(f)
    BY <1>2 DEF Cancelled
  <2>2. /\ kernel' = [kernel EXCEPT ![f] = NULL]
        /\ data' = [a \in Addrs |-> IF a = kernel[f] THEN NULL ELSE data[a]]
        /\ Len(events') = Len(events)
        /\ events' \in Seq(EventType)
        /\ events = <<>> => events' = <<>>
        /\ \A n \in DOMAIN events : n > ep_i =>
              events'[n] = IF events[n].ptr = kernel[f] THEN [events[n] EXCEPT !.ptr = NULL]
                           ELSE events[n]
    BY <1>0, <2>1, DelEffect
  <2>3. StateType'
    <3>1. /\ timer' \in [Timers -> TimerType]
          /\ kernel' \in [Fds -> Addrs \cup {NULL}]
          /\ data' \in [Addrs -> [fd : Fds, ptr : Timers] \cup {NULL}]
      BY <1>0, <2>2 DEF IInv, StateType
    <3>2. ticks' \in [Fds -> Nat] /\ armed' \in [Fds -> BOOLEAN]
      BY <1>0, <2>1 DEF IInv, StateType
    <3> QED BY <2>2, <3>1, <3>2, Zenon DEF IInv, StateType
  <2>4. TimerInv'
    BY DEF IInv, TimerInv, StateType
  <2>5. kernel[f] \in Addrs /\ data[kernel[f]] # NULL /\ data[kernel[f]].fd = f
    BY <1>2 DEF IInv, TreeInv
  <2>6. TreeInv'
    <3>1. \A a \in Addrs : data'[a] # NULL => data'[a] = data[a] /\ a # kernel[f] /\ data[a].fd # f
      BY <1>0, <2>2 DEF IInv, TreeInv, StateType
    <3>2. \A a \in Addrs : data'[a] # NULL => data[a].ptr # t
      BY <3>1 DEF IInv, TreeInv
    <3>3. \A u \in Timers : timer'[u].started =>
              u # t /\ timer'[u] = timer[u] /\ timer[u].fd # f /\ timer[u].fd \in Fds
      BY DEF IInv, StateType, TimerInv
    <3>4. \A g \in Fds : g # f => kernel'[g] = kernel[g]
      BY <2>2 DEF IInv, StateType
    <3>5. \A u \in Timers : timer'[u].started =>
              kernel'[timer'[u].fd] = kernel[timer[u].fd] /\ kernel[timer[u].fd] # kernel[f]
      BY <2>5, <3>3, <3>4, SMTT(60) DEF IInv, TreeInv
    <3>6. \A a \in Addrs : data'[a] # NULL =>
              /\ timer'[data'[a].ptr].started
              /\ timer'[data'[a].ptr].fd = data'[a].fd
              /\ kernel'[data'[a].fd] = a
      BY <3>1, <3>2, <3>4, SMTT(60) DEF IInv, TreeInv, StateType
    <3>7. \A u \in Timers : timer'[u].started =>
              /\ kernel'[timer'[u].fd] \in Addrs
              /\ data'[kernel'[timer'[u].fd]] # NULL
              /\ data'[kernel'[timer'[u].fd]].fd = timer'[u].fd
      BY <2>2, <3>3, <3>5, SMTT(60) DEF IInv, TreeInv
    <3>8. \A g \in Fds : kernel'[g] # NULL => data'[kernel'[g]] # NULL /\ data'[kernel'[g]].fd = g
      <4> SUFFICES ASSUME NEW g \in Fds, kernel'[g] # NULL
                   PROVE  data'[kernel'[g]] # NULL /\ data'[kernel'[g]].fd = g
        OBVIOUS
      <4>1. g # f /\ kernel'[g] = kernel[g] /\ kernel[g] \in Addrs
        BY <1>0, <2>2, <3>4 DEF IInv, StateType
      <4>2. data[kernel[g]] # NULL /\ data[kernel[g]].fd = g
        BY <4>1 DEF IInv, TreeInv
      <4>3. kernel[g] # kernel[f]
        BY <2>5, <4>1, <4>2
      <4> QED BY <2>2, <4>1, <4>2, <4>3
    <3> QED BY <3>6, <3>7, <3>8, Zenon DEF TreeInv
  <2>7. EntriesCurrent'
    <3> SUFFICES ASSUME NEW n \in DOMAIN events', n >= i, events'[n].ptr # NULL
                 PROVE  data'[events'[n].ptr] # NULL /\ data'[events'[n].ptr].fd = events'[n].fd
      BY DEF EntriesCurrent
    <3>1. n \in DOMAIN events /\ n \in Nat /\ DOMAIN events = 1..Len(events)
      BY <2>2, SeqElements, SMTT(60) DEF IInv, StateType
    <3>2. n > ep_i
      BY <2>2, <3>1, SeqElements DEF IInv, CursorInv, StateType
    <3>3. events[n] \in EventType
      BY <3>1, SeqElements DEF IInv, StateType
    <3>4. events[n].ptr # kernel[f] /\ events'[n] = events[n]
      BY <2>2, <3>1, <3>2, <3>3, Zenon DEF EventType
    <3>5. data[events[n].ptr] # NULL /\ data[events[n].ptr].fd = events[n].fd
      BY <3>1, <3>4 DEF IInv, EntriesCurrent
    <3> QED BY <2>2, <3>3, <3>4, <3>5, Zenon DEF EventType
  <2>8. CursorInv' /\ ~fault'
    <3>1. events # <<>> => events' # <<>>
      BY <2>2, SeqElements DEF IInv, StateType
    <3> QED BY <2>2, <3>1 DEF IInv, CursorInv
  <2> QED BY <2>3, <2>4, <2>6, <2>7, <2>8 DEF IInv
<1> QED BY <1>1, <1>2

(* timer_start(): the timer has an entry, new or already there. *)
LEMMA StartStep ==
    ASSUME EventPollAssumption, IInv, NEW t \in Timers, timer_start(t)
    PROVE  IInv'
<1> DEFINE f == timer[t].fd
<1>0. f \in Fds /\ timer[t].mem = "live"
  BY DEF IInv, TimerInv, timer_start
<1>1. /\ armed' = [armed EXCEPT ![f] = TRUE]
      /\ ticks' = [ticks EXCEPT ![f] = 0]
      /\ event_poll__add(f, t)
      /\ timer' = [timer EXCEPT ![t].started = TRUE]
      /\ UNCHANGED <<i, ep_i, call, fault>>
  BY DEF timer_start
<1>2. PICK a \in Addrs :
          /\ IF kernel[f] = NULL THEN data[a] = NULL ELSE a = kernel[f]
          /\ data' = [data EXCEPT ![a] = [fd |-> f, ptr |-> t]]
          /\ kernel' = [kernel EXCEPT ![f] = a]
          /\ events' = events
  BY <1>0, <1>1, AddEffect
<1> HIDE DEF f
<1>3. /\ data'[a] = [fd |-> f, ptr |-> t]
      /\ \A b \in Addrs : b # a => data'[b] = data[b]
      /\ kernel'[f] = a
      /\ \A g \in Fds : g # f => kernel'[g] = kernel[g]
  BY <1>0, <1>2 DEF IInv, StateType
<1>4. /\ timer'[t] = [timer[t] EXCEPT !.started = TRUE]
      /\ \A u \in Timers : u # t => timer'[u] = timer[u]
      /\ timer'[t].started /\ timer'[t].mem = "live" /\ timer'[t].fd = f
  BY <1>0, <1>1 DEF IInv, StateType, f
<1>5. StateType'
  <2>1. data' \in [Addrs -> [fd : Fds, ptr : Timers] \cup {NULL}]
    BY <1>0, <1>2 DEF IInv, StateType
  <2>2. timer' \in [Timers -> TimerType]
    <3>1. \A r \in TimerType : [r EXCEPT !.started = TRUE] \in TimerType
      BY Zenon
    <3>2. timer \in [Timers -> TimerType] /\ timer[t] \in TimerType
      BY DEF IInv, StateType
    <3>3. timer' = [timer EXCEPT ![t] = [timer[t] EXCEPT !.started = TRUE]]
      BY <1>1
    <3> HIDE DEF TimerType
    <3> QED BY <3>1, <3>2, <3>3
  <2>3. kernel' \in [Fds -> Addrs \cup {NULL}] /\ ticks' \in [Fds -> Nat]
    BY <1>0, <1>1, <1>2 DEF IInv, StateType
  <2>4. armed' \in [Fds -> BOOLEAN]
    BY <1>0, <1>1 DEF IInv, StateType
  <2> QED BY <1>1, <1>2, <2>1, <2>2, <2>3, <2>4 DEF IInv, StateType
<1>6. TimerInv'
  <2>1. \A u \in Timers : timer'[u].mem = timer[u].mem /\ timer'[u].fd = timer[u].fd
    BY <1>0, <1>4, Zenon DEF f
  <2>2. \A u \in Timers : timer'[u].started => timer'[u].mem = "live"
    BY <1>4, Zenon DEF IInv, TimerInv
  <2> QED BY <2>1, <2>2 DEF IInv, TimerInv
<1>7. \A b \in Addrs : b # a /\ data[b] # NULL => data[b].fd # f
  BY <1>2 DEF IInv, TreeInv
<1>8. TreeInv'
  <2>0. data'[a].fd = f /\ data'[a].ptr = t /\ data'[a] # NULL
    <3>1. [fd |-> f, ptr |-> t] # NULL
      BY <1>0 DEF EventPollAssumption
    <3> QED BY <1>3, <3>1
  <2>1. \A b \in Addrs : data'[b] # NULL =>
            /\ timer'[data'[b].ptr].started
            /\ timer'[data'[b].ptr].fd = data'[b].fd
            /\ kernel'[data'[b].fd] = b
    <3> SUFFICES ASSUME NEW b \in Addrs, data'[b] # NULL
                 PROVE  /\ timer'[data'[b].ptr].started
                        /\ timer'[data'[b].ptr].fd = data'[b].fd
                        /\ kernel'[data'[b].fd] = b
      OBVIOUS
    <3>1. CASE b = a
      BY <1>3, <1>4, <2>0, <3>1, Zenon
    <3>2. CASE b # a
      <4>1. data'[b] = data[b] /\ data[b].fd # f /\ data[b].fd \in Fds /\ data[b].ptr \in Timers
        BY <1>3, <1>7, <3>2 DEF IInv, StateType
      <4>2. data[b].ptr # t
        BY <4>1 DEF IInv, TreeInv, f
      <4> QED BY <1>3, <1>4, <4>1, <4>2 DEF IInv, TreeInv
    <3> QED BY <3>1, <3>2
  <2>2. \A u \in Timers : timer'[u].started =>
            /\ kernel'[timer'[u].fd] \in Addrs
            /\ data'[kernel'[timer'[u].fd]] # NULL
            /\ data'[kernel'[timer'[u].fd]].fd = timer'[u].fd
    <3> SUFFICES ASSUME NEW u \in Timers, timer'[u].started
                 PROVE  /\ kernel'[timer'[u].fd] \in Addrs
                        /\ data'[kernel'[timer'[u].fd]] # NULL
                        /\ data'[kernel'[timer'[u].fd]].fd = timer'[u].fd
      OBVIOUS
    <3>1. CASE u = t
      BY <1>3, <1>4, <2>0, <3>1, Zenon
    <3>2. CASE u # t
      <4>1. /\ timer'[u] = timer[u] /\ timer[u].started
            /\ timer[u].fd \in Fds /\ timer[u].fd # f
        BY <1>0, <1>4, <3>2 DEF IInv, TimerInv, f
      <4>2. kernel'[timer[u].fd] = kernel[timer[u].fd]
        BY <1>3, <4>1
      <4>3. /\ kernel[timer[u].fd] \in Addrs
            /\ data[kernel[timer[u].fd]] # NULL
            /\ data[kernel[timer[u].fd]].fd = timer[u].fd
        BY <4>1 DEF IInv, TreeInv
      <4>4. kernel[timer[u].fd] # a
        BY <1>0, <1>2, <4>1, <4>3 DEF IInv, TreeInv
      <4> QED BY <1>3, <4>1, <4>2, <4>3, <4>4
    <3> QED BY <3>1, <3>2
  <2>3. \A g \in Fds : kernel'[g] # NULL => data'[kernel'[g]] # NULL /\ data'[kernel'[g]].fd = g
    <3> SUFFICES ASSUME NEW g \in Fds, kernel'[g] # NULL
                 PROVE  data'[kernel'[g]] # NULL /\ data'[kernel'[g]].fd = g
      OBVIOUS
    <3>1. CASE g = f
      BY <1>3, <1>4, <2>2, <3>1
    <3>2. CASE g # f
      <4>1. kernel'[g] = kernel[g] /\ kernel[g] \in Addrs
        BY <1>3, <3>2 DEF IInv, StateType
      <4>2. data[kernel[g]] # NULL /\ data[kernel[g]].fd = g
        BY <4>1 DEF IInv, TreeInv
      <4>3. kernel[g] # a
        BY <1>0, <1>2, <3>2, <4>2 DEF IInv, TreeInv
      <4> QED BY <1>3, <4>1, <4>2, <4>3
    <3> QED BY <3>1, <3>2
  <2> QED BY <2>1, <2>2, <2>3 DEF TreeInv
<1>9. EntriesCurrent'
  <2> SUFFICES ASSUME NEW n \in DOMAIN events, n >= i, events[n].ptr # NULL
               PROVE  data'[events[n].ptr] # NULL /\ data'[events[n].ptr].fd = events[n].fd
    BY <1>1, <1>2 DEF EntriesCurrent
  <2>1. data[events[n].ptr] # NULL /\ data[events[n].ptr].fd = events[n].fd
    BY DEF IInv, EntriesCurrent
  <2>2. events[n].ptr \in Addrs
    <3>1. events[n] \in EventType
      BY SeqElements DEF IInv, StateType
    <3> QED BY <3>1 DEF EventType
  <2>3. CASE events[n].ptr = a
    BY <1>0, <1>2, <1>3, <1>4, <1>8, <2>1, <2>3 DEF IInv, TreeInv
  <2>4. CASE events[n].ptr # a
    BY <1>3, <2>1, <2>2, <2>4
  <2> QED BY <2>3, <2>4
<1>10. CursorInv' /\ ~fault'
  BY <1>1, <1>2 DEF IInv, CursorInv
<1> QED BY <1>5, <1>6, <1>8, <1>9, <1>10 DEF IInv

LEMMA InitTimerStep ==
    ASSUME EventPollAssumption, IInv, NEW t \in Timers, timer_init(t)
    PROVE  IInv'
<1>1. PICK f \in Fds :
          /\ ~Open(f)
          /\ timer' = [timer EXCEPT ![t] = [mem |-> "live", fd |-> f, started |-> FALSE]]
  BY Zenon DEF timer_init
<1>2. timer[t].mem = "freed" /\ UNCHANGED <<ticks, armed, kernel, data, events, i, ep_i, call, fault>>
  BY DEF timer_init
<1>3. StateType'
  BY <1>1, <1>2 DEF IInv, StateType
<1>4. TimerInv'
  BY <1>1, <1>2 DEF IInv, TimerInv, StateType, Open
<1>5. ~timer[t].started
  BY <1>2 DEF IInv, TimerInv
<1>6. TreeInv'
  BY <1>1, <1>2, <1>5, SMTT(60) DEF IInv, TreeInv, StateType
<1>7. CursorInv' /\ EntriesCurrent' /\ ~fault'
  BY <1>2 DEF IInv, CursorInv, EntriesCurrent
<1> QED BY <1>3, <1>4, <1>6, <1>7 DEF IInv

(* epoll_wait() returns entries of the kernel's set, which are in the tree. *)
LEMMA WaitStep ==
    ASSUME EventPollAssumption, ListInv, IInv, epoll_wait
    PROVE  IInv'
<1>a. PICK n \in 1..maxevents : \E k \in 1..Len(rdlist) : \E at \in [1..n -> 1..k] : Returns(n, k, at)
  BY Zenon DEF epoll_wait
<1>b. PICK k \in 1..Len(rdlist) : \E at \in [1..n -> 1..k] : Returns(n, k, at)
  BY <1>a, Zenon
<1>c. PICK at \in [1..n -> 1..k] : Returns(n, k, at)
  BY <1>b, Zenon
<1>d. /\ \A p \in 1..k : Ready(rdlist[p]) <=> \E m \in 1..n : at[m] = p
      /\ events' = [m \in 1..n |-> [fd |-> rdlist[at[m]], ptr |-> kernel[rdlist[at[m]]]]]
  BY <1>c, Zenon DEF Returns
<1> DEFINE s == [m \in 1..n |-> rdlist[at[m]]]
<1>e. \A m \in 1..n : s[m] \in Fds /\ Ready(s[m])
  <2> SUFFICES ASSUME NEW m \in 1..n PROVE rdlist[at[m]] \in Fds /\ Ready(rdlist[at[m]])
    BY Zenon
  <2>1. at[m] \in 1..k /\ at[m] \in 1..Len(rdlist)
    BY SeqElements DEF ListInv
  <2>2. rdlist[at[m]] \in Fds
    BY <2>1, SeqElements DEF ListInv
  <2> QED BY <1>d, <2>1, <2>2, Zenon
<1>1. events' = [m \in 1..n |-> [fd |-> s[m], ptr |-> kernel[s[m]]]]
  BY <1>d, Zenon
<1> HIDE DEF s
<1>2. /\ events = <<>> /\ i' = 1
      /\ UNCHANGED <<timer, ticks, armed, kernel, data, ep_i, call, fault>>
  BY DEF epoll_wait
<1>3. n \in Nat /\ n >= 1
  BY DEF EventPollAssumption
<1>4. \A m \in 1..n : s[m] \in Fds /\ kernel[s[m]] \in Addrs
  BY <1>e DEF Ready, IInv, StateType
<1>5. \A m \in 1..n : [fd |-> s[m], ptr |-> kernel[s[m]]] \in EventType
  BY <1>4 DEF EventType
<1>6. events' \in Seq(EventType) /\ Len(events') = n /\ DOMAIN events' = 1..n
  <2>1. events' \in [1..n -> EventType]
    BY <1>1, <1>5
  <2> QED BY <1>3, <2>1, SeqFromFunction
<1>7. StateType'
  BY <1>2, <1>6 DEF IInv, StateType
<1>8. TimerInv' /\ TreeInv'
  BY <1>2, Zenon DEF IInv, TimerInv, TreeInv
<1>9. CursorInv'
  <2>1. events' # <<>>
    BY <1>3, <1>6
  <2> QED BY <1>2, <2>1, SMTT(60) DEF IInv, CursorInv
<1>10. EntriesCurrent'
  <2> SUFFICES ASSUME NEW m \in DOMAIN events'
               PROVE  data[events'[m].ptr] # NULL /\ data[events'[m].ptr].fd = events'[m].fd
    BY <1>2 DEF EntriesCurrent
  <2>1. m \in 1..n /\ events'[m].ptr = kernel[s[m]] /\ events'[m].fd = s[m]
    BY <1>1, <1>6
  <2>2. kernel[s[m]] # NULL
    BY <1>4, <2>1 DEF EventPollAssumption
  <2> QED BY <1>4, <2>1, <2>2 DEF IInv, TreeInv
<1> QED BY <1>2, <1>7, <1>8, <1>9, <1>10 DEF IInv

(* The entry that is dispatched is that of a started timer. *)
LEMMA EntryStarted ==
    ASSUME EventPollAssumption, IInv, Dispatching, Entry.ptr # NULL
    PROVE  /\ Entry.ptr \in Addrs
           /\ data[Entry.ptr] # NULL
           /\ data[Entry.ptr] \in [fd : Fds, ptr : Timers]
           /\ timer[data[Entry.ptr].ptr].started
           /\ timer[data[Entry.ptr].ptr].mem = "live"
<1>1. i \in DOMAIN events
  <2>1. i \in Nat /\ ep_i \in Nat /\ ep_i < i
    BY DEF Dispatching, IInv, StateType, CursorInv
  <2> QED BY <2>1, SeqElements DEF Dispatching, IInv, StateType
<1>2. events[i] \in EventType
  BY <1>1, SeqElements DEF IInv, StateType
<1>3. Entry.ptr \in Addrs
  BY <1>2 DEF Entry, EventType
<1>4. data[Entry.ptr] # NULL
  <2>1. i >= i
    BY DEF IInv, StateType
  <2> QED BY <1>1, <2>1 DEF IInv, EntriesCurrent, Entry
<1> QED BY <1>3, <1>4 DEF IInv, StateType, TreeInv, TimerInv

LEMMA ExpireStep ==
    ASSUME EventPollAssumption, max_exp_once = 1, IInv, timer_expire
    PROVE  IInv'
<1> DEFINE d == data[Entry.ptr]
<1>1. /\ d # NULL /\ d \in [fd : Fds, ptr : Timers] /\ timer[d.ptr].mem = "live"
  BY EntryStarted DEF timer_expire
<1>2. /\ ep_i' = i /\ i' = i + 1 /\ fault' = fault
      /\ ticks' = [ticks EXCEPT ![d.fd] = 0]
      /\ call' = IF ticks[d.fd] = 0 THEN NoCall ELSE [timer |-> d.ptr, left |-> AtMost(ticks[d.fd])]
      /\ UNCHANGED <<timer, armed, kernel, data, events>>
  BY <1>1 DEF timer_expire
<1> HIDE DEF d
<1>3. ticks[d.fd] # 0 => AtMost(ticks[d.fd]) = 1
  BY <1>1 DEF AtMost, IInv, StateType
<1>4. StateType'
  <2>1. ticks' \in [Fds -> Nat] /\ i' \in Nat /\ ep_i' \in Nat
    BY <1>1, <1>2 DEF IInv, StateType
  <2>2. call' \in [timer : Timers \cup {NULL}, left : Nat]
    BY <1>1, <1>2, <1>3
  <2> QED BY <1>2, <2>1, <2>2 DEF IInv, StateType
<1>5. TimerInv' /\ TreeInv'
  BY <1>2, SMTT(60) DEF IInv, TimerInv, TreeInv
<1>6. CursorInv'
  <2>1. ep_i' < i'
    BY <1>2 DEF IInv, StateType
  <2>2. events' # <<>>
    BY <1>2 DEF timer_expire, Dispatching
  <2>3. call' # NoCall => call'.left = 1
    BY <1>2, <1>3
  <2> QED BY <2>1, <2>2, <2>3 DEF CursorInv
<1>7. EntriesCurrent'
  <2>1. \A n \in DOMAIN events : n >= i + 1 => n >= i
    BY SeqElements DEF IInv, StateType
  <2> QED BY <1>2, <2>1 DEF IInv, EntriesCurrent
<1> QED BY <1>2, <1>4, <1>5, <1>6, <1>7 DEF IInv

(* Every step keeps the invariant, when a handler serves one expiration.   *)
LEMMA StepInv ==
    ASSUME EventPollAssumption, max_exp_once = 1, ListInv, IInv, [Next]_vars
    PROVE  IInv'
<1>1. CASE UNCHANGED vars
  <2>1. StateType' /\ TimerInv' /\ TreeInv'
    BY <1>1, SMTT(60) DEF IInv, vars, StateType, TimerInv, TreeInv
  <2> QED BY <1>1, <2>1 DEF IInv, vars, CursorInv, EntriesCurrent
<1>2. ASSUME NEW f \in Fds, Expire(f) PROVE IInv'
  <2>1. UNCHANGED <<timer, armed, kernel, data, events, i, ep_i, call, fault>>
    BY <1>2 DEF Expire
  <2>2. ticks' \in [Fds -> Nat]
    BY <1>2 DEF Expire, IInv, StateType
  <2>3. StateType'
    BY <2>1, <2>2 DEF IInv, StateType
  <2> QED BY <2>1, <2>3, SMTT(60) DEF IInv, TimerInv, TreeInv, CursorInv, EntriesCurrent
<1>3. CASE SkipCleared
  <2>1. i' = i + 1 /\ UNCHANGED <<timer, ticks, armed, kernel, data, events, ep_i, call, fault>>
    BY <1>3 DEF SkipCleared
  <2>2. StateType'
    BY <2>1 DEF IInv, StateType
  <2>3. EntriesCurrent'
    <3>1. \A n \in DOMAIN events : n >= i + 1 => n >= i
      BY SeqElements DEF IInv, StateType
    <3> QED BY <2>1, <3>1 DEF IInv, EntriesCurrent
  <2>4. CursorInv'
    BY <2>1 DEF IInv, CursorInv, StateType
  <2> QED BY <2>1, <2>2, <2>3, <2>4, SMTT(60) DEF IInv, TimerInv, TreeInv
<1>4. CASE function_returns
  <2>1. /\ call' = NoCall
        /\ UNCHANGED <<timer, ticks, armed, kernel, data, events, i, ep_i, fault>>
    BY <1>4 DEF function_returns, IInv, CursorInv
  <2>2. StateType'
    BY <2>1 DEF IInv, StateType
  <2> QED BY <2>1, <2>2, Zenon DEF IInv, TimerInv, TreeInv, CursorInv, EntriesCurrent
<1>5. CASE event_poll__poll_returns
  <2>1. /\ events' = <<>> /\ i' = 0 /\ ep_i' = 0
        /\ UNCHANGED <<timer, ticks, armed, kernel, data, call, fault>>
    BY <1>5 DEF event_poll__poll_returns
  <2>2. StateType'
    BY <2>1 DEF IInv, StateType
  <2> QED BY <2>1, <2>2, SMTT(60) DEF IInv, TimerInv, TreeInv, CursorInv, EntriesCurrent
<1>6. CASE epoll_wait
  BY <1>6, WaitStep
<1>7. CASE timer_expire
  BY <1>7, ExpireStep
<1>8. ASSUME NEW t \in Timers, Client(t) PROVE IInv'
  <2>1. CASE timer_init(t)
    BY <2>1, InitTimerStep
  <2>2. CASE timer_start(t)
    BY <2>2, StartStep
  <2>3. CASE timer_cancel(t)
    <3> DEFINE new == [timer[t] EXCEPT !.started = FALSE]
    <3>1. timer[t].mem = "live" /\ Cancelled(t) /\ UNCHANGED <<i, ep_i, call, fault>>
      BY <2>3 DEF timer_cancel
    <3>2. timer[t] \in TimerType
      BY DEF IInv, StateType
    <3>3. new \in TimerType /\ ~new.started /\ new.fd = timer[t].fd
      BY <3>2, Zenon
    <3>4. timer' = [timer EXCEPT ![t] = new]
      BY <2>3 DEF timer_cancel
    <3> HIDE DEF new
    <3> QED BY <3>1, <3>3, <3>4, LeaveTree, Zenon
  <2>4. CASE timer_destroy(t)
    <3>1. timer[t].mem = "live" /\ Cancelled(t) /\ UNCHANGED <<i, ep_i, call, fault>>
      BY <2>4 DEF timer_destroy
    <3>2. Nothing \in TimerType /\ ~Nothing.started /\ Nothing.mem # "live"
      OBVIOUS
    <3>3. timer' = [timer EXCEPT ![t] = Nothing]
      BY <2>4 DEF timer_destroy
    <3> QED BY <3>1, <3>2, <3>3, LeaveTree, Zenon
  <2> QED BY <1>8, <2>1, <2>2, <2>3, <2>4 DEF Client
<1> QED BY <1>1, <1>2, <1>3, <1>4, <1>5, <1>6, <1>7, <1>8 DEF Next, Loop

(* What enters the kernel's list is a descriptor. *)
LEMMA ListStep ==
    ASSUME EventPollAssumption, ListInv, [Next]_vars
    PROVE  ListInv'
<1>1. ASSUME NEW f \in Fds, Expire(f) PROVE ListInv'
  <2>1. rdlist' = rdlist \/ rdlist' = Append(rdlist, f)
    BY <1>1, Zenon DEF Expire
  <2> QED BY <2>1 DEF ListInv
<1>2. CASE epoll_wait
  <2>0. PICK n \in 1..maxevents : \E k \in 1..Len(rdlist) : \E at \in [1..n -> 1..k] : Returns(n, k, at)
    BY <1>2, Zenon DEF epoll_wait
  <2>a. PICK k \in 1..Len(rdlist) : \E at \in [1..n -> 1..k] : Returns(n, k, at)
    BY <2>0, Zenon
  <2>1. PICK at \in [1..n -> 1..k] : Returns(n, k, at)
    BY <2>a, Zenon
  <2>2. rdlist' = SubSeq(rdlist, k + 1, Len(rdlist)) \o [m \in 1..n |-> rdlist[at[m]]]
    BY <2>1, Zenon DEF Returns
  <2>3. n \in Nat /\ k \in 1..Len(rdlist) /\ Len(rdlist) \in Nat
    BY SeqElements DEF ListInv, EventPollAssumption
  <2>4. [m \in 1..n |-> rdlist[at[m]]] \in [1..n -> Fds]
    <3> SUFFICES ASSUME NEW m \in 1..n PROVE rdlist[at[m]] \in Fds
      BY Zenon
    <3>1. at[m] \in 1..Len(rdlist)
      BY <2>3
    <3> QED BY <3>1, SeqElements DEF ListInv
  <2>5. [m \in 1..n |-> rdlist[at[m]]] \in Seq(Fds)
    BY <2>3, <2>4, SeqFromFunction
  <2>6. SubSeq(rdlist, k + 1, Len(rdlist)) \in Seq(Fds)
    BY <2>3 DEF ListInv
  <2>7. \A s, t \in Seq(Fds) : s \o t \in Seq(Fds)
    OBVIOUS
  <2> QED BY <2>2, <2>5, <2>6, <2>7, Zenon DEF ListInv
<1>3. ASSUME NEW f, event_poll__del(f) PROVE ListInv'
  <2>1. CASE rdlist' = rdlist
    BY <2>1 DEF ListInv
  <2>2. CASE Listed(f) /\ rdlist' = Unlisted(f)
    <3> DEFINE p == CHOOSE q \in 1..Len(rdlist) : rdlist[q] = f
    <3>1. p \in 1..Len(rdlist)
      BY <2>2 DEF Listed
    <3>2. rdlist' = SubSeq(rdlist, 1, p - 1) \o SubSeq(rdlist, p + 1, Len(rdlist))
      BY <2>2 DEF Unlisted
    <3> HIDE DEF p
    <3>3. SubSeq(rdlist, 1, p - 1) \in Seq(Fds) /\ SubSeq(rdlist, p + 1, Len(rdlist)) \in Seq(Fds)
      BY <3>1 DEF ListInv
    <3>4. \A s, t \in Seq(Fds) : s \o t \in Seq(Fds)
      OBVIOUS
    <3> QED BY <3>2, <3>3, <3>4, Zenon DEF ListInv
  <2> QED BY <1>3, <2>1, <2>2, Zenon DEF event_poll__del, Unlisted
<1>4. ASSUME NEW t \in Timers, Client(t) PROVE ListInv'
  <2>1. CASE rdlist' = rdlist
    BY <2>1 DEF ListInv
  <2>2. rdlist' = rdlist \/ event_poll__del(timer[t].fd)
    BY <1>4, Zenon DEF Client, timer_init, timer_start, timer_cancel, timer_destroy, Cancelled, event_poll__add
  <2> QED BY <1>3, <2>1, <2>2
<1>5. CASE rdlist' = rdlist
  BY <1>5 DEF ListInv
<1>6. rdlist' = rdlist \/ epoll_wait \/ (\E f \in Fds : Expire(f)) \/ (\E t \in Timers : Client(t))
  BY Zenon DEF Next, Loop, vars, SkipCleared, timer_expire, function_returns, event_poll__poll_returns
<1> QED BY <1>1, <1>2, <1>4, <1>5, <1>6, Zenon

(* A called function is that of a started timer. *)
LEMMA CallStep ==
    ASSUME EventPollAssumption, max_exp_once = 1, IInv, [Next]_vars
    PROVE  \A t \in Timers : call.timer # t /\ call'.timer = t => timer[t].started
<1> SUFFICES ASSUME NEW t \in Timers, call.timer # t, call'.timer = t
             PROVE  timer[t].started
  OBVIOUS
<1>1. call' # call /\ call' # NoCall
  BY DEF EventPollAssumption
<1>2. timer_expire
  <2>1. ~function_returns
    BY <1>1 DEF function_returns, IInv, CursorInv
  <2>2. \A u \in Timers : ~Client(u)
    BY <1>1 DEF Client, timer_init, timer_start, timer_cancel, timer_destroy
  <2> QED BY <1>1, <2>1, <2>2
          DEF Next, Loop, vars, Expire, epoll_wait, SkipCleared, event_poll__poll_returns
<1>3. Dispatching /\ Entry.ptr # NULL
  BY <1>2 DEF timer_expire
<1>4. call'.timer = data[Entry.ptr].ptr
  BY <1>1, <1>2, <1>3, EntryStarted DEF timer_expire
<1> QED BY <1>3, <1>4, EntryStarted

LEMMA Invariant == max_exp_once = 1 => (Spec => []IInv)
<1> SUFFICES ASSUME max_exp_once = 1 PROVE Spec => []IInv
  OBVIOUS
<1>1. Init => IInv /\ ListInv
  <2>1. Init => ListInv
    BY DEF Init, ListInv
  <2> QED BY <2>1, EventPollAssumption, InitInv
<1>2. IInv /\ ListInv /\ [Next]_vars => IInv' /\ ListInv'
  BY EventPollAssumption, StepInv, ListStep
<1> QED BY <1>1, <1>2, PTL DEF Spec

(* When a function serves one expiration at a time, as every caller of     *)
(* timer_init() asks, event_poll__poll() and timer_expire() never use a    *)
(* structure that a handler has freed.                                     *)
THEOREM NoStaleCall == max_exp_once = 1 => (Spec => []NoUseAfterFree)
<1>1. IInv => NoUseAfterFree
  BY DEF IInv, NoUseAfterFree
<1> QED BY <1>1, Invariant, PTL

(* The entries that event_poll__poll() has still to dispatch are those of  *)
(* the descriptors the kernel returned, whatever event_poll__del() and     *)
(* event_poll__add() did meanwhile with the same addresses.                *)
THEOREM EntriesStayCurrent == max_exp_once = 1 => (Spec => []EntriesCurrent)
<1>1. IInv => EntriesCurrent
  BY DEF IInv
<1> QED BY <1>1, Invariant, PTL

(* Exactly the started timers are in the tree and in the kernel's set.     *)
THEOREM TimersRegistered == max_exp_once = 1 => (Spec => []Registered)
<1>1. IInv => Registered
  <2> SUFFICES ASSUME IInv, NEW f \in Fds
               PROVE  IF \E t \in Timers : timer[t].started /\ timer[t].fd = f
                      THEN kernel[f] # NULL /\ Find(f) = {kernel[f]}
                      ELSE kernel[f] = NULL /\ Find(f) = {}
    BY DEF Registered
  <2>1. kernel[f] # NULL => Find(f) = {kernel[f]}
    BY EventPollAssumption, FindKernel
  <2>2. kernel[f] = NULL => Find(f) = {}
    BY EventPollAssumption, FindKernel
  <2>3. ASSUME NEW t \in Timers, timer[t].started, timer[t].fd = f PROVE kernel[f] # NULL
    BY <2>3, EventPollAssumption DEF IInv, TreeInv
  <2>4. ASSUME kernel[f] # NULL PROVE \E t \in Timers : timer[t].started /\ timer[t].fd = f
    <3>1. kernel[f] \in Addrs /\ data[kernel[f]] # NULL /\ data[kernel[f]].fd = f
      BY <2>4 DEF IInv, StateType, TreeInv
    <3>2. data[kernel[f]].ptr \in Timers
      BY <3>1 DEF IInv, StateType
    <3> QED BY <3>1, <3>2 DEF IInv, TreeInv
  <2> QED BY <2>1, <2>2, <2>3, <2>4
<1> QED BY <1>1, Invariant, PTL

(* A timer's function is never called after timer_cancel() or              *)
(* timer_destroy(), not even for an expiration that the same epoll_wait()  *)
(* had already returned.                                                   *)
THEOREM NoCallAfterCancel == max_exp_once = 1 => (Spec => NoLateCall)
<1> SUFFICES ASSUME max_exp_once = 1 PROVE Spec => NoLateCall
  OBVIOUS
<1>1. IInv /\ [Next]_vars =>
          [\A t \in Timers : call.timer # t /\ call'.timer = t => timer[t].started]_vars
  BY EventPollAssumption, CallStep
<1> QED BY <1>1, Invariant, PTL DEF Spec, NoLateCall
================================================================================
