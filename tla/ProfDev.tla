------------------------------- MODULE ProfDev -------------------------------
(***************************************************************************)
(* The life of a prof_dev (monitor.c): open, clone, enable, disable,       *)
(* forward, flush, close and free, and the main loop that drives them.     *)
(*                                                                         *)
(* perf-prof is single threaded, but a callback deep inside a flush may    *)
(* close the very device that is being flushed, its parent, or the target  *)
(* it forwards to.  What is hard is the re-entrance.  The module therefore *)
(* keeps the C call stack: `stack' is the sequence of the calls still to   *)
(* be made, the current one first.  A step replaces the first call by the  *)
(* calls its body makes.  Between two steps only the kernel acts: it may   *)
(* put a sample into the ring buffer of a device whose events are on.      *)
(***************************************************************************)
EXTENDS Integers, Sequences, FiniteSets, SequencesExt

CONSTANTS
    Devs,       \* the prof_dev structures that malloc() can return
    Pids,       \* the threads perf-prof can trace
    None,       \* NULL, and the head of a list for a list cursor
    Top,        \* the device main() opens
    InitKids,   \* InitKids[d]: the devices that prof->init(d) opens
    Forwarded,  \* the devices that prof->init() of their parent forwards
    Slots,      \* the devices that prof_dev_clone() may return
    Traced,     \* the devices that use --ptrace
    Attached,   \* the threads that exist when perf-prof starts
    Workloads,  \* the thread perf-prof may have started for Top, and None
    Caching,    \* the devices whose profiler keeps events (multi-trace)
    Limited,    \* the devices with a --sampling-limit
    ExitN,      \* ExitN[d]: the option -N of d, 0 when absent
    Stdin,      \* standard input is not a terminal: a line on it is a marker
    Killable,   \* a new thread may be killed before enabled() looks at it
    NrFds,      \* the file descriptors a device polls
    MaxRing,    \* bound: unread samples of a device
    MaxSamples, \* bound: samples in a behaviour
    MaxTicks    \* bound: interval timers and markers in a behaviour

ASSUME ProfDevAssumption ==
    /\ None \notin Devs \cup Pids
    /\ Top \in Devs
    /\ Attached \subseteq Pids
    /\ Workloads \subseteq Attached \cup {None}
    /\ InitKids \in [Devs -> Seq(Devs)]
    /\ ExitN \in [Devs -> Nat]
    /\ {Forwarded, Slots, Traced, Caching, Limited} \subseteq SUBSET Devs
    /\ {Stdin, Killable} \subseteq BOOLEAN
    /\ NrFds \in Nat \ {0}
    /\ {MaxRing, MaxSamples, MaxTicks} \subseteq Nat

VARIABLES
    dev,            \* dev[d]: the structure
    prof_dev_list,  \* the devices, in list order
    running,        \* the number of active devices, -1 after SIGINT
    stack,          \* the calls still to be made
    main,           \* where main() is: "loop", "close", "wait" or "done"
    workload,       \* env->workload.pid of Top
    tasks,          \* tasks[p]: "none", "run", "traced" (in pid_list) or "gone"
    samples,        \* samples produced so far
    ticks,          \* timers and markers so far
    fault           \* the call that used freed memory, or None

vars == <<dev, prof_dev_list, running, stack, main, workload, tasks, samples, ticks, fault>>

------------------------------------------------------------------------------
(* prof_dev.state *)
EXIT == -2
OFF == -1
INACTIVE == 0
ACTIVE == 1

NewDev ==
    [mem |-> "none", refcount |-> 0, state |-> OFF, clone |-> FALSE,
     inclose |-> FALSE, inflush |-> FALSE, parent |-> None, target |-> None,
     child_list |-> <<>>, source_list |-> <<>>, ptrace_list |-> {},
     on |-> FALSE, polled |-> 0, nr_pollfd |-> 0, timer |-> FALSE,
     ring |-> 0, cached |-> <<>>, sampled_events |-> 0]

Live(d) == dev[d].mem = "live"
prof_dev_is_final(d) == dev[d].target = None
prof_dev_is_cloned(d) == dev[d].clone /\ dev[d].parent # None

(* A pending call. *)
Call(op, d) == [op |-> op, d |-> d]
CallWith(op, d, a) == [op |-> op, d |-> d, arg |-> a]
Each(list, d, body) == [op |-> "each", d |-> d, list |-> list, body |-> body, at |-> "first"]

Cur == Head(stack)
At(op) == stack # <<>> /\ fault = None /\ Cur.op = op
Return == stack' = Tail(stack)
Calls(cs) == stack' = cs \o Tail(stack)

OnlyDev == UNCHANGED <<prof_dev_list, running, main, workload, tasks, samples, ticks, fault>>

(* The first use of freed memory ends the behaviour. *)
UseFreed ==
    /\ fault' = Cur.op
    /\ stack' = <<>>
    /\ UNCHANGED <<dev, prof_dev_list, running, main, workload, tasks, samples, ticks>>

------------------------------------------------------------------------------
(* for_each_dev_get: the cursor is held while its body runs, and the next   *)
(* element is read before it is put.  list_del_init() leaves an element     *)
(* that is its own successor.                                               *)
ListOf(f) == IF f.list = "prof_dev_list" THEN prof_dev_list ELSE dev[f.d][f.list]

Cursor(f) ==
    IF f.at # "first" THEN f.at
    ELSE IF ListOf(f) = <<>> THEN None ELSE Head(ListOf(f))

NextEntry(l, x) ==
    LET i == SelectInSeq(l, LAMBDA y : y = x)
    IN  IF i = 0 THEN x ELSE IF i = Len(l) THEN None ELSE l[i + 1]

(* The body of each loop, with its condition. *)
Body(f, x) ==
    LET own == ~dev[x].clone /\ dev[x].target # f.d
    IN  CASE f.body = "closeChild"   -> IF own THEN <<Call("close", x)>> ELSE <<>>
          [] f.body = "disableChild" -> IF own THEN <<Call("disable", x)>> ELSE <<>>
          [] f.body = "detachClone"  -> IF dev[x].clone /\ dev[x].ptrace_list # {}
                                        THEN <<Call("detach", x)>> ELSE <<>>
          [] f.body = "marker"       -> IF prof_dev_is_final(x)
                                        THEN <<Call("interval", x)>> ELSE <<>>
          [] f.body = "flush"        -> <<CallWith("flush", x, "normal")>>
          [] OTHER                   -> <<Call(f.body, x)>>

for_each_dev_get ==
    /\ At("each")
    /\ LET x == Cursor(Cur)
       IN  IF x # None /\ ~Live(x) THEN UseFreed
           ELSE /\ IF x = None \/ dev[x].refcount = 0
                   THEN Return /\ UNCHANGED dev
                   ELSE /\ dev' = [dev EXCEPT ![x].refcount = @ + 1]
                        /\ Calls(Append(Body(Cur, x), [Cur EXCEPT !.op = "next", !.at = x]))
                /\ OnlyDev

list_next_entry ==
    /\ At("next")
    /\ Calls(<<Call("put", Cur.at),
               [Cur EXCEPT !.op = "each", !.at = NextEntry(ListOf(Cur), Cur.at)]>>)
    /\ UNCHANGED dev /\ OnlyDev

------------------------------------------------------------------------------
(* Reference counting.                                                     *)

(* prof_dev_put(d): the last reference frees the device. *)
prof_dev_put ==
    /\ At("put")
    /\ LET d == Cur.d
       IN  IF ~Live(d) THEN UseFreed
           ELSE /\ dev' = [dev EXCEPT ![d].refcount = @ - 1]
                /\ IF dev[d].refcount = 1 THEN Calls(<<Call("free", d)>>) ELSE Return
                /\ OnlyDev

(* list_del() of the first or the last source writes into the list head,   *)
(* which is a member of the target.                                        *)
UnlinkWritesTarget(d) ==
    LET t == dev[d].target
    IN  t # None /\ d \in {Head(dev[t].source_list), Last(dev[t].source_list)}

(* perf_event_put() of every cached event. *)
Releases(d) == [i \in DOMAIN dev[d].cached |-> Call("put", dev[d].cached[i])]

HeirsNone(d) == <<>>
Heirs(d) == dev[d].child_list

(* prof->deinit() puts the events that are still cached.  Then the device  *)
(* leaves its parent, to which it leaves its children, and its target.     *)
prof_dev_free ==
    /\ At("free")
    /\ LET d == Cur.d
           p == dev[d].parent
           t == dev[d].target
           kids == Heirs(d)
       IN  IF UnlinkWritesTarget(d) /\ ~Live(t) THEN UseFreed
           ELSE IF dev[d].cached # <<>>
           THEN /\ dev' = [dev EXCEPT ![d].cached = <<>>]
                /\ Calls(Append(Releases(d), Cur))
                /\ OnlyDev
           ELSE /\ dev' = [x \in Devs |->
                      [dev[x] EXCEPT
                          !.mem = IF x = d THEN "freed" ELSE @,
                          !.parent = IF Contains(kids, x) THEN p ELSE @,
                          !.clone = IF Contains(kids, x) THEN p # None /\ dev[d].clone ELSE @,
                          !.child_list = IF x = p THEN Remove(@ \o kids, d) ELSE @,
                          !.source_list = IF x = t THEN Remove(@, d) ELSE @]]
                /\ Return
                /\ OnlyDev

------------------------------------------------------------------------------
(* Closing, disabling and flushing.                                        *)

CloseCallsExitFirst(d) ==
    <<Call("exit", d), Call("disable", d), Call("detach", d),
      Each("source_list", d, "close"), Each("child_list", d, "closeChild"), Call("put", d)>>
CloseCalls(d) ==
    <<Call("disable", d), Call("exit", d), Call("detach", d),
      Each("source_list", d, "close"), Each("child_list", d, "closeChild"), Call("put", d)>>

Closing(d) == dev[d].inclose

prof_dev_close ==
    /\ At("close")
    /\ LET d == Cur.d
       IN  IF ~Live(d) THEN UseFreed
           ELSE /\ IF Closing(d)
                   THEN Return /\ UNCHANGED dev
                   ELSE /\ dev' = [dev EXCEPT ![d].inclose = TRUE]
                        /\ Calls(CloseCalls(d))
                /\ OnlyDev

CloseExit ==
    /\ At("exit")
    /\ dev' = [dev EXCEPT ![Cur.d].state = EXIT]
    /\ prof_dev_list' = Remove(prof_dev_list, Cur.d)
    /\ Return
    /\ UNCHANGED <<running, main, workload, tasks, samples, ticks, fault>>

IsDisabled(d) == dev[d].state < ACTIVE

OneLess == IF running > 0 THEN running - 1 ELSE running

DisableCallsFlushFirst(d) ==
    <<CallWith("flush", d, "final"),
      Each("source_list", d, "disable"), Each("child_list", d, "disableChild"),
      Call("off", d), Call("put", d)>>
DisableCalls(d) ==
    <<Each("source_list", d, "disable"), Each("child_list", d, "disableChild"),
      Call("off", d), CallWith("flush", d, "final"), Call("put", d)>>

prof_dev_disable ==
    /\ At("disable")
    /\ LET d == Cur.d
       IN  IF IsDisabled(d)
           THEN Return /\ UNCHANGED <<dev, running>>
           ELSE /\ dev' = [dev EXCEPT ![d].refcount = @ + 1, ![d].state = INACTIVE]
                /\ running' = OneLess
                /\ Calls(DisableCalls(d))
    /\ UNCHANGED <<prof_dev_list, main, workload, tasks, samples, ticks, fault>>

(* timer_cancel(), perf_evlist__disable() and main_epoll_del(). *)
DisableOff ==
    /\ At("off")
    /\ dev' = [dev EXCEPT ![Cur.d].timer = FALSE, ![Cur.d].on = FALSE, ![Cur.d].polled = 0]
    /\ Return
    /\ OnlyDev

(* prof_dev_flush(d, how): how is "normal" or "final". *)
prof_dev_flush ==
    /\ At("flush")
    /\ LET d == Cur.d
       IN  IF dev[d].inflush
           THEN Return /\ UNCHANGED dev
           ELSE /\ dev' = [dev EXCEPT ![d].refcount = @ + 1, ![d].inflush = TRUE]
                /\ Calls(<<Call("drain", d),
                           IF Cur.arg = "final" THEN Call("release", d)
                                                ELSE Each("source_list", d, "flush"),
                           Call("flushed", d), Call("put", d)>>)
    /\ OnlyDev

(* multi_trace_flush(FINAL): the cached events are handled and released. *)
FlushReleases ==
    /\ At("release")
    /\ Calls(Releases(Cur.d))
    /\ dev' = [dev EXCEPT ![Cur.d].cached = <<>>]
    /\ OnlyDev

FlushDone ==
    /\ At("flushed")
    /\ dev' = [dev EXCEPT ![Cur.d].inflush = FALSE]
    /\ Return
    /\ OnlyDev

------------------------------------------------------------------------------
(* Reading and delivering samples.                                         *)

(* The loop of perf_event_handle_mmap(). *)
perf_event_handle_mmap ==
    /\ At("drain")
    /\ LET d == Cur.d
       IN  IF dev[d].ring = 0
           THEN Return /\ UNCHANGED dev
           ELSE /\ dev' = [dev EXCEPT ![d].ring = @ - 1]
                /\ Calls(<<Call("record", d), Cur>>)
    /\ OnlyDev

Receiver(d) == IF prof_dev_is_final(d) THEN d ELSE dev[d].target

perf_event_get_none(n) == n
perf_event_get(n) == n + 1

(* A sample goes to the target of the device, or to the device itself.     *)
(* The profiler may keep a forwarded one, with a reference to its source.  *)
(* With -N the receiver is closed at the last sample wanted.               *)
perf_event_process_record ==
    /\ At("record")
    /\ LET d == Cur.d
           t == Receiver(d)
           n == IF ExitN[t] = 0 THEN 0 ELSE dev[t].sampled_events + 1
       IN  IF ~Live(t) THEN UseFreed
           ELSE /\ \E keep \in IF t # d /\ t \in Caching /\ n <= ExitN[t]
                               THEN BOOLEAN ELSE {FALSE} :
                      dev' = [dev EXCEPT ![t].sampled_events = n,
                                         ![t].cached = IF keep THEN Append(@, d) ELSE @,
                                         ![d].refcount = IF keep THEN perf_event_get(@) ELSE @]
                /\ IF ExitN[t] > 0 /\ n >= ExitN[t] THEN Calls(<<Call("close", t)>>) ELSE Return
                /\ OnlyDev

(* A sample from before enabled_after is dropped, and does not count. *)
RecordTooEarly ==
    /\ At("record")
    /\ LET d == Cur.d
       IN  ~prof_dev_is_final(d) \/ ExitN[d] = 0 \/ dev[d].sampled_events < ExitN[d]
    /\ Return
    /\ UNCHANGED dev /\ OnlyDev

(* perf_event_handle(): a readable ring buffer, or the end of all attached  *)
(* threads.                                                                 *)
perf_event_handle ==
    /\ At("handle")
    /\ dev' = [dev EXCEPT ![Cur.d].refcount = @ + 1]
    /\ Calls(<<Call("drain", Cur.d)>>
             \o (IF Cur.arg = "hup" THEN <<Call("hup", Cur.d)>> ELSE <<>>)
             \o <<Call("put", Cur.d)>>)
    /\ OnlyDev

HandleHup ==
    /\ At("hup")
    /\ LET d == Cur.d
       IN  /\ dev' = [dev EXCEPT ![d].polled = IF @ > 0 THEN @ - 1 ELSE 0, ![d].nr_pollfd = @ - 1]
           /\ IF dev[d].nr_pollfd = 1 THEN Calls(<<Call("close", d)>>) ELSE Return
    /\ OnlyDev

interval_handle ==
    /\ At("interval")
    /\ LET d == Cur.d
       IN  /\ dev' = [dev EXCEPT ![d].refcount = @ + 1]
           /\ Calls(<<Call("drain", d), Each("source_list", d, "interval"),
                      Call("perfeval", d), Call("put", d)>>)
    /\ OnlyDev

(* perfeval_evaluate(): above the limit the device is closed. *)
perfeval_evaluate ==
    /\ At("perfeval")
    /\ \E above \in IF Cur.d \in Limited THEN BOOLEAN ELSE {FALSE} :
          IF above THEN Calls(<<Call("close", Cur.d)>>) ELSE Return
    /\ UNCHANGED dev /\ OnlyDev

------------------------------------------------------------------------------
(* Opening, cloning and enabling.                                          *)

(* prof_dev_open_internal(): the structure, and prof->init() which opens   *)
(* the children and forwards some of them.                                 *)
prof_dev_open_internal ==
    /\ At("open")
    /\ LET d == Cur.d
           p == Cur.arg.parent
           clone == Cur.arg.clone
           kids == InitKids[d]
           sources == SelectSeq(kids, LAMBDA k : k \in Forwarded)
       IN  /\ dev' = [x \in Devs |->
                  IF x = d
                  THEN [NewDev EXCEPT !.mem = "live", !.refcount = 2, !.parent = p, !.clone = clone,
                            !.state = IF p # None /\ ~clone /\ dev[p].state <= INACTIVE
                                      THEN OFF ELSE INACTIVE]
                  ELSE [dev[x] EXCEPT !.child_list = IF x = p THEN Append(@, d) ELSE @]]
           /\ Calls([i \in DOMAIN kids |-> CallWith("open", kids[i], [parent |-> d, clone |-> FALSE])]
                    \o [i \in DOMAIN sources |-> CallWith("forward", sources[i], d)]
                    \o <<Call("attach", d), Call("opened", d)>>
                    \o IF clone THEN <<>> ELSE <<Call("put", d)>>)
    /\ OnlyDev

(* ptrace_attach(): threads that cannot be seized are left out. *)
ptrace_attach ==
    /\ At("attach")
    /\ LET d == Cur.d
           seizable == {p \in Pids : tasks[p] \in {"run", "traced"}}
       IN  IF d \notin Traced \/ dev[d].clone \/ seizable = {}
           THEN UNCHANGED <<dev, tasks>>
           ELSE /\ dev' = [dev EXCEPT ![d].ptrace_list = seizable, ![d].refcount = @ + 1]
                /\ tasks' = [p \in Pids |-> IF p \in seizable THEN "traced" ELSE tasks[p]]
    /\ Return
    /\ UNCHANGED <<prof_dev_list, running, main, workload, samples, ticks, fault>>

(* A device with children is put before them on prof_dev_list. *)
OpenDone ==
    /\ At("opened")
    /\ LET d == Cur.d
       IN  /\ prof_dev_list' = IF dev[d].child_list # <<>> THEN <<d>> \o prof_dev_list
                               ELSE Append(prof_dev_list, d)
           /\ IF dev[d].state = INACTIVE THEN Calls(<<Call("enable", d)>>) ELSE Return
    /\ UNCHANGED <<dev, running, main, workload, tasks, samples, ticks, fault>>

prof_dev_forward ==
    /\ At("forward")
    /\ LET d == Cur.d
           t == Cur.arg
       IN  IF ~Live(t) THEN UseFreed
           ELSE /\ dev' = [dev EXCEPT ![d].target = t, ![t].source_list = Append(@, d)]
                /\ Return
                /\ OnlyDev

prof_dev_enable ==
    /\ At("enable")
    /\ LET d == Cur.d
       IN  IF dev[d].state \in {ACTIVE, EXIT}
           THEN Return /\ UNCHANGED <<dev, running>>
           ELSE /\ dev' = [dev EXCEPT ![d].refcount = @ + 1, ![d].state = ACTIVE,
                                      ![d].polled = NrFds, ![d].nr_pollfd = @ + NrFds]
                /\ running' = IF running >= 0 THEN running + 1 ELSE running
                /\ Calls(<<Each("child_list", d, "enable"), Call("started", d), Call("put", d)>>)
    /\ UNCHANGED <<prof_dev_list, main, workload, tasks, samples, ticks, fault>>

(* perf_evlist__enable(), timer_start() and prof->enabled(), which closes  *)
(* a clone whose thread is already gone.                                   *)
EnableStarted ==
    /\ At("started")
    /\ dev' = [dev EXCEPT ![Cur.d].on = TRUE, ![Cur.d].timer = TRUE]
    /\ \E gone \in IF Killable /\ prof_dev_is_cloned(Cur.d) THEN BOOLEAN ELSE {FALSE} :
          IF gone THEN Calls(<<Call("close", Cur.d)>>) ELSE Return
    /\ OnlyDev

(* prof_dev_clone(d, ..., thread q), then __ptrace_link(q, clone).  It     *)
(* returns NULL when d is closed, or when the thread died and the events   *)
(* cannot be opened.                                                       *)
prof_dev_clone ==
    /\ At("clone")
    /\ LET d == Cur.d
           c == Cur.arg.slot
           link == CallWith("link", c, Cur.arg.pid)
       IN  \E fails \in IF Killable THEN BOOLEAN ELSE {FALSE} :
              IF dev[d].state = EXIT \/ fails
              THEN Calls(<<link>>) /\ UNCHANGED dev
              ELSE /\ dev' = [dev EXCEPT ![d].refcount = @ + 1]
                   /\ Calls(<<CallWith("open", c, [parent |-> d, clone |-> TRUE])>>
                            \o (IF prof_dev_is_final(d) THEN <<>>
                                ELSE <<CallWith("forward", c, dev[d].target)>>)
                            \o <<Call("put", c), Call("put", d), link>>)
    /\ OnlyDev

------------------------------------------------------------------------------
(* The devices of a traced thread (ptrace.c).                              *)

(* __ptrace_link(): a device is held once, while any thread uses it.  The  *)
(* NULL of a failed clone is dereferenced.                                 *)
ptrace_link ==
    /\ At("link")
    /\ LET d == Cur.d
       IN  IF ~Live(d) THEN UseFreed
           ELSE /\ dev' = [dev EXCEPT ![d].ptrace_list = @ \cup {Cur.arg},
                              ![d].refcount = IF dev[d].ptrace_list = {} THEN @ + 1 ELSE @]
                /\ Return
                /\ OnlyDev

prof_dev_unuse(n) == n - 1

(* __ptrace_unlink_free() and prof_dev_unuse(): the last user closes the   *)
(* device, unless it is freed with the reference.                          *)
ptrace_unlink ==
    /\ At("unlink")
    /\ LET d == Cur.d
           left == dev[d].ptrace_list \ {Cur.arg}
       IN  /\ dev' = [dev EXCEPT ![d].ptrace_list = left,
                                 ![d].refcount = IF left = {} THEN prof_dev_unuse(@) ELSE @]
           /\ IF left # {} THEN Return
              ELSE IF dev[d].refcount = 1 THEN Calls(<<Call("free", d)>>)
              ELSE Calls(<<Call("close", d)>>)
    /\ OnlyDev

(* ptrace_detach(): all threads of the device, then those of its clones. *)
ptrace_detach ==
    /\ At("detach")
    /\ LET d == Cur.d
           links == SetToSeq(dev[d].ptrace_list)
       IN  IF links = <<>>
           THEN Return /\ UNCHANGED dev
           ELSE /\ dev' = [dev EXCEPT ![d].refcount = @ + 1]
                /\ Calls([i \in DOMAIN links |-> CallWith("unlink", d, links[i])]
                         \o <<Each("child_list", d, "detachClone"), Call("put", d)>>)
    /\ OnlyDev

------------------------------------------------------------------------------
(* The kernel, and the events that main() waits for.                       *)

Sample(d) ==
    /\ fault = None
    /\ dev[d].on
    /\ dev[d].ring < MaxRing
    /\ samples < MaxSamples
    /\ dev' = [dev EXCEPT ![d].ring = @ + 1]
    /\ samples' = samples + 1
    /\ UNCHANGED <<prof_dev_list, running, stack, main, workload, tasks, ticks, fault>>

(* main() polls in its loop, and once more at the end. *)
Waiting ==
    /\ stack = <<>> /\ fault = None
    /\ (main = "loop" /\ running > 0) \/ main = "wait"

Readable(d) ==
    /\ Waiting
    /\ dev[d].polled > 0 /\ dev[d].ring > 0
    /\ stack' = <<CallWith("handle", d, "in")>>
    /\ UNCHANGED dev /\ OnlyDev

Hangup(d) ==
    /\ Waiting
    /\ dev[d].polled > 0
    /\ stack' = <<CallWith("handle", d, "hup")>>
    /\ UNCHANGED dev /\ OnlyDev

Timer(d) ==
    /\ Waiting
    /\ dev[d].timer
    /\ ticks < MaxTicks
    /\ ticks' = ticks + 1
    /\ stack' = <<Call("interval", d)>>
    /\ UNCHANGED <<dev, prof_dev_list, running, main, workload, tasks, samples, fault>>

(* A line on standard input. *)
print_marker_and_interval ==
    /\ Waiting
    /\ Stdin
    /\ ticks < MaxTicks
    /\ ticks' = ticks + 1
    /\ stack' = <<Each("prof_dev_list", None, "marker")>>
    /\ UNCHANGED <<dev, prof_dev_list, running, main, workload, tasks, samples, fault>>

(* A client connects to a pushed event: tcp_new_client(). *)
NewClient(d) ==
    /\ Waiting
    /\ Live(d) /\ dev[d].state = ACTIVE
    /\ ticks < MaxTicks
    /\ ticks' = ticks + 1
    /\ stack' = <<CallWith("flush", d, "normal")>>
    /\ UNCHANGED <<dev, prof_dev_list, running, main, workload, tasks, samples, fault>>

DevsOf(p) == {d \in Devs : Live(d) /\ p \in dev[d].ptrace_list}

(* A traced thread p has started the thread q: __fork__new() clones the    *)
(* devices of p.  When there are none q is let go as p is.                 *)
TraceeNew(p, q) ==
    /\ Waiting
    /\ tasks[p] = "traced" /\ tasks[q] = "none"
    /\ \E slot \in [DevsOf(p) -> {c \in Slots : dev[c].mem = "none"}] :
          /\ IsInjective(slot)
          /\ LET ds == SetToSeq(DevsOf(p))
             IN  stack' = [i \in DOMAIN ds |->
                              CallWith("clone", ds[i], [slot |-> slot[ds[i]], pid |-> q])]
    /\ tasks' = [tasks EXCEPT ![q] = "traced"]
    /\ UNCHANGED <<dev, prof_dev_list, running, main, workload, samples, ticks, fault>>

(* handle_SIGCHLD() for a thread that exited: ptrace_exited(), then the    *)
(* device of the workload.                                                 *)
TraceeExited(p) ==
    /\ Waiting
    /\ tasks[p] = "traced" \/ (tasks[p] = "run" /\ p = workload)
    /\ tasks' = [tasks EXCEPT ![p] = "gone"]
    /\ LET ds == SetToSeq(DevsOf(p))
       IN  stack' = Append([i \in DOMAIN ds |-> CallWith("unlink", ds[i], p)],
                           CallWith("workload", Top, p))
    /\ UNCHANGED <<dev, prof_dev_list, running, main, workload, samples, ticks, fault>>

(* ptrace_detach() has taken the last device of p away and has interrupted *)
(* it, or killed it when it is the workload or one of its descendants.     *)
LetGo(p) == tasks[p] = "traced" /\ DevsOf(p) = {}

(* The stop of an interrupted thread is reported: __detach(). *)
TraceeDetached(p) ==
    /\ Waiting
    /\ LetGo(p) /\ workload = None
    /\ tasks' = [tasks EXCEPT ![p] = "gone"]
    /\ UNCHANGED <<dev, prof_dev_list, running, stack, main, workload, samples, ticks, fault>>

WorkloadExited ==
    /\ At("workload")
    /\ IF Cur.arg = workload /\ Contains(prof_dev_list, Top) /\ dev[Top].ptrace_list = {}
       THEN Calls(<<Call("close", Top)>>) ELSE Return
    /\ UNCHANGED dev /\ OnlyDev

Interrupt ==
    /\ Waiting
    /\ running' = -1
    /\ UNCHANGED <<dev, prof_dev_list, stack, main, workload, tasks, samples, ticks, fault>>

LoopOver == running <= 0

AtEndDisable(d) == Call("disable", d)
AtEnd(d) == Call("close", d)

(* The loop of main() ends, and prof_dev_list_close() restarts at the head *)
(* of the list until it is empty.  After SIGINT it goes on polling until   *)
(* pid_list is empty too.                                                  *)
LoopEnds ==
    /\ stack = <<>> /\ fault = None /\ main = "loop" /\ LoopOver
    /\ main' = "close"
    /\ UNCHANGED <<dev, prof_dev_list, running, stack, workload, tasks, samples, ticks, fault>>

prof_dev_list_close ==
    /\ stack = <<>> /\ fault = None /\ main = "close"
    /\ IF prof_dev_list = <<>>
       THEN main' = (IF running < 0 THEN "wait" ELSE "done") /\ UNCHANGED stack
       ELSE stack' = <<AtEnd(Head(prof_dev_list))>> /\ UNCHANGED main
    /\ UNCHANGED <<dev, prof_dev_list, running, workload, tasks, samples, ticks, fault>>

ptrace_detach_done ==
    /\ stack = <<>> /\ fault = None /\ main = "wait"
    /\ \A p \in Pids : tasks[p] # "traced"
    /\ main' = "done"
    /\ UNCHANGED <<dev, prof_dev_list, running, stack, workload, tasks, samples, ticks, fault>>

Terminated == main = "done" /\ UNCHANGED vars

------------------------------------------------------------------------------
Init ==
    /\ dev = [d \in Devs |-> NewDev]
    /\ prof_dev_list = <<>>
    /\ running = 0
    /\ stack = <<CallWith("open", Top, [parent |-> None, clone |-> FALSE])>>
    /\ main = "loop"
    /\ workload \in Workloads
    /\ tasks = [p \in Pids |-> IF p \in Attached THEN "run" ELSE "none"]
    /\ samples = 0
    /\ ticks = 0
    /\ fault = None

Step ==
    \/ for_each_dev_get \/ list_next_entry
    \/ prof_dev_put \/ prof_dev_free
    \/ prof_dev_close \/ CloseExit \/ prof_dev_disable \/ DisableOff
    \/ prof_dev_flush \/ FlushReleases \/ FlushDone
    \/ perf_event_handle_mmap \/ perf_event_process_record \/ RecordTooEarly
    \/ perf_event_handle \/ HandleHup \/ interval_handle \/ perfeval_evaluate
    \/ prof_dev_open_internal \/ ptrace_attach \/ OpenDone \/ prof_dev_forward
    \/ prof_dev_enable \/ EnableStarted \/ prof_dev_clone
    \/ ptrace_link \/ ptrace_unlink \/ ptrace_detach \/ WorkloadExited

Event ==
    \/ \E d \in Devs : Sample(d) \/ Readable(d) \/ Hangup(d) \/ Timer(d) \/ NewClient(d)
    \/ print_marker_and_interval
    \/ \E p, q \in Pids : TraceeNew(p, q)
    \/ \E p \in Pids : TraceeExited(p) \/ TraceeDetached(p)
    \/ Interrupt

MainEnds == LoopEnds \/ prof_dev_list_close \/ ptrace_detach_done

Next == Step \/ Event \/ MainEnds \/ Terminated

(* A call returns, and main() goes on: the program is not stopped for ever. *)
(* A thread that was interrupted stops, and one that was killed exits.      *)
Spec ==
    /\ Init /\ [][Next]_vars
    /\ WF_vars(Step \/ MainEnds)
    /\ \A p \in Pids : WF_vars(LetGo(p) /\ (TraceeExited(p) \/ TraceeDetached(p)))

------------------------------------------------------------------------------
(* Properties.                                                             *)

(* No call dereferences a prof_dev that prof_dev_free() has released,      *)
(* however deep the close that released it was nested.                     *)
NoUseAfterFree == fault = None

Holds(f, d) == (f.op = "put" /\ f.d = d) \/ (f.op = "next" /\ f.at = d)

(* The reference count is exactly the references that exist: the one of    *)
(* prof_dev_open() until prof_dev_close() drops it, one for each pending   *)
(* prof_dev_put(), one for each event in a profiler's buffer, and one for  *)
(* the traced threads together.                                            *)
RefcountExact ==
    \A d \in Devs : Live(d) =>
        dev[d].refcount =
            (IF dev[d].inclose THEN 0 ELSE 1)
            + Cardinality({i \in DOMAIN stack : Holds(stack[i], d)})
            + Cardinality({e \in Devs \X (1..MaxSamples) :
                  e[2] \in DOMAIN dev[e[1]].cached /\ dev[e[1]].cached[e[2]] = d})
            + (IF dev[d].ptrace_list = {} THEN 0 ELSE 1)

(* The lists that link devices agree in both directions and hold no freed  *)
(* device: parent and children, target and sources, prof_dev_list.  So do  *)
(* the reference counts, and when main() returns every device is freed.    *)
ListsAgree ==
    /\ RefcountExact
    /\ main = "done" => \A d \in Devs : ~Live(d)
    /\ \A d \in Devs : Live(d) =>
          /\ \A k \in ToSet(dev[d].child_list) : Live(k) /\ dev[k].parent = d
          /\ \A k \in ToSet(dev[d].source_list) : Live(k) /\ dev[k].target = d
          /\ dev[d].parent # None => Live(dev[d].parent) /\ Contains(dev[dev[d].parent].child_list, d)
          /\ dev[d].target # None => Live(dev[d].target) /\ Contains(dev[dev[d].target].source_list, d)
    /\ \A d \in ToSet(prof_dev_list) : Live(d) /\ dev[d].state # EXIT

(* A closed device is silent: its timer, its events and its file           *)
(* descriptors are off, and when the main loop goes on every sample it     *)
(* had has been read and delivered.                                        *)
ClosedIsQuiet ==
    \A d \in Devs :
        /\ dev[d].state = EXIT => ~dev[d].on /\ ~dev[d].timer /\ dev[d].polled = 0
        /\ dev[d].mem = "freed" \/ (dev[d].state = EXIT /\ stack = <<>>) => dev[d].ring = 0

(* prof_dev_free: deinit() "is only used to release memory and no longer   *)
(* handle events", because the final flush has emptied the buffers.        *)
FlushedBeforeFree == stack # <<>> /\ Cur.op = "free" => dev[Cur.d].cached = <<>>

(* After SIGINT the program ends: every close returns, and every traced    *)
(* thread, however late it was born, is let go of.                         *)
Stops == (running = -1) ~> (main = "done")

(* prof_dev_close: "It is impossible to continue forwarding" once the      *)
(* target is closed.                                                       *)
NoForwardToClosed ==
    stack # <<>> /\ Cur.op = "record" /\ ~prof_dev_is_final(Cur.d)
        => Live(dev[Cur.d].target) /\ dev[dev[Cur.d].target].state # EXIT
==============================================================================
