-------------------------------- MODULE Ptrace --------------------------------
(***************************************************************************)
(* ptrace.c: --ptrace follows the children of the profiled processes.  A   *)
(* traced process stops when it forks, its child starts stopped, and the   *)
(* two stops are reported in any order.  When both are known the devices   *)
(* of the parent are cloned for the child, which then continues.  When a   *)
(* device closes, the processes only it used are detached, or killed when  *)
(* they are the workload.                                                  *)
(*                                                                         *)
(* A device is <<root, pid>>: <<d, 0>> was opened on the initial processes,*)
(* <<d, p>> is the clone for p.  No pid is used twice.                     *)
(***************************************************************************)
EXTENDS Integers, FiniteSets, TLC

CONSTANTS
    Opened,     \* the devices opened at the start, each for all initial processes
    Initial,    \* the initial processes
    Pids,       \* all processes, positive numbers
    Workloads,  \* whether the initial processes are the workload: a set of BOOLEANs
    MaxTraps,   \* bounds: SIGCONT stops, and processes that somebody kills
    MaxKills

VARIABLES
    node,       \* pid_list: the pid_nodes
    dev,        \* the open devices: what they were cloned from, or <<>>
    bug,        \* a "BUG:" message was printed
    freed,      \* freed memory was used
    task,       \* the processes, in the kernel
    closing,    \* SIGINT: prof_dev_list_close() waits for pid_list
    unborn,     \* processes whose parent was killed before its fork was reported
    traps, kills

vars == <<node, dev, bug, freed, task, closing, unborn, traps, kills>>

Without(f, S) == [x \in DOMAIN f \ S |-> f[x]]
-------------------------------------------------------------------------------
(* ptrace(2) and kill(2) on a process, as they change `task'.  A process   *)
(* that is detached, or whose end was reported, is gone.                   *)
Alive(t, p) == t[p].state \notin {"none", "dead", "gone"}
PTRACE_CONT(t, p) ==
    IF t[p].state = "stop" THEN [t EXCEPT ![p].state = "run", ![p].msg = "none"] ELSE t
PTRACE_DETACH(t, p) ==
    IF t[p].state = "stop"
    THEN [t EXCEPT ![p].state = "gone", ![p].msg = "none", ![p].trap = FALSE, ![p].killed = FALSE]
    ELSE t
PTRACE_INTERRUPT(t, p) == IF Alive(t, p) THEN [t EXCEPT ![p].trap = TRUE] ELSE t
SIGKILL(t, S) == [p \in Pids |-> IF p \in S /\ Alive(t, p) THEN [t[p] EXCEPT !.killed = TRUE, !.msg = "none"]
                                 ELSE t[p]]
-------------------------------------------------------------------------------
(* The state that the functions below change, passed from one to the next. *)
State == [node |-> node, dev |-> dev, bug |-> bug, freed |-> freed, task |-> task]
SetState(state) ==
    \E s \in {state} :
        node' = s.node /\ dev' = s.dev /\ bug' = s.bug /\ freed' = s.freed /\ task' = s.task

Bug(s) == [s EXCEPT !.bug = TRUE]
UseFreed(s) == [s EXCEPT !.freed = TRUE]

__node_new(initial, workload, devs) ==
    [initial |-> initial, detach |-> FALSE, workload |-> workload, refcount |-> 1,
     parent |-> 0, initial_child_list |-> {}, dev_list |-> devs]

\* new_find_pid
new_find_pid(s, p) ==
    IF p \in DOMAIN s.node THEN s ELSE [s EXCEPT !.node = @ @@ (p :> __node_new(0, FALSE, {}))]

\* prof_dev_unuse() for the last user closes and frees a device; its clones
\* go to its parent.
prof_dev_free(s, S) ==
    LET Up(d) == IF s.dev[d] # <<>> /\ s.dev[d] \in S THEN s.dev[s.dev[d]] ELSE s.dev[d]
    IN  [s EXCEPT !.dev = [d \in DOMAIN s.dev \ S |-> Up(d)]]
Users(s, d) == {p \in DOMAIN s.node : d \in s.node[p].dev_list}
__ptrace_unlink(s, p, S) ==
    LET t == [s EXCEPT !.node[p].dev_list = @ \ S]
    IN  prof_dev_free(t, {d \in S : Users(t, d) = {}})

\* put_pid() on a node; __node_delete() puts the parent.
RECURSIVE put_pid(_, _)
put_pid(s, p) ==
    IF p \notin DOMAIN s.node THEN UseFreed(s)
    ELSE IF s.node[p].refcount > 1 THEN [s EXCEPT !.node[p].refcount = @ - 1]
    ELSE LET b == s.node[p]
             s1 == __ptrace_unlink([s EXCEPT !.node[p].refcount = 0], p, b.dev_list)
             s2 == [s1 EXCEPT !.node = [q \in DOMAIN @ |-> [@[q] EXCEPT !.initial_child_list = @ \ {p}]]]
             s3 == IF b.parent # 0 THEN put_pid(s2, b.parent) ELSE s2
             s4 == IF b.initial_child_list # {} THEN Bug(s3) ELSE s3
         IN  [s4 EXCEPT !.node = Without(@, {p})]
-------------------------------------------------------------------------------
__cont(s, p) == [s EXCEPT !.task = PTRACE_CONT(@, p)]

__detach(s, p) ==
    IF s.node[p].workload THEN Bug(s)
    ELSE put_pid([s EXCEPT !.task = PTRACE_DETACH(@, p)], p)

\* prof_dev_clone() for each device of the parent, and __ptrace_link().
Clones(s, child, parent) ==
    LET devs == s.node[parent].dev_list
    IN  [s EXCEPT !.dev = @ @@ [c \in {<<d[1], child>> : d \in devs} |->
                                   CHOOSE d \in devs : d[1] = c[1]],
                  !.node[child].dev_list = {<<d[1], child>> : d \in devs}]

__fork__new(s, child) ==
    LET parent == s.node[child].parent
        s1 == [s EXCEPT !.node = [q \in DOMAIN @ |-> [@[q] EXCEPT !.initial_child_list = @ \ {child}]]]
        s2 == put_pid(Clones(s1, child, parent), parent)
        s3 == IF parent = 0 THEN s1
              ELSE IF parent \notin DOMAIN s1.node THEN UseFreed(s1)
              ELSE [s2 EXCEPT !.node[child].parent = 0]
    IN  IF s.node[child].detach THEN __detach(s1, child)
        ELSE IF s3.node[child].dev_list = {} THEN __detach(s3, child)
        ELSE __cont(s3, child)

\* Mutant: the parent is not referenced.
ForkParentNoGet(s, p, c) ==
    LET s1 == new_find_pid(s, c)
    IN  IF s1.node[p].detach THEN __detach(s1, p) ELSE __cont(s1, p)
\* get_pid(parent), new_find_pid(child), and the parent goes on.
ForkParent(s, p, c) ==
    LET s1 == new_find_pid([s EXCEPT !.node[p].refcount = @ + 1], c)
    IN  IF s1.node[p].detach THEN __detach(s1, p) ELSE __cont(s1, p)

\* Mutant: only the child's own stop starts it.
BothKnownLater(s, c) == s
\* The fork is the second of the two reports.
BothKnown(s, c) == IF s.node[c].initial = 2 THEN __fork__new(s, c) ELSE s

__fork(s, p, c) ==
    LET known == p \in DOMAIN s.node
        s1 == IF known THEN ForkParent(s, p, c)
              ELSE Bug(new_find_pid([s EXCEPT !.task = PTRACE_DETACH(@, p)], c))
        s2 == [s1 EXCEPT !.node[c].detach = IF known THEN s1.node[p].detach ELSE TRUE,
                         !.node[c].workload = known /\ s1.node[p].workload,
                         !.node[c].parent = IF known THEN p ELSE 0,
                         !.node[c].initial = @ + 1]
        s3 == IF known THEN [s2 EXCEPT !.node[p].initial_child_list = @ \cup {c}] ELSE s2
    IN  IF known /\ p \notin DOMAIN s1.node THEN UseFreed(s1) ELSE BothKnown(s3, c)

\* Mutant: every trap of a running process is taken for SIGCONT.
TrapContinues(s, p) == __cont(s, p)
\* PTRACE_INTERRUPT or SIGCONT
Trap(s, p) == IF s.node[p].detach THEN __detach(s, p) ELSE __cont(s, p)
\* Mutant: a new child does not wait.
ContNew(s, p) == __cont(s, p)
KEEP_STOP(s, p) == s

__new_or_interrupt(s, p) ==
    LET s1 == new_find_pid(s, p)
        n == s1.node[p]
        s2 == IF n.parent = 0 THEN s1
              ELSE IF n.parent \notin DOMAIN s1.node THEN UseFreed(s1)
              ELSE IF n.detach # s1.node[n.parent].detach THEN Bug(s1) ELSE s1
        s3 == [s2 EXCEPT !.node[p].initial = @ + 1]
    IN  CASE n.initial = 2 -> Trap(s2, p)
          [] n.initial = 1 -> __fork__new(s3, p)
          [] OTHER -> KEEP_STOP(s3, p)
-------------------------------------------------------------------------------
(* ptrace_detach() for a device and everything cloned from it.             *)
Family(S) ==
    LET f[n \in 0 .. Cardinality(Pids)] ==
            IF n = 0 THEN S ELSE f[n - 1] \cup {d \in DOMAIN dev : dev[d] \in f[n - 1]}
    IN  f[Cardinality(Pids)]

InitialChildren(s, S) == UNION {s.node[p].initial_child_list : p \in S}

\* The processes that lose their last device: they are interrupted or killed,
\* and so are their children that are not known to have started.
ptrace_detach(s, S) ==
    LET unused == {p \in DOMAIN s.node : s.node[p].dev_list # {} /\ s.node[p].dev_list \subseteq S}
        marked == {p \in unused : ~s.node[p].detach}
        kids == InitialChildren(s, marked)
        killed == {p \in marked \cup kids : s.node[p].workload}
        t == SIGKILL(s.task, killed)
    IN  [prof_dev_free(s, S) EXCEPT
            !.node = [p \in DOMAIN s.node |->
                        [s.node[p] EXCEPT !.dev_list = @ \ S, !.detach = @ \/ p \in marked \cup kids]],
            !.task = [p \in Pids |-> IF p \in marked \ killed THEN PTRACE_INTERRUPT(t, p)[p] ELSE t[p]]]

\* A device reaches -N, or is closed for another reason.
prof_dev_close(d) ==
    /\ d \in DOMAIN dev
    /\ SetState(ptrace_detach(State, Family({d})))
    /\ UNCHANGED <<closing, unborn, traps, kills>>

\* SIGINT: prof_dev_list_close(), which then polls until pid_list is empty.
prof_dev_list_close ==
    /\ ~closing /\ closing' = TRUE
    /\ SetState(ptrace_detach(State, DOMAIN dev))
    /\ UNCHANGED <<unborn, traps, kills>>
-------------------------------------------------------------------------------
\* One turn of handle_SIGCHLD(): a process that waitid(2) reports.
ptrace_exited(p) ==
    /\ task[p].state = "dead"
    /\ SetState([(IF p \in DOMAIN node THEN put_pid(State, p) ELSE State)
                    EXCEPT !.task[p].state = "gone", !.task[p].killed = FALSE, !.task[p].trap = FALSE])
    /\ UNCHANGED <<closing, unborn, traps, kills>>

Reported(p, msg) == task[p].state = "stop" /\ task[p].msg = msg /\ ~task[p].killed
Seen(p) == [State EXCEPT !.task[p].msg = "none", !.task[p].child = 0]

StopFork(p) ==
    /\ Reported(p, "FORK")
    /\ SetState(__fork(Seen(p), p, task[p].child))
    /\ UNCHANGED <<closing, unborn, traps, kills>>

StopTrap(p) ==
    /\ Reported(p, "STOP")
    /\ SetState(__new_or_interrupt(Seen(p), p))
    /\ UNCHANGED <<closing, unborn, traps, kills>>

HandleSIGCHLD == \E p \in Pids : ptrace_exited(p) \/ StopFork(p) \/ StopTrap(p)
-------------------------------------------------------------------------------
(* The processes.                                                          *)
NoTask == [state |-> "none", msg |-> "none", child |-> 0,
           trap |-> FALSE, killed |-> FALSE]

Init ==
    /\ dev = [d \in Opened \X {0} |-> <<>>]
    /\ \E workload \in Workloads :
          node = [p \in Initial |-> __node_new(2, workload, Opened \X {0})]
    /\ task = [p \in Pids |-> IF p \in Initial THEN [NoTask EXCEPT !.state = "run"]
                              ELSE NoTask]
    /\ bug = FALSE /\ freed = FALSE /\ closing = FALSE /\ unborn = {} /\ traps = 0 /\ kills = 0

Runs(p) == task[p].state = "run" /\ ~task[p].killed
TaskOnly == UNCHANGED <<node, dev, bug, freed, closing>>

\* fork(2), vfork(2) or clone(2): first the child exists, then the parent stops.
Fork(p) ==
    /\ Runs(p)
    /\ \E c \in Pids :
          /\ task[c].state = "none" /\ \A q \in Pids : q < c => task[q].state # "none"
          /\ task' = [task EXCEPT ![p].state = "fork", ![p].child = c, ![c].state = "new"]
    /\ TaskOnly /\ UNCHANGED <<unborn, traps, kills>>

ForkStops(p) ==
    /\ task[p].state = "fork" /\ ~task[p].killed
    /\ task' = [task EXCEPT ![p].state = "stop", ![p].msg = "FORK"]
    /\ TaskOnly /\ UNCHANGED <<unborn, traps, kills>>

InitialStop(p) ==
    /\ task[p].state = "new" /\ ~task[p].killed
    /\ task' = [task EXCEPT ![p].state = "stop", ![p].msg = "STOP"]
    /\ TaskOnly /\ UNCHANGED <<unborn, traps, kills>>

\* PTRACE_INTERRUPT takes effect, or SIGCONT is noticed.
TrapStops(p) ==
    /\ Runs(p)
    /\ task[p].trap \/ traps < MaxTraps
    /\ task' = [task EXCEPT ![p].state = "stop", ![p].msg = "STOP", ![p].trap = FALSE]
    /\ traps' = IF task[p].trap THEN traps ELSE traps + 1
    /\ TaskOnly /\ UNCHANGED <<unborn, kills>>

\* Between the birth of a child and the report of it.
Forking(p) == task[p].child # 0

Exit(p) ==
    /\ task[p].state = "run"
    /\ task' = [task EXCEPT ![p].state = "dead", ![p].msg = "none"]
    /\ TaskOnly /\ UNCHANGED <<unborn, traps, kills>>

Killed(p) ==
    /\ Alive(task, p)
    /\ task[p].killed \/ kills < MaxKills
    /\ task' = [task EXCEPT ![p].state = "dead", ![p].msg = "none", ![p].child = 0]
    /\ kills' = IF task[p].killed THEN kills ELSE kills + 1
    /\ unborn' = IF Forking(p) THEN unborn \cup {task[p].child} ELSE unborn
    /\ TaskOnly /\ UNCHANGED traps

Next ==
    \/ HandleSIGCHLD
    \/ \E d \in DOMAIN dev : prof_dev_close(d)
    \/ prof_dev_list_close
    \/ \E p \in Pids : \/ Fork(p) \/ ForkStops(p) \/ InitialStop(p) \/ TrapStops(p)
                       \/ Exit(p) \/ Killed(p)

Spec == Init /\ [][Next]_vars

\* The kernel stops and kills what it was told to, and the main loop handles
\* SIGCHLD as long as there is something to report.
KernelStep(p) ==
    \/ ForkStops(p) \/ InitialStop(p)
    \/ task[p].trap /\ TrapStops(p)
    \/ task[p].killed /\ Killed(p)

FairSpec == Spec /\ WF_vars(HandleSIGCHLD) /\ \A p \in Pids : WF_vars(KernelStep(p))
-------------------------------------------------------------------------------
\* In whatever order stops and exits are reported, "BUG:" is never printed (a
\* parent node is there when its fork is reported, parent and child agree on
\* `detach', the workload is never detached), a pid_node is used only while it
\* is in pid_list, and no node or device is linked to one that was freed.
NodesSafe ==
    /\ ~bug /\ ~freed
    /\ \A p \in DOMAIN node : /\ node[p].dev_list \subseteq DOMAIN dev
                              /\ node[p].initial_child_list \subseteq DOMAIN node
    /\ \A d \in DOMAIN dev : dev[d] = <<>> \/ dev[d] \in DOMAIN dev

\* A child that was killed, and whose end was reported, before the fork of its
\* parent was: __fork() makes a node for it that nobody will put.
Leaked(p) == p \in DOMAIN node /\ task[p].state = "gone" /\ node[p].initial = 1

\* "When in the STOP state, clone a new prof_dev for the tracee.  Then, notify
\* it to CONTINUE": a child never runs traced without devices, unless it is
\* about to be let go.
RunsWithDevices ==
    \A p \in Pids : task[p].state \in {"run", "fork"} /\ ~task[p].killed =>
        p \in DOMAIN node /\ (node[p].dev_list # {} \/ node[p].detach)

\* Stopped, with nothing to report that would make the program continue it.
LeftStopped ==
    {c \in Pids : /\ task[c].state = "stop" /\ task[c].msg = "none" /\ ~task[c].killed
                  /\ ~ \E p \in Pids : task[p].child = c /\ Forking(p) /\ ~task[p].killed}

\* A stop that was handled leaves a process stopped only while the other half
\* of its birth, the FORK of its parent, is still to come; but for a parent
\* that was killed in between.
StoppedForFork == LeftStopped \subseteq unborn \cup {task[p].child : p \in {q \in Pids : task[q].killed}}

\* A process that no device uses is not traced for ever: after SIGINT the wait
\* of prof_dev_list_close() ends, unless a parent or a child was killed between
\* fork and its report.
DetachDone == closing ~> (DOMAIN node = {} \/ unborn # {} \/ \E p \in Pids : Leaked(p))
===============================================================================
