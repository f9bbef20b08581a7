--------------------------------- MODULE Comm ---------------------------------
(***************************************************************************)
(* The comm service: the names of all threads, for the profilers to print. *)
(* It reads /proc once and then follows task_newtask, task_rename and      *)
(* sched_process_free.  Its ring buffers, one per CPU, are not ordered: an *)
(* update is used only if it is younger than what is known.  The name of   *)
(* an exited thread is kept in `exited' until no profiler can print an     *)
(* event older than the exit; comm_gc() then drops it.                     *)
(***************************************************************************)
EXTENDS Naturals, Sequences, FiniteSets, SequencesExt

CONSTANTS
  Pids, Names,
  Cpus,          \* ring buffers
  MaxEvents      \* bound: events of the kernel

VARIABLES
  pid_comm,      \* ctx->pid_comm: per pid with a node, [time, comm, flush]
  exited,        \* ctx->exited: the pids whose node is linked there
  scanned,       \* comm_enabled(): the pids read from /proc so far
  ring,          \* per CPU: events not read yet
  now,           \* time of the last event; 1 is the time of the scan
  comm,          \* per pid: the thread's name, NoName if there is none
  freedAt,       \* per pid: when its last thread was freed
  kept           \* the youngest minevtime a gc was done for

vars == <<pid_comm, exited, scanned, ring, now, comm, freedAt, kept>>
NoName == "none"

(* mutation: the update that arrives last wins *)
UpdateAnyway(s, e) ==
  [nodes  |-> [p \in DOMAIN s.nodes \cup {e.pid} |->
                 IF p = e.pid THEN [time |-> e.time, comm |-> e.comm, flush |-> FALSE]
                 ELSE s.nodes[p]],
   exited |-> IF e.exit THEN s.exited \cup {e.pid} ELSE s.exited \ {e.pid}]

(* comm_update(). *)
Update(s, e) ==
  LET old   == IF e.pid \in DOMAIN s.nodes THEN s.nodes[e.pid]
               ELSE [time |-> 0, comm |-> NoName, flush |-> FALSE]
      newer == old.time < e.time
      node  == IF newer THEN [time |-> e.time, comm |-> e.comm, flush |-> FALSE] ELSE old
  IN  [nodes  |-> [p \in DOMAIN s.nodes \cup {e.pid} |-> IF p = e.pid THEN node ELSE s.nodes[p]],
       exited |-> (IF newer THEN s.exited \ {e.pid} ELSE s.exited)
                    \cup (IF e.exit THEN {e.pid} ELSE {})]

Here == [nodes |-> pid_comm, exited |-> exited]
Becomes(s) == pid_comm' = s.nodes /\ exited' = s.exited
Event(t, p, n, x) == [time |-> t, pid |-> p, comm |-> n, exit |-> x]
-----------------------------------------------------------------------------
(* comm_enabled(): the name of one thread of /proc; the events are on. *)
Scan(p) ==
  /\ p \notin scanned
  /\ scanned' = scanned \cup {p}
  /\ IF comm[p] = NoName THEN UNCHANGED <<pid_comm, exited>>
     ELSE Becomes(Update(Here, Event(1, p, comm[p], FALSE)))
  /\ UNCHANGED <<ring, now, comm, freedAt, kept>>

(* The kernel writes an event; a pid is not used again while the free of   *)
(* its last thread is still unread.                                        *)
Write(c, p, n, x) ==
  /\ now <= MaxEvents
  /\ now' = now + 1
  /\ ring' = [ring EXCEPT ![c] = Append(@, Event(now + 1, p, n, x))]
  /\ UNCHANGED <<pid_comm, exited, scanned, kept>>
Unread(p) == \E c \in Cpus : \E i \in DOMAIN ring[c] : ring[c][i].pid = p

NewTask(c, p, n) == /\ comm[p] = NoName /\ (freedAt[p] # 0 => ~Unread(p))
                    /\ comm' = [comm EXCEPT ![p] = n]
                    /\ Write(c, p, n, FALSE) /\ UNCHANGED freedAt
TaskRename(c, p, n) == /\ comm[p] \notin {NoName, n}
                       /\ comm' = [comm EXCEPT ![p] = n]
                       /\ Write(c, p, n, FALSE) /\ UNCHANGED freedAt
ProcessFree(c, p) == /\ comm[p] # NoName
                     /\ comm' = [comm EXCEPT ![p] = NoName]
                     /\ freedAt' = [freedAt EXCEPT ![p] = now + 1]
                     /\ Write(c, p, comm[p], TRUE)

(* comm_sample() of the next event of a ring buffer. *)
Read(c) ==
  /\ scanned = Pids /\ ring[c] # << >>
  /\ ring' = [ring EXCEPT ![c] = Tail(@)]
  /\ Becomes(Update(Here, Head(ring[c])))
  /\ UNCHANGED <<scanned, now, comm, freedAt, kept>>

(* comm_interval(): comm_gc() of what exited before the oldest event a     *)
(* profiler may still print.                                               *)
Interval(time_before) ==
  LET gone == {p \in exited : pid_comm[p].time < time_before}
  IN  /\ scanned = Pids
      /\ time_before \in kept .. now + 1
      /\ kept' = time_before
      /\ exited' = exited \ gone
      /\ pid_comm' = [p \in DOMAIN pid_comm \ gone |-> pid_comm[p]]
      /\ UNCHANGED <<scanned, ring, now, comm, freedAt>>

(* global_comm_flush(): the name is to be read again. *)
Flush(p) ==
  /\ p \in DOMAIN pid_comm
  /\ pid_comm' = [pid_comm EXCEPT ![p].flush = TRUE]
  /\ UNCHANGED <<exited, scanned, ring, now, comm, freedAt, kept>>

(* global_comm_get(): an unknown or flushed name has all ring buffers read *)
(* first, one after the other.                                             *)
Get(p) ==
  /\ scanned = Pids
  /\ p \in DOMAIN pid_comm => pid_comm[p].flush
  /\ \E order \in SetToSeqs(Cpus) :
       Becomes(FoldLeft(Update, Here,
                        FoldLeft(LAMBDA acc, c : acc \o ring[c], << >>, order)))
  /\ ring' = [c \in Cpus |-> << >>]
  /\ UNCHANGED <<scanned, now, comm, freedAt, kept>>

Init ==
  /\ pid_comm = [p \in {} |-> NoName] /\ exited = {} /\ scanned = {}
  /\ ring = [c \in Cpus |-> << >>] /\ now = 1
  /\ comm = [p \in Pids |-> IF p = 1 THEN CHOOSE n \in Names : TRUE ELSE NoName]
  /\ freedAt = [p \in Pids |-> 0] /\ kept = 0

Next == \/ \E p \in Pids : Scan(p) \/ Flush(p) \/ Get(p)
        \/ \E c \in Cpus, p \in Pids, n \in Names : NewTask(c, p, n) \/ TaskRename(c, p, n)
        \/ \E c \in Cpus, p \in Pids : ProcessFree(c, p)
        \/ \E c \in Cpus : Read(c)
        \/ \E t \in 0 .. MaxEvents + 2 : Interval(t)
-----------------------------------------------------------------------------
(* Whatever order the ring buffers are read in, and however the scan of    *)
(* /proc overlaps with renames and exits: once everything is read, a       *)
(* living thread has its present name and is not about to be dropped, and  *)
(* a thread freed at or after the oldest event that may be printed still   *)
(* has one.                                                                *)
NamesKept ==
  (scanned = Pids /\ \A c \in Cpus : ring[c] = << >>) =>
     \A p \in Pids :
        /\ comm[p] # NoName => /\ p \in DOMAIN pid_comm /\ pid_comm[p].comm = comm[p]
                               /\ p \notin exited
        /\ (comm[p] = NoName /\ freedAt[p] # 0 /\ freedAt[p] >= kept) => p \in DOMAIN pid_comm
=============================================================================
