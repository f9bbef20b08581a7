------------------------------- MODULE MCLoop -------------------------------
(***************************************************************************)
(* Two clients of the main loop that do not interact: the event loop with  *)
(* its timers, for two values of maxevents, and the processes that         *)
(* handle_SIGCHLD() follows.  A behaviour is one of one of them.           *)
(***************************************************************************)
EXTENDS EventPoll

CONSTANTS Opened, Initial, Pids, Workloads, MaxTraps, MaxKills

VARIABLES part, node, dev, bug, freed, task, closing, unborn, traps, kills

(* More descriptors are ready than one epoll_wait() returns. *)
One == INSTANCE EventPoll WITH maxevents <- 1

PT == INSTANCE Ptrace

ptVars == <<node, dev, bug, freed, task, closing, unborn, traps, kills>>

LoopInit ==
  /\ part \in {"event_poll", "event_poll of one", "ptrace"}
  /\ Init
  /\ PT!Init /\ (part # "ptrace" => \A p \in DOMAIN node : node[p].workload)

EventPollStep == part = "event_poll" /\ Next /\ UNCHANGED <<part, ptVars>>
OneStep == part = "event_poll of one" /\ One!Next /\ UNCHANGED <<part, ptVars>>
PtraceStep == part = "ptrace" /\ PT!Next /\ UNCHANGED <<part, vars>>

LoopNext == EventPollStep \/ OneStep \/ PtraceStep

(* The fairness of each part. *)
LoopSpec ==
  /\ LoopInit
  /\ [][LoopNext]_<<part, vars, ptVars>>
  /\ WF_vars(part = "event_poll" /\ Loop)
  /\ WF_vars(part = "event_poll of one" /\ One!Loop)
  /\ WF_ptVars(part = "ptrace" /\ PT!HandleSIGCHLD)
  /\ \A p \in Pids : WF_ptVars(part = "ptrace" /\ PT!KernelStep(p))

(* The properties of Ptrace. *)
NodesSafe       == part = "ptrace" => PT!NodesSafe
RunsWithDevices == part = "ptrace" => PT!RunsWithDevices
StoppedForFork  == part = "ptrace" => PT!StoppedForFork
DetachDone      == PT!DetachDone
=============================================================================
