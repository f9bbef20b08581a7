# perf-prof: specifications and proofs

perf-prof samples a Linux system through `perf_event_open(2)`. The kernel writes
records into one ring buffer per CPU or thread (an *instance*), the main loop of
`monitor.c` reads them, `order.c` sorts them by time, and a *profiler*
(`multi-trace`, `task-state`, `kmemleak`, ...) turns them into a report. Several
devices (`struct prof_dev`) can be open at once, forward their events to each
other, follow the children of the profiled processes with `ptrace(2)`, and exchange
events with other perf-prof processes.

This directory holds TLA+ modules that model parts of that program, the TLC
configurations that check them on small instances, and proofs checked by TLAPS.
`PROJECT.json` maps every definition to the lines it models, and lists the runs,
the mutants each property catches, the hazards and the findings.

## The system

| part | state | operations | hard behaviour |
|---|---|---|---|
| event ordering, `order.c`, `lib/perf/mmap.c` | ring-buffer positions, the heap, `heap_popped_time`, loss prediction per ring buffer | `order_process()` called from `order_mmap()`, `order_stream()`, `order_to()` | the kernel writes, loses and delays events between any two reads of its head pointer |
| device lifecycle, `monitor.c` | device states, reference counts, parent/child/forward links, timers | open, clone, enable, disable, flush, close, get/put, the fd handlers | closing from inside a callback, lists changed while they are walked |
| event loop, `lib/epoll.c`, `timer.c` | registered fds, the array of ready events | add, del, poll, timer start/cancel | a handler deletes an entry that is still to be dispatched |
| binary heap, `include/linux/min_heap.h` | an array | push, pop, sift | index arithmetic |
| multi-trace, `multi-trace.c` | timeline, backup tree, pending and needed lists, losses | sample, lost, reclaim, final flush | a loss known before the events that precede it are processed |
| process tracing, `ptrace.c` | `pid_node`s, their devices and expected stops | attach, fork, exit, detach, the SIGCHLD handler | the two stops of a fork in either order, exits in between |
| event spread, `event-spread.c`, `net.c` | connections, send buffers, reassembly buffers | broadcast, receive, read, the perf-clock service | partial reads and writes, back-pressure, either side ending |
| task-state, kmemleak, blktrace | per-thread, per-allocation, per-request tables, lists of losses | one sample and one lost handler each | lost events, identifiers that are used again |
| two-event classes, `two-event.c`, with `latency_helpers.c` and `stack_helpers.c` | latency nodes, byte counts per call stack, the tree of functions | two, remaining, report | a report that is suppressed, hidden events, calls that contradict the tree |
| oncpu, `oncpu.c` | runtime per CPU and thread, the last switch of a CPU | sample, lost, interval | a lost switch |
| hrcount and stat, `hrcount.c`, `count_helpers.c` | a circular histogram per instance, positions, rounds | sample, read, interval, reset | instances that run ahead, skipped periods |
| expressions, `expr.c` | tokens, emitted code, the machine's registers, stack and data | compile, one instruction | precedence, code rewritten in place, short circuits |
| comm service, `comm.c` | pid to name, exited threads | scan, update, gc, get, flush | unordered ring buffers, pid reuse |
| clock conversion, tracepoints, symbols, the other profilers | | | not modelled, see the end |

## Modules

| module | models | state and actions |
|---|---|---|
| `Order`, `MCOrder` | `order.c`, the reader of `lib/perf/mmap.c` in non-overwrite mode, the entry points in `monitor.c` and `event-spread.c` | see below |
| `OrderTypes`, `OrderSpace`, `OrderProofs`, `OrderDelivery`, `OrderCausality`, `OrderLosses` | - | the proofs about `Order`, each resting on the one before: types; control and space; order; delivery and flush; causality; losses |
| `MinHeap`, `HeapQueue` | `include/linux/min_heap.h` | the array and its operations; the queue it implements |
| `EventPoll` | `lib/epoll.c`, `timer.c` | the tree of registered descriptors, the kernel's list of ready ones, the array of returned events, the timers |
| `EventPollProofs` | - | the proofs about `EventPoll` |
| `ProfDev`, `MCProfDev` | the device lifecycle and main loop of `monitor.c`, the links of `ptrace.c` to devices | the devices and the C call stack |
| `MultiTrace`, `MCMultiTrace` | `multi-trace.c` | the members of `struct multi_trace_ctx`, one action per step of `multi_trace_sample()` |
| `Ptrace` | `ptrace.c` | `pid_list`, the devices, the processes in the kernel |
| `Net`, `EventSpread`, `MCEventSpread` | `net.c`; `event-spread.c` | the send buffer of a connection; the pushing and the pulling process |
| `LostRanges` | the `lost_list` that task-state, kmemleak and blktrace all keep | operators: insertion, and what an event makes of the list |
| `TaskState`, `Kmemleak`, `Blktrace` | the profilers of these names | their tables; the scheduler, the allocator and the block layer as environment |
| `CallTree` | the call class of `two-event.c` | `call_link()`, `call_print_header()` |
| `TwoEvent` | the other classes of `two-event.c`, the nodes of `latency_helpers.c`, the pairs of `stack_helpers.c` | one action per class and kind of report |
| `OnCpu` | `oncpu.c` | the table of runtimes; the schedulers of the CPUs as environment |
| `HrCount` | `hrcount.c`, `count_helpers.c` | positions, columns and rounds; the periods of the instances as environment |
| `Expr`, `ExprTree` | `expr.c` | `next()` and `expr()` as operators, one action per kind of instruction; the syntax trees |
| `Comm` | `comm.c` | the two trees, the unread events |
| `MCLoop` | - | `EventPoll`, for two values of `maxevents`, and `Ptrace`, for TLC: a behaviour is one of one part |
| `MCParts` | - | `MinHeap` and the profilers, for TLC: a behaviour is one of one part |

How they fit together: `EventPoll` calls the handlers that `ProfDev` models;
`ProfDev` calls the profilers and is told by `Ptrace` about new threads; `Order`
gives the profilers sorted events and announces losses in advance, which is what
`MultiTrace`, `TaskState`, `Kmemleak` and `Blktrace` assume of their input
(`NeverUnordered` and `LossSensedInTime` of `Order`); `MinHeap` implements the set
that `Order` uses as its heap; `EventSpread` gives `Order` its streams, and relies on
the time `order_to()` reached; `Comm` drops names up to the time `MultiTrace` states
with `MinEvTimeSafe`, and tells `TaskState` about freed threads.

### Order

The kernel side (`clock`, `rb`, `klost`, `inflight`) is external and follows
`__perf_output_begin()`: a record that does not fit is lost, and the next one that
fits is preceded by a `PERF_RECORD_LOST` record. `KernelSampleBegin` and
`KernelSampleEnd` separate taking a timestamp from writing the record, as an
interrupt does. `StreamArrive` is the sorted input of another instance.

A call of `order_process()` is a session: `pc` is `entry` between
`perf_mmap__read_init()` and `perf_mmap__empty()` of its first lines, `init` in `order_heap_init()`,
`sort` at the top of the loop, `consume` and `read` at the labels of those names,
`unwind` at `stream_stop`, `idle` outside. Each action is the code between two
points where the code reads the kernel's head pointer or releases space, so the
kernel may move wherever it can in the program. `OrderMmap`, `OrderStream`,
`OrderTo` and `FlushMap` are the callers, with the limits (`target_map`,
`target_end`, `target_time`) each of them passes. The two reads of the head pointer
at the entry are two steps: `Enter` takes the end, `BeginMmap` or `EmptyMmap` decides
whether there is data. When a ring buffer is empty at the first and has a sample at the
second, the call goes on with a `target_end` that it passes with the first record: it
has no limit left (`Limited` is false). `overrun` is the latest time such a call has
processed. `LossSensedInTime`, `LossCovered` and `CausalOrder` hold up to that time and,
when no call has lost its limit, without an exception; `order_overrun` shows what the
missing limit costs.

The heap is the set of queued elements, of which any with the least time may be
the root. Records take one unit of space. `delivered` and `reports` record what the
profiler is given, and `fixed_events` and `unordered_events` are whether the
counters of that name are not zero.

### EventPoll

`timer`, `ticks`, `armed`, `kernel` and `rdlist` are the timers and the kernel's side.
`rdlist` is the list of ready descriptors of epoll(7): an expiration appends its
descriptor, `epoll_wait()` takes up to `maxevents` from the front and a descriptor it has
returned goes to the end, where it is looked at again, since the events are level-triggered.
`data[a]` is the `event_poll_data` at address `a`, so that an address which is
freed and allocated again is the same key. `events`, `i` and `ep_i` are the array
being dispatched, the loop index and `ep->i`. `timer_expire` is one call of
`data->handle()`; while `call` is set the timer's function runs and may do any of
`timer_init`, `timer_start`, `timer_cancel` and `timer_destroy` to any timer,
itself included. `fault` records a use of freed memory.

### ProfDev

perf-prof has one thread, so what is hard is re-entrance: an event that is
processed deep inside a flush may close the device being flushed, its parent, or
the target it forwards to. `stack` is the sequence of C calls still to be made;
a step replaces the first by the calls of its body. Lists are walked by a cursor
that holds a reference (`for_each_dev_get`, `list_next_entry`), as in the code. The
first use of freed memory sets `fault` and ends the behaviour. Samples, timers,
markers, hangups, signals and exits of traced threads are the events of the main
loop; the profilers are abstracted to whether they keep events (`Caching`). `main` is
where `main()` is: in its loop, closing all devices, waiting for the traced threads that
are still to be let go (`LetGo`, `TraceeDetached`), or at its end. `workload` is the
process perf-prof itself has started; its exit closes the device.

### MultiTrace

Events are numbered in the order in which they happen (`hist`); a lost one is in
`hist` but is never given to the profiler. `node` is the timeline, `backup` the tree
of events that wait for their second one, `needed` the lists the timeline is freed
by, `pending_list` the events that wait for `--detail=+M`. The options are a
variable fixed at the start; six command lines are checked that differ in what they
make the code do. Expressions, keys and roles of an event are attributes of it. The
two-event object is abstracted to the calls it gets (`pairs`), with the part of the
timeline it would walk.

### Ptrace

`task` is the kernel's side: processes run, fork, stop, exit and are killed, and
`waitpid()` reports stops and exits in any order. `HandleSIGCHLD` is one report with
everything the handler does for it. Pids are not used twice, and a process that was
detached is not attached again. A device is what it was cloned from and for.

### Net and EventSpread

Data is counted in units of a `perf_event_header`; a connection is a sequence of
units, so a read or a write may end inside of a record. `Net` is the send buffer
(`tcp_send()`, `handle_EPOLLOUT()` and their counterparts for a character device),
`EventSpread` the blocks that use it: the pushing process broadcasts its records,
the pulling one puts them together again, gives them to its device or, with
`--order`, keeps them for `order_stream()`, and asks for the time up to which the
other side has sent everything. `order_process()` of the pushing process takes some of
the events in `ring` and ends for one of its reasons (`Ends`); `break_reason` and
`lost_pause` are kept from call to call as in `order.c`, with the exit that leaves
`break_reason` as it was (`StopsAgain`). The ticks after such an exit are in `unset`: the
code may announce their times too early, which is the finding of `order_time_stale`, and
`OrderTimeSafe` is about all others. A write to a virtio port takes all or nothing, the
host reopens a port only after the guest has handled the hangup, and the pulling
side outlives the pushing one. The overlapping `memcpy()` of the reassembly is taken
to do what `memmove()` does.

With `--order` the end of a connection inside `tcp_recv()` frees the block that
`block_read_event()` goes on using (`net.c:493`: "No need tcp_ref(): no cb to call
tcp_close()."); `fault` is set there and the behaviour ends. Two more things the
model shows and the properties allow for: a smaller record may overtake the report of a
loss that waits for room, and a LOST record queued while the connection is closed is not sent.

### TaskState, Kmemleak, Blktrace

Each is the profiler's `sample` and `lost` handlers over its tables, fed with events
in time order by a model of what it observes (threads that sleep, wake, run and
exit; allocations and frees; requests queued, merged, issued, requeued and
completed), of which any run of consecutive ones per ring buffer may be lost and
announced. The history of the environment is kept, and the properties compare
what is reported with it. They share `LostRanges`, the list of losses the handlers keep.

- `TaskState`: the interval of a thread in one state is reported from an event that
  really started it. A switch-in without a wake-up is accepted only without `-S`
  and `-D`, as the code's comment says. `--than`'s copies, clones, forwarding,
  and `-p` together with `--filter` are left out; a rename only leaves the
  filter, and a thread is freed when it exits.
- `Kmemleak`: what is reported is allocated and not freed. Without `--order` a free
  that arrives late may take an older allocation of the same pointer, so exactness
  is stated for sorted events; the program exits only after the end of a loss was
  seen. Sizes and call chains are left out.
- `Blktrace`: nodes are ranges of sectors. Requests in flight do not overlap, a
  merge adds free sectors; merges of two requests are left out. A flush request
  (sector -1) meets the list of losses and is not tracked. A latency is counted also when a stage in between was skipped, as in the code.

### CallTree and Comm

`CallTree` is `call_link()`: who is whose caller is a function `parents`, and a
call that contradicts the tree makes the code print and restart it. The recursion
mark is overwritten by every call, so it is only about the last one.

`Comm` is the service that keeps the name of a thread until no event that may still
be printed is older than its exit. Ring buffers are unordered, so an update can be
older than what is known. A pid is not used again while its `sched_process_free` is
unread: without that, the free of an earlier thread puts the node of the living
one on the list of exited threads.

### TwoEvent

A call of `two()` or `remaining()` is a record with what the code reads of it: the
delay (for kmemprof the size), the key, the pair of events, the reason there is no
second event, and for `--detail` the events around the pair, each with whether
`event_need_to_print()` holds. Twelve combinations of class and options are checked. `first_n` is 10 in the program
and 1 in the instances; 0, for which `keyvalue_pairs_sorted_firstn()` would return all, is never passed. `walk` is what
`delay_two()` prints around a long delay. Times are small numbers; of equally heavy
stacks `qsort()` is taken to leave the order of the keys. Without a timeline there is no walk.

### OnCpu

Attached to CPUs a run is the time between two switches of a CPU, attached to threads
what `sched_stat_runtime` accounts. The CPUs share a thread, and a delivered switch
after a loss is preceded by the lost record. With `--only-comm` every node has thread 0, so of two
names with the same runtime on a CPU the sorted list takes one and the other
is neither printed nor freed (`oncpu.c:491`); `TimesExact` leaves that tie out. Losses with `--order` are
left out: the code says that it guarantees nothing for them.

### HrCount

The handlers are operators on a record of the state, because a sample may end in the
report of a round. `taken` remembers what was counted in which period, and `reads` how
many periods and reads there were since the last reset, from which the place of a count follows
without the positions the code keeps. A period of `stat` is a whole round (`PeriodLen`). Two rounds are
kept; an instance more than one round ahead adds to the columns of the round that is
not printed yet (`lapped`), which `RoundsExact` leaves out of the comparison of columns but not of
the sum of counts. The total printed next to the columns includes what was already
counted for the next round, so nothing is stated about it.

### Expr

The text of an expression is a sequence of characters, of which a number, an
identifier or the name of a type is one; `next()` cuts it into tokens and `expr()`
emits the words of the program, with the numbers the opcodes have in the code, because the
compiler recognizes an lvalue by the value of the last word but one. `expr_run()` is one
action per kind of instruction. The texts are printed from syntax trees, with
parentheses only where the precedences in the help text (`expr.c:826`) ask for them,
and `Meaning` evaluates the trees. A byte has two bits, so a long has 16 and fits TLC's integers;
sign extension, truncation by a store and wrap-around happen at these widths.
`Meaning` follows the code where it differs from C: operations are on longs and a cast
to an integer type does not truncate, the value of `&&` and `||` is that of the operand evaluated
last, an assignment has the value before it is narrowed. A division by zero, and of the smallest long by -1, traps. Also different and not in the
trees: `1 + p` is not scaled, a comma is an operator only at the top level, an immediate 8 before the
end of the code is taken for a load, and the sizes of the code (1024 words) and of the stack
(512) are not checked.

## Runs

| run | instance | shows |
|---|---|---|
| `order_loss` | two ring buffers of 5, watermark 3, 8 samples | the prediction of losses (`LossSensedInTime`) and their attribution (`LossCovered`). Eight samples fill one ring buffer, lose one, resume and leave samples for the other; with a ring of 4 the LOST record would be consumed between two examinations and the case would not arise |
| `order_delay` | two ring buffers of 4, three samples of which one is output late, one other record, disable; `FairSpec` | order of events, space, exactly-once delivery, final flush; everything is processed in the end, or a ring buffer waits for the end of a loss |
| `order_causal` | two ring buffers, one stream of 3 events, one tick, no delays | without delays no time has to be corrected: the limits of each call are right, up to what a call without one has overtaken |
| `order_overrun` | two ring buffers of 4, four samples, no delays | a counterexample, see the findings: a call without a limit overtakes a ring buffer it has seen empty |
| `order_time_stale` | two ring buffers of 4, two ticks | a counterexample, see the findings: the second tick announces a time although an earlier event waits |
| `main_loop` | `EventPoll`: two timers, descriptors and addresses, all used again, two events or one per poll; `Ptrace`: two devices on one process, three pids, a SIGCONT, a kill, workload or not; fairness of each | no stale entry is dispatched, whatever a handler does, and no expiration is forgotten even when more descriptors are ready than one poll returns; two events are enough for one to be running while the other is deleted and its address and descriptor are used again. Reference counts of the nodes, no child without its devices, everything is detached in the end. Three pids are a child and a grandchild, so a birth in progress can overlap with another |
| `prof_dev_tree` | a caching device with a child of its own and a forwarding source, and a clone of each of the two, markers from stdin, an attached thread | the lists and references that link devices agree and free what nothing refers to, nothing freed is used, the program ends |
| `prof_dev_clones` | a traced device with clones of clones, `-N`, `--sampling-limit`, an attached thread or a workload | closing from any callback is safe and leaves nothing running |
| `prof_dev_forward_closed` | `-N` together with a forwarding source, a workload | a counterexample, see the findings: a source forwards to a freed target |
| `multi_trace` | two ring buffers, five events, one loss, or two for the first two of six command lines: `--detail=-2,+1` with a key; `--detail=+1` with the instance as key; `syscalls` without `--order`, with `sched_process_free`; three levels of events; `--cycle` with roles; one ring buffer without `--order`, with late events | only pairs that happened are reported, none that no loss touches is missed, the timeline holds what `--detail` prints. Five events are two pairs and one to separate them, or three levels with one event on either side |
| `event_spread` | records of several sizes over a socket of 2 and a buffer of 8, one or two clients, tcp or virtio, one tick or, with all ends of `order_process()`, two; `FairSpec` | records stay whole and in order, losses are counted, the announced time is safe, the buffer empties |
| `parts` | `TaskState`: two threads, two ring buffers, 4 time units, one loss, three option sets; `Kmemleak`: two pointers, 5 time units, two losses; `Blktrace`: three sectors, two requests, 6 time units, one loss, flushes; `CallTree`: three functions; `Comm`: two threads, names and ring buffers, three events; `TwoEvent`: up to four calls and a report after any of them, or one call with every choice of up to four events around it; `OnCpu`: two CPUs, three threads with two names, 4 time units; `HrCount`: two instances, rounds of two periods, five periods; `Expr`: all pairs of binary operators in both nestings and some 300 other trees, among them quotients of the smallest long, on three memories; `MinHeap`: six elements, two keys, `elem_size` 12 | the profilers report what happened, the tree shows every call, names are kept, expressions compute what they say, and the heap implements `HeapQueue`. Five periods complete two rounds, so a column is used again. Identifiers are used twice before the bounds are met, with a loss in between; six elements make a heap of three levels whose last parent has one child, and with two keys there are ties |

The parts of the `parts` run share no variables: the first state chooses one, and
only that one moves.

What the runs exclude. `LossCovered` fails if non-sample records take space in the
ring buffers (`MaxOther = 1`): the prediction counts them as samples. The two
passing runs of `ProfDev` differ in options because of the finding about `-N`: `prof_dev_tree` has a
forwarding source and no `-N`, `prof_dev_clones` the reverse and no markers from
stdin. With both, a marker closes in the interval of `-N` the device on which the loop
of `print_marker_and_interval()` stands (`monitor.c:2838`): `list_del_init()` has made it its own
successor, `prof_dev_put()` frees it, and the loop reads it again; `ProfDev` has this as
the fault `each`. `Killable` is false in all: when the clone for a thread that was just killed cannot be
opened, `__ptrace_link()` walks the list of a null device (`ptrace.c:56`).
`OnlyTruePairs` leaves out an event at the very `start_time` of a loss, which the code
treats as before it. `StoppedForFork` leaves out a child whose parent was killed
between the fork and its report: nobody continues it.

Disagreements between comments and code met while modelling, for which no run is
kept: with a watermark of one event the loss prediction at `order.c:803` misses a
loss; with `-N` a target is freed before the source whose sample closed it, and the
source then unlinks itself from the freed list head (`monitor.c:2591`);
closing a traced device closes its clones (`ptrace.c:302`), which `monitor.c:2254`
calls independent; `sched_process_free` reclaims at once (`multi-trace.c:2022`)
while events of the freed thread may wait for `--detail=+M`; kmemleak's report in
advance leaves the counts of allocations as they are.

*Deadlock* is checked in the runs of `ProfDev` and `MultiTrace`. The models of
`Order`, `Ptrace`, `EventSpread` and the parts stop when the bounds on
what the environment does are met and everything is processed, as the program does
when nothing happens.

*Fairness.* `Order`: `WF(Step)`, because `order_process()` is sequential code and
runs to its end; `SF(OrderMmap(m))` and `WF(FlushMap(m))`, because the interval
timer visits every ring buffer, whether or not the kernel wakes the poller and whatever
else calls `order_process()` in between; `WF(BeginMmap(m) \/ EmptyMmap(m))`, sequential code; `WF(KernelSampleEnd(m))`, because interrupts return. Nothing is assumed of
the senders. `ProfDev`: `WF(Step \/ MainEnds)`, sequential code again; nothing is
assumed of the kernel or of the user. `EventPoll`: `WF(Loop)`, because `main()` polls
again and again and handlers return; that a ready descriptor is returned in the end
follows from the order of `rdlist`.
`Ptrace`: `WF(HandleSIGCHLD)`, because the main loop handles the signal descriptor
while it is readable, and weak fairness of the kernel's own steps for each process;
nothing makes a process fork or exit. `EventSpread`: `WF(HandleEpollOut)` and
`WF(Read)` of one client, a descriptor that stays ready is dispatched; the clients
are alike, so liveness for one is liveness for each.

## Proofs

The six modules about `Order` prove, for every set of ring buffers and streams, every
ring-buffer size and watermark and every behaviour of the kernel:

| theorem | states | beyond `OrderAssumption` it assumes |
|---|---|---|
| `TypeCorrect` | `Spec => []TypeOK` | |
| `SpaceIsSafe` | `Spec => []SpaceSafe` | |
| `Ordered` | `Spec => []NeverUnordered` | |
| `LostIsOrdered` | `Spec => []LostInOrder` | |
| `DeliveredOnce` | `Spec => []ExactlyOnce` | |
| `FlushedAll` | `Spec => []FinalFlush` | `Streams = {}` |
| `Causal` | `Spec => []CausalOrder` | `Prompt` |
| `LossSensed` | `Spec => []LossSensedInTime` | `Prompt`, `Roomy` |
| `LossIsCovered` | `Spec => []LossCovered` | `Prompt`, `Roomy` |

The assumptions are the conditions under which the code can promise the property, and
the runs satisfy them. `Streams = {}`: `order_stream()` of another connection may be
stopped at a time before the last records, so a flush may end early. `Prompt`
(`MaxNest = 0 /\ MaxOther = 0`): a sample is in its ring buffer when the next one is
taken, and there are only samples and LOST records; this is the premise of the comment
in `order.c` that "events that occurred before the latest on other ringbuffers must
have been written", and `order_delay` shows that times have to be fixed without it.
`Roomy` (`3 <= Watermark /\ Watermark + 2 <= RingSize`): a LOST record, the sample
behind it and one more fit below the wakeup watermark and two records above it. The
profilers ask for a watermark of a half or a third of the ring buffer; with
`wakeup_events = 1` it is the size of one event, and the prediction may come too late.

*Types, space, order.* The first inductive invariant is
`TypeOK /\ Control /\ SpaceSafe /\ SortInv`. `Control` says which elements are in the
heap at each `pc`: a map in the heap has a record that has been read but not
processed, so that going back is possible, and all streams are in the heap while the
loop runs. `SortInv` says why the root is never behind `heap_popped_time`: a queued map
is either not behind it, or was the last map processed, in which case its event is
raised to `event_mono_time`, which equals `heap_popped_time` (`QueuedLater`,
`PoppedLast`); a stream is sorted and never behind it (`StreamLater`). `SpaceSafe`
needs that an element of the heap that is not being processed is still in the ring
buffer, that is `Control` again, and that `CIRC_SPACE` is the free space (`CircSpace`).

*Delivery.* `Moves` is the lemma the rest is built on: a step leaves a ring buffer
alone, queues its next sample, passes a record without a time, processes the queued
sample, or puts it back; the record processed is always the one behind the last.
`ExactlyOnce` is inductive with `HeapSample` (what is queued is a sample). `FinalFlush`
needs `FlushInv`: a ring buffer that is flushed and no longer to be read has been read
up to its end or waits for the end of a loss. It rests on `EndBound`: the end that
`perf_mmap__read_init()` saw lies between what is read and the kernel's head.

*Causality.* `CausalInv` says: samples of a ring buffer have increasing times not after
the clock (`RingTimes`, `NoDelay`); what limits a call, `target_time`, the end
`target_end` of its ring buffer or the end of a stream's batch, is a time not after
the clock when the call began (`LimitsPast`, `HasLimit`); the ring buffers
are added to the heap after the streams and all of them before anything is popped (`Joining`); a ring buffer that was seen empty gets later samples
only (`SeenEmpty`); so when an event is popped nothing earlier is left
(`NothingEarlier`), and an event is queued at its own time (`HeapTime`). Both make an
exception up to `overrun`, which is where a call without a limit may have come to; a time is
fixed only after such a call (`FixedOverrun`).

*Losses.* `LossInv` adds: the times of lost events lie between the samples around the
LOST record (`LostTimes`); a full ring buffer has been noticed by
`perf_mmap_event_maybe_lost()`, or there are still enough records to be processed
before it has to be noticed (`Predicted`, with `Ahead` counting those that may be
passed before the next look, and `TailLag` bounding what is processed but not
released); so a ring buffer is never emptied while it is full (`NotEmptied`), which is
what makes its next LOST record visible to the sort before anything later is popped
(`SeenEmptyLost`, `Sensed`, again up to `overrun`). `Remembered` ties the loss being reported to its record.

All of these were checked by TLC as invariants first.

`EventPollProofs` proves, for any timers, descriptors, addresses and number of events
per poll, from `EventPollAssumption` and `max_exp_once = 1` (what every caller of
`timer_init()` passes; with more, a function that destroys its timer is followed by
a read of the freed structure):

- `NoStaleCall`: `Spec => []NoUseAfterFree`;
- `EntriesStayCurrent`: `Spec => []EntriesCurrent`;
- `TimersRegistered`: `Spec => []Registered`;
- `NoCallAfterCancel`: `Spec => NoLateCall`, an action property.

The inductive invariant `IInv` says that the tree, the kernel's set and the started
timers are the same thing (`TreeInv`), that live timers have distinct descriptors
(`TimerInv`), and that `ep->i` is behind the loop index (`CursorInv`), so that the
entries `event_poll__del()` clears include all that are still to be dispatched.

`LostInOrder`, `EntriesCurrent` and `Registered` are stated by the theorems only; the
other properties are also checked by a run.

Only model-checked: everything about `ProfDev`, `MinHeap`, `MultiTrace`, `Ptrace`,
`EventSpread` and the parts, and all liveness, which needs fairness. What a recursive
definition computes for every input needs induction over data, which is out of the
provers' reach (`OutputExact`, `RoundsExact`, `RunsAsWritten`, the heap's
`Implements`), and so is a module that declares a `RECURSIVE` operator (`Ptrace`,
`EventSpread`, `Kmemleak`, `CallTree`, `Expr`). `OrderTimeKept` is not a theorem: the code violates it.

## Not modelled

- Of the modelled parts: option parsing and the errors of opening a device that end
  the program; `prof_dev_atomic_enable()`; overwrite-mode ring buffers; pulling from
  a virtio port and file blocks; attaching again after a detach; the triggers and
  filters of multi-trace; the wording and layout of what is printed.
- The clock conversions of `convert.c` (products of 64 and 32 bit numbers shifted
  down: a property about them needs widths TLC cannot enumerate).
- `perfeval` and `percpu-stat`, which print differences of counters, and the sampling
  profilers that hand each sample to the printer. `kvm-exit` attached to CPUs may
  match an exit with an entry of another vCPU after a migration; this was read, not
  modelled.
- Heatmaps, quantiles and the CPU tracking of the two-event classes; string literals and
  the library calls `printf`, `ksymbol` and `strncmp` of expressions; the time hardware threads run together in
  `oncpu`; terminal layout in `hrcount`.
- Tracepoint parsing, ELF, DWARF and `/proc` parsing, the printing of stacks, the
  t-digest (floating point).
- The copies of the kernel's tools libraries under `lib/`, apart from the files named
  above.

## Plan

1. `kvm-exit`, `event-care`, `watchdog`: profilers with state across samples.
2. Proofs: the reference counts of `ProfDev` (close to inductive), the timeline of
   `MultiTrace`, the loss prediction of `Order` with records other than samples.
