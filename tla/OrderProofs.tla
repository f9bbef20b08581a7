---------------------------- MODULE OrderProofs ----------------------------
(***************************************************************************)
(* Proofs about Order for any set of ring buffers and streams, any ring    *)
(* buffer size and watermark, and any behaviour of the kernel:             *)
(*   - TypeCorrect and SpaceIsSafe: no record is overwritten by the kernel *)
(*     before it is processed;                                             *)
(*   - Ordered: the profiler sees its events in time order;                *)
(*   - LostIsOrdered: the losses are reported in time order.               *)
(***************************************************************************)
EXTENDS OrderSpace
-----------------------------------------------------------------------------
\* A step that moves no time keeps the order, whatever it removes from the heap.
LEMMA SortKeep ==
  ASSUME SortInv,
         UNCHANGED <<htime, event_mono_time, sortVars, slog, spos, unconsumed>>,
         heap' \subseteq heap,
         \A m \in Maps : m \in heap' /\ m # cur' => m # cur,
         pc' \in {"init", "sort", "consume", "read"} =>
            heap' = {} \/ pc \in {"init", "sort", "consume", "read"},
         pc' \in {"consume", "read"} => pc \in {"consume", "read"} /\ cur' = cur
  PROVE  SortInv'
<1>1. QueuedLater'
  BY DEF SortInv, QueuedLater, sortVars
<1>2. StreamLater'
  BY DEF SortInv, StreamLater, LastOf, sortVars
<1>3. PoppedLast' /\ NeverUnordered'
  BY DEF SortInv, PoppedLast, NeverUnordered, sortVars
<1> QED
  BY <1>1, <1>2, <1>3 DEF SortInv

\* Every step keeps the sort ordered.
LEMMA SortStep ==
  ASSUME TypeOK, Control, SortInv, Next
  PROVE  SortInv'
<1>1. ASSUME NEW m \in Maps, KernelSample(m) PROVE SortInv'
  <2>1. /\ UNCHANGED <<htime, event_mono_time, sortVars, slog, spos, unconsumed>>
        /\ heap' \subseteq heap
        /\ \A k \in Maps : k \in heap' /\ k # cur' => k # cur
        /\ pc' \in {"init", "sort", "consume", "read"} =>
             heap' = {} \/ pc \in {"init", "sort", "consume", "read"}
        /\ pc' \in {"consume", "read"} => pc \in {"consume", "read"} /\ cur' = cur
    BY <1>1 DEF KernelSample, kernelVars, ringKernelVars, streamVars,
           userVars, ringVars, mmapVars, heapVars, sortVars, targetVars,
           callVars, callerVars, seenVars
  <2> QED
    BY <2>1, SortKeep
<1>2. ASSUME NEW m \in Maps, KernelSampleBegin(m) PROVE SortInv'
  <2>1. /\ UNCHANGED <<htime, event_mono_time, sortVars, slog, spos, unconsumed>>
        /\ heap' \subseteq heap
        /\ \A k \in Maps : k \in heap' /\ k # cur' => k # cur
        /\ pc' \in {"init", "sort", "consume", "read"} =>
             heap' = {} \/ pc \in {"init", "sort", "consume", "read"}
        /\ pc' \in {"consume", "read"} => pc \in {"consume", "read"} /\ cur' = cur
    BY <1>2 DEF KernelSampleBegin, kernelVars, ringKernelVars, streamVars,
           userVars, ringVars, mmapVars, heapVars, sortVars, targetVars,
           callVars, callerVars, seenVars
  <2> QED
    BY <2>1, SortKeep
<1>3. ASSUME NEW m \in Maps, KernelSampleEnd(m) PROVE SortInv'
  <2>1. /\ UNCHANGED <<htime, event_mono_time, sortVars, slog, spos, unconsumed>>
        /\ heap' \subseteq heap
        /\ \A k \in Maps : k \in heap' /\ k # cur' => k # cur
        /\ pc' \in {"init", "sort", "consume", "read"} =>
             heap' = {} \/ pc \in {"init", "sort", "consume", "read"}
        /\ pc' \in {"consume", "read"} => pc \in {"consume", "read"} /\ cur' = cur
    BY <1>3 DEF KernelSampleEnd, kernelVars, ringKernelVars, streamVars,
           userVars, ringVars, mmapVars, heapVars, sortVars, targetVars,
           callVars, callerVars, seenVars
  <2> QED
    BY <2>1, SortKeep
<1>4. ASSUME NEW m \in Maps, KernelOther(m) PROVE SortInv'
  <2>1. /\ UNCHANGED <<htime, event_mono_time, sortVars, slog, spos, unconsumed>>
        /\ heap' \subseteq heap
        /\ \A k \in Maps : k \in heap' /\ k # cur' => k # cur
        /\ pc' \in {"init", "sort", "consume", "read"} =>
             heap' = {} \/ pc \in {"init", "sort", "consume", "read"}
        /\ pc' \in {"consume", "read"} => pc \in {"consume", "read"} /\ cur' = cur
    BY <1>4 DEF KernelOther, kernelVars, ringKernelVars, streamVars,
           userVars, ringVars, mmapVars, heapVars, sortVars, targetVars,
           callVars, callerVars, seenVars
  <2> QED
    BY <2>1, SortKeep
<1>5. ASSUME KernelTick PROVE SortInv'
  <2>1. /\ UNCHANGED <<htime, event_mono_time, sortVars, slog, spos, unconsumed>>
        /\ heap' \subseteq heap
        /\ \A k \in Maps : k \in heap' /\ k # cur' => k # cur
        /\ pc' \in {"init", "sort", "consume", "read"} =>
             heap' = {} \/ pc \in {"init", "sort", "consume", "read"}
        /\ pc' \in {"consume", "read"} => pc \in {"consume", "read"} /\ cur' = cur
    BY <1>5 DEF KernelTick, kernelVars, ringKernelVars, streamVars,
           userVars, ringVars, mmapVars, heapVars, sortVars, targetVars,
           callVars, callerVars, seenVars
  <2> QED
    BY <2>1, SortKeep
<1>6. ASSUME NEW s \in Streams, NEW t \in 0 .. clock, StreamArrive(s, t) PROVE SortInv'
  <2> DEFINE n == Len(slog[s])
  <2>1. /\ UNCHANGED <<htime, heap, event_mono_time, sortVars, spos, unconsumed, pc, cur>>
        /\ slog' = [slog EXCEPT ![s] = Append(slog[s], t)]
        /\ LastOf(s) <= t /\ t \in Nat
    BY <1>6 DEF StreamArrive, userVars, mmapVars, heapVars, callVars, TypeOK, KernelTypeOK
  <2>2. slog[s] \in Seq(Nat) /\ n \in Nat /\ spos[s] \in Nat /\ spos[s] <= n
        /\ heap_popped_time \in Nat
    BY DEF TypeOK, StreamTypeOK, SortTypeOK, Control, BatchBound
  <2>3. /\ slog'[s] = Append(slog[s], t)
        /\ \A r \in Streams : r # s => slog'[r] = slog[r]
    BY <2>1 DEF TypeOK, StreamTypeOK
  <2>4. /\ Len(slog'[s]) = n + 1 /\ slog'[s][n + 1] = t
        /\ \A i \in 1 .. n : slog'[s][i] = slog[s][i]
    BY <2>1, <2>2, <2>3
  <2>5. \A i \in 1 .. n : slog[s][i] \in Nat /\ slog[s][i] <= t
    <3>1. ASSUME NEW i \in 1 .. n PROVE slog[s][i] \in Nat /\ slog[s][i] <= slog[s][n]
      BY <2>2, SMTT(60) DEF SortInv, StreamLater
    <3>2. ASSUME NEW i \in 1 .. n PROVE slog[s][n] = LastOf(s) /\ slog[s][n] \in Nat
      BY <2>2 DEF LastOf
    <3> QED
      BY <2>1, <3>1, <3>2
  <2>6. heap_popped_time <= t
    BY <2>1, <2>2 DEF SortInv, StreamLater, LastOf, TypeOK, StreamTypeOK
  <2> HIDE DEF n
  <2>7. ASSUME NEW r \in Streams
        PROVE  /\ \A i, j \in 1 .. Len(slog'[r]) : i <= j => slog'[r][i] <= slog'[r][j]
               /\ \A i \in 1 .. Len(slog'[r]) : i > spos[r] => slog'[r][i] >= heap_popped_time
    <3>1. CASE r # s
      BY <2>3, <3>1, Zenon DEF SortInv, StreamLater
    <3>2. CASE r = s
      <4>1. \A i, j \in 1 .. n : i <= j => slog[s][i] <= slog[s][j]
        BY DEF SortInv, StreamLater, n
      <4>2. \A i \in 1 .. n : i > spos[s] => slog[s][i] >= heap_popped_time
        BY DEF SortInv, StreamLater, n
      <4>3. ASSUME NEW i \in 1 .. n + 1, NEW j \in 1 .. n + 1, i <= j
            PROVE  slog'[s][i] <= slog'[s][j]
        BY <2>1, <2>2, <2>4, <2>5, <4>1, <4>3, SMTT(60)
      <4>4. ASSUME NEW i \in 1 .. n + 1, i > spos[s]
            PROVE  slog'[s][i] >= heap_popped_time
        BY <2>1, <2>2, <2>4, <2>6, <4>2, <4>4
      <4> QED
        BY <2>4, <3>2, <4>3, <4>4
    <3> QED
      BY <3>1, <3>2
  <2>8. ASSUME NEW r \in Streams PROVE LastOf(r)' >= heap_popped_time
    <3>1. CASE r # s
      BY <2>3, <3>1 DEF SortInv, StreamLater, LastOf
    <3>2. CASE r = s
      BY <2>2, <2>3, <2>4, <2>6, <3>2 DEF LastOf
    <3> QED
      BY <3>1, <3>2
  <2>9. StreamLater'
    BY <2>1, <2>7, <2>8 DEF StreamLater, sortVars
  <2>10. ASSUME NEW r \in Streams, spos[r] >= 1 PROVE slog'[r][spos[r]] = slog[r][spos[r]]
    BY <2>2, <2>3, <2>4, <2>10, SMTT(60)
  <2>11. QueuedLater'
    BY <2>1, <2>10, Zenon DEF SortInv, QueuedLater, sortVars
  <2> QED
    BY <2>1, <2>9, <2>11 DEF SortInv, PoppedLast, NeverUnordered, sortVars
<1>7. ASSUME NEW m \in Maps, OrderMmap(m) \/ FlushMap(m) \/ EmptyMmap(m) PROVE SortInv'
  <2>1. /\ UNCHANGED <<htime, event_mono_time, sortVars, slog, spos, unconsumed>>
        /\ heap' = {} /\ pc' \in {"idle", "entry"}
    BY <1>7, Zenon DEF OrderMmap, FlushMap, EmptyMmap, Enter, Control, Phases, mmapVars, heapVars, streamVars
  <2> QED
    BY <2>1, SortKeep
<1>8. ASSUME NEW m \in Maps, BeginMmap(m) PROVE SortInv'
  <2>1. /\ UNCHANGED <<htime, event_mono_time, sortVars, slog, spos, unconsumed>>
        /\ heap' = {} /\ pc' = "init"
    BY <1>8, Zenon DEF BeginMmap, Begin, mmapVars, streamVars
  <2> QED
    BY <2>1, SortKeep
<1>9. ASSUME OrderStream PROVE SortInv'
  <2>1. /\ UNCHANGED <<htime, event_mono_time, sortVars, slog, spos, unconsumed>>
        /\ heap' \subseteq heap
        /\ \A k \in Maps : k \in heap' /\ k # cur' => k # cur
        /\ pc' \in {"init", "sort", "consume", "read"} =>
             heap' = {} \/ pc \in {"init", "sort", "consume", "read"}
        /\ pc' \in {"consume", "read"} => pc \in {"consume", "read"} /\ cur' = cur
    BY <1>9 DEF OrderStream, Begin, kernelVars, ringKernelVars, streamVars,
           userVars, ringVars, mmapVars, heapVars, sortVars, targetVars,
           callVars, callerVars, seenVars
  <2> QED
    BY <2>1, SortKeep
<1>10. ASSUME OrderTo PROVE SortInv'
  <2>1. /\ UNCHANGED <<htime, event_mono_time, sortVars, slog, spos, unconsumed>>
        /\ heap' \subseteq heap
        /\ \A k \in Maps : k \in heap' /\ k # cur' => k # cur
        /\ pc' \in {"init", "sort", "consume", "read"} =>
             heap' = {} \/ pc \in {"init", "sort", "consume", "read"}
        /\ pc' \in {"consume", "read"} => pc \in {"consume", "read"} /\ cur' = cur
    BY <1>10 DEF OrderTo, Begin, kernelVars, ringKernelVars, streamVars,
           userVars, ringVars, mmapVars, heapVars, sortVars, targetVars,
           callVars, callerVars, seenVars
  <2> QED
    BY <2>1, SortKeep
<1>11. ASSUME StaleTick PROVE SortInv'
  <2>1. /\ UNCHANGED <<htime, event_mono_time, sortVars, slog, spos, unconsumed>>
        /\ heap' \subseteq heap
        /\ \A k \in Maps : k \in heap' /\ k # cur' => k # cur
        /\ pc' \in {"init", "sort", "consume", "read"} =>
             heap' = {} \/ pc \in {"init", "sort", "consume", "read"}
        /\ pc' \in {"consume", "read"} => pc \in {"consume", "read"} /\ cur' = cur
    BY <1>11 DEF StaleTick, kernelVars, ringKernelVars, streamVars,
           userVars, ringVars, mmapVars, heapVars, sortVars, targetVars,
           callVars, callerVars, seenVars
  <2> QED
    BY <2>1, SortKeep
<1>12. ASSUME Disable PROVE SortInv'
  <2>1. /\ UNCHANGED <<htime, event_mono_time, sortVars, slog, spos, unconsumed>>
        /\ heap' \subseteq heap
        /\ \A k \in Maps : k \in heap' /\ k # cur' => k # cur
        /\ pc' \in {"init", "sort", "consume", "read"} =>
             heap' = {} \/ pc \in {"init", "sort", "consume", "read"}
        /\ pc' \in {"consume", "read"} => pc \in {"consume", "read"} /\ cur' = cur
    BY <1>12 DEF Disable, kernelVars, ringKernelVars, streamVars, userVars,
           ringVars, mmapVars, heapVars, sortVars, targetVars, callVars,
           callerVars, seenVars
  <2> QED
    BY <2>1, SortKeep
<1>13. ASSUME NEW s \in Streams, InitStream(s) PROVE SortInv'
  <2>1. /\ UNCHANGED <<event_mono_time, sortVars, slog>>
        /\ heap' = heap \cup {s} /\ cur' = NoMap /\ pc = "init" /\ pc' \in {"init", "sort"}
        /\ cur \notin heap /\ s \notin Maps
    BY <1>13, OrderAssumption DEF InitStream, InitDone, mmapVars, Control, Phases, TypeOK, HeapTypeOK, Queues
  <2>2. PoppedLast' /\ NeverUnordered'
    BY <2>1 DEF SortInv, PoppedLast, NeverUnordered, sortVars
  <2>3. CASE /\ unconsumed[s] /\ UNCHANGED <<spos, htime>>
             /\ unconsumed' = [unconsumed EXCEPT ![s] = FALSE]
    <3>1. StreamLater'
      BY <2>1, <2>3 DEF SortInv, StreamLater, LastOf, sortVars
    <3>2. \A m \in Maps : m \in heap' => m \in heap /\ m # cur
      BY <2>1 
    <3>3. \A r \in Streams : r \in heap' \/ unconsumed'[r] => r \in heap \/ unconsumed[r]
      BY <2>1, <2>3 DEF TypeOK, StreamTypeOK
    <3>4. QueuedLater'
      BY <2>1, <2>3, <3>2, <3>3 DEF SortInv, QueuedLater, sortVars
    <3> QED
      BY <2>2, <3>1, <3>4 DEF SortInv
  <2>4. CASE ~unconsumed[s] /\ StreamNext(s, TRUE) /\ UNCHANGED unconsumed
    <3> DEFINE i == spos[s] + 1
    <3>1. /\ spos' = [spos EXCEPT ![s] = i] /\ htime' = [htime EXCEPT ![s] = slog[s][i]]
          /\ i \in 1 .. Len(slog[s])
      BY <2>4 DEF StreamNext, BatchEnd, Control, BatchBound, TypeOK, StreamTypeOK
    <3>2. slog[s][i] >= heap_popped_time
      BY <3>1 DEF SortInv, StreamLater, TypeOK, StreamTypeOK
    <3> HIDE DEF i
    <3>3. /\ spos'[s] = i /\ i > spos[s] /\ i >= 1 /\ htime'[s] = slog[s][i]
          /\ \A r \in Streams : r # s => spos'[r] = spos[r] /\ htime'[r] = htime[r]
          /\ \A m \in Maps : htime'[m] = htime[m]
      BY <2>1, <3>1 DEF TypeOK, StreamTypeOK, HeapTypeOK, Queues, i
    <3>4. \A r \in Streams : spos'[r] >= spos[r] /\ spos'[r] \in Nat /\ spos[r] \in Nat
      BY <3>1, <3>3, SMTT(60) DEF TypeOK, StreamTypeOK
    <3>5. StreamLater'
      BY <2>1, <3>4, SMTT(60) DEF SortInv, StreamLater, LastOf, sortVars
    <3>6. \A m \in Maps : m \in heap' => m \in heap /\ m # cur
      BY <2>1
    <3>7. QueuedLater'
      BY <2>1, <2>4, <3>2, <3>3, <3>6 DEF SortInv, QueuedLater, sortVars
    <3> QED
      BY <2>2, <3>5, <3>7 DEF SortInv
  <2> QED
    BY <1>13, <2>3, <2>4, Zenon DEF InitStream
<1>14. ASSUME NEW s \in Streams, InitStreamStop(s) PROVE SortInv'
  <2>1. /\ UNCHANGED <<htime, event_mono_time, sortVars, slog, spos, unconsumed>>
        /\ heap' \subseteq heap
        /\ \A k \in Maps : k \in heap' /\ k # cur' => k # cur
        /\ pc' \in {"init", "sort", "consume", "read"} =>
             heap' = {} \/ pc \in {"init", "sort", "consume", "read"}
        /\ pc' \in {"consume", "read"} => pc \in {"consume", "read"} /\ cur' = cur
    BY <1>14 DEF InitStreamStop, kernelVars, ringKernelVars, streamVars,
           userVars, ringVars, mmapVars, heapVars, sortVars, targetVars,
           callVars, callerVars, seenVars
  <2> QED
    BY <2>1, SortKeep
<1>15. ASSUME NEW s \in Streams, SortStream(s) PROVE SortInv'
  <2>1. /\ UNCHANGED <<event_mono_time, slog, unconsumed, cur, prev_lost_time>>
        /\ s \in heap /\ (\A r \in heap : htime[s] <= htime[r])
        /\ Streams \subseteq heap /\ pc = "sort" /\ pc' \in {"sort", "unwind"}
        /\ heap' \subseteq heap /\ s \notin Maps
    BY <1>15, OrderAssumption, Zenon DEF SortStream, Peek, mmapVars, Control, Phases
  <2>2. /\ heap_popped_time \in Nat /\ prev_lost_time \in Nat /\ htime \in [Queues -> Nat]
        /\ event_mono_time \in [Maps -> Nat] /\ heap \subseteq Queues
    BY DEF TypeOK, SortTypeOK, HeapTypeOK, MmapTypeOK
  <2>3. htime[s] >= heap_popped_time
    BY <2>1 DEF SortInv, QueuedLater
  <2>4. heap_popped_time' = htime[s] /\ unordered_events' = unordered_events
    BY <1>15, <2>2, <2>3 DEF SortStream, Pop, Max2, Queues, TypeOK, SortTypeOK
  <2>5. PoppedLast' /\ NeverUnordered'
    BY <2>1, <2>2, <2>3, <2>4 DEF SortInv, PoppedLast, NeverUnordered, Queues
  <2>6. ASSUME NEW r \in Streams
        PROVE  /\ spos[r] >= 1 /\ spos[r] \in Nat /\ spos[r] <= Len(slog[r])
               /\ htime[r] = slog[r][spos[r]]
               /\ htime[r] >= htime[s] /\ htime[r] \in Nat /\ htime[s] \in Nat
               /\ slog[r] \in Seq(Nat) /\ Len(slog[r]) \in Nat
               /\ \A i \in 1 .. Len(slog[r]) :
                    i >= spos[r] => slog[r][i] \in Nat /\ slog[r][i] >= htime[s]
               /\ LastOf(r) >= htime[s]
    <3>1. /\ spos[r] >= 1 /\ spos[r] \in Nat /\ spos[r] <= Len(slog[r])
          /\ htime[r] = slog[r][spos[r]]
          /\ slog[r] \in Seq(Nat) /\ Len(slog[r]) \in Nat
      BY <2>1, SMTT(60) DEF SortInv, QueuedLater, Control, BatchBound, TypeOK, StreamTypeOK
    <3>2. htime[r] >= htime[s] /\ htime[r] \in Nat /\ htime[s] \in Nat
      BY <2>1, <2>2 DEF Queues
    <3>3. \A i, j \in 1 .. Len(slog[r]) : i <= j => slog[r][i] <= slog[r][j]
      BY DEF SortInv, StreamLater
    <3>4. ASSUME NEW i \in 1 .. Len(slog[r]), i >= spos[r]
          PROVE  slog[r][i] \in Nat /\ slog[r][i] >= htime[s]
      <4>1. slog[r][spos[r]] <= slog[r][i]
        BY <3>1, <3>3, <3>4
      <4>2. slog[r][i] \in Nat
        BY <3>1
      <4> QED
        BY <3>1, <3>2, <4>1, <4>2, SMTT(60)
    <3>5. slog[r] # <<>> /\ LastOf(r) >= htime[s]
      BY <3>1, <3>4 DEF LastOf
    <3> QED
      BY <3>1, <3>2, <3>4, <3>5
  <2>7. CASE StreamNext(s, FALSE) /\ UNCHANGED heap
    <3> DEFINE i == spos[s] + 1
    <3>1. /\ spos' = [spos EXCEPT ![s] = i] /\ htime' = [htime EXCEPT ![s] = slog[s][i]]
          /\ i \in 1 .. Len(slog[s])
      BY <2>7 DEF StreamNext, BatchEnd, Control, BatchBound, TypeOK, StreamTypeOK
    <3>2. slog[s][i] >= htime[s]
      BY <2>6, <3>1, SMTT(60)
    <3> HIDE DEF i
    <3>3. /\ spos'[s] = i /\ i >= 1 /\ htime'[s] = slog[s][i]
          /\ \A r \in Streams : r # s => spos'[r] = spos[r] /\ htime'[r] = htime[r]
          /\ \A m \in Maps : htime'[m] = htime[m]
      BY <2>1, <3>1 DEF TypeOK, StreamTypeOK, HeapTypeOK, Queues, i
    <3>4. \A r \in Streams : spos'[r] >= spos[r] /\ spos'[r] \in Nat
      BY <2>6, <3>3, SMTT(60) DEF i
    <3>5. StreamLater'
      BY <2>1, <2>4, <2>6, <3>4, SMTT(60) DEF SortInv, StreamLater, LastOf
    <3>6. \A m \in Maps : m \in heap' => htime'[m] >= heap_popped_time'
      BY <2>1, <2>2, <2>4, <3>3, Zenon DEF Queues
    <3>7. \A r \in Streams : /\ htime'[r] >= heap_popped_time' /\ spos'[r] >= 1
                             /\ htime'[r] = slog'[r][spos'[r]]
      BY <2>1, <2>4, <2>6, <3>2, <3>3, Zenon
    <3>8. QueuedLater'
      BY <3>6, <3>7 DEF QueuedLater
    <3> QED
      BY <2>5, <3>5, <3>8 DEF SortInv
  <2>8. CASE UNCHANGED <<spos, htime>>
    <3>1. StreamLater'
      BY <2>1, <2>4, <2>6, <2>8, SMTT(60) DEF SortInv, StreamLater, LastOf
    <3>2. \A m \in Maps : m \in heap' => htime'[m] >= heap_popped_time'
      BY <2>1, <2>2, <2>4, <2>8 DEF Queues
    <3>3. \A r \in Streams : /\ htime'[r] >= heap_popped_time' /\ spos'[r] >= 1
                             /\ htime'[r] = slog'[r][spos'[r]]
      BY <2>1, <2>4, <2>6, <2>8
    <3>4. QueuedLater'
      BY <3>2, <3>3 DEF QueuedLater
    <3> QED
      BY <2>5, <3>1, <3>4 DEF SortInv
  <2> QED
    BY <1>15, <2>7, <2>8, Zenon DEF SortStream
<1>16. ASSUME NEW m \in Maps, InitEmpty(m) PROVE SortInv'
  <2>1. /\ UNCHANGED <<htime, event_mono_time, sortVars, slog, spos, unconsumed>>
        /\ heap' \subseteq heap
        /\ \A k \in Maps : k \in heap' /\ k # cur' => k # cur
        /\ pc' \in {"init", "sort", "consume", "read"} =>
             heap' = {} \/ pc \in {"init", "sort", "consume", "read"}
        /\ pc' \in {"consume", "read"} => pc \in {"consume", "read"} /\ cur' = cur
    BY <1>16, OrderAssumption, Zenon DEF InitEmpty, InitOn, InitDone, Control,
           Phases, kernelVars, ringKernelVars, streamVars, userVars,
           ringVars, mmapVars, heapVars, sortVars, targetVars, callVars,
           callerVars, seenVars
  <2> QED
    BY <2>1, SortKeep
<1>17. ASSUME NEW m \in Maps, InitRecord(m) PROVE SortInv'
  <2>1. /\ UNCHANGED <<htime, event_mono_time, sortVars, slog, spos, unconsumed>>
        /\ heap' \subseteq heap
        /\ \A k \in Maps : k \in heap' /\ k # cur' => k # cur
        /\ pc' \in {"init", "sort", "consume", "read"} =>
             heap' = {} \/ pc \in {"init", "sort", "consume", "read"}
        /\ pc' \in {"consume", "read"} => pc \in {"consume", "read"} /\ cur' = cur
    BY <1>17, OrderAssumption, Zenon DEF InitRecord, InitOn, Control, Phases,
           TypeOK, HeapTypeOK, Queues, kernelVars, ringKernelVars,
           streamVars, userVars, ringVars, mmapVars, heapVars, sortVars,
           targetVars, callVars, callerVars, seenVars
  <2> QED
    BY <2>1, SortKeep
<1>18. ASSUME NEW m \in Maps, InitSample(m) PROVE SortInv'
  <2>1. /\ UNCHANGED <<event_mono_time, sortVars, slog, spos, unconsumed>>
        /\ heap' = heap \cup {m} /\ cur' = NoMap /\ pc = "init" /\ pc' \in {"init", "sort"}
        /\ htime' = [htime EXCEPT ![m] = InitTime(Next1(m).time)]
        /\ cur \notin heap /\ m \notin Streams
    BY <1>18, OrderAssumption, Zenon DEF InitSample, InitOn, InitDone, mmapVars, streamVars,
          Control, Phases, TypeOK, HeapTypeOK, Queues
  <2>2. InitTime(Next1(m).time) >= heap_popped_time
    <3>1. Next1(m) \in Record
      BY <1>18, NextType, Zenon DEF InitSample, InitOn
    <3>2. Next1(m).time \in Nat
      BY <3>1 DEF Record
    <3> QED
      BY <3>2 DEF InitTime, Max2, TypeOK, SortTypeOK
  <2>3. /\ htime'[m] >= heap_popped_time
        /\ \A q \in Queues : q # m => htime'[q] = htime[q]
    BY <2>1, <2>2 DEF TypeOK, HeapTypeOK, Queues
  <2>4. PoppedLast' /\ NeverUnordered' /\ StreamLater'
    BY <2>1, Zenon DEF SortInv, PoppedLast, NeverUnordered, sortVars, StreamLater, LastOf
  <2>5. QueuedLater'
    BY <2>1, <2>3 DEF SortInv, QueuedLater, sortVars, Queues
  <2> QED
    BY <2>4, <2>5 DEF SortInv
<1>19. ASSUME NEW m \in Maps, SortTargetTime(m) PROVE SortInv'
  <2>1. /\ UNCHANGED <<htime, event_mono_time, sortVars, slog, spos, unconsumed>>
        /\ heap' \subseteq heap
        /\ \A k \in Maps : k \in heap' /\ k # cur' => k # cur
        /\ pc' \in {"init", "sort", "consume", "read"} =>
             heap' = {} \/ pc \in {"init", "sort", "consume", "read"}
        /\ pc' \in {"consume", "read"} => pc \in {"consume", "read"} /\ cur' = cur
    BY <1>19 DEF SortTargetTime, Break, kernelVars, ringKernelVars,
           streamVars, userVars, ringVars, mmapVars, heapVars, sortVars,
           targetVars, callVars, callerVars, seenVars
  <2> QED
    BY <2>1, SortKeep
<1>20. ASSUME NEW m \in Maps, SortLostWait(m) PROVE SortInv'
  <2>1. /\ UNCHANGED <<htime, event_mono_time, sortVars, slog, spos, unconsumed>>
        /\ heap' \subseteq heap
        /\ \A k \in Maps : k \in heap' /\ k # cur' => k # cur
        /\ pc' \in {"init", "sort", "consume", "read"} =>
             heap' = {} \/ pc \in {"init", "sort", "consume", "read"}
        /\ pc' \in {"consume", "read"} => pc \in {"consume", "read"} /\ cur' = cur
    BY <1>20, Zenon DEF SortLostWait, Break, kernelVars, ringKernelVars,
           streamVars, userVars, ringVars, mmapVars, heapVars, sortVars,
           targetVars, callVars, callerVars, seenVars
  <2> QED
    BY <2>1, SortKeep
<1>21. ASSUME NEW m \in Maps, SortMap(m) PROVE SortInv'
  <2>1. /\ UNCHANGED <<slog, spos, unconsumed, heap, prev_lost_time>>
        /\ m \in heap /\ (\A r \in heap : htime[m] <= htime[r])
        /\ Streams \subseteq heap /\ pc = "sort" /\ pc' = "consume" /\ cur' = m
        /\ cur \notin heap /\ m \notin Streams
        /\ event_mono_time' = [event_mono_time EXCEPT ![m] = MonoTime(m)]
        /\ htime' = [htime EXCEPT ![m] = MonoTime(m)]
        /\ Pop(MonoTime(m))
    BY <1>21, OrderAssumption, Zenon DEF SortMap, Peek, streamVars, Control, Phases
  <2>2. /\ heap_popped_time \in Nat /\ prev_lost_time \in Nat /\ htime \in [Queues -> Nat]
        /\ event_mono_time \in [Maps -> Nat] /\ heap \subseteq Queues
        /\ unordered_events = FALSE /\ m \in Queues
    BY DEF TypeOK, SortTypeOK, HeapTypeOK, MmapTypeOK, SortInv, NeverUnordered, Queues
  <2>3. /\ htime[m] >= heap_popped_time \/ event_mono_time[m] = heap_popped_time
        /\ event_mono_time[m] <= heap_popped_time
        /\ htime[m] \in Nat /\ event_mono_time[m] \in Nat
    BY <2>1, <2>2, Zenon DEF SortInv, QueuedLater, PoppedLast
  <2>4. /\ MonoTime(m) \in Nat
        /\ MonoTime(m) >= heap_popped_time
        /\ MonoTime(m) = htime[m] \/ MonoTime(m) = heap_popped_time
    BY <2>2, <2>3 DEF MonoTime, Max2
  <2>5. heap_popped_time' = MonoTime(m) /\ unordered_events' = FALSE
    <3>1. heap_popped_time' = MonoTime(m)
      BY <2>1, <2>2, <2>4 DEF Pop, Max2
    <3>2. ~(MonoTime(m) < heap_popped_time)
      BY <2>2, <2>4
    <3>3. unordered_events' = (unordered_events \/ MonoTime(m) < heap_popped_time)
      BY <2>1 DEF Pop
    <3> QED
      BY <2>2, <3>1, <3>2, <3>3, Zenon
  <2>6. /\ event_mono_time'[m] = MonoTime(m)
        /\ \A k \in Maps : k # m => event_mono_time'[k] = event_mono_time[k]
        /\ \A q \in Queues : q # m => htime'[q] = htime[q]
    BY <2>1, <2>2
  <2>7. PoppedLast' /\ NeverUnordered'
    BY <2>1, <2>2, <2>4, <2>5, <2>6, SMTT(60) DEF SortInv, PoppedLast, NeverUnordered
  <2>8. CASE MonoTime(m) = heap_popped_time
    <3>1. StreamLater'
      BY <2>1, <2>5, <2>8, Zenon DEF SortInv, StreamLater, LastOf
    <3>2. QueuedLater'
      BY <2>1, <2>5, <2>6, <2>8, Zenon DEF SortInv, QueuedLater, Queues
    <3> QED
      BY <2>7, <3>1, <3>2 DEF SortInv
  <2>9. CASE MonoTime(m) = htime[m]
    <3>1. \A r \in Streams : htime[r] >= htime[m] /\ htime'[r] = htime[r]
      BY <2>1, <2>2, <2>6 DEF Queues
    <3>2. \A k \in Maps : k \in heap /\ k # m => htime'[k] >= heap_popped_time'
      BY <2>1, <2>2, <2>5, <2>6, <2>9 DEF Queues
    <3>3. QueuedLater'
      BY <2>1, <2>5, <2>9, <3>1, <3>2, Zenon DEF SortInv, QueuedLater
    <3>4. ASSUME NEW r \in Streams
          PROVE  /\ \A i \in 1 .. Len(slog[r]) : i > spos[r] => slog[r][i] >= htime[m]
                 /\ LastOf(r) >= htime[m]
      <4>1. /\ spos[r] >= 1 /\ spos[r] \in Nat /\ spos[r] <= Len(slog[r])
            /\ htime[r] = slog[r][spos[r]]
            /\ slog[r] \in Seq(Nat) /\ Len(slog[r]) \in Nat
        BY <2>1, SMTT(60) DEF SortInv, QueuedLater, Control, BatchBound, TypeOK, StreamTypeOK
      <4>2. \A i, j \in 1 .. Len(slog[r]) : i <= j => slog[r][i] <= slog[r][j]
        BY Zenon DEF SortInv, StreamLater
      <4>3. ASSUME NEW i \in 1 .. Len(slog[r]), i >= spos[r]
            PROVE  slog[r][i] >= htime[m]
        <5>1. slog[r][spos[r]] <= slog[r][i]
          BY <4>1, <4>2, <4>3, SMTT(60)
        <5>2. slog[r][i] \in Nat /\ slog[r][spos[r]] \in Nat
          BY <4>1, SMTT(60)
        <5> QED
          BY <2>3, <3>1, <4>1, <5>1, <5>2, SMTT(60)
      <4>4. LastOf(r) >= htime[m]
        BY <4>1, <4>3, SMTT(60) DEF LastOf
      <4> QED
        BY <4>1, <4>3, <4>4, SMTT(60)
    <3>5. StreamLater'
      BY <2>1, <2>5, <2>9, <3>4, Zenon DEF SortInv, StreamLater, LastOf
    <3> QED
      BY <2>7, <3>3, <3>5 DEF SortInv
  <2> QED
    BY <2>4, <2>8, <2>9
<1>22. ASSUME NEW m \in Maps, ConsumeMap(m) PROVE SortInv'
  <2>1. /\ UNCHANGED <<htime, event_mono_time, sortVars, slog, spos, unconsumed>>
        /\ heap' \subseteq heap
        /\ \A k \in Maps : k \in heap' /\ k # cur' => k # cur
        /\ pc' \in {"init", "sort", "consume", "read"} =>
             heap' = {} \/ pc \in {"init", "sort", "consume", "read"}
        /\ pc' \in {"consume", "read"} => pc \in {"consume", "read"} /\ cur' = cur
    BY <1>22, Zenon DEF ConsumeMap, kernelVars, ringKernelVars, streamVars,
           userVars, ringVars, mmapVars, heapVars, sortVars, targetVars,
           callVars, callerVars, seenVars
  <2> QED
    BY <2>1, SortKeep
<1>23. ASSUME NEW m \in Maps, ReadEmpty(m) PROVE SortInv'
  <2>1. /\ UNCHANGED <<htime, event_mono_time, sortVars, slog, spos, unconsumed>>
        /\ heap' \subseteq heap
        /\ \A k \in Maps : k \in heap' /\ k # cur' => k # cur
        /\ pc' \in {"init", "sort", "consume", "read"} =>
             heap' = {} \/ pc \in {"init", "sort", "consume", "read"}
        /\ pc' \in {"consume", "read"} => pc \in {"consume", "read"} /\ cur' = cur
    BY <1>23, Zenon DEF ReadEmpty, ReadOn, TurnDone, kernelVars, ringKernelVars,
           streamVars, userVars, ringVars, mmapVars, heapVars, sortVars,
           targetVars, callVars, callerVars, seenVars
  <2> QED
    BY <2>1, SortKeep
<1>24. ASSUME NEW m \in Maps, ReadRecord(m) PROVE SortInv'
  <2>1. /\ UNCHANGED <<htime, event_mono_time, sortVars, slog, spos, unconsumed>>
        /\ heap' \subseteq heap
        /\ \A k \in Maps : k \in heap' /\ k # cur' => k # cur
        /\ pc' \in {"init", "sort", "consume", "read"} =>
             heap' = {} \/ pc \in {"init", "sort", "consume", "read"}
        /\ pc' \in {"consume", "read"} => pc \in {"consume", "read"} /\ cur' = cur
    BY <1>24, Zenon DEF ReadRecord, ReadOn, kernelVars, ringKernelVars, streamVars,
           userVars, ringVars, mmapVars, heapVars, sortVars, targetVars,
           callVars, callerVars, seenVars
  <2> QED
    BY <2>1, SortKeep
<1>25. ASSUME NEW m \in Maps, ReadSample(m) PROVE SortInv'
  <2>1. /\ UNCHANGED <<event_mono_time, heap_popped_time, unordered_events, slog,
                       spos, unconsumed, heap>>
        /\ cur = m /\ cur' = NoMap /\ pc = "read" /\ pc' \in {"sort", "unwind"}
        /\ htime' = [htime EXCEPT ![m] = Next1(m).time]
        /\ prev_lost_time' = IF lost = {} THEN prev_lost_time
                             ELSE Max2(prev_lost_time, event_mono_time[m])
        /\ m \notin Streams
    BY <1>25, OrderAssumption, Zenon DEF ReadSample, ReadOn, TurnDone, mmapVars, streamVars
  <2>2. event_mono_time[m] = heap_popped_time /\ prev_lost_time <= heap_popped_time
    BY <2>1 DEF SortInv, PoppedLast
  <2>3. \A q \in Queues : q # m => htime'[q] = htime[q]
    BY <2>1 DEF TypeOK, HeapTypeOK
  <2>4. prev_lost_time' <= heap_popped_time
    BY <2>1, <2>2 DEF Max2, TypeOK, SortTypeOK
  <2>5. PoppedLast' /\ NeverUnordered' /\ StreamLater'
    BY <2>1, <2>4, Zenon DEF SortInv, PoppedLast, NeverUnordered, StreamLater, LastOf
  <2>6. QueuedLater'
    BY <2>1, <2>2, <2>3, Zenon DEF SortInv, QueuedLater, Queues
  <2> QED
    BY <2>5, <2>6 DEF SortInv
<1>26. ASSUME SortEmpty PROVE SortInv'
  <2>1. /\ UNCHANGED <<htime, event_mono_time, sortVars, slog, spos, unconsumed>>
        /\ heap' \subseteq heap
        /\ \A k \in Maps : k \in heap' /\ k # cur' => k # cur
        /\ pc' \in {"init", "sort", "consume", "read"} =>
             heap' = {} \/ pc \in {"init", "sort", "consume", "read"}
        /\ pc' \in {"consume", "read"} => pc \in {"consume", "read"} /\ cur' = cur
    BY <1>26, Zenon DEF SortEmpty, Break, kernelVars, ringKernelVars, streamVars,
           userVars, ringVars, mmapVars, heapVars, sortVars, targetVars,
           callVars, callerVars, seenVars
  <2> QED
    BY <2>1, SortKeep
<1>27. ASSUME Unwind PROVE SortInv'
  <2>1. /\ UNCHANGED <<event_mono_time, sortVars, slog, spos, htime>>
        /\ heap' = {} /\ pc' = "idle"
        /\ unconsumed' = [s \in Streams |-> unconsumed[s] \/ s \in heap]
    BY <1>27 DEF Unwind, mmapVars
  <2>2. PoppedLast' /\ NeverUnordered' /\ StreamLater'
    BY <2>1, Zenon DEF SortInv, PoppedLast, NeverUnordered, StreamLater, LastOf, sortVars
  <2>3. QueuedLater'
    BY <2>1, Zenon DEF SortInv, QueuedLater, sortVars
  <2> QED
    BY <2>2, <2>3 DEF SortInv
<1> QED
  BY <1>1, <1>2, <1>3, <1>4, <1>5, <1>6, <1>7, <1>8, <1>9, <1>10,
     <1>11, <1>12, <1>13, <1>14, <1>15, <1>16, <1>17, <1>18, <1>19, <1>20,
     <1>21, <1>22, <1>23, <1>24, <1>25, <1>26, <1>27 DEF Next, Kernel, Call,
     Step
-----------------------------------------------------------------------------
LEMMA InitInv == Init => TypeOK /\ Control /\ SpaceSafe /\ SortInv
<1> USE OrderAssumption
<1> SUFFICES ASSUME Init PROVE TypeOK /\ Control /\ SpaceSafe /\ SortInv
  OBVIOUS
<1>1. KernelTypeOK
  BY DEF Init, KernelTypeOK
<1>2. RingTypeOK
  BY Zenon DEF Init, RingTypeOK
<1>3. MmapTypeOK
  BY SMTT(60) DEF Init, MmapTypeOK
<1>4. HeapTypeOK
  BY Zenon DEF Init, HeapTypeOK, Queues
<1>5. StreamTypeOK
  BY SMTT(60) DEF Init, StreamTypeOK
<1>6. SortTypeOK
  BY Zenon DEF Init, SortTypeOK, Reasons
<1>7. CallTypeOK
  BY Zenon DEF Init, CallTypeOK, Queues
<1>8. SeenTypeOK
  BY SMTT(60) DEF Init, SeenTypeOK
<1>9. Control
  BY SMTT(60) DEF Init, Control, Phases, HeapRead, BatchBound
<1>10. SpaceSafe
  BY SMTT(60) DEF Init, SpaceSafe, Processed, head
<1>11. SortInv
  BY SMTT(60) DEF Init, SortInv, QueuedLater, StreamLater, PoppedLast, NeverUnordered, LastOf
<1> QED
  BY <1>1, <1>2, <1>3, <1>4, <1>5, <1>6, <1>7, <1>8, <1>9, <1>10, <1>11 DEF TypeOK

LEMMA StutterInv ==
  ASSUME TypeOK, Control, SpaceSafe, SortInv, UNCHANGED vars
  PROVE  TypeOK' /\ Control' /\ SpaceSafe' /\ SortInv'
<1>1. TypeOK'
  BY Keep, Zenon DEF TypeOK, vars, userVars, sortVars, callVars, callerVars
<1>2. Control'
  BY Zenon DEF Control, Phases, HeapRead, BatchBound, vars, userVars, kernelVars,
         ringVars, streamVars, heapVars, callVars
<1>3. SpaceSafe'
  BY Zenon DEF SpaceSafe, Processed, head, vars, userVars, kernelVars, ringKernelVars,
         ringVars, heapVars, callVars
<1>4. SortInv'
  BY SortKeep, Zenon DEF vars, userVars, mmapVars, heapVars, streamVars, callVars
<1> QED
  BY <1>1, <1>2, <1>3, <1>4

\* The four invariants together are inductive: TypeOK gives the times an order,
\* Control tells which elements are queued, and both the space released and the
\* order of the output depend on what is queued.
LEMMA Inductive == Spec => [](TypeOK /\ Control /\ SpaceSafe /\ SortInv)
<1> DEFINE IInv == TypeOK /\ Control /\ SpaceSafe /\ SortInv
<1>1. Init => IInv
  BY InitInv
<1>2. IInv /\ [Next]_vars => IInv'
  <2>1. ASSUME IInv, Next PROVE IInv'
    BY <2>1, TypeStep, ControlStep, SpaceStep, SortStep
  <2>2. ASSUME IInv, UNCHANGED vars PROVE IInv'
    BY <2>2, StutterInv
  <2> QED
    BY <2>1, <2>2
<1> QED
  BY <1>1, <1>2, PTL DEF Spec

\* The variables of order.c keep their types, for any number of ring buffers
\* and streams and any behaviour of the kernel and the senders.
THEOREM TypeCorrect == Spec => []TypeOK
BY Inductive, PTL

\* perf_mmap__consume() never releases a record that the sort still needs: for
\* any ring-buffer size, the kernel writes into free space only.
THEOREM SpaceIsSafe == Spec => []SpaceSafe
BY Inductive, PTL

\* order_process() delivers its events in time order: "out-of-order event" and
\* "out-of-order stream event" are never printed, however late the kernel
\* outputs its samples.
THEOREM Ordered == Spec => []NeverUnordered
<1>1. SortInv => NeverUnordered
  BY DEF SortInv
<1> QED
  BY <1>1, Inductive, PTL

\* The losses are reported in time order over all ring buffers: "BUG: unorder
\* lost event" is never printed.
THEOREM LostIsOrdered == Spec => []LostInOrder
<1>1. TypeOK /\ SortInv => LostInOrder
  BY DEF TypeOK, MmapTypeOK, SortTypeOK, SortInv, PoppedLast, LostInOrder
<1> QED
  BY <1>1, Inductive, PTL
=============================================================================
