---------------------------- MODULE OrderTypes ----------------------------
(***************************************************************************)
(* The inductive invariant of Order, and the proof that its steps keep the *)
(* types.  OrderProofs has the rest of the argument and the theorems.      *)
(***************************************************************************)
EXTENDS Order, TLAPS

\* Where an element may be while a call of order_process() runs.
Phases ==
    /\ pc \in {"idle", "entry"} => heap = {}
    /\ pc = "entry" => cur \in Maps
    /\ pc = "init" => /\ heap \cap todo = {}
                      /\ cur \in todo \cup {NoMap}
                      /\ Streams \ todo \subseteq heap
    /\ pc \in {"sort", "unwind"} => cur \notin heap
    /\ pc \in {"consume", "read"} => cur \in heap /\ cur \in Maps
    /\ pc \in {"sort", "consume", "read"} => Streams \subseteq heap

\* A queued element is a record that has been read.
HeapRead == \A m \in Maps : m \in heap => start[m] >= 1

\* A batch is a part of what has been received.
BatchBound ==
    \A s \in Streams : spos[s] <= sbatch[s] /\ sbatch[s] <= Len(slog[s])

Control == Phases /\ HeapRead /\ BatchBound

\* A queued element is not behind heap_popped_time: its time is later, or its
\* ring buffer was the last one processed and raises its time.
QueuedLater ==
    /\ pc \in {"init", "sort", "consume", "read"} =>
         \A m \in Maps : m \in heap /\ m # cur =>
            htime[m] >= heap_popped_time \/ event_mono_time[m] = heap_popped_time
    /\ \A s \in Streams : s \in heap \/ unconsumed[s] =>
            /\ htime[s] >= heap_popped_time
            /\ spos[s] >= 1
            /\ htime[s] = slog[s][spos[s]]

\* A stream is sorted, and what is still to be read from it is not behind
\* heap_popped_time.
StreamLater ==
    \A s \in Streams :
        /\ \A i, j \in 1 .. Len(slog[s]) : i <= j => slog[s][i] <= slog[s][j]
        /\ \A i \in 1 .. Len(slog[s]) : i > spos[s] => slog[s][i] >= heap_popped_time
        /\ LastOf(s) >= heap_popped_time

\* heap_popped_time bounds the times of every ring buffer and every loss.
PoppedLast ==
    /\ \A m \in Maps : event_mono_time[m] <= heap_popped_time
    /\ prev_lost_time <= heap_popped_time
    /\ pc \in {"consume", "read"} => event_mono_time[cur] = heap_popped_time

SortInv == QueuedLater /\ StreamLater /\ PoppedLast /\ NeverUnordered
-----------------------------------------------------------------------------
LEMMA FrontType ==
  ASSUME NEW s \in Seq(Nat), s # <<>>
  PROVE  SubSeq(s, 1, Len(s) - 1) \in Seq(Nat)
OBVIOUS

\* What an action leaves alone keeps its type.
LEMMA Keep ==
  ASSUME TypeOK
  PROVE  /\ UNCHANGED kernelVars => KernelTypeOK'
         /\ UNCHANGED ringVars => RingTypeOK'
         /\ UNCHANGED mmapVars => MmapTypeOK'
         /\ UNCHANGED heapVars => HeapTypeOK'
         /\ UNCHANGED streamVars => StreamTypeOK'
         /\ UNCHANGED <<sortVars, break_reason, fixed_events>> => SortTypeOK'
         /\ UNCHANGED <<callVars, callerVars>> => CallTypeOK'
         /\ UNCHANGED seenVars => SeenTypeOK'
<1>1. UNCHANGED kernelVars => KernelTypeOK'
  BY DEF TypeOK, KernelTypeOK, kernelVars, ringKernelVars
<1>2. UNCHANGED ringVars => RingTypeOK'
  BY DEF TypeOK, RingTypeOK, ringVars
<1>3. UNCHANGED mmapVars => MmapTypeOK'
  BY DEF TypeOK, MmapTypeOK, mmapVars
<1>4. UNCHANGED heapVars => HeapTypeOK'
  BY DEF TypeOK, HeapTypeOK, heapVars
<1>5. UNCHANGED streamVars => StreamTypeOK'
  BY DEF TypeOK, StreamTypeOK, streamVars
<1>6. UNCHANGED <<sortVars, break_reason, fixed_events>> => SortTypeOK'
  BY DEF TypeOK, SortTypeOK, sortVars
<1>7. UNCHANGED <<callVars, callerVars>> => CallTypeOK'
  BY DEF TypeOK, CallTypeOK, callVars, callerVars, targetVars
<1>8. UNCHANGED seenVars => SeenTypeOK'
  BY DEF TypeOK, SeenTypeOK, seenVars
<1> QED
  BY <1>1, <1>2, <1>3, <1>4, <1>5, <1>6, <1>7, <1>8

LEMMA OutputType ==
  ASSUME TypeOK, NEW m \in Maps, NEW rec \in Record, NEW t \in Nat,
         Output(m, rec, t)
  PROVE  /\ rb' \in [Maps -> Seq(Record)]
         /\ klost' \in [Maps -> SUBSET (Maps \X Nat)]
<1>1. Lost(klost[m]) \in Record
  BY DEF TypeOK, KernelTypeOK, Lost, Record
<1> DEFINE recs == IF klost[m] = {} THEN <<rec>> ELSE <<Lost(klost[m]), rec>>
<1>2. recs \in Seq(Record)
  BY <1>1
<1> HIDE DEF recs
<1>3. \/ /\ rb' = [rb EXCEPT ![m] = @ \o recs]
         /\ klost' = [klost EXCEPT ![m] = {}]
      \/ /\ rb' = rb
         /\ klost' = [klost EXCEPT ![m] = @ \cup {<<m, t>>}]
  BY Zenon DEF Output, recs
<1>4. {<<m, t>>} \subseteq Maps \X Nat
  OBVIOUS
<1>5. rb \in [Maps -> Seq(Record)] /\ klost \in [Maps -> SUBSET (Maps \X Nat)]
  BY DEF TypeOK, KernelTypeOK
<1>6. rb[m] \o recs \in Seq(Record)
  BY <1>2, <1>5
<1>7. rb' \in [Maps -> Seq(Record)]
  BY <1>3, <1>5, <1>6, Zenon
<1>8. klost' \in [Maps -> SUBSET (Maps \X Nat)]
  BY <1>3, <1>4, <1>5
<1> QED
  BY <1>7, <1>8

LEMMA RecordTypes ==
  /\ \A t \in Nat : Sample(t) \in Record
  /\ Other \in Record
BY DEF Sample, Other, Record

LEMMA HeadType ==
  ASSUME TypeOK, NEW m \in Maps
  PROVE  head(m) \in Nat
BY DEF TypeOK, KernelTypeOK, head

LEMMA EventType ==
  ASSUME TypeOK, Control, NEW s \in Streams, NEW init \in BOOLEAN,
         spos[s] < BatchEnd(s, init)
  PROVE  /\ BatchEnd(s, init) \in Nat
         /\ spos[s] + 1 \in 1 .. Len(slog[s])
         /\ slog[s][spos[s] + 1] \in Nat
<1>1. slog[s] \in Seq(Nat) /\ sbatch[s] \in Nat /\ spos[s] \in Nat
  BY DEF TypeOK, StreamTypeOK
<1>2. spos[s] <= sbatch[s] /\ sbatch[s] <= Len(slog[s])
  BY DEF Control, BatchBound
<1>3. BatchEnd(s, init) \in Nat /\ spos[s] + 1 \in 1 .. Len(slog[s])
  BY <1>1, <1>2, SMTT(60) DEF BatchEnd
<1> QED
  BY <1>1, <1>3, SMTT(60)

LEMMA DeliverType ==
  ASSUME TypeOK, NEW m \in Maps, NEW i \in Nat
  PROVE  [delivered EXCEPT ![m] = Append(@, i)] \in [Maps -> Seq(Nat)]
<1>1. delivered \in [Maps -> Seq(Nat)]
  BY DEF TypeOK, SeenTypeOK
<1>2. Append(delivered[m], i) \in Seq(Nat)
  BY <1>1
<1> QED
  BY <1>1, <1>2

LEMMA ReportType ==
  ASSUME TypeOK, NEW m \in Maps, NEW to \in Nat
  PROVE  Reported(m, to) \subseteq [map : Maps, lost : SUBSET (Maps \X Nat),
                                    from : Nat, to : Nat]
<1>1. event_mono_time[m] \in Nat /\ lost \in SUBSET (Maps \X Nat)
  BY DEF TypeOK, MmapTypeOK, CallTypeOK
<1> QED
  BY <1>1 DEF TypeOK, SeenTypeOK, Reported

LEMMA NextType ==
  ASSUME TypeOK, NEW m \in Maps, start[m] < head(m)
  PROVE  /\ Next1(m) \in Record
         /\ Next1(m).time \in Nat
         /\ Next1(m).lost \in SUBSET (Maps \X Nat)
<1>1. Next1(m) \in Record
  BY DEF TypeOK, KernelTypeOK, RingTypeOK, Next1, head
<1> QED
  BY <1>1 DEF Record

LEMMA TypeStep ==
  ASSUME TypeOK, Control, Next
  PROVE  TypeOK'
<1> USE OrderAssumption DEF TypeOK, Queues
<1>1. ASSUME NEW m \in Maps, KernelSample(m) PROVE TypeOK'
  <2>1. UNCHANGED <<ringVars, mmapVars, heapVars, streamVars, sortVars, break_reason, fixed_events, callVars, callerVars, seenVars>>
    BY <1>1 DEF KernelSample, kernelVars, ringKernelVars, streamVars, userVars, ringVars,
       mmapVars, heapVars, sortVars, targetVars, callVars, callerVars, seenVars
  <2>2. KernelTypeOK'
    <3>1. Output(m, Sample(clock + 1), clock + 1)
      BY <1>1 DEF KernelSample
    <3>2. clock + 1 \in Nat
      BY DEF KernelTypeOK
    <3>3. /\ rb' \in [Maps -> Seq(Record)]
          /\ klost' \in [Maps -> SUBSET (Maps \X Nat)]
      BY <3>1, <3>2, OutputType, RecordTypes
    <3> QED
      BY <1>1, <3>3 DEF KernelSample, KernelTypeOK
  <2> QED
    BY <2>1, <2>2, Keep DEF TypeOK, sortVars
<1>2. ASSUME NEW m \in Maps, KernelSampleBegin(m) PROVE TypeOK'
  <2>1. UNCHANGED <<ringVars, mmapVars, heapVars, streamVars, sortVars, break_reason, fixed_events, callVars, callerVars, seenVars>>
    BY <1>2 DEF KernelSampleBegin, kernelVars, ringKernelVars, streamVars, userVars, ringVars,
       mmapVars, heapVars, sortVars, targetVars, callVars, callerVars, seenVars
  <2>2. KernelTypeOK'
    BY <1>2 DEF KernelSampleBegin, KernelTypeOK
  <2> QED
    BY <2>1, <2>2, Keep DEF TypeOK, sortVars
<1>3. ASSUME NEW m \in Maps, KernelSampleEnd(m) PROVE TypeOK'
  <2>1. UNCHANGED <<ringVars, mmapVars, heapVars, streamVars, sortVars, break_reason, fixed_events, callVars, callerVars, seenVars>>
    BY <1>3 DEF KernelSampleEnd, kernelVars, ringKernelVars, streamVars, userVars, ringVars,
       mmapVars, heapVars, sortVars, targetVars, callVars, callerVars, seenVars
  <2>2. KernelTypeOK'
    <3> DEFINE n == Len(inflight[m])
    <3>1. inflight[m] \in Seq(Nat) /\ inflight[m] # <<>>
      BY <1>3 DEF KernelSampleEnd, KernelTypeOK
    <3>2. n \in Nat \ {0} /\ inflight[m][n] \in Nat
      BY <3>1, SMTT(60)
    <3>3. SubSeq(inflight[m], 1, n - 1) \in Seq(Nat)
      BY <3>1, FrontType
    <3>4. inflight' = [inflight EXCEPT ![m] = SubSeq(@, 1, n - 1)]
      BY <1>3 DEF KernelSampleEnd
    <3>5. inflight' \in [Maps -> Seq(Nat)]
      BY <3>3, <3>4, Zenon DEF KernelTypeOK
    <3>6. Output(m, Sample(inflight[m][n]), inflight[m][n])
      BY <1>3 DEF KernelSampleEnd
    <3>7. /\ rb' \in [Maps -> Seq(Record)]
          /\ klost' \in [Maps -> SUBSET (Maps \X Nat)]
      BY <3>2, <3>6, OutputType, RecordTypes, Zenon
    <3> QED
      BY <1>3, <3>5, <3>7, Zenon DEF KernelSampleEnd, KernelTypeOK
  <2> QED
    BY <2>1, <2>2, Keep DEF TypeOK, sortVars
<1>4. ASSUME NEW m \in Maps, KernelOther(m) PROVE TypeOK'
  <2>1. UNCHANGED <<ringVars, mmapVars, heapVars, streamVars, sortVars, break_reason, fixed_events, callVars, callerVars, seenVars>>
    BY <1>4, Zenon DEF KernelOther, kernelVars, ringKernelVars, streamVars, userVars, ringVars,
       mmapVars, heapVars, sortVars, targetVars, callVars, callerVars, seenVars
  <2>2. KernelTypeOK'
    <3>1. Output(m, Other, clock)
      BY <1>4 DEF KernelOther
    <3>2. clock \in Nat
      BY DEF KernelTypeOK
    <3>3. /\ rb' \in [Maps -> Seq(Record)]
          /\ klost' \in [Maps -> SUBSET (Maps \X Nat)]
      BY <3>1, <3>2, OutputType, RecordTypes
    <3> QED
      BY <1>4, <3>3 DEF KernelOther, KernelTypeOK
  <2> QED
    BY <2>1, <2>2, Keep DEF TypeOK, sortVars
<1>5. ASSUME KernelTick PROVE TypeOK'
  <2>1. UNCHANGED <<ringVars, mmapVars, heapVars, streamVars, sortVars, break_reason, fixed_events, callVars, callerVars, seenVars>>
    BY <1>5 DEF KernelTick, kernelVars, ringKernelVars, streamVars, userVars, ringVars,
       mmapVars, heapVars, sortVars, targetVars, callVars, callerVars, seenVars
  <2>2. KernelTypeOK'
    BY <1>5 DEF KernelTick, KernelTypeOK
  <2> QED
    BY <2>1, <2>2, Keep, Zenon DEF TypeOK, sortVars
<1>6. ASSUME NEW s \in Streams, NEW t \in 0 .. clock, StreamArrive(s, t) PROVE TypeOK'
  <2>1. UNCHANGED <<kernelVars, ringVars, mmapVars, heapVars, sortVars, break_reason, fixed_events, callVars, callerVars, seenVars>>
    BY <1>6 DEF StreamArrive, kernelVars, ringKernelVars, streamVars, userVars, ringVars,
       mmapVars, heapVars, sortVars, targetVars, callVars, callerVars, seenVars
  <2>2. StreamTypeOK'
    BY <1>6, SMTT(60) DEF StreamArrive, StreamTypeOK, KernelTypeOK
  <2> QED
    BY <2>1, <2>2, Keep DEF TypeOK, sortVars
<1>7. ASSUME NEW m \in Maps, OrderMmap(m) \/ FlushMap(m) PROVE TypeOK'
  <2>1. UNCHANGED <<kernelVars, mmapVars, heapVars, streamVars, sortVars, break_reason, fixed_events, seenVars>>
    BY <1>7, Zenon DEF OrderMmap, FlushMap, Enter
  <2>2. RingTypeOK'
    BY <1>7, HeadType, Zenon DEF OrderMmap, FlushMap, Enter, RingTypeOK
  <2>3. CallTypeOK'
    BY <1>7, Zenon DEF OrderMmap, FlushMap, Enter, CallTypeOK, targetVars
  <2> QED
    BY <2>1, <2>2, <2>3, Keep, Zenon DEF TypeOK
<1>8. ASSUME NEW m \in Maps, BeginMmap(m) PROVE TypeOK'
  <2>1. UNCHANGED <<kernelVars, ringVars, mmapVars, streamVars, sortVars, break_reason, fixed_events, seenVars>>
    BY <1>8, Zenon DEF BeginMmap, Begin, kernelVars, ringVars
  <2>2. HeapTypeOK'
    BY <1>8, Zenon DEF BeginMmap, HeapTypeOK, Begin
  <2>3. CallTypeOK'
    BY <1>8, Zenon DEF BeginMmap, CallTypeOK, RingTypeOK, Begin, NoTime
  <2> QED
    BY <2>1, <2>2, <2>3, Keep, Zenon DEF TypeOK
<1>28. ASSUME NEW m \in Maps, EmptyMmap(m) PROVE TypeOK'
  <2>1. UNCHANGED <<kernelVars, ringVars, mmapVars, heapVars, streamVars, sortVars, break_reason, fixed_events, seenVars>>
    BY <1>28, Zenon DEF EmptyMmap
  <2>2. CallTypeOK'
    BY <1>28, Zenon DEF EmptyMmap, CallTypeOK, targetVars, callerVars
  <2> QED
    BY <2>1, <2>2, Keep, Zenon DEF TypeOK
<1>9. ASSUME OrderStream PROVE TypeOK'
  <2>1. UNCHANGED <<kernelVars, ringVars, mmapVars, streamVars, sortVars, break_reason, fixed_events, seenVars>>
    BY <1>9, Zenon DEF OrderStream, Begin, kernelVars, ringKernelVars, streamVars, userVars, ringVars,
       mmapVars, heapVars, sortVars, targetVars, callVars, callerVars, seenVars
  <2>2. HeapTypeOK'
    BY <1>9 DEF OrderStream, HeapTypeOK, Begin
  <2>3. CallTypeOK'
    BY <1>9, Zenon DEF OrderStream, CallTypeOK, Begin, NoTime, callerVars
  <2> QED
    BY <2>1, <2>2, <2>3, Keep, Zenon DEF TypeOK, sortVars
<1>10. ASSUME OrderTo PROVE TypeOK'
  <2>1. UNCHANGED <<ringVars, mmapVars, streamVars, sortVars, break_reason, fixed_events, seenVars>>
    BY <1>10 DEF OrderTo, Begin, kernelVars, ringKernelVars, streamVars, userVars, ringVars,
       mmapVars, heapVars, sortVars, targetVars, callVars, callerVars, seenVars
  <2>2. KernelTypeOK'
    BY <1>10, SMTT(60) DEF OrderTo, KernelTypeOK, Begin, ringKernelVars
  <2>3. HeapTypeOK'
    BY <1>10, Zenon DEF OrderTo, HeapTypeOK, Begin
  <2>4. CallTypeOK'
    <3>1. Head(ticks) \in Nat
      BY <1>10, SMTT(60) DEF OrderTo, KernelTypeOK
    <3> QED
      BY <1>10, <3>1, Zenon DEF OrderTo, CallTypeOK, Begin, callerVars
  <2> QED
    BY <2>1, <2>2, <2>3, <2>4, Keep DEF TypeOK, sortVars
<1>11. ASSUME StaleTick PROVE TypeOK'
  <2>1. UNCHANGED <<ringVars, mmapVars, heapVars, streamVars, sortVars, break_reason, fixed_events, seenVars>>
    BY <1>11, Zenon DEF StaleTick
  <2>2. KernelTypeOK' /\ Head(ticks) \in Nat
    BY <1>11, SMTT(60) DEF StaleTick, KernelTypeOK, ringKernelVars
  <2>3. CallTypeOK'
    BY <1>11, <2>2, Zenon DEF StaleTick, Announce, CallTypeOK, callVars, targetVars
  <2> QED
    BY <2>1, <2>2, <2>3, Keep, Zenon DEF TypeOK
<1>12. ASSUME Disable PROVE TypeOK'
  <2>1. UNCHANGED <<kernelVars, ringVars, mmapVars, heapVars, streamVars, sortVars, break_reason, fixed_events, seenVars>>
    BY <1>12, Zenon DEF Disable, kernelVars, ringKernelVars, streamVars, userVars, ringVars,
       mmapVars, heapVars, sortVars, targetVars, callVars, callerVars, seenVars
  <2>2. CallTypeOK'
    BY <1>12, Zenon DEF Disable, CallTypeOK, callVars, targetVars, callerVars
  <2> QED
    BY <2>1, <2>2, Keep DEF TypeOK, sortVars
<1>13. ASSUME NEW s \in Streams, InitStream(s) PROVE TypeOK'
  <2>1. UNCHANGED <<kernelVars, ringVars, mmapVars, sortVars, break_reason, fixed_events, seenVars>>
    BY <1>13, Zenon DEF InitStream, kernelVars, ringKernelVars, streamVars, userVars, ringVars,
       mmapVars, heapVars, sortVars, targetVars, callVars, callerVars, seenVars
  <2>2. StreamTypeOK'
    <3>1. UNCHANGED <<sbatch, spos>> \/ StreamNext(s, TRUE)
      BY <1>13, Zenon DEF InitStream
    <3>2. sbatch' \in [Streams -> Nat] /\ spos' \in [Streams -> Nat]
      <4>1. CASE StreamNext(s, TRUE)
        <5>1. BatchEnd(s, TRUE) \in Nat
          BY <4>1, EventType, Zenon DEF StreamNext
        <5>2. spos[s] + 1 \in Nat /\ sbatch \in [Streams -> Nat] /\ spos \in [Streams -> Nat]
          BY SMTT(60) DEF StreamTypeOK
        <5>3. /\ sbatch' = [sbatch EXCEPT ![s] = BatchEnd(s, TRUE)]
              /\ spos' = [spos EXCEPT ![s] = spos[s] + 1]
          BY <4>1 DEF StreamNext
        <5> QED
          BY <5>1, <5>2, <5>3, Zenon
      <4>2. CASE UNCHANGED <<sbatch, spos>>
        BY <4>2 DEF StreamTypeOK
      <4> QED
        BY <3>1, <4>1, <4>2, Zenon
    <3>3. unconsumed' \in [Streams -> BOOLEAN]
      BY <1>13, Zenon DEF InitStream, StreamTypeOK
    <3> QED
      BY <1>13, <3>2, <3>3, Zenon DEF InitStream, StreamTypeOK
  <2>3. HeapTypeOK'
    BY <1>13, EventType, Zenon DEF InitStream, HeapTypeOK, StreamTypeOK, StreamNext
  <2>4. CallTypeOK'
    BY <1>13, Zenon DEF InitStream, CallTypeOK, InitDone, targetVars, callerVars
  <2> QED
    BY <2>1, <2>2, <2>3, <2>4, Keep, Zenon DEF TypeOK, sortVars
<1>14. ASSUME NEW s \in Streams, InitStreamStop(s) PROVE TypeOK'
  <2>1. UNCHANGED <<kernelVars, ringVars, mmapVars, heapVars, streamVars, seenVars>>
    BY <1>14, Zenon DEF InitStreamStop, kernelVars, ringKernelVars, streamVars, userVars, ringVars,
       mmapVars, heapVars, sortVars, targetVars, callVars, callerVars, seenVars
  <2>2. SortTypeOK'
    BY <1>14 DEF InitStreamStop, SortTypeOK, Reasons, sortVars
  <2>3. CallTypeOK'
    BY <1>14, Zenon DEF InitStreamStop, CallTypeOK, targetVars, callerVars
  <2> QED
    BY <2>1, <2>2, <2>3, Keep, Zenon DEF TypeOK, sortVars
<1>15. ASSUME NEW s \in Streams, SortStream(s) PROVE TypeOK'
  <2>1. UNCHANGED <<kernelVars, ringVars, mmapVars, seenVars>>
    BY <1>15, Zenon DEF SortStream, kernelVars, ringKernelVars, streamVars, userVars, ringVars,
       mmapVars, heapVars, sortVars, targetVars, callVars, callerVars, seenVars
  <2>2. StreamTypeOK'
    <3>1. UNCHANGED <<sbatch, spos>> \/ StreamNext(s, FALSE)
      BY <1>15, Zenon DEF SortStream
    <3>2. sbatch' \in [Streams -> Nat] /\ spos' \in [Streams -> Nat]
      <4>1. CASE StreamNext(s, FALSE)
        <5>1. BatchEnd(s, FALSE) \in Nat
          BY <4>1, EventType, Zenon DEF StreamNext
        <5>2. spos[s] + 1 \in Nat /\ sbatch \in [Streams -> Nat] /\ spos \in [Streams -> Nat]
          BY DEF StreamTypeOK
        <5>3. /\ sbatch' = [sbatch EXCEPT ![s] = BatchEnd(s, FALSE)]
              /\ spos' = [spos EXCEPT ![s] = spos[s] + 1]
          BY <4>1 DEF StreamNext
        <5> QED
          BY <5>1, <5>2, <5>3, Zenon
      <4>2. CASE UNCHANGED <<sbatch, spos>>
        BY <4>2 DEF StreamTypeOK
      <4> QED
        BY <3>1, <4>1, <4>2, Zenon
    <3>3. unconsumed' \in [Streams -> BOOLEAN]
      BY <1>15, Zenon DEF SortStream, StreamTypeOK
    <3> QED
      BY <1>15, <3>2, <3>3, Zenon DEF SortStream, StreamTypeOK
  <2>3. HeapTypeOK'
    BY <1>15, EventType, Zenon DEF SortStream, HeapTypeOK, StreamTypeOK, StreamNext
  <2>4. SortTypeOK'
    BY <1>15, Zenon DEF SortStream, SortTypeOK, HeapTypeOK, CallTypeOK, Pop, Peek, Max2, Reasons
  <2>5. CallTypeOK'
    BY <1>15, Zenon DEF SortStream, CallTypeOK, targetVars, callerVars
  <2> QED
    BY <2>1, <2>2, <2>3, <2>4, <2>5, Keep, Zenon DEF TypeOK, sortVars
<1>16. ASSUME NEW m \in Maps, InitEmpty(m) PROVE TypeOK'
  <2>1. UNCHANGED <<kernelVars, mmapVars, heapVars, streamVars, sortVars, break_reason, fixed_events, seenVars>>
    BY <1>16, Zenon DEF InitEmpty, InitOn, kernelVars, ringKernelVars, streamVars, userVars, ringVars,
       mmapVars, heapVars, sortVars, targetVars, callVars, callerVars, seenVars
  <2>2. RingTypeOK'
    BY <1>16, Zenon DEF InitEmpty, RingTypeOK, KernelTypeOK, InitOn, head
  <2>3. CallTypeOK'
    BY <1>16, Zenon DEF InitEmpty, CallTypeOK, InitOn, InitDone, targetVars, callerVars
  <2> QED
    BY <2>1, <2>2, <2>3, Keep, Zenon DEF TypeOK, sortVars
<1>17. ASSUME NEW m \in Maps, InitRecord(m) PROVE TypeOK'
  <2>1. UNCHANGED <<kernelVars, mmapVars, heapVars, streamVars, sortVars, break_reason, fixed_events>>
    BY <1>17, Zenon DEF InitRecord, InitOn, kernelVars, ringKernelVars, streamVars, userVars, ringVars,
       mmapVars, heapVars, sortVars, targetVars, callVars, callerVars, seenVars
  <2>2. RingTypeOK'
    BY <1>17, SMTT(60) DEF InitRecord, RingTypeOK, KernelTypeOK, InitOn, head
  <2>3. CallTypeOK'
    BY <1>17, NextType, Zenon DEF InitRecord, CallTypeOK, KernelTypeOK, InitOn, targetVars, callerVars
  <2>4. SeenTypeOK'
    <3>1. start[m] + 1 \in Nat
      BY SMTT(60) DEF RingTypeOK
    <3>2. \/ UNCHANGED delivered
          \/ delivered' = [delivered EXCEPT ![m] = Append(@, start[m] + 1)]
      BY <1>17, Zenon DEF InitRecord
    <3>3. delivered' \in [Maps -> Seq(Nat)]
      <4>1. [delivered EXCEPT ![m] = Append(@, start[m] + 1)] \in [Maps -> Seq(Nat)]
        BY <3>1, DeliverType, Zenon
      <4> QED
        BY <3>2, <4>1, Zenon DEF SeenTypeOK
    <3> QED
      BY <1>17, <3>3, Zenon DEF InitRecord, SeenTypeOK
  <2> QED
    BY <2>1, <2>2, <2>3, <2>4, Keep, Zenon DEF TypeOK, sortVars
<1>18. ASSUME NEW m \in Maps, InitSample(m) PROVE TypeOK'
  <2>1. UNCHANGED <<kernelVars, mmapVars, streamVars>>
    BY <1>18, Zenon DEF InitSample, InitOn, kernelVars, ringKernelVars, streamVars, userVars, ringVars,
       mmapVars, heapVars, sortVars, targetVars, callVars, callerVars, seenVars
  <2>2. RingTypeOK'
    BY <1>18, SMTT(60) DEF InitSample, RingTypeOK, KernelTypeOK, InitOn, head
  <2>3. HeapTypeOK'
    BY <1>18, NextType, Zenon DEF InitSample, HeapTypeOK, SortTypeOK, InitOn, InitTime, Max2
  <2>4. SortTypeOK'
    BY <1>18, Zenon DEF InitSample, SortTypeOK, InitOn, sortVars
  <2>5. CallTypeOK'
    BY <1>18, Zenon DEF InitSample, CallTypeOK, InitOn, InitDone, Report, targetVars, callerVars
  <2>6. SeenTypeOK'
    <3>1. start[m] < head(m) /\ UNCHANGED delivered
          /\ reports' = Reported(m, InitTime(Next1(m).time))
      BY <1>18, Zenon DEF InitSample, Report
    <3>2. InitTime(Next1(m).time) \in Nat
      BY <3>1, NextType, Zenon DEF InitTime, Max2, TypeOK, SortTypeOK
    <3> QED
      BY <3>1, <3>2, ReportType, Zenon DEF TypeOK, SeenTypeOK
  <2> QED
    BY <2>1, <2>2, <2>3, <2>4, <2>5, <2>6, Keep, Zenon DEF TypeOK, sortVars
<1>19. ASSUME NEW m \in Maps, SortTargetTime(m) PROVE TypeOK'
  <2>1. UNCHANGED <<kernelVars, ringVars, heapVars, streamVars, seenVars>>
    BY <1>19, Zenon DEF SortTargetTime, Break, kernelVars, ringKernelVars, streamVars, userVars, ringVars,
       mmapVars, heapVars, sortVars, targetVars, callVars, callerVars, seenVars
  <2>2. SortTypeOK'
    BY <1>19, Zenon DEF SortTargetTime, SortTypeOK, Break, Reasons, sortVars
  <2>3. CallTypeOK'
    BY <1>19, Zenon DEF SortTargetTime, CallTypeOK, Break, targetVars, callerVars
  <2>4. MmapTypeOK'
    BY <1>19, Zenon DEF SortTargetTime, MmapTypeOK, Break
  <2> QED
    BY <2>1, <2>2, <2>3, <2>4, Keep, Zenon DEF TypeOK, sortVars
<1>20. ASSUME NEW m \in Maps, SortLostWait(m) PROVE TypeOK'
  <2>1. UNCHANGED <<kernelVars, ringVars, heapVars, streamVars, seenVars>>
    BY <1>20, Zenon DEF SortLostWait, Break, kernelVars, ringKernelVars, streamVars, userVars, ringVars,
       mmapVars, heapVars, sortVars, targetVars, callVars, callerVars, seenVars
  <2>2. SortTypeOK'
    BY <1>20, Zenon DEF SortLostWait, SortTypeOK, Break, Reasons, sortVars
  <2>3. CallTypeOK'
    BY <1>20, Zenon DEF SortLostWait, CallTypeOK, Break, targetVars, callerVars
  <2>4. MmapTypeOK'
    BY <1>20, Zenon DEF SortLostWait, MmapTypeOK, Break
  <2> QED
    BY <2>1, <2>2, <2>3, <2>4, Keep DEF TypeOK, sortVars
<1>21. ASSUME NEW m \in Maps, SortMap(m) PROVE TypeOK'
  <2>1. UNCHANGED <<kernelVars, ringVars, streamVars>>
    BY <1>21, Zenon DEF SortMap, kernelVars, ringKernelVars, streamVars, userVars, ringVars,
       mmapVars, heapVars, sortVars, targetVars, callVars, callerVars, seenVars
  <2>2. MmapTypeOK'
    <3>1. Predict(m) \in Int
      BY SMTT(60) DEF Predict, MmapTypeOK, RingTypeOK
    <3>2. MonoTime(m) \in Nat
      BY Zenon DEF MonoTime, Max2, MmapTypeOK, HeapTypeOK
    <3> QED
      BY <1>21, <3>1, <3>2, Zenon DEF SortMap, MmapTypeOK
  <2>3. HeapTypeOK'
    BY <1>21, Zenon DEF SortMap, HeapTypeOK, MmapTypeOK, MonoTime, Max2
  <2>4. SortTypeOK'
    BY <1>21, Zenon DEF SortMap, SortTypeOK, HeapTypeOK, MmapTypeOK, Pop, MonoTime, Max2
  <2>5. CallTypeOK'
    BY <1>21, Zenon DEF SortMap, CallTypeOK, targetVars, callerVars
  <2>6. SeenTypeOK'
    BY <1>21, DeliverType, Zenon DEF SortMap, SeenTypeOK, RingTypeOK
  <2> QED
    BY <2>1, <2>2, <2>3, <2>4, <2>5, <2>6, Keep, Zenon DEF TypeOK, sortVars
<1>22. ASSUME NEW m \in Maps, ConsumeMap(m) PROVE TypeOK'
  <2>1. UNCHANGED <<kernelVars, mmapVars, heapVars, streamVars, seenVars>>
    BY <1>22, Zenon DEF ConsumeMap, kernelVars, ringKernelVars, streamVars, userVars, ringVars,
       mmapVars, heapVars, sortVars, targetVars, callVars, callerVars, seenVars
  <2>2. RingTypeOK'
    BY <1>22, Zenon DEF ConsumeMap, RingTypeOK, Release
  <2>3. SortTypeOK'
    BY <1>22, Zenon DEF ConsumeMap, SortTypeOK, Reasons, sortVars
  <2>4. CallTypeOK'
    BY <1>22, Zenon DEF ConsumeMap, CallTypeOK, targetVars, callerVars
  <2> QED
    BY <2>1, <2>2, <2>3, <2>4, Keep, Zenon DEF TypeOK, sortVars
<1>23. ASSUME NEW m \in Maps, ReadEmpty(m) PROVE TypeOK'
  <2>1. UNCHANGED <<kernelVars, mmapVars, streamVars, seenVars>>
    BY <1>23, Zenon DEF ReadEmpty, ReadOn, kernelVars, ringKernelVars, streamVars, userVars, ringVars,
       mmapVars, heapVars, sortVars, targetVars, callVars, callerVars, seenVars
  <2>2. RingTypeOK'
    BY <1>23, Zenon DEF ReadEmpty, RingTypeOK, KernelTypeOK, ReadOn, head
  <2>3. HeapTypeOK'
    BY <1>23, Zenon DEF ReadEmpty, HeapTypeOK
  <2>4. SortTypeOK'
    BY <1>23, Zenon DEF ReadEmpty, SortTypeOK, ReadOn, sortVars
  <2>5. CallTypeOK'
    BY <1>23, Zenon DEF ReadEmpty, CallTypeOK, ReadOn, TurnDone, targetVars, callerVars
  <2> QED
    BY <2>1, <2>2, <2>3, <2>4, <2>5, Keep, Zenon DEF TypeOK, sortVars
<1>24. ASSUME NEW m \in Maps, ReadRecord(m) PROVE TypeOK'
  <2>1. UNCHANGED <<kernelVars, mmapVars, heapVars, streamVars>>
    BY <1>24, Zenon DEF ReadRecord, ReadOn, kernelVars, ringKernelVars, streamVars, userVars, ringVars,
       mmapVars, heapVars, sortVars, targetVars, callVars, callerVars, seenVars
  <2>2. RingTypeOK'
    <3>1. /\ start' = [start EXCEPT ![m] = start[m] + 1]
          /\ end' = [end EXCEPT ![m] = head(m)]
          /\ UNCHANGED tail
      BY <1>24, Zenon DEF ReadRecord, ReadOn
    <3> QED
      BY <3>1, HeadType, SMTT(60) DEF RingTypeOK
  <2>3. SortTypeOK'
    BY <1>24, Zenon DEF ReadRecord, SortTypeOK, ReadOn, sortVars
  <2>4. CallTypeOK'
    BY <1>24, NextType, Zenon DEF ReadRecord, CallTypeOK, ReadOn, targetVars, callerVars
  <2>5. SeenTypeOK'
    <3>1. start[m] + 1 \in Nat
      BY DEF RingTypeOK
    <3>2. \/ UNCHANGED delivered
          \/ delivered' = [delivered EXCEPT ![m] = Append(@, start[m] + 1)]
      BY <1>24, Zenon DEF ReadRecord
    <3>3. delivered' \in [Maps -> Seq(Nat)]
      <4>1. [delivered EXCEPT ![m] = Append(@, start[m] + 1)] \in [Maps -> Seq(Nat)]
        BY <3>1, DeliverType
      <4> QED
        BY <3>2, <4>1, Zenon DEF SeenTypeOK
    <3> QED
      BY <1>24, <3>3, Zenon DEF ReadRecord, SeenTypeOK
  <2> QED
    BY <2>1, <2>2, <2>3, <2>4, <2>5, Keep, Zenon DEF TypeOK, sortVars
<1>25. ASSUME NEW m \in Maps, ReadSample(m) PROVE TypeOK'
  <2>1. UNCHANGED <<kernelVars, mmapVars, streamVars>>
    BY <1>25, Zenon DEF ReadSample, ReadOn, kernelVars, ringKernelVars, streamVars, userVars, ringVars,
       mmapVars, heapVars, sortVars, targetVars, callVars, callerVars, seenVars
  <2>2. RingTypeOK'
    <3>1. /\ start' = [start EXCEPT ![m] = start[m] + 1]
          /\ end' = [end EXCEPT ![m] = head(m)]
          /\ UNCHANGED tail
      BY <1>25, Zenon DEF ReadSample, ReadOn
    <3> QED
      BY <3>1, HeadType DEF RingTypeOK
  <2>3. HeapTypeOK'
    BY <1>25, NextType, Zenon DEF ReadSample, HeapTypeOK
  <2>4. SortTypeOK'
    BY <1>25, Zenon DEF ReadSample, SortTypeOK, MmapTypeOK, ReadOn, sortVars, Max2
  <2>5. CallTypeOK'
    BY <1>25, Zenon DEF ReadSample, CallTypeOK, ReadOn, TurnDone, Report, targetVars, callerVars
  <2>6. SeenTypeOK'
    BY <1>25, NextType, ReportType, Zenon DEF ReadSample, SeenTypeOK, Report
  <2> QED
    BY <2>1, <2>2, <2>3, <2>4, <2>5, <2>6, Keep DEF TypeOK, sortVars
<1>26. ASSUME SortEmpty PROVE TypeOK'
  <2>1. UNCHANGED <<kernelVars, ringVars, heapVars, streamVars, seenVars>>
    BY <1>26, Zenon DEF SortEmpty, Break, kernelVars, ringKernelVars, streamVars, userVars, ringVars,
       mmapVars, heapVars, sortVars, targetVars, callVars, callerVars, seenVars
  <2>2. SortTypeOK'
    BY <1>26, Zenon DEF SortEmpty, SortTypeOK, Break, Reasons, sortVars
  <2>3. CallTypeOK'
    BY <1>26, Zenon DEF SortEmpty, CallTypeOK, Break, targetVars, callerVars
  <2>4. MmapTypeOK'
    BY <1>26, Zenon DEF SortEmpty, MmapTypeOK, Break
  <2> QED
    BY <2>1, <2>2, <2>3, <2>4, Keep, Zenon DEF TypeOK, sortVars
<1>27. ASSUME Unwind PROVE TypeOK'
  <2>1. UNCHANGED <<kernelVars, mmapVars, sortVars, break_reason, fixed_events, seenVars>>
    BY <1>27, Zenon DEF Unwind, kernelVars, ringKernelVars, streamVars, userVars, ringVars,
       mmapVars, heapVars, sortVars, targetVars, callVars, callerVars, seenVars
  <2>2. RingTypeOK'
    BY <1>27, SMTT(60) DEF Unwind, RingTypeOK, HeapTypeOK, Unread, UnwindTail, Control, HeapRead
  <2>3. StreamTypeOK'
    BY <1>27, Zenon DEF Unwind, StreamTypeOK
  <2>4. HeapTypeOK'
    BY <1>27, Zenon DEF Unwind, HeapTypeOK
  <2>5. CallTypeOK'
    BY <1>27, Zenon DEF Unwind, Announce, CallTypeOK, NoTime, targetVars, callerVars
  <2> QED
    BY <2>1, <2>2, <2>3, <2>4, <2>5, Keep, Zenon DEF TypeOK, sortVars
<1> QED
  BY <1>1, <1>2, <1>3, <1>4, <1>5, <1>6, <1>7, <1>8, <1>9, <1>10, <1>11,
     <1>12, <1>13, <1>14, <1>15, <1>16, <1>17, <1>18, <1>19, <1>20, <1>21,
     <1>22, <1>23, <1>24, <1>25, <1>26, <1>27, <1>28, Zenon DEF Next, Kernel, Call, Step
=============================================================================
