---------------------------- MODULE OrderSpace -----------------------------
(***************************************************************************)
(* The steps of Order keep Control, and release no record that is not      *)
(* processed.                                                              *)
(***************************************************************************)
EXTENDS OrderTypes

LEMMA NextBatch ==
  ASSUME TypeOK, Control, NEW s \in Streams, NEW init \in BOOLEAN,
         StreamNext(s, init), UNCHANGED slog
  PROVE  BatchBound'
<1> SUFFICES ASSUME NEW r \in Streams
             PROVE  spos'[r] <= sbatch'[r] /\ sbatch'[r] <= Len(slog[r])
  BY DEF BatchBound
<1>1. /\ spos[r] \in Nat /\ sbatch[r] \in Nat /\ Len(slog[r]) \in Nat
      /\ spos[r] <= sbatch[r] /\ sbatch[r] <= Len(slog[r])
  BY DEF TypeOK, StreamTypeOK, Control, BatchBound
<1>2. CASE r # s
  BY <1>1, <1>2 DEF StreamNext, TypeOK, StreamTypeOK
<1>3. CASE r = s
  <2>1. spos'[s] = spos[s] + 1 /\ sbatch'[s] = BatchEnd(s, init)
    BY DEF StreamNext, TypeOK, StreamTypeOK
  <2>2. spos[s] < BatchEnd(s, init)
    BY DEF StreamNext
  <2> QED
    BY <1>1, <1>3, <2>1, <2>2 DEF BatchEnd
<1> QED
  BY <1>2, <1>3

LEMMA ControlStep ==
  ASSUME TypeOK, Control, Next
  PROVE  Control'
<1> USE OrderAssumption DEF TypeOK, Control, Queues
<1>0. ASSUME UNCHANGED <<pc, todo, cur, heap, start, spos, sbatch, slog>> PROVE Control'
  BY <1>0 DEF Phases, HeapRead, BatchBound
<1>1. ASSUME NEW m \in Maps, KernelSample(m) PROVE Control'
  BY <1>0, <1>1 DEF KernelSample,
         kernelVars, ringKernelVars, streamVars, userVars, ringVars, mmapVars,
         heapVars, sortVars, targetVars, callVars, callerVars, seenVars
<1>2. ASSUME NEW m \in Maps, KernelSampleBegin(m) PROVE Control'
  BY <1>0, <1>2 DEF KernelSampleBegin,
         kernelVars, ringKernelVars, streamVars, userVars, ringVars, mmapVars,
         heapVars, sortVars, targetVars, callVars, callerVars, seenVars
<1>3. ASSUME NEW m \in Maps, KernelSampleEnd(m) PROVE Control'
  BY <1>0, <1>3 DEF KernelSampleEnd,
         kernelVars, ringKernelVars, streamVars, userVars, ringVars, mmapVars,
         heapVars, sortVars, targetVars, callVars, callerVars, seenVars
<1>4. ASSUME NEW m \in Maps, KernelOther(m) PROVE Control'
  BY <1>0, <1>4 DEF KernelOther,
         kernelVars, ringKernelVars, streamVars, userVars, ringVars, mmapVars,
         heapVars, sortVars, targetVars, callVars, callerVars, seenVars
<1>5. ASSUME KernelTick PROVE Control'
  BY <1>0, <1>5 DEF KernelTick,
         kernelVars, ringKernelVars, streamVars, userVars, ringVars, mmapVars,
         heapVars, sortVars, targetVars, callVars, callerVars, seenVars
<1>6. ASSUME NEW s \in Streams, NEW t \in 0 .. clock, StreamArrive(s, t) PROVE Control'
  <2>1. Phases'
    BY <1>6 DEF StreamArrive, Phases, kernelVars, ringKernelVars, streamVars, userVars, ringVars, mmapVars,
         heapVars, sortVars, targetVars, callVars, callerVars, seenVars
  <2>2. HeapRead'
    BY <1>6 DEF StreamArrive, HeapRead, kernelVars, ringKernelVars, streamVars, userVars, ringVars, mmapVars,
         heapVars, sortVars, targetVars, callVars, callerVars, seenVars
  <2>3. BatchBound'
    BY <1>6 DEF StreamArrive, BatchBound, StreamTypeOK
  <2> QED
    BY <2>1, <2>2, <2>3
<1>7. ASSUME NEW m \in Maps, OrderMmap(m) \/ FlushMap(m) \/ EmptyMmap(m) PROVE Control'
  <2>1. /\ UNCHANGED <<heap, spos, sbatch, slog>> /\ heap = {}
        /\ (pc' = "entry" /\ cur' = m) \/ pc' = "idle"
    BY <1>7, Zenon DEF OrderMmap, FlushMap, EmptyMmap, Enter, Phases, heapVars, streamVars
  <2>2. Phases' /\ HeapRead'
    BY <2>1, Zenon DEF Phases, HeapRead
  <2>3. BatchBound'
    BY <2>1, Zenon DEF BatchBound
  <2> QED
    BY <2>2, <2>3
<1>8. ASSUME NEW m \in Maps, BeginMmap(m) PROVE Control'
  <2>1. Phases'
    BY <1>8, Zenon DEF BeginMmap, Phases, Begin
  <2>2. HeapRead'
    BY <1>8, Zenon DEF BeginMmap, HeapRead, Begin
  <2>3. BatchBound'
    BY <1>8, Zenon DEF BeginMmap, BatchBound, Begin, streamVars
  <2> QED
    BY <2>1, <2>2, <2>3
<1>9. ASSUME OrderStream PROVE Control'
  <2>1. Phases'
    BY <1>9 DEF OrderStream, Phases, Begin
  <2>2. HeapRead'
    BY <1>9 DEF OrderStream, HeapRead, Begin
  <2>3. BatchBound'
    BY <1>9 DEF OrderStream, BatchBound, Begin, streamVars
  <2> QED
    BY <2>1, <2>2, <2>3
<1>10. ASSUME OrderTo PROVE Control'
  <2>1. Phases'
    BY <1>10 DEF OrderTo, Phases, Begin
  <2>2. HeapRead'
    BY <1>10 DEF OrderTo, HeapRead, Begin
  <2>3. BatchBound'
    BY <1>10 DEF OrderTo, BatchBound, Begin, streamVars
  <2> QED
    BY <2>1, <2>2, <2>3
<1>11. ASSUME StaleTick PROVE Control'
  BY <1>0, <1>11 DEF StaleTick,
         kernelVars, ringKernelVars, streamVars, userVars, ringVars, mmapVars,
         heapVars, sortVars, targetVars, callVars, callerVars, seenVars
<1>12. ASSUME Disable PROVE Control'
  BY <1>0, <1>12 DEF Disable,
         kernelVars, ringKernelVars, streamVars, userVars, ringVars, mmapVars,
         heapVars, sortVars, targetVars, callVars, callerVars, seenVars
<1>13. ASSUME NEW s \in Streams, InitStream(s) PROVE Control'
  <2>1. Phases'
    BY <1>13 DEF InitStream, Phases, InitDone, HeapTypeOK
  <2>2. HeapRead'
    BY <1>13 DEF InitStream, HeapRead, ringVars
  <2>3. BatchBound'
    <3>1. CASE StreamNext(s, TRUE)
      BY <1>13, <3>1, NextBatch, Zenon DEF InitStream
    <3>2. CASE UNCHANGED <<sbatch, spos>>
      BY <1>13, <3>2 DEF InitStream, BatchBound
    <3> QED
      BY <1>13, <3>1, <3>2, Zenon DEF InitStream
  <2> QED
    BY <2>1, <2>2, <2>3
<1>14. ASSUME NEW s \in Streams, InitStreamStop(s) PROVE Control'
  <2>1. Phases'
    BY <1>14 DEF InitStreamStop, Phases, HeapTypeOK, heapVars
  <2>2. HeapRead'
    BY <1>14 DEF InitStreamStop, HeapRead, ringVars, heapVars
  <2>3. BatchBound'
    BY <1>14 DEF InitStreamStop, BatchBound, streamVars
  <2> QED
    BY <2>1, <2>2, <2>3
<1>15. ASSUME NEW s \in Streams, SortStream(s) PROVE Control'
  <2>1. Phases'
    BY <1>15, Zenon DEF SortStream, Phases, Peek, HeapTypeOK, CallTypeOK
  <2>2. HeapRead'
    BY <1>15, Zenon DEF SortStream, HeapRead, ringVars
  <2>3. BatchBound'
    <3>1. CASE StreamNext(s, FALSE)
      BY <1>15, <3>1, NextBatch, Zenon DEF SortStream
    <3>2. CASE UNCHANGED <<sbatch, spos>>
      BY <1>15, <3>2 DEF SortStream, BatchBound
    <3> QED
      BY <1>15, <3>1, <3>2, Zenon DEF SortStream
  <2> QED
    BY <2>1, <2>2, <2>3
<1>16. ASSUME NEW m \in Maps, InitEmpty(m) PROVE Control'
  <2>1. Phases'
    BY <1>16, Zenon DEF InitEmpty, Phases, InitOn, InitDone, HeapTypeOK, heapVars
  <2>2. HeapRead'
    BY <1>16, Zenon DEF InitEmpty, HeapRead, heapVars
  <2>3. BatchBound'
    BY <1>16, Zenon DEF InitEmpty, BatchBound, InitOn, streamVars
  <2> QED
    BY <2>1, <2>2, <2>3
<1>17. ASSUME NEW m \in Maps, InitRecord(m) PROVE Control'
  <2>1. Phases'
    BY <1>17, Zenon DEF InitRecord, Phases, InitOn, heapVars
  <2>2. HeapRead'
    BY <1>17, SMTT(60) DEF InitRecord, HeapRead, heapVars, RingTypeOK
  <2>3. BatchBound'
    BY <1>17, Zenon DEF InitRecord, BatchBound, InitOn, streamVars
  <2> QED
    BY <2>1, <2>2, <2>3
<1>18. ASSUME NEW m \in Maps, InitSample(m) PROVE Control'
  <2>1. Phases'
    BY <1>18, Zenon DEF InitSample, Phases, InitOn, InitDone, HeapTypeOK
  <2>2. HeapRead'
    BY <1>18, SMTT(60) DEF InitSample, HeapRead, RingTypeOK
  <2>3. BatchBound'
    BY <1>18, Zenon DEF InitSample, BatchBound, InitOn, streamVars
  <2> QED
    BY <2>1, <2>2, <2>3
<1>19. ASSUME NEW m \in Maps, SortTargetTime(m) PROVE Control'
  <2>1. Phases'
    BY <1>19 DEF SortTargetTime, Phases, Peek, Break, heapVars
  <2>2. HeapRead'
    BY <1>19 DEF SortTargetTime, HeapRead, Break, heapVars, ringVars
  <2>3. BatchBound'
    BY <1>19 DEF SortTargetTime, BatchBound, Break, streamVars
  <2> QED
    BY <2>1, <2>2, <2>3
<1>20. ASSUME NEW m \in Maps, SortLostWait(m) PROVE Control'
  <2>1. Phases'
    BY <1>20 DEF SortLostWait, Phases, Peek, Break, heapVars
  <2>2. HeapRead'
    BY <1>20 DEF SortLostWait, HeapRead, Break, heapVars, ringVars
  <2>3. BatchBound'
    BY <1>20 DEF SortLostWait, BatchBound, Break, streamVars
  <2> QED
    BY <2>1, <2>2, <2>3
<1>21. ASSUME NEW m \in Maps, SortMap(m) PROVE Control'
  <2>1. Phases'
    BY <1>21, Zenon DEF SortMap, Phases, Peek
  <2>2. HeapRead'
    BY <1>21, Zenon DEF SortMap, HeapRead, ringVars
  <2>3. BatchBound'
    BY <1>21, Zenon DEF SortMap, BatchBound, streamVars
  <2> QED
    BY <2>1, <2>2, <2>3
<1>22. ASSUME NEW m \in Maps, ConsumeMap(m) PROVE Control'
  <2>1. Phases'
    BY <1>22, Zenon DEF ConsumeMap, Phases, heapVars
  <2>2. HeapRead'
    BY <1>22 DEF ConsumeMap, HeapRead, heapVars
  <2>3. BatchBound'
    BY <1>22 DEF ConsumeMap, BatchBound, streamVars
  <2> QED
    BY <2>1, <2>2, <2>3
<1>23. ASSUME NEW m \in Maps, ReadEmpty(m) PROVE Control'
  <2>1. Phases'
    BY <1>23, Zenon DEF ReadEmpty, Phases, ReadOn, TurnDone, HeapTypeOK
  <2>2. HeapRead'
    BY <1>23 DEF ReadEmpty, HeapRead
  <2>3. BatchBound'
    BY <1>23 DEF ReadEmpty, BatchBound, ReadOn, streamVars
  <2> QED
    BY <2>1, <2>2, <2>3
<1>24. ASSUME NEW m \in Maps, ReadRecord(m) PROVE Control'
  <2>1. Phases'
    BY <1>24, Zenon DEF ReadRecord, Phases, ReadOn, heapVars
  <2>2. HeapRead'
    BY <1>24, SMTT(60) DEF ReadRecord, HeapRead, heapVars, RingTypeOK
  <2>3. BatchBound'
    BY <1>24, Zenon DEF ReadRecord, BatchBound, ReadOn, streamVars
  <2> QED
    BY <2>1, <2>2, <2>3
<1>25. ASSUME NEW m \in Maps, ReadSample(m) PROVE Control'
  <2>1. Phases'
    BY <1>25, Zenon DEF ReadSample, Phases, ReadOn, TurnDone, HeapTypeOK
  <2>2. HeapRead'
    BY <1>25, SMTT(60) DEF ReadSample, HeapRead, RingTypeOK
  <2>3. BatchBound'
    BY <1>25, Zenon DEF ReadSample, BatchBound, ReadOn, streamVars
  <2> QED
    BY <2>1, <2>2, <2>3
<1>26. ASSUME SortEmpty PROVE Control'
  <2>1. Phases'
    BY <1>26, Zenon DEF SortEmpty, Phases, Break, heapVars
  <2>2. HeapRead'
    BY <1>26, Zenon DEF SortEmpty, HeapRead, Break, heapVars, ringVars
  <2>3. BatchBound'
    BY <1>26 DEF SortEmpty, BatchBound, Break, streamVars
  <2> QED
    BY <2>1, <2>2, <2>3
<1>27. ASSUME Unwind PROVE Control'
  <2>1. Phases'
    BY <1>27, Zenon DEF Unwind, Phases
  <2>2. HeapRead'
    BY <1>27, Zenon DEF Unwind, HeapRead
  <2>3. BatchBound'
    BY <1>27, Zenon DEF Unwind, BatchBound
  <2> QED
    BY <2>1, <2>2, <2>3
<1> QED
  BY <1>1, <1>2, <1>3, <1>4, <1>5, <1>6, <1>7, <1>8, <1>9, <1>10, <1>11,
     <1>12, <1>13, <1>14, <1>15, <1>16, <1>17, <1>18, <1>19, <1>20, <1>21,
     <1>22, <1>23, <1>24, <1>25, <1>26, <1>27, Zenon DEF Next, Kernel, Call, Step
-----------------------------------------------------------------------------
LEMMA ModNegative ==
  ASSUME NEW R \in Nat \ {0}, NEW a \in Int, -R <= a, a < 0
  PROVE  a % R = a + R
<1>1. a = R * (a \div R) + (a % R) /\ a % R \in 0 .. R - 1 /\ a \div R \in Int
  OBVIOUS
<1>2. a \div R = -1
  <2> DEFINE q == a \div R
  <2> HIDE DEF q
  <2> SUFFICES q = -1
    BY DEF q
  <2>1. q \in Int /\ R * q <= a /\ a < R * q + R
    BY <1>1 DEF q
  <2>2. CASE q >= 0
    <3>1. R * q >= 0
      BY <2>1, <2>2
    <3> QED
      BY <2>1, <3>1
  <2>3. CASE q <= -2
    <3>1. R * (q + 2) <= 0 /\ R * (q + 2) = R * q + 2 * R
      BY <2>1, <2>3
    <3> QED
      BY <2>1, <3>1
  <2> QED
    BY <2>1, <2>2, <2>3
<1> QED
  BY <1>1, <1>2

\* CIRC_SPACE() is the free space of a ring buffer that is not overfull.
LEMMA CircSpace ==
  ASSUME NEW h \in Nat, NEW t \in Nat, t <= h, h - t < RingSize
  PROVE  CIRC_SPACE(h, t, RingSize) = RingSize - 1 - (h - t)
<1> DEFINE a == t - (h + 1)
<1>1. RingSize \in Nat \ {0}
  BY OrderAssumption
<1>2. a \in Int /\ -RingSize <= a /\ a < 0
  BY <1>1
<1>3. a % RingSize = a + RingSize
  BY <1>1, <1>2, ModNegative
<1> QED
  BY <1>1, <1>3 DEF CIRC_SPACE

\* The kernel writes into free space only.
LEMMA OutputSpace ==
  ASSUME TypeOK, SpaceSafe, NEW m \in Maps, NEW rec \in Record, NEW t,
         Output(m, rec, t), UNCHANGED <<tail, start, heap, cur>>
  PROVE  SpaceSafe'
<1>1. ASSUME NEW k \in Maps
      PROVE  /\ Len(rb[k]) \in Nat /\ tail[k] \in Nat /\ Processed(k) \in Int
             /\ start[k] \in Nat /\ Processed(k) <= start[k]
             /\ tail[k] <= Processed(k) /\ start[k] <= Len(rb[k])
             /\ Len(rb[k]) - tail[k] < RingSize
  BY SMTT(60) DEF TypeOK, KernelTypeOK, RingTypeOK, SpaceSafe, Processed, head
<1>2. ASSUME NEW k \in Maps
      PROVE  Len(rb'[k]) >= Len(rb[k]) /\ Len(rb'[k]) - tail[k] < RingSize
             /\ Len(rb'[k]) \in Nat
  <2> DEFINE recs == IF klost[m] = {} THEN <<rec>> ELSE <<Lost(klost[m]), rec>>
  <2>1. \/ UNCHANGED rb
        \/ /\ rb' = [rb EXCEPT ![m] = @ \o recs]
           /\ CIRC_SPACE(Len(rb[m]), tail[m], RingSize) >= Len(recs)
    BY Zenon DEF Output, head
  <2>2. recs \in Seq(Record)
    <3>1. Lost(klost[m]) \in Record
      BY DEF TypeOK, KernelTypeOK, Lost, Record
    <3> QED
      BY <3>1, SMTT(60)
  <2>3. rb \in [Maps -> Seq(Record)]
    BY DEF TypeOK, KernelTypeOK
  <2> HIDE DEF recs
  <2>4. CASE UNCHANGED rb \/ k # m
    BY <1>1, <2>1, <2>3, <2>4, SMTT(60)
  <2>5. CASE ~UNCHANGED rb /\ k = m
    <3>1. rb'[k] = rb[k] \o recs
      BY <2>1, <2>3, <2>5
    <3>2. Len(rb'[k]) = Len(rb[k]) + Len(recs) /\ Len(recs) \in Nat
      BY <2>2, <2>3, <3>1
    <3>3. CIRC_SPACE(Len(rb[k]), tail[k], RingSize) = RingSize - 1 - (Len(rb[k]) - tail[k])
      BY <1>1, CircSpace, SMTT(60)
    <3>4. RingSize - 1 - (Len(rb[k]) - tail[k]) >= Len(recs)
      BY <2>1, <2>5, <3>3
    <3>5. RingSize \in Nat /\ Len(rb[k]) \in Nat /\ tail[k] \in Nat
      BY <1>1, OrderAssumption, Zenon
    <3> HIDE DEF recs
    <3> QED
      BY <3>2, <3>4, <3>5, SMTT(60)
  <2> QED
    BY <2>4, <2>5
<1>3. ASSUME NEW k \in Maps PROVE Processed(k)' = Processed(k)
  BY DEF Processed
<1> QED
  BY <1>1, <1>2, <1>3, SMTT(60) DEF SpaceSafe, head

LEMMA SpaceStep ==
  ASSUME TypeOK, Control, SpaceSafe, Next
  PROVE  SpaceSafe'
<1> USE OrderAssumption
<1>0. ASSUME UNCHANGED <<rb, tail, start, heap, cur>> PROVE SpaceSafe'
  BY <1>0, Zenon DEF SpaceSafe, Processed, head
<1>a. ASSUME NEW m \in Maps
      PROVE  /\ tail[m] \in Nat /\ start[m] \in Nat /\ head(m) \in Nat
             /\ tail[m] <= Processed(m) /\ start[m] <= head(m)
             /\ head(m) - tail[m] < RingSize
  BY SMTT(60) DEF TypeOK, KernelTypeOK, RingTypeOK, SpaceSafe, head
<1>1. ASSUME NEW m \in Maps, KernelSample(m) PROVE SpaceSafe'
  <2>1. Output(m, Sample(clock + 1), clock + 1)
    BY <1>1, Zenon DEF KernelSample
  <2>2. Sample(clock + 1) \in Record
    <3>1. clock + 1 \in Nat
      BY SMTT(60) DEF TypeOK, KernelTypeOK
    <3> QED
      BY <3>1, RecordTypes, Zenon
  <2>3. UNCHANGED <<tail, start, heap, cur>>
    BY <1>1, Zenon DEF KernelSample, userVars, ringVars, heapVars, callVars
  <2> QED
    BY <2>1, <2>2, <2>3, OutputSpace
<1>2. ASSUME NEW m \in Maps, KernelSampleBegin(m) PROVE SpaceSafe'
  BY <1>0, <1>2, Zenon DEF KernelSampleBegin,
         kernelVars, ringKernelVars, streamVars, userVars, ringVars, mmapVars,
         heapVars, sortVars, targetVars, callVars, callerVars, seenVars
<1>3. ASSUME NEW m \in Maps, KernelSampleEnd(m) PROVE SpaceSafe'
  <2>1. Output(m, Sample(inflight[m][Len(inflight[m])]), inflight[m][Len(inflight[m])])
    BY <1>3, Zenon DEF KernelSampleEnd
  <2>2. Sample(inflight[m][Len(inflight[m])]) \in Record
    <3>1. inflight[m] \in Seq(Nat) /\ inflight[m] # <<>>
      BY <1>3, Zenon DEF KernelSampleEnd, TypeOK, KernelTypeOK
    <3>2. inflight[m][Len(inflight[m])] \in Nat
      BY <3>1, SMTT(60)
    <3> QED
      BY <3>2, RecordTypes, Zenon
  <2>3. UNCHANGED <<tail, start, heap, cur>>
    BY <1>3, Zenon DEF KernelSampleEnd, userVars, ringVars, heapVars, callVars
  <2> QED
    BY <2>1, <2>2, <2>3, OutputSpace, Zenon
<1>4. ASSUME NEW m \in Maps, KernelOther(m) PROVE SpaceSafe'
  <2>1. Output(m, Other, clock)
    BY <1>4, Zenon DEF KernelOther
  <2>2. Other \in Record
    BY RecordTypes DEF TypeOK, KernelTypeOK
  <2>3. UNCHANGED <<tail, start, heap, cur>>
    BY <1>4, Zenon DEF KernelOther, userVars, ringVars, heapVars, callVars
  <2> QED
    BY <2>1, <2>2, <2>3, OutputSpace, Zenon
<1>5. ASSUME KernelTick PROVE SpaceSafe'
  BY <1>0, <1>5, Zenon DEF KernelTick,
         kernelVars, ringKernelVars, streamVars, userVars, ringVars, mmapVars,
         heapVars, sortVars, targetVars, callVars, callerVars, seenVars
<1>6. ASSUME NEW s \in Streams, NEW t \in 0 .. clock, StreamArrive(s, t) PROVE SpaceSafe'
  BY <1>0, <1>6, Zenon DEF StreamArrive,
         kernelVars, ringKernelVars, streamVars, userVars, ringVars, mmapVars,
         heapVars, sortVars, targetVars, callVars, callerVars, seenVars
<1>b. ASSUME UNCHANGED <<rb, tail, start>>, heap = {}, heap' = {} PROVE SpaceSafe'
  BY <1>b, Zenon DEF SpaceSafe, Processed, head
<1>7. ASSUME NEW m \in Maps, OrderMmap(m) \/ FlushMap(m) \/ EmptyMmap(m) PROVE SpaceSafe'
  BY <1>b, <1>7, Zenon DEF OrderMmap, FlushMap, EmptyMmap, Enter, Control, Phases,
         kernelVars, ringKernelVars, ringVars, heapVars
<1>8. ASSUME NEW m \in Maps, BeginMmap(m) PROVE SpaceSafe'
  BY <1>b, <1>8, Zenon DEF BeginMmap, Begin, Control, Phases, ringKernelVars
<1>9. ASSUME OrderStream PROVE SpaceSafe'
  BY <1>a, <1>9, Zenon DEF OrderStream, Begin, SpaceSafe, Processed, Control, Phases, HeapRead,
         TypeOK, RingTypeOK, CallTypeOK, HeapTypeOK, Queues, head,
         kernelVars, ringKernelVars, streamVars, userVars, ringVars, mmapVars,
         heapVars, sortVars, targetVars, callVars, callerVars, seenVars
<1>10. ASSUME OrderTo PROVE SpaceSafe'
  BY <1>a, <1>10, Zenon DEF OrderTo, Begin, SpaceSafe, Processed, Control, Phases, HeapRead,
         TypeOK, RingTypeOK, CallTypeOK, HeapTypeOK, Queues, head,
         kernelVars, ringKernelVars, streamVars, userVars, ringVars, mmapVars,
         heapVars, sortVars, targetVars, callVars, callerVars, seenVars
<1>11. ASSUME StaleTick PROVE SpaceSafe'
  BY <1>0, <1>11, Zenon DEF StaleTick,
         kernelVars, ringKernelVars, streamVars, userVars, ringVars, mmapVars,
         heapVars, sortVars, targetVars, callVars, callerVars, seenVars
<1>12. ASSUME Disable PROVE SpaceSafe'
  BY <1>0, <1>12, Zenon DEF Disable,
         kernelVars, ringKernelVars, streamVars, userVars, ringVars, mmapVars,
         heapVars, sortVars, targetVars, callVars, callerVars, seenVars
<1>13. ASSUME NEW s \in Streams, InitStream(s) PROVE SpaceSafe'
  BY <1>a, <1>13, Zenon DEF InitStream, InitDone, SpaceSafe, Processed, Control, Phases, HeapRead,
         TypeOK, RingTypeOK, CallTypeOK, HeapTypeOK, Queues, head,
         kernelVars, ringKernelVars, streamVars, userVars, ringVars, mmapVars,
         heapVars, sortVars, targetVars, callVars, callerVars, seenVars
<1>14. ASSUME NEW s \in Streams, InitStreamStop(s) PROVE SpaceSafe'
  BY <1>0, <1>14, Zenon DEF InitStreamStop,
         kernelVars, ringKernelVars, streamVars, userVars, ringVars, mmapVars,
         heapVars, sortVars, targetVars, callVars, callerVars, seenVars
<1>15. ASSUME NEW s \in Streams, SortStream(s) PROVE SpaceSafe'
  BY <1>a, <1>15, Zenon DEF SortStream, Peek, SpaceSafe, Processed, Control, Phases, HeapRead,
         TypeOK, RingTypeOK, CallTypeOK, HeapTypeOK, Queues, head,
         kernelVars, ringKernelVars, streamVars, userVars, ringVars, mmapVars,
         heapVars, sortVars, targetVars, callVars, callerVars, seenVars
<1>16. ASSUME NEW m \in Maps, InitEmpty(m) PROVE SpaceSafe'
  BY <1>a, <1>16, Zenon DEF InitEmpty, InitOn, InitDone, SpaceSafe, Processed, Control, Phases, HeapRead,
         TypeOK, RingTypeOK, CallTypeOK, HeapTypeOK, Queues, head,
         kernelVars, ringKernelVars, streamVars, userVars, ringVars, mmapVars,
         heapVars, sortVars, targetVars, callVars, callerVars, seenVars
<1>17. ASSUME NEW m \in Maps, InitRecord(m) PROVE SpaceSafe'
  <2>1. /\ UNCHANGED <<rb, heap>> /\ m \notin heap /\ start[m] < head(m) /\ cur' = m
        /\ cur \notin heap
        /\ start' = [start EXCEPT ![m] = start[m] + 1]
        /\ tail' = [tail EXCEPT ![m] = start[m] + 1]
    BY <1>17, Zenon DEF InitRecord, InitOn, Control, Phases, Queues, HeapTypeOK,
           TypeOK, kernelVars, ringKernelVars, heapVars
  <2>2. ASSUME NEW k \in Maps
        PROVE  /\ tail'[k] <= Processed(k)' /\ start'[k] <= head(k)
               /\ head(k) - tail'[k] < RingSize
    BY <1>a, <2>1, SMTT(60) DEF Processed, TypeOK, RingTypeOK, Queues
  <2> QED
    BY <2>1, <2>2, Zenon DEF SpaceSafe, head
<1>18. ASSUME NEW m \in Maps, InitSample(m) PROVE SpaceSafe'
  <2>0. /\ UNCHANGED <<rb, tail>> /\ start[m] < head(m) /\ cur' = NoMap
        /\ pc = "init" /\ m \in todo
        /\ start' = [start EXCEPT ![m] = start[m] + 1]
        /\ heap' = heap \cup {m}
    BY <1>18, Zenon DEF InitSample, InitOn, InitDone, kernelVars, ringKernelVars
  <2>1. m \notin heap /\ cur \notin heap
    BY <2>0, Zenon DEF Control, Phases, HeapTypeOK, TypeOK, Queues
  <2>2. ASSUME NEW k \in Maps
        PROVE  /\ tail'[k] <= Processed(k)' /\ start'[k] <= head(k)
               /\ head(k) - tail'[k] < RingSize
    BY <1>a, <2>0, <2>1, SMTT(60) DEF Processed, TypeOK, RingTypeOK, Queues
  <2> QED
    BY <2>0, <2>1, <2>2, Zenon DEF SpaceSafe, head
<1>19. ASSUME NEW m \in Maps, SortTargetTime(m) PROVE SpaceSafe'
  BY <1>0, <1>19, Zenon DEF SortTargetTime, Break,
         kernelVars, ringKernelVars, streamVars, userVars, ringVars, mmapVars,
         heapVars, sortVars, targetVars, callVars, callerVars, seenVars
<1>20. ASSUME NEW m \in Maps, SortLostWait(m) PROVE SpaceSafe'
  BY <1>0, <1>20, Zenon DEF SortLostWait, Break,
         kernelVars, ringKernelVars, streamVars, userVars, ringVars, mmapVars,
         heapVars, sortVars, targetVars, callVars, callerVars, seenVars
<1>21. ASSUME NEW m \in Maps, SortMap(m) PROVE SpaceSafe'
  <2>1. /\ UNCHANGED <<rb, tail, start, heap>> /\ m \in heap /\ cur' = m
        /\ cur \notin heap
    BY <1>21, Zenon DEF SortMap, Peek, Control, Phases, kernelVars, ringKernelVars,
           ringVars
  <2>2. ASSUME NEW k \in Maps
        PROVE  /\ tail'[k] <= Processed(k)' /\ start'[k] <= head(k)
               /\ head(k) - tail'[k] < RingSize
    BY <1>a, <2>1, SMTT(60) DEF Processed, TypeOK, RingTypeOK, Queues
  <2> QED
    BY <2>1, <2>2, Zenon DEF SpaceSafe, head
<1>22. ASSUME NEW m \in Maps, ConsumeMap(m) PROVE SpaceSafe'
  <2>1. /\ UNCHANGED <<rb, start, heap, cur>> /\ m \in heap /\ cur = m
        /\ \/ tail' = [tail EXCEPT ![m] = start[m]]
           \/ tail' = [tail EXCEPT ![m] = tail[m]]
    BY <1>22, Zenon DEF ConsumeMap, Release, Control, Phases, kernelVars,
           ringKernelVars, heapVars
  <2>2. ASSUME NEW k \in Maps
        PROVE  /\ tail'[k] <= Processed(k)' /\ start'[k] <= head(k)
               /\ head(k) - tail'[k] < RingSize
    BY <1>a, <2>1, SMTT(60) DEF Processed, TypeOK, RingTypeOK, Queues
  <2> QED
    BY <2>1, <2>2, Zenon DEF SpaceSafe, head
<1>23. ASSUME NEW m \in Maps, ReadEmpty(m) PROVE SpaceSafe'
  <2>1. /\ UNCHANGED <<rb, tail, start>> /\ heap' = heap \ {m}
        /\ cur = m /\ cur' = NoMap
    BY <1>23, Zenon DEF ReadEmpty, ReadOn, TurnDone, kernelVars, ringKernelVars
  <2>2. ASSUME NEW k \in Maps
        PROVE  /\ tail'[k] <= Processed(k)' /\ start'[k] <= head(k)
               /\ head(k) - tail'[k] < RingSize
    BY <1>a, <2>1, Zenon DEF Processed
  <2> QED
    BY <2>1, <2>2, Zenon DEF SpaceSafe, head
<1>24. ASSUME NEW m \in Maps, ReadRecord(m) PROVE SpaceSafe'
  <2>1. /\ UNCHANGED <<rb, tail, heap, cur>> /\ m \in heap /\ cur = m /\ start[m] < head(m)
        /\ start' = [start EXCEPT ![m] = start[m] + 1]
    BY <1>24, Zenon DEF ReadRecord, ReadOn, Control, Phases, kernelVars,
           ringKernelVars, heapVars
  <2>2. ASSUME NEW k \in Maps
        PROVE  /\ tail'[k] <= Processed(k)' /\ start'[k] <= head(k)
               /\ head(k) - tail'[k] < RingSize
    BY <1>a, <2>1, SMTT(60) DEF Processed, TypeOK, RingTypeOK, Queues
  <2> QED
    BY <2>1, <2>2, Zenon DEF SpaceSafe, head
<1>25. ASSUME NEW m \in Maps, ReadSample(m) PROVE SpaceSafe'
  <2>0. /\ UNCHANGED <<rb, tail, heap>> /\ start[m] < head(m)
        /\ pc = "read" /\ cur = m /\ cur' = NoMap
        /\ start' = [start EXCEPT ![m] = start[m] + 1]
    BY <1>25, Zenon DEF ReadSample, ReadOn, TurnDone, kernelVars, ringKernelVars
  <2>1. m \in heap
    BY <2>0, Zenon DEF Control, Phases
  <2>2. ASSUME NEW k \in Maps
        PROVE  /\ tail'[k] <= Processed(k)' /\ start'[k] <= head(k)
               /\ head(k) - tail'[k] < RingSize
    BY <1>a, <2>0, <2>1, SMTT(60) DEF Processed, TypeOK, RingTypeOK, Queues
  <2> QED
    BY <2>0, <2>1, <2>2, Zenon DEF SpaceSafe, head
<1>26. ASSUME SortEmpty PROVE SpaceSafe'
  BY <1>0, <1>26, Zenon DEF SortEmpty, Break,
         kernelVars, ringKernelVars, streamVars, userVars, ringVars, mmapVars,
         heapVars, sortVars, targetVars, callVars, callerVars, seenVars
<1>27. ASSUME Unwind PROVE SpaceSafe'
  <2>0. /\ UNCHANGED <<rb, cur>> /\ heap' = {} /\ pc = "unwind"
        /\ start' = [m \in Maps |-> IF m \in heap THEN start[m] - 1 ELSE start[m]]
        /\ tail' = [m \in Maps |-> IF m \in heap THEN start[m] - 1 ELSE tail[m]]
    BY <1>27, Zenon DEF Unwind, Unread, UnwindTail, kernelVars, ringKernelVars
  <2>1. cur \notin heap
    BY <2>0, Zenon DEF Control, Phases
  <2>2. ASSUME NEW k \in Maps
        PROVE  /\ tail'[k] <= Processed(k)' /\ start'[k] <= head(k)
               /\ head(k) - tail'[k] < RingSize
    <3>1. Processed(k)' = start'[k] /\ start'[k] = Processed(k)
      BY <2>0, <2>1, Zenon DEF Processed
    <3>2. tail'[k] \in {tail[k], Processed(k)}
      BY <2>0, <2>1, Zenon DEF Processed
    <3>3. Processed(k) <= start[k] /\ Processed(k) \in Int
      BY <1>a, SMTT(60) DEF Processed
    <3> QED
      BY <1>a, <3>1, <3>2, <3>3, SMTT(60)
  <2> QED
    BY <2>0, <2>1, <2>2, Zenon DEF SpaceSafe, head
<1> QED
  BY <1>1, <1>2, <1>3, <1>4, <1>5, <1>6, <1>7, <1>8, <1>9, <1>10, <1>11,
     <1>12, <1>13, <1>14, <1>15, <1>16, <1>17, <1>18, <1>19, <1>20, <1>21,
     <1>22, <1>23, <1>24, <1>25, <1>26, <1>27, Zenon DEF Next, Kernel, Call, Step
=============================================================================
