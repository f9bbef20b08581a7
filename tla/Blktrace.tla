------------------------------- MODULE Blktrace -------------------------------
(***************************************************************************)
(* The blktrace profiler: how long the requests of a block device stay in  *)
(* each stage.  A request has no identity in its events, only a range of   *)
(* sectors; rq_tracks is a tree of ranges in which ranges that overlap     *)
(* compare equal.  Events arrive in time order, and a loss is announced    *)
(* before any event behind its start (modules Order and LostRanges).       *)
(*                                                                         *)
(* The block layer is the environment: `rq' has the requests in flight.    *)
(***************************************************************************)
EXTENDS LostRanges, FiniteSets

CONSTANTS
  Sectors,     \* 0 .. n
  Reqs,        \* requests in flight at once
  MaxTime,     \* bound: events of the kernel
  MaxLost      \* bound: losses

VARIABLES
  rq_tracks,   \* ctx->rq_tracks: [tp, range, time]
  lost_list,   \* ctx->lost_list
  clock, window, losses,
  rq,          \* per request: [tp, range, time of its last event]
  known,       \* the last event of the request was processed, and is kept
  iostat       \* what the last event counted, with the truth

vars == <<rq_tracks, lost_list, clock, window, losses, rq, known, iostat>>

GETRQ    == 0
INSERT   == 1
ISSUE    == 2
COMPLETE == 3
FreeRq   == [tp |-> COMPLETE, range |-> {}, time |-> 0]
Ranges   == {a .. b : a, b \in Sectors} \ {{}}

(* request_track_node_cmp(): the nodes that are equal to the range.        *)
FindTrack(tracks, range) == {n \in tracks : n.range \cap range # {}}

(* blktrace_sample(), the part after blktrace_event_lost(). *)
Track(tracks, r) ==
  LET found == FindTrack(tracks, r.range)
      prev  == CHOOSE n \in found : TRUE
  IN  [tracks |-> (tracks \ (IF found = {} THEN {} ELSE {prev}))
                    \cup (IF r.tp = COMPLETE THEN {} ELSE {r}),
       counted |-> IF found = {} THEN {} ELSE {[tp |-> r.tp, from |-> prev.time]}]

(* blktrace_event_lost() for an event of time t, unless it is lost itself. *)
Arrives(t) ==
  LET lost == window.start < t /\ t < window.end
      el   == EventLost(lost_list, t)
  IN  [clean |-> ~lost /\ el.reclaim, used |-> ~lost /\ ~el.drop,
       list |-> IF lost THEN lost_list ELSE el.list]

NothingCounted == [counted |-> {}, since |-> 0, known |-> FALSE, began |-> TRUE]

(***************************************************************************)
(* Request q passes tracepoint tp with a range; `rest' is what is left of  *)
(* it afterwards.                                                          *)
(***************************************************************************)
Event(q, tp, range, rest) ==
  LET t      == clock + 1
      at     == Arrives(t)
      before == IF at.clean THEN {} ELSE rq_tracks
      res    == Track(before, [tp |-> tp, range |-> range, time |-> t])
  IN  /\ clock < MaxTime
      /\ clock' = t
      /\ lost_list' = at.list
      /\ rq_tracks' = IF at.used THEN res.tracks ELSE before
      /\ iostat' = IF at.used THEN [counted |-> res.counted, since |-> rq[q].time,
                                    known |-> known[q] /\ ~at.clean, began |-> tp = GETRQ]
                   ELSE NothingCounted
      /\ rq' = [rq EXCEPT ![q] = IF rest = {} THEN FreeRq
                                 ELSE [tp |-> IF tp = COMPLETE THEN ISSUE ELSE tp,
                                       range |-> rest, time |-> t]]
      /\ known' = [x \in Reqs |-> IF x = q THEN at.used /\ tp # COMPLETE ELSE known[x] /\ ~at.clean]
      /\ UNCHANGED <<window, losses>>

(* "sector == -1: flush req": its events meet the losses and no more. *)
FlushRq ==
  LET at == Arrives(clock + 1)
  IN  /\ clock < MaxTime
      /\ clock' = clock + 1
      /\ lost_list' = at.list
      /\ rq_tracks' = IF at.clean THEN {} ELSE rq_tracks
      /\ iostat' = NothingCounted
      /\ known' = [x \in Reqs |-> known[x] /\ ~at.clean]
      /\ UNCHANGED <<window, losses, rq>>

Busy == UNION {rq[q].range : q \in Reqs}

(* A request is allocated; no other one in flight has its sectors.  The    *)
(* numbers of the requests are the model's: it has the first free one.     *)
block_getrq(q, range) ==
  /\ rq[q] = FreeRq /\ \A p \in Reqs : p < q => rq[p] # FreeRq
  /\ range \cap Busy = {}
  /\ Event(q, GETRQ, range, range)

(* Before a request is issued other blocks may be merged into it, before   *)
(* or behind its own.                                                      *)
block_rq_insert(q, range) ==
  /\ rq[q] # FreeRq /\ rq[q].tp = GETRQ
  /\ rq[q].range \subseteq range /\ range \cap (Busy \ rq[q].range) = {}
  /\ Event(q, INSERT, range, range)

(* With or without an insert, and again after it was requeued. *)
block_rq_issue(q, range) ==
  /\ rq[q] # FreeRq
  /\ rq[q].range \subseteq range /\ range \cap (Busy \ rq[q].range) = {}
  /\ rq[q].tp = ISSUE => range = rq[q].range
  /\ Event(q, ISSUE, range, range)

(* All of a request is completed, or its first sectors. *)
block_rq_complete(q, range) ==
  /\ rq[q] # FreeRq /\ rq[q].tp = ISSUE
  /\ range \subseteq rq[q].range
  /\ \A s \in rq[q].range \ range, r \in range : r < s
  /\ Event(q, COMPLETE, range, rq[q].range \ range)

(* blktrace_lost(). *)
Lost(start, end) ==
  /\ losses < MaxLost
  /\ start \in clock .. MaxTime - 1 /\ end \in start + 2 .. MaxTime
  /\ start >= window.end
  /\ window' = [start |-> start, end |-> end]
  /\ lost_list' = LostInsert(lost_list, start, end)
  /\ losses' = losses + 1
  /\ iostat' = NothingCounted
  /\ UNCHANGED <<rq_tracks, clock, rq, known>>
-----------------------------------------------------------------------------
Init ==
  /\ rq_tracks = {} /\ lost_list = << >>
  /\ clock = 0 /\ losses = 0 /\ window = [start |-> 0, end |-> 0]
  /\ rq = [q \in Reqs |-> FreeRq]
  /\ known = [q \in Reqs |-> FALSE]
  /\ iostat = NothingCounted

Next ==
  \/ \E q \in Reqs, range \in Ranges :
       \/ block_getrq(q, range) \/ block_rq_insert(q, range)
       \/ block_rq_issue(q, range) \/ block_rq_complete(q, range)
  \/ FlushRq
  \/ \E start, end \in 0 .. MaxTime : Lost(start, end)
-----------------------------------------------------------------------------
(* What is counted is the time since the previous event of the same        *)
(* request, although requests are told apart only by sectors that are used *)
(* again and again, grow by merges and complete in pieces, and although    *)
(* events are lost; and what can be counted is.                            *)
RequestLatency ==
  /\ \A c \in iostat.counted : ~iostat.began /\ c.from = iostat.since
  /\ iostat.known => iostat.counted # {}
=============================================================================
