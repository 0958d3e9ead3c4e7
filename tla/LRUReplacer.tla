---------------------------- MODULE LRUReplacer ----------------------------
(***************************************************************************)
(* The LRU replacer (lru_replacer.cpp): lru_list_, least recent first, and *)
(* lru_map_ from a frame to its place in the list.  Each operation holds   *)
(* latch_ and is one step.                                                 *)
(***************************************************************************)
EXTENDS Integers, Sequences

CONSTANTS Frames, NoFrame

VARIABLES
  lruList,  \* lru_list_
  lruMap,   \* the keys of lru_map_
  out,      \* *frame_id of the last call, NoFrame if it returned false
  newer     \* history: <<f, g>> when g became evictable after f did

vars == <<lruList, lruMap, out, newer>>

Init == lruList = <<>> /\ lruMap = {} /\ out = NoFrame /\ newer = {}

Forget(f) == {r \in newer : f \notin {r[1], r[2]}}

Victim ==
  /\ lruList # <<>>
  /\ out' = Head(lruList)
  /\ lruMap' = lruMap \ {Head(lruList)}
  /\ lruList' = Tail(lruList)
  /\ newer' = Forget(Head(lruList))

NoVictim == lruList = <<>> /\ out' = NoFrame /\ UNCHANGED <<lruList, lruMap, newer>>

\* The place lru_map_ holds for a frame of the list, and the list without it.
PlaceOf(f) == CHOOSE i \in DOMAIN lruList : lruList[i] = f
Erase(i) == SubSeq(lruList, 1, i - 1) \o SubSeq(lruList, i + 1, Len(lruList))

Pin(f) ==
  /\ out' = NoFrame
  /\ IF f \in lruMap
     THEN lruList' = Erase(PlaceOf(f)) /\ lruMap' = lruMap \ {f} /\ newer' = Forget(f)
     ELSE UNCHANGED <<lruList, lruMap, newer>>

\* A frame that is in the list keeps its place.
UnpinAtFront(f) ==
  /\ out' = NoFrame
  /\ IF f \in lruMap THEN UNCHANGED <<lruList, lruMap, newer>>
     ELSE /\ lruList' = <<f>> \o lruList
          /\ lruMap' = lruMap \cup {f}
          /\ newer' = newer \cup {<<g, f>> : g \in lruMap}
Unpin(f) ==
  /\ out' = NoFrame
  /\ IF f \in lruMap THEN UNCHANGED <<lruList, lruMap, newer>>
     ELSE /\ lruList' = Append(lruList, f)
          /\ lruMap' = lruMap \cup {f}
          /\ newer' = newer \cup {<<g, f>> : g \in lruMap}

Next == Victim \/ NoVictim \/ \E f \in Frames : Pin(f) \/ Unpin(f)

Spec == Init /\ [][Next]_vars

=============================================================================
