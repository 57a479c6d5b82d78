-------------------------- MODULE NoHotSpotMap_proofs --------------------------
(***************************************************************************)
(* NoHotSpot implements the concurrent map of MapSpec, for any number of   *)
(* threads, any rounds of calls and any bounds.                            *)
(*                                                                         *)
(* The state of a key is the value of the one node that is linked for it   *)
(* and not being removed.  Delete, Revive and Publish change it, each at   *)
(* one compare-and-swap.  SawOK says which moments of its call a thread    *)
(* remembers when it answers without one.                                  *)
(***************************************************************************)
EXTENDS NoHotSpot_proofs

\* the variables of MapSpec
Map == {<<heap[n].key, heap[n].val>> : n \in InMap(heap)}
MapCall == [t \in Threads |-> IF Pending(t) THEN call[t] ELSE None]
MapSaw == [t \in Threads |-> IF Pending(t) THEN saw[t] ELSE {}]

\* what a thread remembers of its call
SawOK(t) ==
  /\ todo[t] \subseteq PlannedCalls
  /\ call[t] # None => call[t] \in PlannedCalls
  /\ call[t] = None => saw[t] = {}
  /\ call[t] # None => StateOf(K(t), heap) \in saw[t]
  \* the value it has read, and that the node was deleted before it was removed
  /\ pc[t] \in {"next", "check", "act"} /\ Hit(t) =>
       /\ nval[t] \in saw[t]
       /\ Dead(left[t]) => NULL \in saw[t]
  \* that its key was not there between the two nodes it has come to
  /\ pc[t] \in {"check", "act"} /\ ~Hit(t) /\ ~IsMarker(right[t])
       /\ (right[t] # Null => heap[right[t]].key > K(t)) => NULL \in saw[t]
  /\ pc[t] = "act" /\ Op(t) = "delete" => Hit(t)

SawsOK == \A t \in Threads : SawOK(t)

-------------------------------------------------------------------------------
(* The state of a key                                                      *)

\* no two nodes of one key are there that are not being removed
LEMMA OneNode ==
  ASSUME TypeOK, NodesOK, NEW n \in 1 .. used, NEW m \in 1 .. used,
         ~Dead(n), ~Dead(m), heap[n].key = heap[m].key
  PROVE  n = m
<1>1. n \in Names /\ m \in Names /\ ~IsMarker(n) /\ ~IsMarker(m) /\ Owner(n) = n /\ Owner(m) = m
  BY NameFacts
<1>2. n \in Linked /\ m \in Linked
  BY <1>1, MarkerOf DEF NodesOK, StillLinked
<1>3. Apart(n, m)
  BY <1>2, LinkedLine DEF NodesOK, Fixtures
<1>4. Weight(n) = Weight(m)
  BY <1>1 DEF Weight
<1>5. /\ Weight(n) \in Nat
      /\ heap[n].next # Null => Weight(heap[n].next) > Weight(n) /\ Weight(heap[n].next) \in Nat
  BY <1>1, Heavier DEF NodesOK
<1> QED BY <1>3, <1>4, <1>5 DEF Apart

\* the nodes of the map
LEMMA MapNodes ==
  ASSUME TypeOK, NodesOK
  PROVE  /\ \A n : n \in InMap(heap) <=> n \in 1 .. used /\ ~Dead(n) /\ heap[n].val # NULL
         /\ \A n \in 1 .. used : heap[n].key \in Nat /\ heap[n].key > 0
         /\ \A n \in 1 .. used : ~Dead(n) => heap[n].val \in Nat
<1>1. \A n \in 1 .. used : n \in Inserted /\ n \in Names /\ heap[n].key > 0
  BY NameFacts DEF NodesOK, Fixtures
<1>2. \A n \in Inserted : n > used => Dead(n)
  BY DEF NodesOK, Fixtures, Dead
<1>3. \A n \in Inserted : n \in 1 .. used \/ n > used
  BY NameFacts DEF Inserted
<1>4. \A n : n \in InMap(heap) <=> n \in 1 .. used /\ ~Dead(n) /\ heap[n].val # NULL
  BY <1>1, <1>2, <1>3 DEF InMap, Dead
<1>5. \A n \in Names : heap[n].key \in Nat /\ (~Dead(n) => heap[n].val \in Nat)
  BY DEF TypeOK, NodeType, Dead
<1> QED BY <1>1, <1>4, <1>5

\* a node that is not being removed has the state of its key, and without a
\* node of its key that has a value the key is not there
LEMMA StateIs ==
  ASSUME TypeOK, NodesOK
  PROVE  /\ \A n \in 1 .. used : ~Dead(n) => StateOf(heap[n].key, heap) = heap[n].val
         /\ \A k : (\A n \in InMap(heap) : heap[n].key # k) => StateOf(k, heap) = 0
<1>1. ASSUME NEW k, \A n \in InMap(heap) : heap[n].key # k PROVE StateOf(k, heap) = 0
  BY <1>1 DEF StateOf
<1>2. ASSUME NEW n \in 1 .. used, ~Dead(n) PROVE StateOf(heap[n].key, heap) = heap[n].val
  <2> DEFINE k == heap[n].key
             c == CHOOSE m \in InMap(heap) : heap[m].key = k
  <2>1. \A m \in InMap(heap) : heap[m].key = k => m = n
    BY <1>2, MapNodes, OneNode
  <2>2. CASE n \in InMap(heap)
    <3>1. c \in InMap(heap) /\ heap[c].key = k
      BY <2>2
    <3>2. c = n
      BY <2>1, <3>1
    <3>3. StateOf(k, heap) = heap[c].val
      BY <2>2 DEF StateOf
    <3> QED BY <3>2, <3>3
  <2>3. CASE n \notin InMap(heap)
    <3>1. \A m \in InMap(heap) : heap[m].key # k
      BY <2>1, <2>3
    <3>2. heap[n].val = 0
      BY <1>2, <2>3, MapNodes DEF NULL
    <3> QED BY <1>1, <3>1, <3>2
  <2> QED BY <2>2, <2>3
<1> QED BY <1>1, <1>2

\* the key is not there between a node and its next
LEMMA Between ==
  ASSUME TypeOK, NodesOK, NEW l \in Used, NEW k \in Nat, heap[l].key < k,
         ~IsMarker(heap[l].next), heap[l].next # Null => heap[heap[l].next].key > k
  PROVE  StateOf(k, heap) = 0
<1> SUFFICES ASSUME NEW n \in InMap(heap), heap[n].key = k PROVE FALSE
  BY StateIs
<1> DEFINE r == heap[l].next
<1>1. /\ n \in 1 .. used /\ ~Dead(n) /\ n \in Names /\ ~IsMarker(n) /\ Owner(n) = n
      /\ l \in Names /\ ~IsMarker(l) /\ Owner(l) = l
      /\ heap[l].key \in Nat /\ heap[n].key \in Nat
  BY MapNodes, NameFacts
<1>2. n \in Linked
  BY <1>1, MarkerOf DEF NodesOK, StillLinked
<1>3. l \in Linked
  BY LinkedIs DEF NodesOK, StillLinked, Unmarked, Used, HeadNode
<1>4. Apart(l, n)
  BY <1>2, <1>3, LinkedLine DEF NodesOK, Fixtures
<1>5. Weight(n) = 2 * k /\ Weight(l) < 2 * k
  BY <1>1 DEF Weight
<1>6. r # Null => Weight(r) > 2 * k
  <2>1. r # Null => r \in Names /\ Owner(r) = r /\ heap[r].key \in Nat
    BY <1>1, NameFacts
  <2> QED BY <2>1 DEF Weight
<1>7. Weight(l) \in Nat /\ (r # Null => Weight(r) \in Nat)
  BY <1>1, NameFacts, Heavier DEF NodesOK
<1> QED BY <1>1, <1>4, <1>5, <1>6, <1>7 DEF Apart

\* the state of a key is that of the map
LEMMA MapState ==
  TypeOK /\ NodesOK => \A k : StateOf(k, heap) = Abstract!State(k, Map)
<1> SUFFICES ASSUME TypeOK, NodesOK, NEW k PROVE StateOf(k, heap) = Abstract!State(k, Map)
  OBVIOUS
<1>1. CASE \E n \in InMap(heap) : heap[n].key = k
  <2>1. PICK n \in InMap(heap) : heap[n].key = k
    BY <1>1
  <2>2. \A m \in InMap(heap) : heap[m].key = k => m = n
    BY <2>1, MapNodes, OneNode
  <2>3. \A p \in Map : p[1] = k => p = <<k, heap[n].val>>
    BY <2>2 DEF Map
  <2>4. <<k, heap[n].val>> \in Map
    BY <2>1 DEF Map
  <2>5. (CHOOSE p \in Map : p[1] = k) = <<k, heap[n].val>>
    <3> DEFINE c == CHOOSE p \in Map : p[1] = k
    <3>1. \E p \in Map : p[1] = k
      BY <2>4
    <3>2. c \in Map /\ c[1] = k
      BY <3>1
    <3> QED BY <2>3, <3>2
  <2>6. Abstract!State(k, Map) = heap[n].val
    <3>1. \E p \in Map : p[1] = k
      BY <2>4
    <3> DEFINE c == CHOOSE p \in Map : p[1] = k
    <3>2. c = <<k, heap[n].val>>
      BY <2>5
    <3>3. c[2] = heap[n].val
      <4> HIDE DEF c
      <4> QED BY <3>2
    <3> QED BY <3>1, <3>3 DEF Abstract!State
  <2> QED BY <2>1, <2>6, MapNodes, StateIs
<1>2. CASE ~\E n \in InMap(heap) : heap[n].key = k
  <2>1. ~\E p \in Map : p[1] = k
    BY <1>2 DEF Map
  <2> QED BY <1>2, <2>1, StateIs DEF Abstract!State
<1> QED BY <1>1, <1>2

-------------------------------------------------------------------------------
(* What a step does to the map                                             *)

\* nodes are claimed at most: the map is the same
LEMMA MapSame == ASSUME TypeOK, ValuesKept PROVE Map' = Map
<1>1. \A n \in Inserted : n \in Names
  BY NameFacts
<1>2. InMap(heap)' = InMap(heap)
  BY <1>1 DEF InMap, ValuesKept, SameVal
<1>3. \A n \in InMap(heap) : heap'[n].key = heap[n].key /\ heap'[n].val = heap[n].val
  BY <1>1 DEF InMap, ValuesKept, SameKey, SameVal
<1> QED BY <1>2, <1>3 DEF Map

\* every step of a call but three
LEMMA ThreadValues ==
  ASSUME IInv, NEW t \in Threads, Step(t), ~Delete(t), ~Revive(t), ~Publish(t) PROVE ValuesKept
<1>0. TypeOK /\ NodesOK /\ HelpOK(t) /\ ThreadOK(t) /\ t \in Actors
  BY ActorFacts DEF IInv
<1>1. CASE HelpMark(t) \/ HelpUnlink(t)
  <2>1. left[t] \in Names
    BY <1>0, <1>1, NameFacts DEF ThreadOK, HelpMark, HelpUnlink
  <2> QED BY <1>0, <1>1, <2>1, HelpEffect
<1>2. CASE Link(t)
  <2>1. right[t] \in Names /\ heap' = [heap EXCEPT ![right[t]].prev = left[t]]
    BY <1>0, <1>2, NameFacts DEF ThreadOK, Link
  <2> QED BY <1>0, <2>1 DEF ValuesKept, SameKey, SameVal, TypeOK, NodeType
<1>3. CASE UNCHANGED list
  BY <1>0, <1>3, ReadOnly
<1> QED BY <1>1, <1>2, <1>3
        DEF Step, Start, GoRight, LandBefore, GoDown, LandBelow, Land, StepBack, ReadVal, ReadNext,
            MeetDead, MoveOn, FinishContains, FinishVain, GoAct, DeleteLate, Retry

\* delete and insert over a deleted node
LEMMA NodeValued ==
  ASSUME IInv, NEW t \in Threads, Delete(t) \/ Revive(t), SawOK(t)
  PROVE  /\ left[t] \in 1 .. used /\ ~Dead(left[t]) /\ heap[left[t]].key = K(t)
         /\ \A n \in Names : SameKey(n) /\ (n # left[t] => SameVal(n))
         /\ heap'[left[t]].val = IF Delete(t) THEN NULL ELSE call[t].arg
         /\ used' = used
<1> DEFINE l == left[t]
           v == IF Delete(t) THEN NULL ELSE call[t].arg
<1>1. TypeOK /\ NodesOK /\ ThreadOK(t) /\ pc[t] = "act" /\ t \in Actors
  BY ActorFacts DEF IInv, Delete, Revive
<1>2. Hit(t) /\ l \in Used /\ call[t] \in Calls
  BY <1>1 DEF SawOK, Delete, Revive, ThreadOK, TypeOK
<1>3. l \in 1 .. used /\ l \in Names
  <2>1. K(t) > 0 /\ heap[l].key = K(t)
    BY <1>2 DEF Hit, K, Calls
  <2>2. l # HeadNode
    BY <1>1, <2>1 DEF NodesOK, Fixtures
  <2> QED BY <1>1, <1>2, <2>2, NameFacts DEF Used, HeadNode
<1>4. ~Dead(l)
  BY DEF Delete, Revive, Dead, NULL, Self
<1>5. heap' = [heap EXCEPT ![l].val = v] /\ used' = used
  <2>1. CASE Delete(t)
    BY <2>1 DEF Delete
  <2>2. CASE ~Delete(t)
    BY <2>2 DEF Revive
  <2> QED BY <2>1, <2>2
<1>6. /\ \A n \in Names : SameKey(n) /\ (n # l => SameVal(n))
      /\ heap'[l].val = v
  <2> HIDE DEF v
  <2> QED BY <1>1, <1>3, <1>5 DEF TypeOK, NodeType, SameKey, SameVal
<1> QED BY <1>2, <1>3, <1>4, <1>5, <1>6 DEF Hit

\* insert of a new node
LEMMA NodePublished ==
  ASSUME IInv, NEW t \in Threads, Publish(t)
  PROVE  /\ used + 1 \in Inserted /\ used + 1 \notin InMap(heap) /\ used' = used + 1
         /\ \A n \in Names : n # used + 1 => SameKey(n) /\ SameVal(n)
         /\ heap'[used + 1].key = K(t) /\ heap'[used + 1].val = call[t].arg
         /\ StateOf(K(t), heap) = 0
<1> DEFINE l == left[t]
           r == right[t]
           w == used + 1
<1>1. /\ TypeOK /\ NodesOK /\ ThreadOK(t) /\ t \in Actors /\ used \in Nat
      /\ pc[t] = "act" /\ used < MaxNodes /\ used' = w /\ ~Hit(t) /\ heap[l].next = r
  BY ActorFacts, NameFacts DEF IInv, Publish
<1>2. /\ l \in Used /\ l \in Names /\ heap[l].key <= K(t) /\ call[t] \in Calls
      /\ r # Null => r \in 1 .. used /\ heap[r].key > K(t)
  BY <1>1, NameFacts DEF ThreadOK, TypeOK
<1>3. heap[l].key < K(t) /\ K(t) \in Nat
  <2>1. heap[l].key \in Nat /\ K(t) \in Nat /\ heap[l].key # K(t)
    BY <1>1, <1>2, NameFacts DEF Hit, K, Calls
  <2> QED BY <1>2, <2>1
<1>4. w \in Inserted /\ w \in Names /\ w # l /\ w \notin 1 .. used
  BY <1>1, <1>2, NodeNames DEF Used
<1>5. w \notin InMap(heap)
  BY <1>1, <1>4, MapNodes
<1>6. StateOf(K(t), heap) = 0
  <2>1. ~IsMarker(heap[l].next)
    BY <1>1, <1>2, NameFacts
  <2> QED BY <1>1, <1>2, <1>3, <2>1, Between
<1>7. /\ heap'[l] = [heap[l] EXCEPT !.next = w] /\ heap'[w] = NewNode(t)
      /\ \A n \in Names : n \notin {l, w} => heap'[n] = heap[n]
  <2>1. heap' = [heap EXCEPT ![l].next = w, ![w] = NewNode(t)]
    BY DEF Publish
  <2>2. heap \in [Names -> NodeType]
    BY <1>1 DEF TypeOK
  <2> HIDE DEF l, w
  <2> QED BY <1>2, <1>4, <2>1, <2>2
<1>8. \A n \in Names : n # w => SameKey(n) /\ SameVal(n)
  <2>1. heap'[l].key = heap[l].key /\ heap'[l].val = heap[l].val
    BY <1>1, <1>2, <1>7 DEF TypeOK, NodeType
  <2> HIDE DEF l, w
  <2> QED BY <1>7, <2>1 DEF SameKey, SameVal
<1>9. heap'[w].key = K(t) /\ heap'[w].val = call[t].arg
  BY <1>7 DEF NewNode
<1> QED BY <1>1, <1>4, <1>5, <1>6, <1>8, <1>9

\* an inserted value is not NULL
LEMMA ArgIsValue ==
  ASSUME NEW t \in Threads, SawOK(t), call[t] # None, Op(t) = "insert"
  PROVE  call[t].arg > 0
<1>1. call[t] \in PlannedCalls
  BY DEF SawOK
<1> QED BY <1>1, ValuesAssumption DEF PlannedCalls, Op

\* delete takes the pair of its key away
LEMMA DeleteMap ==
  ASSUME IInv, NEW t \in Threads, Delete(t), SawOK(t)
  PROVE  /\ StateOf(K(t), heap) # 0
         /\ Map' = {p \in Map : p[1] # K(t)}
<1> DEFINE l == left[t]
<1>1. TypeOK /\ NodesOK
  BY DEF IInv
<1>2. /\ l \in 1 .. used /\ ~Dead(l) /\ heap[l].key = K(t) /\ heap'[l].val = NULL
      /\ \A n \in Names : SameKey(n) /\ (n # l => SameVal(n))
  BY NodeValued
<1>3. heap[l].val # NULL /\ l \in InMap(heap)
  BY <1>1, <1>2, MapNodes DEF Delete
<1>4. StateOf(K(t), heap) # 0
  BY <1>1, <1>2, <1>3, StateIs DEF NULL
<1>5. \A n \in InMap(heap) : heap[n].key = K(t) <=> n = l
  BY <1>1, <1>2, <1>3, MapNodes, OneNode
<1>6. InMap(heap)' = InMap(heap) \ {l}
  <2>1. \A n \in Inserted : n \in Names
    BY <1>1, NameFacts
  <2> QED BY <1>2, <2>1 DEF InMap, SameVal
<1>7. \A n \in InMap(heap)' : heap'[n].key = heap[n].key /\ heap'[n].val = heap[n].val
  <2>1. \A n \in InMap(heap) : n \in Names
    BY <1>1, NameFacts DEF InMap
  <2> QED BY <1>2, <1>6, <2>1 DEF SameKey, SameVal
<1>8. Map' = {<<heap[n].key, heap[n].val>> : n \in InMap(heap) \ {l}}
  BY <1>6, <1>7 DEF Map
<1>9. {p \in Map : p[1] # K(t)} = {<<heap[n].key, heap[n].val>> : n \in InMap(heap) \ {l}}
  BY <1>5 DEF Map
<1> QED BY <1>4, <1>8, <1>9

\* insert puts the pair of its key in, whether over a deleted node or a new one
LEMMA InsertMap ==
  ASSUME IInv, NEW t \in Threads, Revive(t) \/ Publish(t), SawOK(t)
  PROVE  /\ StateOf(K(t), heap) = 0
         /\ Map' = Map \cup {<<K(t), call[t].arg>>}
<1>1. TypeOK /\ NodesOK /\ ThreadOK(t) /\ call[t].arg > 0 /\ call[t].arg \in Nat
  <2>1. TypeOK /\ NodesOK /\ ThreadOK(t)
    BY DEF IInv
  <2>2. call[t] # None /\ call[t] \in Calls
    BY <2>1 DEF ThreadOK, Revive, Publish, TypeOK
  <2>3. call[t].arg > 0
    BY <2>2, ArgIsValue DEF Revive, Publish
  <2> QED BY <2>1, <2>2, <2>3 DEF Calls
<1>2. \A n \in InMap(heap) : n \in Names
  BY <1>1, NameFacts DEF InMap
<1>3. PICK w \in Inserted :
        /\ w \notin InMap(heap) /\ heap'[w].key = K(t) /\ heap'[w].val = call[t].arg
        /\ \A n \in Names : n # w => SameKey(n) /\ SameVal(n)
        /\ StateOf(K(t), heap) = 0
  <2>1. CASE Publish(t)
    BY <2>1, NodePublished
  <2>2. CASE Revive(t)
    <3> DEFINE l == left[t]
    <3>1. heap[l].val = NULL /\ ~Delete(t)
      BY <2>2 DEF Revive, Delete
    <3>2. /\ l \in 1 .. used /\ ~Dead(l) /\ heap[l].key = K(t)
          /\ \A n \in Names : SameKey(n) /\ (n # l => SameVal(n))
          /\ heap'[l].val = call[t].arg
      BY <2>2, <3>1, NodeValued
    <3>3. l \notin InMap(heap) /\ StateOf(K(t), heap) = 0
      BY <1>1, <3>1, <3>2, MapNodes, StateIs DEF NULL
    <3>4. l \in Inserted /\ l \in Names
      BY <1>1, <3>2, NameFacts
    <3> QED BY <3>2, <3>3, <3>4 DEF SameKey
  <2> QED BY <2>1, <2>2
<1>4. InMap(heap)' = InMap(heap) \cup {w}
  <2>1. \A n \in Inserted : n \in Names
    BY <1>1, NameFacts
  <2>2. call[t].arg \notin {NULL, Self}
    BY <1>1 DEF NULL, Self
  <2> QED BY <1>3, <2>1, <2>2 DEF InMap, SameVal
<1>5. \A n \in InMap(heap) : heap'[n].key = heap[n].key /\ heap'[n].val = heap[n].val
  BY <1>2, <1>3 DEF SameKey, SameVal
<1>6. Map' = {<<heap'[n].key, heap'[n].val>> : n \in InMap(heap) \cup {w}}
  BY <1>4 DEF Map
<1> QED BY <1>3, <1>5, <1>6 DEF Map

-------------------------------------------------------------------------------
(* Every step keeps what the threads remember                              *)

\* the moments a step adds
LEMMA SawAfter ==
  ASSUME Watch, NEW t \in Threads
  PROVE  /\ call'[t] = None => saw'[t] = {}
         /\ call'[t] # None => saw[t] \subseteq saw'[t] /\ StateOf(K(t)', heap') \in saw'[t]
BY DEF Watch, K

\* a node that comes to be removed was deleted
LEMMA ClaimedDeleted ==
  ASSUME IInv, SawsOK, Next
  PROVE  \A n \in Used : ~Dead(n) /\ heap'[n].val = Self => heap[n].val = NULL
<1>0. TypeOK /\ \A n \in Used : n \in Names
  BY NameFacts DEF IInv
<1>1. CASE ValuesKept
  BY <1>0, <1>1 DEF ValuesKept, SameVal, Dead
<1>2. ASSUME NEW t \in Threads, Delete(t) \/ Revive(t)
      PROVE  \A n \in Used : ~Dead(n) /\ heap'[n].val = Self => heap[n].val = NULL
  <2>1. SawOK(t) /\ ThreadOK(t)
    BY DEF SawsOK, IInv
  <2>2. Revive(t) => call[t].arg > 0 /\ call[t].arg \in Nat
    <3>1. Revive(t) => call[t] # None /\ call[t] \in Calls
      BY <1>0, <2>1 DEF ThreadOK, Revive, TypeOK
    <3> QED BY <2>1, <3>1, ArgIsValue DEF Revive, Calls
  <2>3. /\ \A n \in Names : n # left[t] => SameVal(n)
        /\ heap'[left[t]].val = IF Delete(t) THEN NULL ELSE call[t].arg
    BY <1>2, <2>1, NodeValued
  <2>4. heap'[left[t]].val # Self
    BY <1>2, <2>2, <2>3 DEF NULL, Self
  <2> QED BY <1>0, <2>3, <2>4 DEF SameVal, Dead
<1>3. ASSUME NEW t \in Threads, Publish(t)
      PROVE  \A n \in Used : ~Dead(n) /\ heap'[n].val = Self => heap[n].val = NULL
  <2>1. \A n \in Names : n # used + 1 => SameVal(n)
    BY <1>3, NodePublished
  <2>2. \A n \in Used : n # used + 1
    BY <1>0, NameFacts DEF Used
  <2> QED BY <1>0, <2>1, <2>2 DEF SameVal, Dead
<1>4. BgStep \/ NextRound => ValuesKept
  BY BgEffect, DriverEffect
<1>5. Finished => ValuesKept
  BY <1>0, ReadOnly DEF Finished, vars
<1> QED BY <1>1, <1>2, <1>3, <1>4, <1>5, ThreadValues DEF Next

\* a thread that does not move
LEMMA SawStays ==
  ASSUME IInv, Kept, NEW t \in Threads, SawOK(t), Watch, todo'[t] = todo[t],
         pc'[t] = pc[t], call'[t] = call[t], nval'[t] = nval[t],
         left'[t] = left[t], right'[t] = right[t],
         \A n \in Used : ~Dead(n) /\ heap'[n].val = Self => heap[n].val = NULL
  PROVE  SawOK(t)'
<1>0. TypeOK /\ NodesOK /\ ThreadOK(t) /\ K(t)' = K(t) /\ Op(t)' = Op(t)
  BY DEF IInv, K, Op
<1>1. /\ call[t] = None => saw'[t] = {}
      /\ call[t] # None => saw[t] \subseteq saw'[t] /\ StateOf(K(t), heap') \in saw'[t]
      /\ call[t] # None => call[t] \in Calls /\ K(t) \in Nat /\ K(t) > 0
  BY <1>0, SawAfter DEF TypeOK, Calls, K
<1>2. pc[t] \in {"next", "check", "act"} =>
        left[t] \in Used /\ heap'[left[t]].key = heap[left[t]].key /\ call[t] # None
  BY <1>0 DEF ThreadOK, Kept, SameKey
<1>3. pc[t] \in {"next", "check", "act"} => (Hit(t)' <=> Hit(t))
  BY <1>0, <1>2 DEF Hit
<1>4. pc[t] \in {"next", "check", "act"} /\ Hit(t) =>
        /\ nval[t] \in saw'[t]
        /\ Dead(left[t])' => NULL \in saw'[t]
  <2> SUFFICES ASSUME pc[t] \in {"next", "check", "act"}, Hit(t)
               PROVE  nval[t] \in saw'[t] /\ (Dead(left[t])' => NULL \in saw'[t])
    OBVIOUS
  <2>1. nval[t] \in saw[t] /\ (Dead(left[t]) => NULL \in saw[t]) /\ saw[t] \subseteq saw'[t]
    BY <1>1, <1>2 DEF SawOK
  <2>2. ASSUME ~Dead(left[t]), Dead(left[t])' PROVE NULL \in saw[t]
    <3>1. heap[left[t]].val = NULL
      BY <1>2, <2>2 DEF Dead
    <3>2. left[t] \in 1 .. used
      BY <1>0, <1>1, <1>2, NameFacts DEF Hit, NodesOK, Fixtures, Used, HeadNode
    <3>3. StateOf(K(t), heap) = NULL
      BY <1>0, <2>2, <3>1, <3>2, StateIs DEF Hit
    <3> QED BY <1>2, <3>3 DEF SawOK
  <2> QED BY <2>1, <2>2
<1>5. pc[t] \in {"check", "act"} /\ ~Hit(t) /\ ~IsMarker(right[t])
        /\ (right[t] # Null => heap'[right[t]].key > K(t)) => NULL \in saw'[t]
  <2>1. pc[t] \in {"check", "act"} /\ right[t] # Null /\ ~IsMarker(right[t]) =>
          right[t] \in 1 .. used
    BY <1>0 DEF ThreadOK, Reached
  <2>2. pc[t] \in {"check", "act"} /\ right[t] # Null /\ ~IsMarker(right[t]) =>
          heap'[right[t]].key = heap[right[t]].key
    BY <1>0, <2>1, NameFacts DEF Kept, SameKey
  <2> QED BY <1>1, <1>2, <2>2 DEF SawOK
<1> QED BY <1>0, <1>1, <1>3, <1>4, <1>5 DEF SawOK

\* what a step does to the thread's own plans and call
LEMMA StepOwn ==
  ASSUME TypeOK, NEW t \in Threads, Step(t)
  PROVE  /\ todo'[t] \subseteq todo[t]
         /\ call'[t] \in todo[t] \cup {call[t], None}
         /\ Watch
         /\ pc'[t] \in {"next", "check", "act"} => ReadVal(t) \/ ReadNext(t) \/ GoAct(t)
<1> USE ActorFacts DEF TypeOK
<1>0. CASE Start(t)
  <2>1. PICK c \in todo[t] : /\ call' = [call EXCEPT ![t] = c]
                            /\ todo' = [todo EXCEPT ![t] = @ \ {c}]
    BY <1>0 DEF Start
  <2>2. call'[t] = c /\ todo'[t] \subseteq todo[t]
    BY <2>1
  <2>3. pc'[t] = "right" /\ Watch
    BY <1>0 DEF Start, Goto
  <2> QED BY <2>2, <2>3
<1>1. CASE GoRight(t) \/ LandBefore(t) \/ GoDown(t) \/ LandBelow(t)
  BY <1>1 DEF GoRight, LandBefore, GoDown, LandBelow, Land, Goto, driver
<1>2. CASE StepBack(t) \/ MeetDead(t) \/ MoveOn(t) \/ HelpMark(t) \/ HelpUnlink(t) \/ Retry(t)
  BY <1>2 DEF StepBack, MeetDead, MoveOn, HelpMark, HelpUnlink, Retry, Goto, driver
<1>3. CASE ReadVal(t) \/ ReadNext(t) \/ GoAct(t)
  BY <1>3 DEF ReadVal, ReadNext, GoAct, driver
<1>4. ASSUME NEW r, Return(t, r)
      PROVE  /\ todo'[t] \subseteq todo[t] /\ call'[t] = None
             /\ pc'[t] \notin {"next", "check", "act"}
  BY <1>4 DEF Return, Goto, driver
<1>5. CASE Publish(t) /\ right[t] # Null
  BY <1>5 DEF Publish, Goto, driver
<1>6. FinishContains(t) \/ FinishVain(t) \/ Delete(t) \/ DeleteLate(t) \/ Revive(t) \/ Link(t)
        \/ (Publish(t) /\ right[t] = Null) => Watch /\ \E r : Return(t, r)
  BY DEF FinishContains, FinishVain, Delete, DeleteLate, Revive, Publish, Link
<1> QED BY <1>0, <1>1, <1>2, <1>3, <1>4, <1>5, <1>6 DEF Step

\* a thread's own step
LEMMA SawMoves ==
  ASSUME IInv, NEW t \in Threads, Step(t), SawOK(t) PROVE SawOK(t)'
<1> DEFINE l == left[t]
<1>0. /\ TypeOK /\ NodesOK /\ ThreadOK(t) /\ t \in Actors
      /\ pc \in [Actors -> Places] /\ left \in [Actors -> Names \cup {Null}]
      /\ right \in [Actors -> Names \cup {Null}] /\ nval \in [Threads -> Nat]
  BY ActorFacts DEF IInv, TypeOK
<1>1. /\ todo'[t] \subseteq PlannedCalls
      /\ call'[t] # None => call'[t] \in PlannedCalls
      /\ call'[t] = None => saw'[t] = {}
      /\ call'[t] # None => saw[t] \subseteq saw'[t] /\ StateOf(K(t)', heap') \in saw'[t]
  <2>1. /\ todo'[t] \subseteq todo[t] /\ call'[t] \in todo[t] \cup {call[t], None} /\ Watch
    BY <1>0, StepOwn
  <2> QED BY <2>1, SawAfter DEF SawOK
<1>2. CASE pc'[t] \notin {"next", "check", "act"}
  BY <1>1, <1>2 DEF SawOK
<1>3. CASE ReadVal(t) \/ ReadNext(t) \/ GoAct(t)
  <2>1. /\ heap' = heap /\ call' = call /\ call[t] # None /\ left'[t] = l
        /\ K(t)' = K(t) /\ Op(t)' = Op(t) /\ (Hit(t)' <=> Hit(t))
        /\ l \in Used /\ heap[l].key <= K(t)
    <3>1. heap' = heap /\ call' = call /\ left'[t] = l
      BY <1>0, <1>3 DEF ReadVal, ReadNext, GoAct, list, at
    <3>2. call[t] # None /\ l \in Used /\ heap[l].key <= K(t)
      BY <1>0, <1>3 DEF ThreadOK, ReadVal, ReadNext, GoAct, Arrived
    <3> QED BY <3>1, <3>2 DEF K, Op, Hit
  <2>2. K(t) \in Nat /\ K(t) > 0 /\ heap[l].key \in Nat /\ StateOf(K(t), heap) \in saw'[t]
        /\ saw[t] \subseteq saw'[t]
    BY <1>0, <1>1, <2>1, NameFacts DEF TypeOK, K, Calls
  <2>3. CASE ReadVal(t)
    <3>1. pc'[t] = "next" /\ nval'[t] = heap[l].val /\ ~Dead(l)
      BY <1>0, <2>3 DEF ReadVal, Goto
    <3>2. Hit(t) => l \in 1 .. used
      BY <1>0, <2>1, <2>2, NameFacts DEF Hit, NodesOK, Fixtures, Used, HeadNode
    <3>3. Hit(t) => StateOf(K(t), heap) = heap[l].val
      BY <1>0, <3>1, <3>2, StateIs DEF Hit
    <3>4. ~Dead(l)'
      BY <2>1, <3>1 DEF Dead
    <3> QED BY <1>1, <2>1, <2>2, <3>1, <3>3, <3>4 DEF SawOK, Dead
  <2>4. CASE ReadNext(t)
    <3>1. pc[t] = "next" /\ pc'[t] = "check" /\ nval'[t] = nval[t] /\ right'[t] = heap[l].next
      BY <1>0, <2>4 DEF ReadNext, Goto
    <3>2. ASSUME ~Hit(t), ~IsMarker(right'[t]), right'[t] # Null => heap'[right'[t]].key > K(t)
          PROVE  NULL \in saw'[t]
      <4>1. heap[l].key < K(t)
        BY <2>1, <2>2, <3>2 DEF Hit
      <4>2. StateOf(K(t), heap) = 0
        BY <1>0, <2>1, <2>2, <3>1, <3>2, <4>1, Between
      <4> QED BY <2>2, <4>2 DEF NULL
    <3>3. Dead(l)' <=> Dead(l)
      BY <2>1 DEF Dead
    <3> QED BY <1>1, <2>1, <2>2, <3>1, <3>2, <3>3 DEF SawOK, Dead
  <2>5. CASE GoAct(t)
    <3>1. pc[t] = "check" /\ pc'[t] = "act" /\ nval'[t] = nval[t] /\ right'[t] = right[t]
      BY <1>0, <2>5 DEF GoAct, Arrived, Goto, at
    <3>2. Op(t) = "delete" => Hit(t)
      BY <2>5 DEF GoAct, Found
    <3>3. Dead(l)' <=> Dead(l)
      BY <2>1 DEF Dead
    <3> QED BY <1>1, <2>1, <2>2, <3>1, <3>2, <3>3 DEF SawOK, Dead
  <2> QED BY <1>3, <2>3, <2>4, <2>5
<1> QED BY <1>0, <1>2, <1>3, StepOwn

\* no thread remembers anything before its first call
LEMMA SawInit == Init => SawsOK
<1> SUFFICES ASSUME Init, NEW t \in Threads PROVE SawOK(t)
  BY DEF SawsOK
<1>1. Work[1] \in [Threads -> SUBSET Calls] /\ 1 \in 1 .. Len(Work)
  BY WorkAssumption
<1>2. \A c \in todo[t] : c \in PlannedCalls
  BY <1>1 DEF Init, PlannedCalls
<1>3. pc[t] = "idle" /\ call[t] = None /\ saw[t] = {}
  BY ActorFacts DEF Init
<1> QED BY <1>2, <1>3 DEF SawOK

\* every step keeps what they remember
LEMMA SawNext == IInv /\ SawsOK /\ [Next]_vars => SawsOK'
<1> SUFFICES ASSUME IInv, SawsOK, [Next]_vars PROVE SawsOK'
  OBVIOUS
<1>0. TypeOK /\ NodesOK
  BY DEF IInv
<1>1. CASE UNCHANGED vars
  BY <1>1 DEF vars, list, index, at, bg, driver, SawsOK, SawOK, StateOf, InMap, K, Op, Hit, Dead
<1>2. CASE Next
  <2>1. Kept
    BY <1>0, <1>2, StepKeeps, EffectKept
  <2>2. \A n \in Used : ~Dead(n) /\ heap'[n].val = Self => heap[n].val = NULL
    BY <1>2, ClaimedDeleted
  <2>3. ASSUME NEW t \in Threads, Step(t) PROVE SawsOK'
    <3>1. SawOK(t)'
      BY <2>3, SawMoves DEF SawsOK
    <3>2. ASSUME NEW u \in Threads, u # t PROVE SawOK(u)'
      <4>1. /\ todo'[u] = todo[u] /\ pc'[u] = pc[u] /\ call'[u] = call[u] /\ nval'[u] = nval[u]
            /\ left'[u] = left[u] /\ right'[u] = right[u]
        BY <1>0, <2>3, <3>2, StepAlone, ActorFacts
      <4>2. Watch
        BY <1>0, <2>3, StepOwn
      <4> QED BY <2>1, <2>2, <4>1, <4>2, SawStays DEF SawsOK
    <3> QED BY <3>1, <3>2 DEF SawsOK
  <2>4. CASE BgStep
    <3>1. ASSUME NEW u \in Threads PROVE SawOK(u)'
      <4>1. /\ todo'[u] = todo[u] /\ pc'[u] = pc[u] /\ call'[u] = call[u] /\ nval'[u] = nval[u]
            /\ left'[u] = left[u] /\ right'[u] = right[u]
        BY <1>0, <2>4, BgAlone
      <4>2. Watch
        BY <2>4 DEF BgStep, BgWake, BgRemove, BgSpare, HelpMark, HelpUnlink, BgCount, BgWalk,
             BgTraversed, BgGather, BgGathered, BgLookAhead, BgRaise, BgRaised, BgClimb,
             BgNextLevel, BgClimbed, BgLower
      <4> QED BY <2>1, <2>2, <4>1, <4>2, SawStays DEF SawsOK
    <3> QED BY <3>1 DEF SawsOK
  <2>5. CASE NextRound
    <3>1. /\ round + 1 \in 1 .. Len(Work) /\ todo' = Work[round + 1]
          /\ pc' = pc /\ call' = call /\ saw' = saw
      BY <1>0, <2>5, WorkAssumption DEF NextRound, TypeOK
    <3>2. \A t \in Threads : \A c \in todo'[t] : c \in PlannedCalls
      BY <3>1 DEF PlannedCalls
    <3>3. \A t \in Threads : pc[t] = "idle" /\ call[t] = None
      BY <2>5 DEF NextRound, AllIdle, IInv, ThreadOK
    <3>4. ASSUME NEW t \in Threads PROVE SawOK(t)'
      BY <3>1, <3>2, <3>3 DEF SawsOK, SawOK
    <3> QED BY <3>4 DEF SawsOK
  <2>6. CASE Finished
    BY <1>1, <2>6 DEF Finished
  <2> QED BY <1>2, <2>3, <2>4, <2>5, <2>6 DEF Next
<1> QED BY <1>1, <1>2

-------------------------------------------------------------------------------
(* Every step is one of MapSpec or none                                    *)

\* the state of a key, after a step
LEMMA MapStateAfter ==
  ASSUME TypeOK', NodesOK' PROVE \A k : StateOf(k, heap') = Abstract!State(k, Map')
<1>1. (TypeOK /\ NodesOK => \A k : StateOf(k, heap) = Abstract!State(k, Map))'
  BY MapState, PTL
<1> QED BY <1>1

\* no step leaves the back pointer of a published node unset
LEMMA LinkNext ==
  ASSUME TypeOK, NEW t \in Threads, Step(t), pc[t] = "link"
  PROVE  Link(t) /\ call'[t] = None /\ pc'[t] = "idle"
<1>1. Link(t)
  BY DEF Step, Start, GoRight, LandBefore, GoDown, LandBelow, StepBack, ReadVal, ReadNext,
         MeetDead, MoveOn, HelpMark, HelpUnlink, FinishContains, FinishVain, GoAct, Arrived,
         Delete, DeleteLate, Revive, Publish, Retry
<1> QED BY <1>1, ActorFacts DEF Link, Return, Goto, TypeOK

\* a thread comes to know nothing but the present
LEMMA MapWatch ==
  ASSUME IInv, SawsOK, TypeOK', NodesOK', Watch, NEW t \in Threads, Step(t) PROVE Abstract!Watch
<1>0. TypeOK
  BY DEF IInv
<1>1. ASSUME NEW u \in Threads, Pending(u)'
      PROVE  /\ call'[u] # None
             /\ saw'[u] \subseteq MapSaw[u] \cup {Abstract!State(call'[u].key, Map')}
  <2>1. call'[u] # None
    BY <1>1 DEF Pending
  <2>2. saw'[u] = saw[u] \cup {Abstract!State(call'[u].key, Map')}
    BY <2>1, MapStateAfter DEF Watch
  <2>3. CASE Pending(u) \/ saw[u] = {}
    BY <2>1, <2>2, <2>3 DEF MapSaw
  <2>4. CASE ~Pending(u) /\ saw[u] # {}
    <3>1. pc[u] = "link" /\ call[u] # None
      BY <2>4 DEF Pending, SawsOK, SawOK
    <3>2. pc'[u] = "link" \/ call'[u] = None
      BY <1>0, <3>1, LinkNext, StepAlone, ActorFacts
    <3> QED BY <1>1, <3>2 DEF Pending
  <2> QED BY <2>3, <2>4
<1>2. \A u \in Threads : \/ MapSaw'[u] = {}
                         \/ /\ MapCall'[u] # None
                            /\ MapSaw'[u] \subseteq
                                 MapSaw[u] \cup {Abstract!State(MapCall'[u].key, Map')}
  <2> SUFFICES ASSUME NEW u \in Threads
               PROVE  \/ MapSaw'[u] = {}
                      \/ /\ MapCall'[u] # None
                         /\ MapSaw'[u] \subseteq
                              MapSaw[u] \cup {Abstract!State(MapCall'[u].key, Map')}
    OBVIOUS
  <2>1. CASE Pending(u)'
    <3>1. MapSaw'[u] = saw'[u] /\ MapCall'[u] = call'[u]
      BY <2>1 DEF MapSaw, MapCall
    <3> QED BY <1>1, <2>1, <3>1
  <2>2. CASE ~Pending(u)'
    BY <2>2 DEF MapSaw
  <2> QED BY <2>1, <2>2
<1> QED BY <1>2 DEF Abstract!Watch, Map, MapCall, MapSaw

\* a step that no call of MapSpec can see
LEMMA MapStutters ==
  ASSUME IInv, SawsOK, TypeOK', NodesOK', Watch, Map' = Map, ret' = ret,
         \A u \in Threads : /\ Pending(u)' <=> Pending(u)
                            /\ Pending(u) => call'[u] = call[u]
  PROVE  UNCHANGED Abstract!vars
<1>0. TypeOK /\ NodesOK
  BY DEF IInv
<1>1. MapCall' = MapCall
  BY DEF MapCall
<1>2. ASSUME NEW u \in Threads, Pending(u) PROVE saw'[u] = saw[u]
  <2>1. call'[u] = call[u] /\ call[u] # None
    BY <1>2 DEF Pending
  <2>2. saw'[u] = saw[u] \cup {StateOf(call[u].key, heap')}
    BY <2>1 DEF Watch
  <2>3. StateOf(call[u].key, heap') = StateOf(call[u].key, heap)
    BY <1>0, MapState, MapStateAfter
  <2>4. StateOf(call[u].key, heap) \in saw[u]
    BY <2>1 DEF SawsOK, SawOK, K
  <2> QED BY <2>2, <2>3, <2>4
<1>3. MapSaw' = MapSaw
  BY <1>2 DEF MapSaw
<1> QED BY <1>1, <1>3 DEF Abstract!vars, Map, MapCall, MapSaw

\* a step with which a call of MapSpec answers
LEMMA MapAnswers ==
  ASSUME IInv, SawsOK, TypeOK', NodesOK', Watch, NEW t \in Threads, Step(t), ~Pending(t)', NEW r,
         ret' = [ret EXCEPT ![t] = r]
  PROVE  Abstract!Answer(t, r)
<1>1. MapCall' = [MapCall EXCEPT ![t] = None]
  <2>1. \A u \in Threads : u # t => pc'[u] = pc[u] /\ call'[u] = call[u]
    BY StepAlone, ActorFacts DEF IInv
  <2>2. \A u \in Threads : u # t => (Pending(u)' <=> Pending(u))
    BY <2>1 DEF Pending
  <2> QED BY <2>1, <2>2 DEF MapCall
<1>2. Abstract!Watch
  BY MapWatch
<1> QED BY <1>1, <1>2 DEF Abstract!Answer, MapCall

\* the return from a call
LEMMA Returns ==
  ASSUME TypeOK, NEW t \in Threads, NEW r, Return(t, r)
  PROVE  ~Pending(t)' /\ ret' = [ret EXCEPT ![t] = r]
BY DEF Return, Pending, TypeOK

\* the map at first
LEMMA MapInit == Init => Abstract!Init
<1> SUFFICES ASSUME Init PROVE Abstract!Init
  OBVIOUS
<1>1. InMap(heap) = {}
  <2>1. \A n \in Inserted : heap[n] = Blank
    BY NodeNames DEF Init, Inserted, Names, HeadNode
  <2> QED BY <2>1 DEF InMap, Blank
<1>2. \A t \in Threads : ~Pending(t)
  BY DEF Init, Pending
<1> QED BY <1>1, <1>2 DEF Abstract!Init, Init

\* what a thread that arrives, or is about to act, remembers: whether it has
\* read a value, and that its key was not there
LEMMA Remembered ==
  ASSUME IInv, NEW t \in Threads, SawOK(t), Arrived(t) \/ pc[t] = "act"
  PROVE  /\ Pending(t) /\ Found(t) => nval[t] \in saw[t] /\ nval[t] # 0
         /\ Pending(t)
         /\ Arrived(t) /\ ~Found(t) => 0 \in saw[t]
<1>0. /\ TypeOK /\ NodesOK /\ ThreadOK(t) /\ pc[t] \in {"check", "act"}
      /\ call[t] # None
  BY DEF IInv, Arrived, ThreadOK
<1>1. Pending(t)
  BY <1>0 DEF Pending
<1>2. Found(t) => nval[t] \in saw[t] /\ nval[t] # 0
  BY <1>0 DEF SawOK, Found, NULL
<1>3. ASSUME Arrived(t), ~Found(t) PROVE 0 \in saw[t]
  <2>1. CASE Hit(t)
    BY <1>0, <1>3, <2>1 DEF SawOK, Found, NULL
  <2>2. CASE ~Hit(t)
    <3>1. right[t] # Null => right[t] \in Names /\ ~Dead(right[t]) /\ heap[right[t]].key > K(t)
      BY <1>0, <1>3, NameFacts DEF Arrived, ThreadOK, Reached
    <3>2. ~IsMarker(right[t])
      BY <1>0, <3>1, NameFacts DEF NodesOK, Fixtures, Dead
    <3> QED BY <1>0, <2>2, <3>1, <3>2 DEF SawOK, NULL
  <2> QED BY <2>1, <2>2
<1> QED BY <1>1, <1>2, <1>3

\* the three that change the map
LEMMA ChangesMap ==
  ASSUME IInv, SawsOK, TypeOK', NodesOK', NEW t \in Threads, Step(t),
         Delete(t) \/ Revive(t) \/ Publish(t)
  PROVE  Abstract!Next
<1>0. /\ TypeOK /\ NodesOK /\ ThreadOK(t) /\ SawOK(t) /\ Watch /\ t \in Actors /\ pc[t] = "act"
  BY StepOwn, ActorFacts DEF IInv, SawsOK, Delete, Revive, Publish
<1>1. Pending(t) /\ MapCall[t] = call[t] /\ call[t] # None
  BY <1>0 DEF Pending, MapCall, ThreadOK
<1>2. \A k : Abstract!State(k, Map) = StateOf(k, heap)
  BY <1>0, MapState
<1>3. ~Pending(t)' /\ ret' = [ret EXCEPT ![t] = 1]
  <2>1. CASE Return(t, 1)
    BY <1>0, <2>1, Returns
  <2>2. CASE Publish(t) /\ right[t] # Null
    BY <1>0, <2>2 DEF Publish, Pending, Goto, TypeOK
  <2> QED BY <2>1, <2>2 DEF Delete, Revive, Publish
<1>4. Abstract!Answer(t, 1)
  BY <1>0, <1>3, MapAnswers
<1>5. CASE Delete(t)
  <2>1. StateOf(K(t), heap) # 0 /\ Map' = {p \in Map : p[1] # K(t)}
    BY <1>0, <1>5, DeleteMap
  <2>2. MapCall[t].op = "delete" /\ MapCall[t].key = K(t)
    BY <1>1, <1>5 DEF Delete, Op, K
  <2>3. Abstract!State(MapCall[t].key, Map) # 0
    BY <1>2, <2>1, <2>2
  <2>4. Abstract!Delete(t)
    BY <1>4, <2>1, <2>2, <2>3 DEF Abstract!Delete, Map, MapCall
  <2> QED BY <2>4 DEF Abstract!Next
<1>6. CASE Revive(t) \/ Publish(t)
  <2>1. StateOf(K(t), heap) = 0 /\ Map' = Map \cup {<<K(t), call[t].arg>>}
    BY <1>0, <1>6, InsertMap
  <2>2. MapCall[t].op = "insert" /\ MapCall[t].key = K(t) /\ MapCall[t].arg = call[t].arg
    BY <1>1, <1>6 DEF Revive, Publish, Op, K
  <2>3. Abstract!State(MapCall[t].key, Map) = 0
    BY <1>2, <2>1, <2>2
  <2>4. Map' = Map \cup {<<MapCall[t].key, MapCall[t].arg>>}
    BY <2>1, <2>2
  <2>5. Abstract!Insert(t)
    BY <1>4, <2>2, <2>3, <2>4 DEF Abstract!Insert, Map, MapCall
  <2> QED BY <2>5 DEF Abstract!Next
<1> QED BY <1>5, <1>6

\* the answers that change nothing
LEMMA AnswersOnly ==
  ASSUME IInv, SawsOK, TypeOK', NodesOK', NEW t \in Threads, Step(t),
         FinishContains(t) \/ FinishVain(t) \/ DeleteLate(t)
  PROVE  Abstract!Next
<1>0. TypeOK /\ NodesOK /\ ThreadOK(t) /\ SawOK(t) /\ Watch /\ t \in Actors
  BY StepOwn, ActorFacts DEF IInv, SawsOK
<1>1. /\ Pending(t) /\ MapCall[t] = call[t] /\ MapSaw[t] = saw[t]
      /\ Found(t) => nval[t] \in saw[t] /\ nval[t] # 0
      /\ Arrived(t) /\ ~Found(t) => 0 \in saw[t]
  <2>1. Arrived(t) \/ pc[t] = "act"
    BY DEF FinishContains, FinishVain, DeleteLate
  <2> QED BY <1>0, <2>1, Remembered DEF MapCall, MapSaw
<1>2. Map' = Map
  <2>1. ~Delete(t) /\ ~Revive(t) /\ ~Publish(t)
    BY DEF FinishContains, FinishVain, DeleteLate, Delete, Revive, Publish, Arrived
  <2> QED BY <1>0, <2>1, ThreadValues, MapSame
<1>3. \A r : Return(t, r) => Abstract!Answer(t, r)
  BY <1>0, Returns, MapAnswers
<1>4. CASE FinishContains(t)
  <2>1. MapCall[t].op = "exists" /\ Return(t, IF Found(t) THEN 1 ELSE 0)
    BY <1>1, <1>4 DEF FinishContains, Op
  <2>2. \E v \in MapSaw[t] : Abstract!Answer(t, IF v = 0 THEN 0 ELSE 1)
    <3>1. CASE Found(t)
      BY <1>1, <1>3, <2>1, <3>1
    <3>2. CASE ~Found(t)
      BY <1>1, <1>3, <1>4, <2>1, <3>2 DEF FinishContains
    <3> QED BY <3>1, <3>2
  <2>3. Abstract!Exists(t)
    BY <1>2, <2>1, <2>2 DEF Abstract!Exists, Map, MapCall, MapSaw
  <2> QED BY <2>3 DEF Abstract!Next
<1>5. CASE FinishVain(t) /\ Op(t) = "insert"
  <2>1. MapCall[t].op = "insert" /\ MapSaw[t] \ {0} # {} /\ Abstract!Answer(t, 0)
    BY <1>1, <1>3, <1>5 DEF FinishVain, Op
  <2>2. Abstract!NotInserted(t)
    BY <1>2, <2>1 DEF Abstract!NotInserted, Map, MapCall, MapSaw
  <2> QED BY <2>2 DEF Abstract!Next
<1>6. CASE (FinishVain(t) /\ Op(t) = "delete") \/ DeleteLate(t)
  <2>1. 0 \in saw[t]
    <3>1. CASE FinishVain(t) /\ Op(t) = "delete"
      BY <1>1, <3>1 DEF FinishVain
    <3>2. CASE DeleteLate(t)
      <4>1. Hit(t) /\ pc[t] = "act" /\ call[t] # None /\ left[t] \in Used /\ K(t) > 0
        <5>1. pc[t] = "act" /\ Op(t) = "delete"
          BY <3>2 DEF DeleteLate
        <5>2. Hit(t)
          BY <1>0, <5>1 DEF SawOK
        <5>3. call[t] # None /\ left[t] \in Used
          BY <1>0, <5>1 DEF ThreadOK
        <5>4. call[t] \in Calls
          BY <1>0, <5>3 DEF TypeOK
        <5> QED BY <5>1, <5>2, <5>3, <5>4 DEF Calls, K
      <4>2. CASE Dead(left[t])
        BY <1>0, <4>1, <4>2 DEF SawOK, NULL
      <4>3. CASE ~Dead(left[t])
        <5>1. heap[left[t]].val = 0
          BY <3>2, <4>3 DEF DeleteLate, Dead, NULL
        <5>2. left[t] \in 1 .. used
          BY <1>0, <4>1, NameFacts DEF Hit, NodesOK, Fixtures, Used, HeadNode
        <5>3. StateOf(K(t), heap) = 0
          BY <1>0, <4>1, <4>3, <5>1, <5>2, StateIs DEF Hit
        <5> QED BY <1>0, <4>1, <5>3 DEF SawOK
      <4> QED BY <4>2, <4>3
    <3> QED BY <1>6, <3>1, <3>2
  <2>2. MapCall[t].op = "delete" /\ 0 \in MapSaw[t] /\ Abstract!Answer(t, 0)
    BY <1>1, <1>3, <1>6, <2>1 DEF FinishVain, DeleteLate, Op
  <2>3. Abstract!NotDeleted(t)
    BY <1>2, <2>2 DEF Abstract!NotDeleted, Map, MapCall, MapSaw
  <2> QED BY <2>3 DEF Abstract!Next
<1> QED BY <1>4, <1>5, <1>6 DEF FinishVain

\* the start of a call
LEMMA Starts ==
  ASSUME IInv, SawsOK, TypeOK', NodesOK', NEW t \in Threads, Start(t) PROVE Abstract!Next
<1>0. TypeOK /\ ThreadOK(t) /\ SawOK(t) /\ Step(t) /\ t \in Actors
  BY ActorFacts DEF IInv, SawsOK, Step
<1>1. PICK c \in todo[t] : call' = [call EXCEPT ![t] = c]
  BY DEF Start
<1>2. c \in PlannedCalls /\ c \in Calls /\ c # None
  BY <1>0, <1>1, ActorFacts DEF SawOK, TypeOK
<1>3. /\ ~Pending(t) /\ MapCall[t] = None /\ MapSaw[t] = {}
      /\ pc'[t] = "right" /\ call'[t] = c /\ ret' = ret
  <2>1. ~Pending(t)
    BY <1>0 DEF ThreadOK, Start, Pending
  <2>2. pc'[t] = "right" /\ call'[t] = c /\ ret' = ret
    BY <1>0, <1>1 DEF Start, Goto, TypeOK
  <2> QED BY <2>1, <2>2 DEF MapCall, MapSaw
<1>4. MapCall' = [MapCall EXCEPT ![t] = c]
  <2>1. \A u \in Threads : u # t => pc'[u] = pc[u] /\ call'[u] = call[u]
    BY <1>0, StepAlone, ActorFacts
  <2>2. \A u \in Threads : u # t => (Pending(u)' <=> Pending(u))
    BY <2>1 DEF Pending
  <2>3. Pending(t)'
    BY <1>2, <1>3 DEF Pending
  <2> QED BY <1>3, <2>1, <2>2, <2>3 DEF MapCall
<1>5. Map' = Map
  <2>1. UNCHANGED list
    BY DEF Start
  <2> QED BY <1>0, <2>1, ReadOnly, MapSame
<1>6. Abstract!Watch
  BY <1>0, MapWatch DEF Start
<1>7. Abstract!Invoke(t)
  BY <1>2, <1>3, <1>4, <1>5, <1>6 DEF Abstract!Invoke, Map, MapCall, MapSaw
<1> QED BY <1>7 DEF Abstract!Next

\* the other steps of a thread
LEMMA Unseen ==
  ASSUME IInv, SawsOK, TypeOK', NodesOK', NEW t \in Threads, Step(t),
         ~Start(t), ~Delete(t), ~Revive(t), ~Publish(t),
         ~FinishContains(t), ~FinishVain(t), ~DeleteLate(t)
  PROVE  UNCHANGED Abstract!vars
<1>0. TypeOK /\ ThreadOK(t) /\ Watch /\ t \in Actors
  BY StepOwn, ActorFacts DEF IInv
<1>1. Map' = Map
  BY <1>0, ThreadValues, MapSame
<1>2. \A u \in Threads : u # t => pc'[u] = pc[u] /\ call'[u] = call[u]
  BY <1>0, StepAlone, ActorFacts
<1>3. /\ ret' = ret /\ (Pending(t)' <=> Pending(t))
      /\ Pending(t) => call'[t] = call[t]
  <2>1. CASE Link(t)
    <3>1. ret' = [ret EXCEPT ![t] = ret[t]] /\ ~Pending(t)'
      BY <1>0, <2>1, Returns DEF Link
    <3>2. ret' = ret
      BY <1>0, <3>1 DEF TypeOK
    <3> QED BY <2>1, <3>1, <3>2 DEF Link, Pending
  <2>2. CASE GoRight(t) \/ LandBefore(t) \/ GoDown(t) \/ LandBelow(t)
    BY <1>0, <2>2 DEF GoRight, LandBefore, GoDown, LandBelow, Land, Goto, Pending, TypeOK
  <2>3. CASE StepBack(t) \/ ReadVal(t) \/ ReadNext(t) \/ MeetDead(t) \/ MoveOn(t) \/ GoAct(t)
               \/ HelpMark(t) \/ HelpUnlink(t) \/ Retry(t)
    BY <1>0, <2>3, ActorFacts DEF StepBack, ReadVal, ReadNext, MeetDead, MoveOn, GoAct, Arrived,
       HelpMark, HelpUnlink, Retry, Goto, Pending, TypeOK
  <2> QED BY <2>1, <2>2, <2>3 DEF Step
<1>4. \A u \in Threads : /\ Pending(u)' <=> Pending(u)
                         /\ Pending(u) => call'[u] = call[u]
  <2>1. ASSUME NEW u \in Threads, u # t
        PROVE  (Pending(u)' <=> Pending(u)) /\ (Pending(u) => call'[u] = call[u])
    BY <1>2, <2>1 DEF Pending
  <2> QED BY <1>3, <2>1
<1> QED BY <1>0, <1>1, <1>3, <1>4, MapStutters

\* the steps of the background thread and the driver
LEMMA UnseenElsewhere ==
  ASSUME IInv, SawsOK, TypeOK', NodesOK', BgStep \/ NextRound PROVE UNCHANGED Abstract!vars
<1>0. TypeOK
  BY DEF IInv
<1>1. Map' = Map
  BY <1>0, BgEffect, DriverEffect, MapSame
<1>2. CASE BgStep
  <2>1. /\ \A u \in Threads : pc'[u] = pc[u]
        /\ call' = call /\ ret' = ret
    BY <1>0, <1>2, BgAlone
  <2>2. Watch
    BY <1>2 DEF BgStep, BgWake, BgRemove, BgSpare, HelpMark, HelpUnlink, BgCount, BgWalk,
       BgTraversed, BgGather, BgGathered, BgLookAhead, BgRaise, BgRaised, BgClimb,
       BgNextLevel, BgClimbed, BgLower
  <2>3. \A u \in Threads : Pending(u)' <=> Pending(u)
    BY <2>1 DEF Pending
  <2> QED BY <1>1, <2>1, <2>2, <2>3, MapStutters
<1>3. CASE NextRound
  <2>1. pc' = pc /\ call' = call /\ ret' = ret /\ saw' = saw
    BY <1>3 DEF NextRound
  <2>2. MapCall' = MapCall /\ MapSaw' = MapSaw
    BY <2>1 DEF MapCall, MapSaw, Pending
  <2> QED BY <1>1, <2>1, <2>2 DEF Abstract!vars, Map, MapCall, MapSaw
<1> QED BY <1>2, <1>3

\* every step is a step of MapSpec or stutters
LEMMA MapNext == IInv /\ SawsOK /\ [Next]_vars => [Abstract!Next]_(Abstract!vars)
<1> SUFFICES ASSUME IInv, SawsOK, [Next]_vars PROVE Abstract!Next \/ UNCHANGED Abstract!vars
  OBVIOUS
<1>1. CASE UNCHANGED vars
  <2>1. MapCall' = MapCall /\ MapSaw' = MapSaw /\ Map' = Map /\ ret' = ret
    BY <1>1 DEF vars, list, MapCall, MapSaw, Map, InMap, Pending
  <2> QED BY <2>1 DEF Abstract!vars, Map, MapCall, MapSaw
<1>2. CASE Next
  <2>1. TypeOK' /\ NodesOK'
    BY <1>2, StepKeeps
  <2>2. ASSUME NEW t \in Threads, Step(t) PROVE Abstract!Next \/ UNCHANGED Abstract!vars
    BY <2>1, <2>2, ChangesMap, AnswersOnly, Starts, Unseen
  <2>3. CASE BgStep \/ NextRound
    BY <2>1, <2>3, UnseenElsewhere
  <2> QED BY <1>1, <1>2, <2>2, <2>3 DEF Next, Finished
<1> QED BY <1>1, <1>2

(* The skip list is a map, for any number of threads and rounds of calls:  *)
(* insert and delete take effect at one compare-and-swap each, and a call  *)
(* that changes nothing answers with a state its key had during the call,  *)
(* though its reads are not atomic and the background thread removes nodes *)
(* meanwhile (sl_do_operation, sl_finish_insert, sl_finish_delete,         *)
(* sl_finish_contains).                                                    *)
THEOREM MapRefinement == Spec => ImplementsMap
<1>1. Spec => []SawsOK
  BY Inductive, SawInit, SawNext, PTL DEF Spec
<1> QED BY <1>1, Inductive, MapInit, MapNext, PTL DEF Spec, ImplementsMap, Abstract!Spec

================================================================================
