--------------------------- MODULE NoHotSpot_proofs ---------------------------
(***************************************************************************)
(* Proofs about NoHotSpot, for any number of threads, any rounds of calls  *)
(* and any bounds: the variables keep their types, the list is whole       *)
(* whatever compare-and-swaps meet, and a removed node stays removed.      *)
(*                                                                         *)
(* The invariant says what each actor knows of the nodes its variables     *)
(* hold, at each place it can be in.  All of it is about keys and removal, *)
(* which a step of another actor leaves alone (Kept).                      *)
(***************************************************************************)
EXTENDS NoHotSpotList_proofs

\* a node that was some node's next when it was read
Reached(n) == n \in 1 .. used \/ (n \in Names /\ IsMarker(n))

\* an actor between the two halves of bg_help_remove
HelpOK(a) == /\ pc[a] \in {"mark", "unlink"} => right[a] \in 1 .. used /\ Dead(right[a])
             /\ pc[a] = "unlink" => ~Unmarked(right[a])

ThreadOK(t) ==
  /\ (pc[t] = "idle") <=> (call[t] = None)
  /\ pc[t] \in {"idle", "right", "down", "val", "next", "check", "act", "link", "mark", "unlink"}
  /\ pc[t] \in {"right", "down"} => item[t] \in 1 .. made /\ KeyOf(item[t]) < K(t)
  /\ pc[t] \in {"val", "next", "check", "act", "mark", "unlink"} =>
       left[t] \in Used /\ heap[left[t]].key <= K(t)
  /\ pc[t] = "check" /\ right[t] # Null => Reached(right[t])
  /\ pc[t] = "act" => Op(t) \in {"insert", "delete"}
  /\ pc[t] = "act" /\ right[t] # Null => right[t] \in 1 .. used /\ heap[right[t]].key > K(t)
  /\ pc[t] = "link" => /\ left[t] \in 1 .. used
                       /\ right[t] \in 1 .. used
                       /\ heap[right[t]].key > heap[left[t]].key

BgOK ==
  /\ pc[Bg] \in {"idle", "claim", "mark", "unlink", "count", "walk", "gather", "raise", "place",
                 "climb", "lower"}
  /\ pc[Bg] \in {"claim", "mark", "unlink", "count", "walk", "raise", "place"} =>
       left[Bg] \in Names
  /\ pc[Bg] \in {"claim", "raise"} => right[Bg] = Null \/ Reached(right[Bg])
  /\ pc[Bg] \in {"count", "walk", "place"} => Reached(right[Bg])
  /\ pc[Bg] = "place" => ahead = Null \/ Reached(ahead)
  /\ pc[Bg] = "gather" => item[Bg] # NoItem \/ inodes # <<>>
  /\ pc[Bg] \in {"raise", "place", "climb"} => inodes # <<>>
  /\ pc[Bg] \in {"climb", "lower"} => item[Bg] # NoItem

\* the items of a column are over one node, and the top one is over the head
ItemOK(i) == /\ idx[i].node \in Used
             /\ idx[i].right \in 0 .. made
             /\ idx[i].down \in 0 .. made
             /\ idx[i].down # NoItem => idx[idx[i].down].node = idx[i].node
ItemsOK == /\ \A i \in Items : ItemOK(i)
           /\ idx[top].node = HeadNode

\* the inductive invariant
IInv == /\ TypeOK
        /\ NodesOK
        /\ \A a \in Actors : HelpOK(a)
        /\ \A t \in Threads : ThreadOK(t)
        /\ BgOK
        /\ ItemsOK

-------------------------------------------------------------------------------
(* Types                                                                   *)

\* the actors and the bounds
LEMMA ActorFacts == /\ Bg \in Actors /\ Bg \notin Threads
                    /\ \A t \in Threads : t \in Actors /\ t # Bg
                    /\ MaxItems \in Nat /\ MaxItems > 0
                    /\ None \notin Calls
BY ActorsAssumption, BoundsAssumption DEF Actors, Calls, None

\* what a key's state can be
LEMMA StateTyped ==
  ASSUME NEW h \in [Names -> NodeType], NEW k \in Nat PROVE StateOf(k, h) \in Nat
<1>1. \A n \in InMap(h) : h[n].val \in Nat
  BY NodeNames DEF InMap, NodeType, Self, Inserted
<1>2. CASE \E n \in InMap(h) : h[n].key = k
  <2>1. (CHOOSE n \in InMap(h) : h[n].key = k) \in InMap(h)
    BY <1>2
  <2> QED BY <1>1, <1>2, <2>1 DEF StateOf
<1>3. CASE ~\E n \in InMap(h) : h[n].key = k
  BY <1>3 DEF StateOf
<1> QED BY <1>2, <1>3

\* what a call has seen of its key is a set of states
LEMMA SawTyped ==
  ASSUME saw \in [Threads -> SUBSET Nat], Watch,
         heap' \in [Names -> NodeType], call' \in [Threads -> Calls \cup {None}]
  PROVE  saw' \in [Threads -> SUBSET Nat]
<1>1. \A t \in Threads : call'[t] # None => StateOf(call'[t].key, heap') \in Nat
  <2> SUFFICES ASSUME NEW t \in Threads, call'[t] # None
               PROVE  StateOf(call'[t].key, heap') \in Nat
    OBVIOUS
  <2>1. call'[t].key \in Nat
    BY DEF Calls
  <2> QED BY <2>1, StateTyped
<1> QED BY <1>1 DEF Watch

\* the initial state is of the types
LEMMA TypeInit == Init => TypeOK
<1> SUFFICES ASSUME Init PROVE TypeOK
  OBVIOUS
<1>1. heap \in [Names -> NodeType]
  <2>1. Blank \in NodeType /\ NewHead \in NodeType
    BY DEF Blank, NewHead, NodeType, NULL
  <2> QED BY <2>1 DEF Init
<1> USE DEF Init
<1>2. /\ used \in 0 .. MaxNodes
      /\ left \in [Actors -> Names \cup {Null}]
      /\ right \in [Actors -> Names \cup {Null}]
      /\ nval \in [Threads -> Nat]
      /\ ahead \in Names \cup {Null}
  BY NodeNames DEF NULL
<1>3. /\ idx \in [Items -> [node : 0 .. MaxNodes, right : 0 .. MaxItems, down : 0 .. MaxItems]]
      /\ made \in Items /\ top \in 1 .. made
      /\ item \in [Actors -> 0 .. MaxItems]
  BY ActorFacts, NodeNames DEF Items, BlankItem, HeadNode, NoItem
<1>4. /\ pc \in [Actors -> Places]
      /\ call \in [Threads -> Calls \cup {None}]
      /\ level \in Nat /\ raised \in BOOLEAN /\ alive \in Nat /\ tall \in Nat
      /\ ret \in [Threads -> {0, 1}]
      /\ saw \in [Threads -> SUBSET Nat]
  BY DEF Places
<1>6. inodes \in Seq(Items)
  OBVIOUS
<1>5. /\ round \in 1 .. Len(Work)
      /\ todo \in [Threads -> SUBSET Calls]
      /\ loops \in Nat
  BY WorkAssumption
<1> QED BY <1>1, <1>2, <1>3, <1>4, <1>5, <1>6 DEF TypeOK

-------------------------------------------------------------------------------
(* Every step has one of the effects                                       *)

\* the nodes as a step leaves them
ListTyped == heap' \in [Names -> NodeType] /\ used' \in 0 .. MaxNodes

\* no node changes its key or its value, except that a deleted one is claimed
ValuesKept == \A n \in Names : /\ SameKey(n)
                              /\ \/ SameVal(n)
                                 \/ heap[n].val = NULL /\ heap'[n].val = Self

\* a step that only reads them
LEMMA ReadOnly ==
  ASSUME TypeOK, UNCHANGED list PROVE Effect /\ ListTyped /\ ValuesKept
BY DEF TypeOK, list, Effect, ListTyped, ValuesKept, Quiet, SameKey, SameVal, SameNext, SamePrev

\* the two halves of bg_help_remove, by any actor
LEMMA HelpEffect ==
  ASSUME TypeOK, NodesOK, NEW a \in Actors, HelpOK(a), left[a] \in Names,
         HelpMark(a) \/ HelpUnlink(a)
  PROVE  Effect /\ ListTyped /\ ValuesKept
<1> DEFINE n == right[a]
<1>0. /\ n \in 1 .. used /\ Dead(n) /\ n \in Names /\ Marker(n) \in Names /\ n # Marker(n)
      /\ IsMarker(Marker(n)) /\ ~IsMarker(n) /\ used' = used /\ used \in 0 .. MaxNodes
      /\ heap \in [Names -> NodeType]
      /\ \A m \in Names : heap[m].next \in Names \cup {Null}
  BY NameFacts DEF HelpOK, HelpMark, HelpUnlink, TypeOK
<1>1. CASE HelpMark(a) /\ Unmarked(n)
  <2>1. heap' = [heap EXCEPT ![n].next = Marker(n),
                             ![Marker(n)].next = heap[n].next, ![Marker(n)].prev = n]
    BY <1>1 DEF HelpMark, Unmarked
  <2>2. /\ heap'[n] = [heap[n] EXCEPT !.next = Marker(n)]
        /\ heap'[Marker(n)] = [heap[Marker(n)] EXCEPT !.next = heap[n].next, !.prev = n]
        /\ \A m \in Names : m \notin {n, Marker(n)} => heap'[m] = heap[m]
        /\ heap' = [m \in Names |-> heap'[m]]
    BY <1>0, <2>1
  <2>n. /\ heap'[n] \in NodeType
        /\ heap'[n].next = Marker(n) /\ heap'[n].prev = heap[n].prev
        /\ heap'[n].key = heap[n].key /\ heap'[n].val = heap[n].val
    BY <1>0, <2>2 DEF NodeType
  <2>m. /\ heap'[Marker(n)] \in NodeType
        /\ heap'[Marker(n)].next = heap[n].next
        /\ heap'[Marker(n)].key = heap[Marker(n)].key
        /\ heap'[Marker(n)].val = heap[Marker(n)].val
    <3> DEFINE r == heap[Marker(n)]
               s == heap'[Marker(n)]
    <3>1. /\ r \in NodeType /\ heap[n].next \in Names \cup {Null} /\ n \in Names \cup {Null}
          /\ s = [r EXCEPT !.next = heap[n].next, !.prev = n]
      BY <1>0, <2>2
    <3> HIDE DEF r, s, n
    <3>2. s \in NodeType /\ s.next = heap[n].next /\ s.key = r.key /\ s.val = r.val
      BY <3>1 DEF NodeType
    <3> QED BY <3>2 DEF r, s
  <2>3. Marked(n)
    BY <1>0, <1>1, <2>2, <2>n, <2>m DEF Marked, SameKey, SameVal, SameNext, SamePrev
  <2>4. ListTyped
    BY <1>0, <2>2, <2>n, <2>m DEF ListTyped
  <2>5. ValuesKept
    BY <2>3 DEF Marked, ValuesKept
  <2> QED BY <1>0, <2>3, <2>4, <2>5 DEF Effect
<1>2. CASE HelpUnlink(a) /\ heap[left[a]].next = n /\ ~IsMarker(left[a])
  <2>1. ~Unmarked(n) /\ heap[n].next = Marker(n)
    BY <1>2, <1>0, MarkerOf DEF HelpOK, HelpUnlink, NodesOK
  <2>2. heap' = [heap EXCEPT ![left[a]].next = heap[Marker(n)].next]
    BY <1>2, <2>1 DEF HelpUnlink, Behind, Unmarked
  <2>3. Unlinked(left[a], n)
    BY <1>0, <1>2, <2>1, <2>2 DEF Unlinked, SameKey, SameVal, SameNext, SamePrev, NodeType
  <2>4. ListTyped
    BY <1>0, <2>2 DEF ListTyped, NodeType
  <2>5. ValuesKept
    BY <2>3 DEF Unlinked, ValuesKept
  <2> QED BY <1>0, <2>3, <2>4, <2>5 DEF Effect
<1>3. CASE UNCHANGED list
  BY <1>3, ReadOnly
<1> QED BY <1>0, <1>1, <1>2, <1>3 DEF HelpMark, HelpUnlink, Unmarked, list

\* the steps of a call
LEMMA ThreadEffect ==
  ASSUME IInv, NEW t \in Threads, Step(t) PROVE Effect /\ ListTyped
<1> DEFINE l == left[t]
           r == right[t]
<1>0. /\ TypeOK /\ NodesOK /\ HelpOK(t) /\ ThreadOK(t) /\ t \in Actors
      /\ heap \in [Names -> NodeType] /\ used \in 0 .. MaxNodes
      /\ \A n \in Names : heap[n] \in NodeType
      /\ call[t] \in Calls \cup {None}
  BY ActorFacts DEF IInv, TypeOK
<1>1. CASE HelpMark(t) \/ HelpUnlink(t)
  <2>1. left[t] \in Names
    BY <1>0, <1>1, NameFacts DEF ThreadOK, HelpMark, HelpUnlink
  <2> QED BY <1>0, <1>1, <2>1, HelpEffect
<1>2. CASE Delete(t) \/ Revive(t)
  <2>1. PICK v \in Nat : heap' = [heap EXCEPT ![l].val = v] /\ heap[l].val # Self /\ v # Self
    <3>1. CASE Delete(t)
      <4>1. heap' = [heap EXCEPT ![l].val = NULL] /\ heap[l].val # Self
        BY <3>1 DEF Delete
      <4>2. NULL \in Nat /\ NULL # Self
        BY DEF NULL, Self
      <4> QED BY <4>1, <4>2
    <3>2. CASE Revive(t)
      <4>1. heap' = [heap EXCEPT ![l].val = call[t].arg] /\ heap[l].val # Self
        BY <3>2 DEF Revive, NULL, Self
      <4>2. call[t].arg \in Nat /\ call[t].arg # Self
        BY <1>0 DEF Calls, None, Self
      <4> QED BY <4>1, <4>2
    <3> QED BY <1>2, <3>1, <3>2
  <2>2. l \in Used /\ l \in Names /\ used' = used
    BY <1>0, <1>2, NameFacts DEF ThreadOK, Delete, Revive
  <2>3. Valued(l)
    BY <1>0, <2>1, <2>2 DEF Valued, SameKey, SameVal, SameNext, SamePrev, NodeType
  <2>4. ListTyped
    BY <1>0, <2>1, <2>2 DEF ListTyped, NodeType
  <2> QED BY <2>2, <2>3, <2>4 DEF Effect
<1>3. CASE Publish(t)
  <2> DEFINE w == used + 1
  <2>1. /\ l \in Used /\ l \in Names /\ r \in (1 .. used) \cup {Null} /\ r \in Names \cup {Null}
        /\ heap[l].key <= K(t) /\ heap[l].key # K(t) /\ (r # Null => heap[r].key > K(t))
        /\ heap[l].next = r /\ used < MaxNodes /\ used' = w
    BY <1>0, <1>3, NameFacts DEF ThreadOK, Publish, Hit
  <2>2. w \in Names /\ l # w /\ K(t) \in Nat /\ call[t].arg \in Nat /\ heap[l].key \in Nat
    BY <1>0, <2>1, NameFacts, NodeNames DEF Used, K, Calls, None, NodeType
  <2>3. heap' = [heap EXCEPT ![l].next = w, ![w] = NewNode(t)]
    BY <1>3 DEF Publish
  <2>4. NewNode(t) \in NodeType
    BY <1>0, <2>1, <2>2 DEF NewNode, NodeType
  <2>5. /\ heap'[l] = [heap[l] EXCEPT !.next = w] /\ heap'[w] = NewNode(t)
        /\ \A n \in Names : n \notin {l, w} => heap'[n] = heap[n]
        /\ heap' = [n \in Names |-> heap'[n]]
    BY <1>0, <2>1, <2>2, <2>3
  <2>6. /\ heap'[l] \in NodeType
        /\ heap'[l].next = w /\ heap'[l].prev = heap[l].prev
        /\ heap'[l].key = heap[l].key /\ heap'[l].val = heap[l].val
    BY <1>0, <2>1, <2>2, <2>5 DEF NodeType
  <2>7. heap'[w].key = K(t) /\ heap'[w].next = r /\ heap'[w].prev = l
    BY <2>5 DEF NewNode
  <2>8. Published(l, r, w)
    <3> HIDE DEF l, r, w
    <3>1. heap'[w].key > heap[l].key /\ (r # Null => heap'[w].key < heap[r].key)
      BY <1>0, <2>1, <2>2, <2>7, NameFacts DEF NodeType
    <3> QED BY <2>1, <2>2, <2>5, <2>6, <2>7, <3>1 DEF Published, SameKey, SameVal, SameNext, SamePrev, w
  <2>9. ListTyped
    <3>1. heap'[w] \in NodeType
      BY <2>4, <2>5
    <3>2. used' \in 0 .. MaxNodes
      BY <1>0, <2>1, NodeNames
    <3> HIDE DEF l, w
    <3> QED BY <1>0, <2>5, <2>6, <3>1, <3>2 DEF ListTyped
  <2> QED BY <2>1, <2>8, <2>9 DEF Effect
<1>4. CASE Link(t)
  <2>1. /\ l \in 1 .. used /\ r \in 1 .. used /\ heap[r].key > heap[l].key
        /\ l \in Names /\ r \in Names /\ used' = used
        /\ heap' = [heap EXCEPT ![r].prev = l]
    BY <1>0, <1>4, NameFacts DEF ThreadOK, Link
  <2>2. BackLinked(l, r)
    BY <1>0, <2>1 DEF BackLinked, SameKey, SameVal, SameNext, SamePrev, NodeType
  <2>3. ListTyped
    BY <1>0, <2>1 DEF ListTyped, NodeType
  <2> QED BY <2>1, <2>2, <2>3 DEF Effect
<1>5. CASE UNCHANGED list
  BY <1>0, <1>5, ReadOnly
<1> QED BY <1>1, <1>2, <1>3, <1>4, <1>5
        DEF Step, Start, GoRight, LandBefore, GoDown, LandBelow, Land, StepBack, ReadVal, ReadNext,
            MeetDead, MoveOn, FinishContains, FinishVain, GoAct, DeleteLate, Retry

-------------------------------------------------------------------------------
(* What the background thread does to the index                            *)

\* the index as a step leaves it
IndexKept == /\ idx' \in [Items -> [node : 0 .. MaxNodes, right : 0 .. MaxItems,
                                    down : 0 .. MaxItems]]
             /\ made' \in Items /\ made' >= made /\ top' \in 1 .. made'
             /\ \A i \in 1 .. made : idx'[i].node = idx[i].node
             /\ ItemsOK'

\* a step that leaves it alone
LEMMA IndexSame ==
  ASSUME TypeOK, ItemsOK, UNCHANGED index, used' \in Nat, used' >= used PROVE IndexKept
<1>1. made' = made /\ top' = top /\ idx' = idx /\ made \in Items /\ made \in Nat /\ used \in Nat
  BY ActorFacts DEF TypeOK, index, Items
<1>2. ItemsOK'
  <2>1. \A i : ItemOK(i) => ItemOK(i)'
    BY <1>1 DEF ItemOK, Used
  <2> QED BY <1>1, <2>1 DEF ItemsOK
<1>3. /\ made' >= made /\ top' \in 1 .. made'
      /\ \A i \in 1 .. made : idx'[i].node = idx[i].node
  BY <1>1 DEF TypeOK
<1> QED BY <1>1, <1>2, <1>3 DEF IndexKept, TypeOK

\* only the level of a node changes
LEMMA LevelSet ==
  ASSUME TypeOK, used' = used, NEW n \in Names, NEW e \in Int,
         heap' = [heap EXCEPT ![n].level = e]
  PROVE  Effect /\ ListTyped /\ ValuesKept
<1>1. heap \in [Names -> NodeType] /\ used \in 0 .. MaxNodes
  BY DEF TypeOK
<1>2. Quiet
  BY <1>1 DEF Quiet, SameKey, SameVal, SameNext, SamePrev, NodeType
<1>3. ListTyped
  BY <1>1 DEF ListTyped, NodeType
<1> QED BY <1>2, <1>3 DEF Effect, ValuesKept, Quiet

ItemType == [node : 0 .. MaxNodes, right : 0 .. MaxItems, down : 0 .. MaxItems]

\* the facts about items the provers need below
LEMMA ItemFacts ==
  TypeOK => /\ idx \in [Items -> ItemType]
            /\ made \in Items /\ made \in Nat /\ made <= MaxItems /\ MaxItems \in Nat
            /\ top \in 1 .. made /\ top \in Items
            /\ \A i \in Int : i \in Items <=> 1 <= i /\ i <= MaxItems
            /\ \A i \in 1 .. made : i \in Items
            /\ Used \subseteq 0 .. MaxNodes /\ Items \subseteq 0 .. MaxItems
<1> SUFFICES ASSUME TypeOK
             PROVE  /\ idx \in [Items -> ItemType]
                    /\ made \in Items /\ made \in Nat /\ made <= MaxItems /\ MaxItems \in Nat
                    /\ top \in 1 .. made /\ top \in Items
                    /\ \A i \in Int : i \in Items <=> 1 <= i /\ i <= MaxItems
                    /\ \A i \in 1 .. made : i \in Items
                    /\ Used \subseteq 0 .. MaxNodes /\ Items \subseteq 0 .. MaxItems
  OBVIOUS
<1>1. idx \in [Items -> ItemType] /\ made \in Items /\ top \in 1 .. made
  BY DEF TypeOK, ItemType
<1>2. Items = 1 .. MaxItems /\ MaxItems \in Nat
  BY ActorFacts DEF Items
<1>3. Used \subseteq 0 .. MaxNodes
  BY NameFacts DEF Used
<1> QED BY <1>1, <1>2, <1>3

\* the fields of the items when w is written and linked behind j
LEMMA ItemFields ==
  ASSUME NEW f \in [Items -> ItemType], NEW w \in Items, NEW j \in Items, NEW new \in ItemType,
         NEW g, g = [f EXCEPT ![w] = new, ![j].right = w]
  PROVE  /\ g \in [Items -> ItemType]
         /\ \A i \in Items : i # w => g[i].node = f[i].node /\ g[i].down = f[i].down
         /\ \A i \in Items : i # w => g[i].right \in {f[i].right, w}
         /\ g[w].node = new.node /\ g[w].down = new.down /\ g[w].right \in {new.right, w}
<1> DEFINE h == [f EXCEPT ![w] = new]
<1>0. w \in 0 .. MaxItems
  BY ActorFacts DEF Items
<1>1. /\ h \in [Items -> ItemType] /\ h[w] = new
      /\ \A i \in Items : i # w => h[i] = f[i]
  OBVIOUS
<1>2. g = [h EXCEPT ![j].right = w]
  OBVIOUS
<1> HIDE DEF h
<1>3. /\ \A i \in Items : i # j => g[i] = h[i]
      /\ g[j] = [h[j] EXCEPT !.right = w]
      /\ g = [i \in Items |-> g[i]]
  BY <1>1, <1>2
<1>4. /\ g[j] \in ItemType
      /\ g[j].node = h[j].node /\ g[j].down = h[j].down /\ g[j].right = w
  <2>1. h[j] \in ItemType
    BY <1>1
  <2> QED BY <1>0, <1>3, <2>1 DEF ItemType
<1>5. g \in [Items -> ItemType]
  BY <1>1, <1>3, <1>4
<1> QED BY <1>1, <1>3, <1>4, <1>5

\* a new item w, in front of which one other may be linked
LEMMA ItemAdded ==
  ASSUME TypeOK, ItemsOK, used' = used, NEW w \in Items, w = made + 1, made' = w,
         idx' \in [Items -> ItemType],
         \A i \in Items : i # w => idx'[i].node = idx[i].node /\ idx'[i].down = idx[i].down,
         \A i \in Items : i # w => idx'[i].right \in {idx[i].right, w},
         idx'[w].node \in Used, idx'[w].right \in 0 .. w, idx'[w].down \in 0 .. made,
         idx'[w].down # NoItem => idx[idx'[w].down].node = idx'[w].node,
         top' \in {top, w}, top' = w => idx'[w].node = HeadNode
  PROVE  IndexKept
<1>0. /\ made \in Nat /\ used \in Nat /\ top \in 1 .. made /\ top \in Items /\ top # w
      /\ \A i \in 0 .. made : i # NoItem => i \in Items /\ i # w
      /\ \A i \in 0 .. made : i \in 0 .. w
      /\ w \in 0 .. w
  <2>1. top \in 1 .. made /\ top \in Items /\ made \in Nat /\ used \in Nat
    BY ItemFacts, NameFacts
  <2>2. \A i \in 0 .. made : i # NoItem => i \in Items /\ i # w
    BY ItemFacts, <2>1 DEF NoItem
  <2> QED BY <2>1, <2>2
<1>1. ASSUME NEW i \in Items
      PROVE  ItemOK(i)'
  <2> SUFFICES /\ idx'[i].node \in Used /\ idx'[i].right \in 0 .. w /\ idx'[i].down \in 0 .. w
               /\ idx'[i].down # NoItem => idx'[idx'[i].down].node = idx'[i].node
    BY DEF ItemOK, Used
  <2>1. CASE i = w
    BY <1>0, <2>1
  <2>2. CASE i # w
    <3>0. ItemOK(i)
      BY DEF ItemsOK
    <3>1. /\ idx[i].node \in Used /\ idx[i].right \in 0 .. made /\ idx[i].down \in 0 .. made
          /\ idx[i].down # NoItem => idx[idx[i].down].node = idx[i].node
      BY <3>0 DEF ItemOK
    <3>2. /\ idx'[i].node = idx[i].node /\ idx'[i].down = idx[i].down
          /\ idx'[i].right \in {idx[i].right, w}
      BY <2>2
    <3>3. idx[i].down # NoItem => idx'[idx[i].down].node = idx[idx[i].down].node
      BY <1>0, <3>1
    <3> QED BY <1>0, <3>1, <3>2, <3>3
  <2> QED BY <2>1, <2>2
<1>2. idx'[top'].node = HeadNode
  BY <1>0 DEF ItemsOK
<1>3. ItemsOK'
  <2> QED BY <1>1, <1>2 DEF ItemsOK
<1>4. made' >= made /\ top' \in 1 .. made'
  BY <1>0
<1>5. \A i \in 1 .. made : idx'[i].node = idx[i].node
  BY <1>0 DEF NoItem
<1> QED BY <1>3, <1>4, <1>5 DEF IndexKept, ItemType

\* an item over a node, put behind item j
LEMMA ItemPut ==
  ASSUME TypeOK, ItemsOK, used' = used, NEW n \in Used, NEW d \in 0 .. made, NEW j \in Items,
         d # NoItem => idx[d].node = n, made < MaxItems, made' = made + 1, top' = top,
         idx' = [idx EXCEPT ![made + 1] = [node |-> n, right |-> idx[j].right, down |-> d],
                            ![j].right = made + 1]
  PROVE  IndexKept
<1> DEFINE w == made + 1
           new == [node |-> n, right |-> idx[j].right, down |-> d]
<1>0. /\ idx \in [Items -> ItemType] /\ w \in Items /\ made' = w /\ made \in Nat
      /\ new \in ItemType /\ new.node = n /\ new.down = d /\ new.right = idx[j].right
      /\ idx[j].right \in 0 .. w
      /\ idx' = [idx EXCEPT ![w] = new, ![j].right = w]
  <2>1. /\ idx \in [Items -> ItemType] /\ w \in Items /\ made' = w /\ made \in Nat
        /\ idx[j].right \in 0 .. w /\ n \in 0 .. MaxNodes /\ d \in 0 .. MaxItems
        /\ idx[j].right \in 0 .. MaxItems
    <3> USE ItemFacts
    <3>1. ItemOK(j) /\ made \in Items /\ idx \in [Items -> ItemType] /\ n \in 0 .. MaxNodes
      BY DEF ItemsOK
    <3>2. MaxItems \in Nat /\ made \in Nat /\ made <= MaxItems /\ w \in Items /\ made' = w
      BY <3>1, ActorFacts DEF Items
    <3>3. idx[j].right \in 0 .. made
      BY <3>1 DEF ItemOK
    <3> QED BY <3>1, <3>2, <3>3
  <2>2. new \in ItemType
    BY <2>1 DEF ItemType
  <2> QED BY <2>1, <2>2
<1> HIDE DEF new, w
<1>1. /\ idx' \in [Items -> ItemType]
      /\ \A i \in Items : i # w => idx'[i].node = idx[i].node /\ idx'[i].down = idx[i].down
      /\ \A i \in Items : i # w => idx'[i].right \in {idx[i].right, w}
      /\ idx'[w].node = new.node /\ idx'[w].down = new.down /\ idx'[w].right \in {new.right, w}
  BY <1>0, ItemFields
<1>2. w \in 0 .. w /\ w = made + 1 /\ top' # w
  <2>1. top \in 1 .. made
    BY DEF TypeOK
  <2> QED BY <1>0, <2>1 DEF w
<1> QED BY <1>0, <1>1, <1>2, ItemAdded

\* a new item over the head, which becomes the top
LEMMA TopPut ==
  ASSUME TypeOK, ItemsOK, used' = used, NEW d \in 0 .. made,
         d # NoItem => idx[d].node = HeadNode, made < MaxItems, made' = made + 1, top' = made + 1,
         idx' = [idx EXCEPT ![made + 1] = [node |-> HeadNode, right |-> NoItem, down |-> d]]
  PROVE  IndexKept
<1> DEFINE w == made + 1
           new == [node |-> HeadNode, right |-> NoItem, down |-> d]
<1>0. /\ idx \in [Items -> ItemType] /\ w \in Items /\ made' = w /\ top' = w /\ made \in Nat
      /\ new \in ItemType /\ new.node = HeadNode /\ new.down = d /\ new.right = 0
      /\ HeadNode \in Used
      /\ idx' = [idx EXCEPT ![w] = new]
  <2>1. /\ idx \in [Items -> ItemType] /\ w \in Items /\ made \in Nat /\ d \in 0 .. MaxItems
        /\ 0 \in 0 .. MaxItems
    BY ItemFacts
  <2>2. HeadNode \in Used /\ HeadNode \in 0 .. MaxNodes
    BY ItemFacts, NameFacts DEF HeadNode, Used
  <2>3. new \in ItemType
    BY <2>1, <2>2 DEF ItemType, NoItem
  <2> QED BY <2>1, <2>2, <2>3 DEF NoItem
<1> HIDE DEF new, w
<1>1. /\ idx' \in [Items -> ItemType] /\ idx'[w] = new
      /\ \A i \in Items : i # w => idx'[i] = idx[i]
  BY <1>0
<1>2. 0 \in 0 .. w /\ w = made + 1
  BY <1>0 DEF w
<1> QED BY <1>0, <1>1, <1>2, ItemAdded

\* an item that is as it was
LEMMA ItemKept ==
  ASSUME used' = used, made' = made, NEW j \in Items, ItemOK(j),
         idx'[j].node = idx[j].node, idx'[j].right = idx[j].right, idx'[j].down = idx[j].down,
         idx[j].down # NoItem => idx'[idx[j].down].node = idx[idx[j].down].node
  PROVE  ItemOK(j)'
BY DEF ItemOK, Used

\* an item stands on nothing from now on
LEMMA ItemLowered ==
  ASSUME TypeOK, ItemsOK, used' = used, made' = made, top' = top, NEW i \in Items,
         idx' = [idx EXCEPT ![i].down = NoItem]
  PROVE  IndexKept
<1>0. /\ idx \in [Items -> ItemType] /\ made \in Items /\ made \in Nat /\ top \in 1 .. made
      /\ top \in Items /\ \A j \in 1 .. made : j \in Items
  BY ItemFacts
<1>1. /\ idx'[i] \in ItemType
      /\ idx'[i].node = idx[i].node /\ idx'[i].right = idx[i].right /\ idx'[i].down = NoItem
  <2>1. NoItem \in 0 .. MaxItems /\ idx[i] \in ItemType
    BY <1>0, ItemFacts DEF NoItem
  <2>2. idx'[i] = [idx[i] EXCEPT !.down = NoItem]
    BY <1>0
  <2> QED BY <2>1, <2>2 DEF ItemType
<1>2. /\ \A j \in Items : j # i => idx'[j] = idx[j]
      /\ idx' \in [Items -> ItemType]
  BY <1>0, <1>1
<1>3. \A j \in Items : idx'[j].node = idx[j].node
  BY <1>1, <1>2
<1>4. ASSUME NEW j \in Items PROVE ItemOK(j)'
  <2>0. ItemOK(j) /\ Used' = Used
    BY DEF ItemsOK, Used
  <2>1. CASE j = i
    BY <1>0, <1>1, <2>0, <2>1 DEF ItemOK, NoItem
  <2>2. CASE j # i
    <3>1. idx'[j] = idx[j]
      BY <1>2, <2>2
    <3>2. idx[j].down # NoItem => idx[j].down \in Items
      BY <1>0, <2>0 DEF ItemOK, NoItem
    <3>3. idx[j].down # NoItem => idx'[idx[j].down].node = idx[idx[j].down].node
      BY <1>3, <3>2
    <3> QED BY <2>0, <3>1, <3>3, ItemKept
  <2> QED BY <2>1, <2>2
<1>5. idx'[top'].node = HeadNode
  BY <1>0, <1>3 DEF ItemsOK
<1> QED BY <1>0, <1>2, <1>3, <1>4, <1>5 DEF IndexKept, ItemsOK, ItemType

\* the driver's new index
LEMMA Rebuilt ==
  ASSUME TypeOK, ItemsOK, used' = used, Rebuild
  PROVE  Effect /\ ListTyped /\ ValuesKept /\ IndexKept
<1>1. IndexKept
  <2>1. 0 \in 0 .. made
    BY ItemFacts
  <2> QED BY <2>1, TopPut DEF Rebuild, BlankItem, NoItem
<1>2. /\ heap \in [Names -> NodeType] /\ used \in 0 .. MaxNodes
      /\ heap' = [n \in Names |-> IF n \notin Linked THEN heap[n]
                                  ELSE [heap[n] EXCEPT !.level = IF n = HeadNode THEN 1 ELSE 0]]
  BY DEF TypeOK, Rebuild
<1>3. ASSUME NEW n \in Names
      PROVE  /\ heap'[n] \in NodeType
             /\ heap'[n].key = heap[n].key /\ heap'[n].val = heap[n].val
             /\ heap'[n].next = heap[n].next /\ heap'[n].prev = heap[n].prev
  <2>0. heap[n] \in NodeType
    BY <1>2
  <2>1. CASE n \notin Linked
    BY <1>2, <2>0, <2>1
  <2>2. CASE n \in Linked
    <3>1. heap'[n] = [heap[n] EXCEPT !.level = IF n = HeadNode THEN 1 ELSE 0]
      BY <1>2, <2>2
    <3> QED BY <2>0, <3>1 DEF NodeType
  <2> QED BY <2>1, <2>2
<1>4. Quiet /\ ListTyped
  BY <1>2, <1>3 DEF Quiet, SameKey, SameVal, SameNext, SamePrev, ListTyped
<1> QED BY <1>1, <1>4 DEF Effect, ValuesKept, Quiet

\* a step that raises a node changes only its level
LEMMA RaiseEffect ==
  ASSUME TypeOK, ItemsOK, used' = used, top' = top, NEW i, NEW n \in Used, NEW d \in 0 .. made,
         d # NoItem => idx[d].node = n, NEW e \in Int, Raise(i, n, d, e)
  PROVE  Effect /\ ListTyped /\ ValuesKept /\ IndexKept
<1>1. PICK j \in Items :
        idx' = [idx EXCEPT ![made + 1] = [node |-> n, right |-> idx[j].right, down |-> d],
                           ![j].right = made + 1]
  BY DEF Raise
<1>2. made < MaxItems /\ made' = made + 1 /\ heap' = [heap EXCEPT ![n].level = e]
  BY DEF Raise
<1>3. IndexKept
  BY <1>1, <1>2, ItemPut
<1>4. n \in Names
  BY NameFacts
<1> QED BY <1>2, <1>3, <1>4, LevelSet

\* so does the step that adds a level, for the head
LEMMA TopEffect ==
  ASSUME TypeOK, ItemsOK, used' = used, AddTop
  PROVE  Effect /\ ListTyped /\ ValuesKept /\ IndexKept
<1>1. /\ top \in 0 .. made /\ idx[top].node = HeadNode
      /\ HeadNode \in Names /\ heap[HeadNode].level + 1 \in Int
  <2>1. HeadNode \in Names
    BY NodeNames DEF HeadNode
  <2>2. heap[HeadNode].level \in Int
    BY <2>1 DEF TypeOK, NodeType
  <2> QED BY <2>1, <2>2, ItemFacts DEF ItemsOK
<1>2. /\ idx' = [idx EXCEPT ![made + 1] = [node |-> HeadNode, right |-> NoItem, down |-> top]]
      /\ made < MaxItems /\ made' = made + 1 /\ top' = made + 1
      /\ heap' = [heap EXCEPT ![HeadNode].level = heap[HeadNode].level + 1]
  BY DEF AddTop
<1>3. IndexKept
  BY <1>1, <1>2, TopPut
<1>4. Effect /\ ListTyped /\ ValuesKept
  BY <1>1, <1>2, LevelSet
<1> QED BY <1>3, <1>4

\* a node that is not removed, or that is not a marker, is one of those inserted
LEMMA ReachedUsed ==
  ASSUME TypeOK, NodesOK, NEW n, Reached(n), ~Dead(n) \/ ~IsMarker(n) PROVE n \in 1 .. used
BY DEF Reached, NodesOK, Fixtures, Dead

\* the steps of the background thread
LEMMA BgEffect ==
  ASSUME IInv, BgStep PROVE Effect /\ ListTyped /\ ValuesKept /\ IndexKept
<1>0. /\ TypeOK /\ NodesOK /\ HelpOK(Bg) /\ BgOK /\ ItemsOK /\ Bg \in Actors
      /\ heap \in [Names -> NodeType] /\ used \in 0 .. MaxNodes /\ used \in Nat
  BY ActorFacts DEF IInv, TypeOK
<1>i. pc[Bg] \in {"climb", "lower"} => item[Bg] \in Items
  <2>1. item[Bg] \in 0 .. MaxItems
    BY <1>0 DEF TypeOK
  <2>2. pc[Bg] \in {"climb", "lower"} => item[Bg] # NoItem
    BY <1>0 DEF BgOK
  <2> QED BY <1>0, <2>1, <2>2, ItemFacts DEF NoItem
<1>1. CASE UNCHANGED <<list, index>>
  <2>1. used' = used
    BY <1>1 DEF list
  <2> QED BY <1>0, <1>1, <2>1, ReadOnly, IndexSame
<1>2. CASE HelpMark(Bg) \/ HelpUnlink(Bg)
  <2>1. left[Bg] \in Names
    BY <1>0, <1>2 DEF BgOK, HelpMark, HelpUnlink
  <2>2. UNCHANGED index /\ used' = used
    BY <1>2 DEF HelpMark, HelpUnlink
  <2> QED BY <1>0, <1>2, <2>1, <2>2, HelpEffect, IndexSame
<1>3. CASE BgRemove
  <2> DEFINE n == right[Bg]
  <2>1. /\ Reached(n) /\ ~IsMarker(n) /\ heap[n].val \in {NULL, Self}
        /\ heap' = [heap EXCEPT ![n].val = Self] /\ used' = used /\ UNCHANGED index
    BY <1>0, <1>3 DEF BgRemove, BgOK
  <2>2. n \in 1 .. used
    BY <1>0, <2>1, ReachedUsed
  <2>3. n \in Names /\ n \in Used /\ n # HeadNode /\ heap[n] \in NodeType
    BY <1>0, <2>2, NameFacts DEF HeadNode
  <2>4. Quiet \/ Valued(n)
    BY <1>0, <2>1, <2>3 DEF Quiet, Valued, SameKey, SameVal, SameNext, SamePrev, NodeType
  <2>5. ListTyped
    BY <1>0, <2>1, <2>3 DEF ListTyped, NodeType
  <2>6. ValuesKept
    BY <1>0, <2>1, <2>3 DEF ValuesKept, SameKey, SameVal, NodeType
  <2> QED BY <1>0, <2>1, <2>3, <2>4, <2>5, <2>6, IndexSame DEF Effect
<1>4. CASE BgRaise
  <2>1. CASE heap' = heap /\ UNCHANGED <<made, idx, raised>>
    BY <1>0, <1>4, <2>1, ReadOnly, IndexSame DEF BgRaise, list, index
  <2>2. CASE ~Dead(right[Bg]) /\ Raise(inodes[1], right[Bg], NoItem, 1)
    <3>1. right[Bg] \in Used /\ NoItem \in 0 .. made
      BY <1>0, <1>4, <2>2, ReachedUsed, NameFacts, ItemFacts DEF BgRaise, BgOK, NoItem
    <3>2. used' = used /\ top' = top
      BY <1>4 DEF BgRaise
    <3> QED BY <1>0, <2>2, <3>1, <3>2, RaiseEffect
  <2> QED BY <1>4, <2>1, <2>2 DEF BgRaise
<1>5. CASE BgRaised \/ BgClimbed
  <2>1. used' = used
    BY <1>5 DEF BgRaised, BgClimbed
  <2>2. CASE heap' = heap /\ UNCHANGED index
    BY <1>0, <2>1, <2>2, ReadOnly, IndexSame DEF list
  <2>3. CASE AddTop
    BY <1>0, <2>1, <2>3, TopEffect
  <2> QED BY <1>5, <2>2, <2>3 DEF BgRaised, BgClimbed
<1>6. CASE BgClimb
  <2> DEFINE j == idx[item[Bg]].right
  <2>1. used' = used /\ top' = top /\ item[Bg] \in Items /\ j # NoItem
    BY <1>i, <1>6 DEF BgClimb
  <2>2. j \in 0 .. made /\ j \in Items /\ idx[j].node \in Used
    <3>1. ItemOK(item[Bg])
      BY <1>0, <2>1 DEF ItemsOK
    <3>2. j \in 0 .. made /\ j \in Items
      BY <1>0, <2>1, <3>1, ItemFacts DEF ItemOK, NoItem
    <3>3. ItemOK(j)
      BY <1>0, <3>2 DEF ItemsOK
    <3> QED BY <3>2, <3>3 DEF ItemOK
  <2>3. CASE heap' = heap /\ UNCHANGED <<made, idx, raised>>
    BY <1>0, <2>1, <2>3, ReadOnly, IndexSame DEF list, index
  <2>4. CASE Raise(inodes[level + 1], idx[j].node, j, level + 1)
    <3>1. level + 1 \in Int
      BY <1>0 DEF TypeOK
    <3> QED BY <1>0, <2>1, <2>2, <2>4, <3>1, RaiseEffect
  <2> QED BY <1>6, <2>3, <2>4 DEF BgClimb
<1>7. CASE BgLower
  <2> DEFINE i == item[Bg]
             n == idx[i].node
  <2>1. i \in Items
    BY <1>i, <1>7 DEF BgLower
  <2>2. n \in Names /\ heap[n].level - 1 \in Int
    <3>1. ItemOK(i)
      BY <1>0, <2>1 DEF ItemsOK
    <3>2. n \in Names
      BY <1>0, <3>1, NameFacts DEF ItemOK
    <3> QED BY <1>0, <3>2 DEF NodeType
  <2>3. /\ idx' = [idx EXCEPT ![i].down = NoItem]
        /\ heap' = [heap EXCEPT ![n].level = heap[n].level - 1]
        /\ used' = used /\ made' = made /\ top' = top
    BY <1>7 DEF BgLower
  <2> QED BY <1>0, <2>1, <2>2, <2>3, LevelSet, ItemLowered
<1> QED BY <1>1, <1>2, <1>3, <1>4, <1>5, <1>6, <1>7
        DEF BgStep, BgWake, BgSpare, BgCount, BgWalk, BgTraversed, BgGather, BgGathered,
            BgLookAhead, BgNextLevel

\* the step of the driver
LEMMA DriverEffect ==
  ASSUME IInv, NextRound PROVE Effect /\ ListTyped /\ ValuesKept /\ IndexKept
<1>0. TypeOK /\ ItemsOK /\ used' = used /\ used \in Nat
  BY NameFacts DEF IInv, NextRound
<1>1. CASE Rebuild
  BY <1>0, <1>1, Rebuilt
<1>2. CASE heap' = heap /\ UNCHANGED index
  BY <1>0, <1>2, ReadOnly, IndexSame DEF list
<1> QED BY <1>1, <1>2 DEF NextRound

-------------------------------------------------------------------------------
(* Every step keeps the types                                              *)

\* what actors know: everything but the nodes, the index and the history
ActorsTyped ==
  /\ pc \in [Actors -> Places]
  /\ call \in [Threads -> Calls \cup {None}]
  /\ item \in [Actors -> 0 .. MaxItems]
  /\ left \in [Actors -> Names \cup {Null}]
  /\ right \in [Actors -> Names \cup {Null}]
  /\ nval \in [Threads -> Nat]
  /\ ahead \in Names \cup {Null}
  /\ level \in Nat /\ raised \in BOOLEAN /\ inodes \in Seq(Items) /\ alive \in Nat /\ tall \in Nat
  /\ ret \in [Threads -> {0, 1}]
  /\ round \in 1 .. Len(Work)
  /\ todo \in [Threads -> SUBSET Calls]
  /\ loops \in Nat

\* nodes and items a read may give
LEMMA ReadTypes ==
  ASSUME TypeOK
  PROVE  /\ \A n \in Names : /\ heap[n].next \in Names \cup {Null}
                             /\ heap[n].prev \in Names \cup {Null}
                             /\ ~Dead(n) => heap[n].val \in Nat
         /\ \A i \in Items : /\ idx[i].node \in Names \cup {Null}
                             /\ idx[i].right \in 0 .. MaxItems
                             /\ idx[i].down \in 0 .. MaxItems
<1>1. /\ \A n \in Names : heap[n] \in NodeType
      /\ \A i \in Items : idx[i] \in ItemType
  BY ItemFacts DEF TypeOK
<1>2. 0 .. MaxNodes \subseteq Names
  BY NodeNames
<1> QED BY <1>1, <1>2 DEF NodeType, ItemType, Dead

\* a step of a thread leaves the variables of the actors their types
LEMMA ThreadTypes ==
  ASSUME IInv, NEW t \in Threads, Step(t) PROVE ActorsTyped'
<1>0. /\ TypeOK /\ ActorsTyped /\ ThreadOK(t) /\ ItemsOK /\ t \in Actors /\ NULL \in Nat
  BY ActorFacts DEF IInv, TypeOK, ActorsTyped, NULL
<1>1. ASSUME Start(t) PROVE ActorsTyped'
  <2>1. top \in 0 .. MaxItems
    BY <1>0, ItemFacts
  <2> QED BY <1>0, <1>1, <2>1 DEF Start, ActorsTyped, Goto, Places, at, bg, driver
<1>2. ASSUME GoRight(t) \/ GoDown(t) PROVE ActorsTyped'
  <2>1. item[t] \in Items
    BY <1>0, <1>2, ItemFacts DEF ThreadOK, GoRight, GoDown
  <2>2. idx[item[t]].right \in 0 .. MaxItems /\ idx[item[t]].down \in 0 .. MaxItems
    BY <1>0, <2>1, ReadTypes
  <2> QED BY <1>0, <1>2, <2>2 DEF GoRight, GoDown, ActorsTyped, Goto, Places, at, bg, driver
<1>3. ASSUME LandBefore(t) \/ LandBelow(t) PROVE ActorsTyped'
  <2>1. item[t] \in Items
    BY <1>0, <1>3, ItemFacts DEF ThreadOK, LandBefore, LandBelow
  <2>2. idx[item[t]].node \in Names \cup {Null} /\ NoItem \in 0 .. MaxItems
    BY <1>0, <2>1, ReadTypes, ItemFacts DEF NoItem
  <2>3. Land(t, idx[item[t]].node)
    BY <1>3 DEF LandBefore, LandBelow
  <2> QED BY <1>0, <2>2, <2>3 DEF Land, ActorsTyped, Goto, Places, bg, driver
<1>4. ASSUME StepBack(t) \/ ReadVal(t) \/ ReadNext(t) PROVE ActorsTyped'
  <2>1. left[t] \in Names
    BY <1>0, <1>4, NameFacts DEF ThreadOK, StepBack, ReadVal, ReadNext
  <2>2. /\ heap[left[t]].prev \in Names \cup {Null} /\ heap[left[t]].next \in Names \cup {Null}
        /\ ~Dead(left[t]) => heap[left[t]].val \in Nat
    BY <1>0, <2>1, ReadTypes
  <2>3. CASE StepBack(t)
    BY <1>0, <2>2, <2>3 DEF StepBack, ActorsTyped, bg, driver
  <2>4. CASE ReadVal(t)
    BY <1>0, <2>2, <2>4 DEF ReadVal, ActorsTyped, Goto, Places, at, bg, driver
  <2>5. CASE ReadNext(t)
    BY <1>0, <2>2, <2>5 DEF ReadNext, ActorsTyped, Goto, Places, bg, driver
  <2> QED BY <1>4, <2>3, <2>4, <2>5
<1>5. ASSUME MeetDead(t) \/ MoveOn(t) \/ GoAct(t) \/ Retry(t) PROVE ActorsTyped'
  BY <1>0, <1>5 DEF MeetDead, MoveOn, GoAct, Retry, ActorsTyped, Goto, Places, at, bg, driver
<1>6. ASSUME HelpMark(t) \/ HelpUnlink(t) PROVE ActorsTyped'
  BY <1>0, <1>6 DEF HelpMark, HelpUnlink, ActorsTyped, Goto, Places, at, bg, driver
<1>7. ASSUME NEW r \in {0, 1}, Return(t, r) PROVE ActorsTyped'
  BY <1>0, <1>7 DEF Return, ActorsTyped, Goto, Places, bg, driver
<1>8. ASSUME Publish(t), right[t] # Null PROVE ActorsTyped'
  <2>1. used + 1 \in Names
    BY <1>0, <1>8, NodeNames, NameFacts DEF Publish
  <2> QED BY <1>0, <1>8, <2>1 DEF Publish, ActorsTyped, Goto, Places, bg, driver
<1>9. ASSUME Link(t) PROVE ActorsTyped'
  <2>1. ret[t] \in {0, 1} /\ Return(t, ret[t])
    BY <1>0, <1>9 DEF Link, ActorsTyped
  <2> QED BY <1>7, <2>1
<1>10. FinishContains(t) \/ FinishVain(t) \/ Delete(t) \/ DeleteLate(t) \/ Revive(t)
         \/ (Publish(t) /\ right[t] = Null) => Return(t, 0) \/ Return(t, 1)
  BY DEF FinishContains, FinishVain, Delete, DeleteLate, Revive, Publish
<1> QED BY <1>1, <1>2, <1>3, <1>4, <1>5, <1>6, <1>7, <1>8, <1>9, <1>10 DEF Step

\* so does a step of the background thread
LEMMA BgTypes ==
  ASSUME IInv, BgStep PROVE ActorsTyped'
<1>t. TypeOK /\ NodesOK /\ ActorsTyped /\ BgOK
  BY DEF IInv, TypeOK, ActorsTyped
<1>0. /\ TypeOK /\ NodesOK /\ ActorsTyped /\ BgOK /\ Bg \in Actors /\ Null \notin Names
      /\ HeadNode \in Names /\ 0 \in 0 .. MaxItems /\ NoItem = 0
  BY <1>t, ActorFacts, NodeNames DEF HeadNode, NoItem
<1>1. ASSUME BgWake \/ BgGathered PROVE ActorsTyped'
  <2>1. heap[HeadNode].next \in Names \cup {Null}
    BY <1>0, ReadTypes
  <2>2. CASE BgWake
    <3>1. loops' \in Nat
      BY <1>0, <2>2 DEF BgWake, ActorsTyped
    <3> QED BY <1>0, <2>1, <2>2, <3>1 DEF BgWake, ActorsTyped, Goto, Visit, Free, Places
  <2>3. CASE BgGathered
    BY <1>0, <2>1, <2>3 DEF BgGathered, ActorsTyped, Goto, Visit, Free, Places
  <2> QED BY <1>1, <2>2, <2>3
<1>2. ASSUME BgRemove \/ BgSpare \/ HelpMark(Bg) \/ HelpUnlink(Bg) PROVE ActorsTyped'
  BY <1>0, <1>2 DEF BgRemove, BgSpare, HelpMark, HelpUnlink, ActorsTyped, Goto, Free, Places, at, bg,
                    driver
<1>3. ASSUME BgCount PROVE ActorsTyped'
  <2>1. alive' \in Nat /\ tall' \in Nat
    BY <1>0, <1>3 DEF BgCount, ActorsTyped
  <2> QED BY <1>0, <1>3, <2>1 DEF BgCount, ActorsTyped, Goto, Free, Places, at
<1>4. ASSUME BgWalk \/ BgLookAhead PROVE ActorsTyped'
  <2>1. right[Bg] \in Names
    <3>1. Reached(right[Bg])
      BY <1>0, <1>4 DEF BgWalk, BgLookAhead, BgOK
    <3> QED BY <1>0, <3>1, NameFacts DEF Reached
  <2>2. heap[right[Bg]].next \in Names \cup {Null} /\ right[Bg] \in Names \cup {Null}
    BY <1>0, <2>1, ReadTypes
  <2>3. CASE BgWalk
    BY <1>0, <2>2, <2>3 DEF BgWalk, ActorsTyped, Goto, Visit, Free, Places, bg
  <2>4. CASE BgLookAhead
    BY <1>0, <2>2, <2>4 DEF BgLookAhead, ActorsTyped, Goto, Free, Places, at
  <2> QED BY <1>4, <2>3, <2>4
<1>5. ASSUME BgTraversed PROVE ActorsTyped'
  <2>1. top \in 0 .. MaxItems
    BY <1>0, ItemFacts
  <2>2. inodes' \in Seq(Items)
    BY <1>5 DEF BgTraversed
  <2> QED BY <1>0, <1>5, <2>1, <2>2 DEF BgTraversed, ActorsTyped, Goto, Free, Places, at
<1>6. ASSUME BgGather PROVE ActorsTyped'
  <2>1. item[Bg] \in Items
    BY <1>0, <1>6, ItemFacts DEF BgGather, ActorsTyped
  <2>2. idx[item[Bg]].down \in 0 .. MaxItems
    BY <1>0, <2>1, ReadTypes
  <2>3. inodes' \in Seq(Items)
    BY <1>0, <1>6, <2>1 DEF BgGather, ActorsTyped
  <2> QED BY <1>0, <1>6, <2>2, <2>3 DEF BgGather, ActorsTyped, Free, at
<1>7. ASSUME BgRaise PROVE ActorsTyped'
  <2>1. raised' \in BOOLEAN
    BY <1>0, <1>7 DEF BgRaise, Raise, ActorsTyped
  <2>2. right[Bg] \in Names \cup {Null} /\ ahead \in Names \cup {Null}
    BY <1>0 DEF ActorsTyped
  <2> QED BY <1>0, <1>7, <2>1, <2>2 DEF BgRaise, ActorsTyped, Goto, Visit, Free, Places
<1>8. ASSUME BgRaised PROVE ActorsTyped'
  <2>1. inodes[1] \in 0 .. MaxItems
    <3>1. inodes \in Seq(Items) /\ inodes # <<>>
      BY <1>0, <1>8 DEF BgRaised, BgOK, ActorsTyped
    <3>2. inodes[1] \in Items
      BY <3>1
    <3> QED BY <1>0, <3>2, ItemFacts
  <2>2. inodes' \in Seq(Items)
    <3>1. CASE inodes' = inodes
      BY <1>0, <3>1 DEF ActorsTyped
    <3>2. CASE AddTop /\ inodes' = Append(inodes, top')
      <4>1. top' \in Items
        BY <1>0, <3>2, ItemFacts DEF AddTop
      <4> QED BY <1>0, <3>2, <4>1 DEF ActorsTyped
    <3> QED BY <1>8, <3>1, <3>2 DEF BgRaised
  <2> QED BY <1>0, <1>8, <2>1, <2>2 DEF BgRaised, ActorsTyped, Goto, Visit, Free, Places
<1>9. ASSUME BgClimb PROVE ActorsTyped'
  <2>1. item[Bg] \in Items
    BY <1>0, <1>9, ItemFacts DEF BgClimb, BgOK, ActorsTyped
  <2>2. idx[item[Bg]].right \in 0 .. MaxItems
    BY <1>0, <2>1, ReadTypes
  <2>3. raised' \in BOOLEAN
    BY <1>0, <1>9 DEF BgClimb, Raise, ActorsTyped
  <2>4. UNCHANGED <<pc, call, left, right, nval, ahead, level, inodes, alive, tall, ret, round, todo, loops>>
    BY <1>9 DEF BgClimb, Free, at
  <2>5. item' = [item EXCEPT ![Bg] = idx[item[Bg]].right]
    BY <1>9 DEF BgClimb
  <2> QED BY <1>0, <2>2, <2>3, <2>4, <2>5 DEF ActorsTyped
<1>10. ASSUME BgNextLevel PROVE ActorsTyped'
  <2>1. inodes[level + 1] \in 0 .. MaxItems
    <3>1. inodes \in Seq(Items) /\ level \in Nat /\ level + 1 < Len(inodes)
      BY <1>0, <1>10 DEF BgNextLevel, ActorsTyped
    <3>2. inodes[level + 1] \in Items
      BY <3>1
    <3> QED BY <1>0, <3>2, ItemFacts
  <2>2. /\ item' = [item EXCEPT ![Bg] = inodes[level + 1]] /\ level' = level + 1 /\ raised' = FALSE
        /\ UNCHANGED <<pc, left, right, ahead, inodes, alive, tall, loops, call, nval, ret, round, todo>>
    BY <1>10 DEF BgNextLevel, Free, at
  <2>3. item' \in [Actors -> 0 .. MaxItems] /\ level' \in Nat
    BY <1>0, <2>1, <2>2 DEF ActorsTyped
  <2> QED BY <1>0, <2>2, <2>3 DEF ActorsTyped
<1>11. ASSUME BgClimbed PROVE ActorsTyped'
  <2>1. Len(inodes) > 1 => inodes[2] \in 0 .. MaxItems
    <3>1. inodes \in Seq(Items)
      BY <1>0 DEF ActorsTyped
    <3>2. Len(inodes) > 1 => inodes[2] \in Items
      BY <3>1
    <3> QED BY <1>0, <3>2, ItemFacts
  <2>2. pc' \in [Actors -> Places] /\ item' \in [Actors -> 0 .. MaxItems]
    BY <1>0, <1>11, <2>1 DEF BgClimbed, StartLower, Goto, Places, ActorsTyped
  <2>3. /\ level' = 0 /\ raised' = FALSE /\ inodes' = <<>> /\ alive' = 0 /\ tall' = 0
        /\ UNCHANGED <<left, right, ahead, loops, call, nval, ret, round, todo>>
    BY <1>11 DEF BgClimbed, Free, at
  <2>4. inodes' \in Seq(Items)
    BY <2>3
  <2> QED BY <1>0, <2>2, <2>3, <2>4 DEF ActorsTyped
<1>12. ASSUME BgLower PROVE ActorsTyped'
  <2>1. item[Bg] \in Items
    BY <1>0, <1>12, ItemFacts DEF BgLower, BgOK, ActorsTyped
  <2>2. idx[item[Bg]].right \in 0 .. MaxItems
    BY <1>0, <2>1, ReadTypes
  <2>3. pc' \in [Actors -> Places] /\ item' \in [Actors -> 0 .. MaxItems]
    BY <1>0, <1>12, <2>2 DEF BgLower, Goto, Places, ActorsTyped
  <2>4. UNCHANGED <<left, right, ahead, level, raised, inodes, alive, tall, loops, call, nval, ret,
                    round, todo>>
    BY <1>12 DEF BgLower, Free, at, bg
  <2> QED BY <1>0, <2>3, <2>4 DEF ActorsTyped
<1> QED BY <1>1, <1>2, <1>3, <1>4, <1>5, <1>6, <1>7, <1>8, <1>9, <1>10, <1>11, <1>12 DEF BgStep

\* so does the start of a round
LEMMA DriverTypes ==
  ASSUME IInv, NextRound PROVE ActorsTyped'
<1>0. ActorsTyped
  BY DEF IInv, TypeOK, ActorsTyped
<1>1. round' \in 1 .. Len(Work)
  BY <1>0 DEF NextRound, ActorsTyped
<1>2. todo' \in [Threads -> SUBSET Calls] /\ loops' \in Nat
  BY <1>1, WorkAssumption DEF NextRound
<1> QED BY <1>0, <1>1, <1>2 DEF NextRound, ActorsTyped, at, bg

\* every step has an effect on the nodes and the index, and keeps the types
LEMMA StepKeeps ==
  ASSUME IInv, Next
  PROVE  Effect /\ IndexKept /\ TypeOK' /\ NodesOK'
<1>0. TypeOK /\ NodesOK /\ ItemsOK
  BY DEF IInv
<1>1. CASE Finished
  <2>1. UNCHANGED vars
    BY <1>1 DEF Finished
  <2>2. UNCHANGED list /\ UNCHANGED index /\ used' = used /\ used \in Nat
    BY <1>0, <2>1, NameFacts DEF vars, list, index
  <2>3. Effect /\ IndexKept
    BY <1>0, <2>2, ReadOnly, IndexSame
  <2>4. TypeOK'
    BY <1>0, <2>1 DEF vars, list, index, at, bg, driver, TypeOK
  <2> QED BY <1>0, <2>3, <2>4, EffectNodes
<1>2. CASE ~Finished
  <2>1. Effect /\ ListTyped /\ IndexKept /\ ActorsTyped'
    <3>1. ASSUME NEW t \in Threads, Step(t) PROVE Effect /\ ListTyped /\ IndexKept /\ ActorsTyped'
      <4>1. Effect /\ ListTyped /\ ActorsTyped'
        BY <3>1, ThreadEffect, ThreadTypes
      <4>2. UNCHANGED index
        BY <3>1 DEF Step, Start, GoRight, LandBefore, GoDown, LandBelow, Land, StepBack, ReadVal,
             ReadNext, MeetDead, MoveOn, HelpMark, HelpUnlink, FinishContains, FinishVain, GoAct,
             Delete, DeleteLate, Revive, Publish, Link, Retry
      <4>3. used' \in Nat /\ used' >= used
        BY <1>0, <4>1, EffectValues
      <4> QED BY <1>0, <4>1, <4>2, <4>3, IndexSame
    <3> QED BY <1>2, <3>1, BgEffect, BgTypes, DriverEffect, DriverTypes DEF Next
  <2>2. Watch \/ saw' = saw
    BY <1>2 DEF Next, Step, Start, GoRight, LandBefore, GoDown, LandBelow, Land, StepBack, ReadVal,
             ReadNext, MeetDead, MoveOn, HelpMark, HelpUnlink, FinishContains, FinishVain, GoAct,
             Delete, DeleteLate, Revive, Publish, Link, Retry, BgStep, BgWake, BgRemove, BgSpare,
             BgCount, BgWalk, BgTraversed, BgGather, BgGathered, BgLookAhead, BgRaise, BgRaised,
             BgClimb, BgNextLevel, BgClimbed, BgLower, NextRound
  <2>3. saw' \in [Threads -> SUBSET Nat]
    <3>1. saw \in [Threads -> SUBSET Nat]
      BY <1>0 DEF TypeOK
    <3> QED BY <2>1, <2>2, <3>1, SawTyped DEF ListTyped, ActorsTyped
  <2>4. TypeOK'
    BY <2>1, <2>3 DEF TypeOK, ListTyped, IndexKept, ActorsTyped
  <2> QED BY <1>0, <2>1, <2>4, EffectNodes
<1> QED BY <1>1, <1>2

-------------------------------------------------------------------------------
(* Every step keeps what the actors know                                   *)

\* what no step changes of what an actor has seen
Kept == /\ used' \in Nat /\ used' >= used /\ used \in Nat
        /\ \A n \in Used : SameKey(n)
        /\ \A n \in 1 .. used : Dead(n) => Dead(n)' /\ (~Unmarked(n) => ~Unmarked(n)')

\* what no effect changes: keys, removal and markers
LEMMA EffectKept ==
  ASSUME TypeOK, NodesOK, Effect PROVE Kept
<1>1. /\ used' \in Nat /\ used' >= used /\ used \in Nat
      /\ \A n \in Used : SameKey(n)
  BY EffectValues, NameFacts
<1>2. ASSUME NEW n \in 1 .. used, Dead(n) PROVE Dead(n)' /\ (~Unmarked(n) => ~Unmarked(n)')
  <2>1. heap'[n].val = heap[n].val
    BY <1>2, EffectValues DEF SameVal
  <2>2. Sealed(n)
    BY <1>2, EffectSeals
  <2> QED BY <1>2, <2>1, <2>2 DEF Dead, Sealed, Unmarked
<1> QED BY <1>1, <1>2 DEF Kept

\* a node that was reached stays one
LEMMA ReachedKept == ASSUME Kept, NEW n, Reached(n) PROVE Reached(n)'
BY DEF Kept, Reached

\* an actor that does not move
LEMMA HelpStays ==
  ASSUME Kept, NEW a \in Actors, HelpOK(a), pc'[a] = pc[a], right'[a] = right[a]
  PROVE  HelpOK(a)'
<1>1. CASE pc[a] \notin {"mark", "unlink"}
  BY <1>1 DEF HelpOK
<1>2. CASE pc[a] \in {"mark", "unlink"}
  <2> DEFINE n == right[a]
  <2>1. n \in 1 .. used /\ Dead(n) /\ (pc[a] = "unlink" => ~Unmarked(n))
    BY <1>2 DEF HelpOK
  <2>2. n \in 1 .. used' /\ Dead(n)' /\ (pc[a] = "unlink" => ~Unmarked(n)')
    BY <2>1 DEF Kept
  <2> QED BY <2>2 DEF HelpOK, Dead, Unmarked
<1> QED BY <1>1, <1>2

\* what a thread that does not move knows still holds
LEMMA ThreadStays ==
  ASSUME TypeOK, ItemsOK, Kept, IndexKept, NEW t \in Threads, ThreadOK(t), pc'[t] = pc[t],
         call'[t] = call[t], item'[t] = item[t], left'[t] = left[t], right'[t] = right[t]
  PROVE  ThreadOK(t)'
<1>0. /\ \A n \in 1 .. used : n \in Used /\ n \in 1 .. used' /\ SameKey(n)
      /\ \A n \in Used : n \in Used' /\ SameKey(n)
  BY DEF Kept, Used
<1>1. K(t)' = K(t) /\ Op(t)' = Op(t)
  BY DEF K, Op
<1>2. pc[t] \in {"right", "down"} => item[t] \in 1 .. made' /\ KeyOf(item[t])' < K(t)
  <2> SUFFICES ASSUME pc[t] \in {"right", "down"}
               PROVE  item[t] \in 1 .. made' /\ KeyOf(item[t])' < K(t)
    OBVIOUS
  <2>1. item[t] \in 1 .. made /\ KeyOf(item[t]) < K(t) /\ item[t] \in Items
    BY ItemFacts DEF ThreadOK
  <2>2. idx[item[t]].node \in Used
    BY <2>1 DEF ItemsOK, ItemOK
  <2>3. idx'[item[t]].node = idx[item[t]].node /\ made' >= made /\ made' \in Nat /\ made \in Nat
    BY <2>1, ItemFacts DEF IndexKept, Items
  <2>4. KeyOf(item[t])' = KeyOf(item[t])
    BY <1>0, <2>2, <2>3 DEF KeyOf, SameKey
  <2> QED BY <2>1, <2>3, <2>4
<1>3. pc[t] \in {"val", "next", "check", "act", "mark", "unlink"} =>
        left[t] \in Used' /\ heap'[left[t]].key <= K(t)
  BY <1>0 DEF ThreadOK, SameKey
<1>4. pc[t] = "check" /\ right[t] # Null => Reached(right[t])'
  BY ReachedKept DEF ThreadOK
<1>5. pc[t] = "act" /\ right[t] # Null => right[t] \in 1 .. used' /\ heap'[right[t]].key > K(t)
  BY <1>0 DEF ThreadOK, SameKey
<1>6. pc[t] = "link" => /\ left[t] \in 1 .. used' /\ right[t] \in 1 .. used'
                        /\ heap'[right[t]].key > heap'[left[t]].key
  BY <1>0 DEF ThreadOK, SameKey
<1> QED BY <1>1, <1>2, <1>3, <1>4, <1>5, <1>6 DEF ThreadOK, Reached

\* a step of one thread leaves alone what the other actors know
LEMMA StepAlone ==
  ASSUME TypeOK, NEW t \in Threads, Step(t)
  PROVE  /\ \A a \in Actors : a # t => /\ pc'[a] = pc[a] /\ item'[a] = item[a]
                                       /\ left'[a] = left[a] /\ right'[a] = right[a]
         /\ \A u \in Threads : u # t => /\ call'[u] = call[u] /\ nval'[u] = nval[u]
                                        /\ todo'[u] = todo[u]
         /\ ahead' = ahead /\ inodes' = inodes /\ level' = level
<1> USE DEF TypeOK
<1>1. CASE Start(t) \/ GoRight(t) \/ LandBefore(t) \/ GoDown(t) \/ LandBelow(t)
  BY <1>1 DEF Start, GoRight, LandBefore, GoDown, LandBelow, Land, Goto, at, bg, driver
<1>2. CASE StepBack(t) \/ ReadVal(t) \/ ReadNext(t) \/ MeetDead(t) \/ MoveOn(t) \/ GoAct(t)
             \/ HelpMark(t) \/ HelpUnlink(t) \/ Retry(t)
  BY <1>2 DEF StepBack, ReadVal, ReadNext, MeetDead, MoveOn, GoAct, HelpMark, HelpUnlink, Retry,
              Goto, at, bg, driver
<1>3. CASE \E r : Return(t, r)
  BY <1>3 DEF Return, Goto, bg, driver
<1>4. CASE Publish(t) /\ right[t] # Null
  BY <1>4 DEF Publish, Goto, bg, driver
<1>5. FinishContains(t) \/ FinishVain(t) \/ Delete(t) \/ DeleteLate(t) \/ Revive(t) \/ Link(t)
        \/ (Publish(t) /\ right[t] = Null) => \E r : Return(t, r)
  BY DEF FinishContains, FinishVain, Delete, DeleteLate, Revive, Publish, Link
<1> QED BY <1>1, <1>2, <1>3, <1>4, <1>5 DEF Step

\* a thread has returned
LEMMA Returned ==
  ASSUME TypeOK, NEW t \in Threads, NEW r, Return(t, r) PROVE ThreadOK(t)' /\ HelpOK(t)'
<1>1. pc'[t] = "idle" /\ call'[t] = None
  BY ActorFacts DEF Return, Goto, TypeOK
<1> QED BY <1>1 DEF ThreadOK, HelpOK

\* the steps down the index
LEMMA IndexMoves ==
  ASSUME IInv, NEW t \in Threads,
         Start(t) \/ GoRight(t) \/ LandBefore(t) \/ GoDown(t) \/ LandBelow(t)
  PROVE  ThreadOK(t)' /\ HelpOK(t)'
<1>0. /\ TypeOK /\ NodesOK /\ ItemsOK /\ ThreadOK(t) /\ t \in Actors /\ None \notin Calls
      /\ heap' = heap /\ used' = used /\ idx' = idx /\ made' = made /\ top' = top
      /\ pc \in [Actors -> Places] /\ item \in [Actors -> 0 .. MaxItems]
      /\ call \in [Threads -> Calls \cup {None}] /\ left \in [Actors -> Names \cup {Null}]
      /\ \A i \in 1 .. made : i \in Items /\ ItemOK(i)
      /\ \A i \in 0 .. made : i # NoItem => i \in 1 .. made
  <2>1. TypeOK /\ NodesOK /\ ItemsOK /\ ThreadOK(t) /\ t \in Actors /\ None \notin Calls
    BY ActorFacts DEF IInv
  <2>2. heap' = heap /\ used' = used /\ idx' = idx /\ made' = made /\ top' = top
    BY DEF Start, GoRight, LandBefore, GoDown, LandBelow, Land, list, index
  <2>3. /\ pc \in [Actors -> Places] /\ item \in [Actors -> 0 .. MaxItems]
        /\ call \in [Threads -> Calls \cup {None}] /\ left \in [Actors -> Names \cup {Null}]
    BY <2>1 DEF TypeOK
  <2>4. \A i \in 1 .. made : i \in Items /\ ItemOK(i)
    BY <2>1, ItemFacts DEF ItemsOK
  <2>5. \A i \in 0 .. made : i # NoItem => i \in 1 .. made
    BY <2>1, ItemFacts DEF NoItem
  <2> QED BY <2>1, <2>2, <2>3, <2>4, <2>5
<1>1. CASE Start(t)
  <2>1. PICK c \in todo[t] : call' = [call EXCEPT ![t] = c]
    BY <1>1 DEF Start
  <2>2. c \in Calls
    BY <1>0, <2>1 DEF TypeOK
  <2>3. pc'[t] = "right" /\ item'[t] = top /\ call'[t] = c
    BY <1>0, <1>1, <2>1 DEF Start, Goto
  <2>4. KeyOf(top) = 0 /\ top \in 1 .. made /\ c.key > 0
    BY <1>0, <2>2, ItemFacts DEF ItemsOK, KeyOf, NodesOK, Fixtures, Calls
  <2>5. KeyOf(top)' = KeyOf(top)
    BY <1>0 DEF KeyOf
  <2> QED BY <1>0, <2>2, <2>3, <2>4, <2>5 DEF ThreadOK, HelpOK, K, KeyOf
<1>2. CASE GoRight(t) \/ GoDown(t)
  <2>1. call'[t] = call[t] /\ call[t] # None /\ pc'[t] \in {"right", "down"}
    BY <1>0, <1>2 DEF ThreadOK, GoRight, GoDown, Goto
  <2>2. item[t] \in 1 .. made /\ KeyOf(item[t]) < K(t)
    BY <1>0, <1>2 DEF ThreadOK, GoRight, GoDown
  <2>3. item'[t] \in 1 .. made /\ KeyOf(item'[t]) < K(t)
    <3>1. /\ idx[item[t]].right # NoItem => idx[item[t]].right \in 1 .. made
          /\ idx[item[t]].down # NoItem => /\ idx[item[t]].down \in 1 .. made
                                           /\ KeyOf(idx[item[t]].down) = KeyOf(item[t])
      BY <1>0, <2>2 DEF ItemOK, KeyOf
    <3>2. CASE item' = item
      BY <2>2, <3>2
    <3>3. CASE GoRight(t) /\ item' # item
      BY <1>0, <3>1, <3>3 DEF GoRight
    <3>4. CASE GoDown(t)
      BY <1>0, <2>2, <3>1, <3>4 DEF GoDown
    <3> QED BY <1>2, <3>2, <3>3, <3>4
  <2>4. K(t)' = K(t) /\ KeyOf(item[t])' = KeyOf(item'[t])
    BY <1>0, <2>1 DEF K, KeyOf
  <2> QED BY <1>0, <2>1, <2>3, <2>4 DEF ThreadOK, HelpOK
<1>3. CASE LandBefore(t) \/ LandBelow(t)
  <2> DEFINE n == idx[item[t]].node
  <2>1. Land(t, n) /\ pc[t] \in {"right", "down"}
    BY <1>3 DEF LandBefore, LandBelow
  <2>2. call'[t] = call[t] /\ call[t] # None /\ pc'[t] = "val" /\ left'[t] = n
    BY <1>0, <2>1 DEF Land, Goto, ThreadOK
  <2>3. n \in Used /\ heap[n].key < K(t)
    BY <1>0, <2>1 DEF ThreadOK, ItemOK, KeyOf
  <2>4. heap[n].key <= K(t)
    <3>1. heap[n].key \in Nat /\ K(t) \in Nat
      BY <1>0, <2>2, <2>3, NameFacts DEF K, Calls
    <3> QED BY <2>3, <3>1
  <2>5. K(t)' = K(t) /\ Used' = Used
    BY <1>0, <2>2 DEF K, Used
  <2> QED BY <1>0, <2>2, <2>3, <2>4, <2>5 DEF ThreadOK, HelpOK
<1> QED BY <1>1, <1>2, <1>3

\* the steps along the nodes, which only read
LEMMA NodeMoves ==
  ASSUME IInv, NEW t \in Threads,
         StepBack(t) \/ ReadVal(t) \/ ReadNext(t) \/ MeetDead(t) \/ MoveOn(t) \/ GoAct(t) \/ Retry(t)
  PROVE  ThreadOK(t)' /\ HelpOK(t)'
<1> DEFINE l == left[t]
           r == right[t]
<1>a. TypeOK /\ NodesOK /\ ThreadOK(t) /\ t \in Actors
  BY ActorFacts DEF IInv
<1>b. /\ heap' = heap /\ used' = used /\ call' = call /\ used \in Nat
      /\ Used' = Used /\ K(t)' = K(t) /\ Op(t)' = Op(t) /\ \A n : Reached(n)' = Reached(n)
  <2>1. heap' = heap /\ used' = used /\ call' = call
    BY DEF StepBack, ReadVal, ReadNext, MeetDead, MoveOn, GoAct, Retry, list
  <2> QED BY <1>a, <2>1, NameFacts DEF Used, K, Op, Reached
<1>c. /\ pc \in [Actors -> Places] /\ left \in [Actors -> Names \cup {Null}]
      /\ right \in [Actors -> Names \cup {Null}]
      /\ pc[t] \in {"val", "next", "check", "act"}
      /\ call[t] # None /\ call[t] \in Calls
  <2>1. pc[t] \in {"val", "next", "check", "act"}
    BY DEF StepBack, ReadVal, ReadNext, MeetDead, MoveOn, GoAct, Retry, Arrived
  <2>2. /\ pc \in [Actors -> Places] /\ left \in [Actors -> Names \cup {Null}]
        /\ right \in [Actors -> Names \cup {Null}] /\ call[t] \in Calls \cup {None}
    BY <1>a DEF TypeOK
  <2> QED BY <1>a, <2>1, <2>2 DEF ThreadOK
<1>d. /\ l \in Used /\ l \in Names /\ heap[l].key <= K(t) /\ K(t) \in Nat
      /\ pc[t] = "check" /\ r # Null => Reached(r)
      /\ \A n \in Names : heap[n].key \in Nat
  BY <1>a, <1>c, NameFacts DEF ThreadOK, K, Calls
<1>1. CASE StepBack(t)
  <2> DEFINE p == heap[l].prev
  <2>1. l \in 1 .. used
    BY <1>a, <1>d, <1>1 DEF NodesOK, Fixtures, StepBack, Dead, Used, HeadNode
  <2>2. p \in Used /\ heap[p].key < heap[l].key
    BY <1>a, <2>1 DEF NodesOK, WayBack, Used
  <2>3. heap[p].key <= K(t)
    BY <1>a, <1>d, <2>2, NameFacts
  <2>4. pc'[t] = "val" /\ left'[t] = p
    BY <1>a, <1>c, <1>1 DEF StepBack
  <2> QED BY <1>b, <1>c, <2>2, <2>3, <2>4 DEF ThreadOK, HelpOK
<1>2. CASE ReadVal(t)
  <2>1. pc'[t] = "next" /\ left'[t] = l
    BY <1>a, <1>c, <1>2 DEF ReadVal, Goto, at
  <2> QED BY <1>b, <1>c, <1>d, <2>1 DEF ThreadOK, HelpOK
<1>3. CASE ReadNext(t)
  <2> DEFINE n == heap[l].next
  <2>1. pc'[t] = "check" /\ left'[t] = l /\ right'[t] = n
    BY <1>a, <1>c, <1>3 DEF ReadNext, Goto
  <2>2. n # Null => Reached(n)
    <3>1. InOrder(l) /\ n \in Names \cup {Null}
      BY <1>a, <1>d, OrderedIs, NameFacts DEF NodesOK
    <3> QED BY <3>1 DEF InOrder, Reached
  <2> QED BY <1>b, <1>c, <1>d, <2>1, <2>2 DEF ThreadOK, HelpOK
<1>4. CASE MeetDead(t)
  <2>1. /\ pc'[t] = IF IsMarker(r) THEN "val" ELSE "mark"
        /\ left'[t] = l /\ right'[t] = r /\ Reached(r) /\ Dead(r)
    BY <1>a, <1>c, <1>d, <1>4 DEF MeetDead, Goto, at
  <2>2. ~IsMarker(r) => r \in 1 .. used
    BY <1>a, <2>1, ReachedUsed
  <2>3. Dead(r)'
    BY <1>b, <2>1 DEF Dead
  <2> QED BY <1>b, <1>c, <1>d, <2>1, <2>2, <2>3 DEF ThreadOK, HelpOK, Dead
<1>5. CASE MoveOn(t)
  <2>1. /\ pc'[t] = "val" /\ left'[t] = r /\ Reached(r) /\ ~Dead(r) /\ heap[r].key <= K(t)
    BY <1>a, <1>c, <1>d, <1>5 DEF MoveOn, Goto
  <2>2. r \in Used
    BY <1>a, <2>1, ReachedUsed, NameFacts
  <2> QED BY <1>b, <1>c, <2>1, <2>2 DEF ThreadOK, HelpOK
<1>6. CASE GoAct(t)
  <2>1. /\ pc'[t] = "act" /\ left'[t] = l /\ right'[t] = r
        /\ r # Null => Reached(r) /\ ~Dead(r) /\ heap[r].key > K(t)
        /\ Op(t) \in {"insert", "delete"}
    BY <1>a, <1>c, <1>d, <1>6 DEF GoAct, Arrived, Goto, at
  <2>2. r # Null => r \in 1 .. used
    BY <1>a, <2>1, ReachedUsed
  <2> QED BY <1>b, <1>c, <1>d, <2>1, <2>2 DEF ThreadOK, HelpOK
<1>7. CASE Retry(t)
  <2>1. pc'[t] = "val" /\ left'[t] = l
    BY <1>a, <1>c, <1>7 DEF Retry, Goto, at
  <2> QED BY <1>b, <1>c, <1>d, <2>1 DEF ThreadOK, HelpOK
<1> QED BY <1>1, <1>2, <1>3, <1>4, <1>5, <1>6, <1>7

\* the two halves of bg_help_remove, by any actor
LEMMA HelpMoves ==
  ASSUME TypeOK, NodesOK, Kept, NEW a \in Actors, HelpOK(a), HelpMark(a) \/ HelpUnlink(a)
  PROVE  /\ HelpOK(a)'
         /\ pc'[a] = IF pc[a] = "mark" THEN "unlink" ELSE IF a = Bg THEN "count" ELSE "val"
         /\ left' = left /\ right' = right /\ call' = call /\ item' = item
<1>0. PICK n \in 1 .. used : n = right[a] /\ Dead(n)
  BY DEF HelpOK, HelpMark, HelpUnlink
<1>1. left' = left /\ right' = right /\ call' = call /\ item' = item
  BY DEF HelpMark, HelpUnlink, at
<1>2. pc'[a] = IF pc[a] = "mark" THEN "unlink" ELSE IF a = Bg THEN "count" ELSE "val"
  BY DEF HelpMark, HelpUnlink, Goto, TypeOK
<1>3. n \in 1 .. used /\ Dead(n) /\ n \in Names /\ Marker(n) \in Names /\ n # Marker(n)
      /\ IsMarker(Marker(n)) /\ n \in 1 .. used' /\ Dead(n)' /\ (~Unmarked(n) => ~Unmarked(n)')
  <2>1. n \in 1 .. used' /\ Dead(n)' /\ (~Unmarked(n) => ~Unmarked(n)')
    BY <1>0 DEF Kept
  <2> QED BY <1>0, <2>1, NameFacts
<1>4. pc[a] = "mark" => ~Unmarked(n)'
  <2>1. CASE HelpMark(a) /\ Unmarked(n)
    <3>1. heap' = [heap EXCEPT ![n].next = Marker(n),
                               ![Marker(n)].next = heap[n].next, ![Marker(n)].prev = n]
      BY <1>0, <2>1 DEF HelpMark, Unmarked
    <3>2. heap'[n] = [heap[n] EXCEPT !.next = Marker(n)] /\ heap[n] \in NodeType
      BY <1>3, <3>1 DEF TypeOK
    <3>3. heap'[n].next = Marker(n)
      BY <3>2 DEF NodeType
    <3> QED BY <1>3, <3>3 DEF Unmarked
  <2> QED BY <1>3, <2>1 DEF HelpUnlink
<1>5. HelpOK(a)'
  <2>1. pc'[a] = "unlink" => n \in 1 .. used' /\ Dead(n)' /\ ~Unmarked(n)'
    BY <1>2, <1>3, <1>4
  <2>2. right'[a] = n /\ pc'[a] # "mark"
    BY <1>0, <1>1, <1>2
  <2> QED BY <2>1, <2>2 DEF HelpOK, Dead, Unmarked
<1> QED BY <1>1, <1>2, <1>5

\* what a thread knows after its own step
LEMMA ThreadMoves ==
  ASSUME IInv, NEW t \in Threads, Step(t), Kept PROVE ThreadOK(t)' /\ HelpOK(t)'
<1>0. TypeOK /\ NodesOK /\ ThreadOK(t) /\ HelpOK(t) /\ t \in Actors /\ t # Bg
  BY ActorFacts DEF IInv
<1>1. CASE \E r : Return(t, r)
  BY <1>0, <1>1, Returned
<1>2. CASE HelpMark(t) \/ HelpUnlink(t)
  <2>1. /\ HelpOK(t)' /\ pc'[t] \in {"unlink", "val"}
        /\ left' = left /\ right' = right /\ call' = call /\ pc[t] \in {"mark", "unlink"}
    BY <1>0, <1>2, HelpMoves DEF HelpMark, HelpUnlink
  <2>2. left[t] \in Used /\ heap[left[t]].key <= K(t) /\ call[t] # None
    BY <1>0, <2>1 DEF ThreadOK
  <2>3. left[t] \in Used' /\ heap'[left[t]].key <= K(t) /\ K(t)' = K(t)
    BY <2>1, <2>2 DEF Kept, SameKey, Used, K
  <2> QED BY <2>1, <2>2, <2>3 DEF ThreadOK
<1>3. CASE Publish(t) /\ right[t] # Null
  <2> DEFINE w == used + 1
             l == left[t]
             r == right[t]
  <2>1. /\ pc'[t] = "link" /\ left'[t] = w /\ right'[t] = r /\ call'[t] = call[t]
        /\ call[t] # None /\ r \in 1 .. used /\ heap[r].key > K(t) /\ used' = w
        /\ l \in Used
    BY <1>0, <1>3 DEF Publish, Goto, TypeOK, ThreadOK
  <2>2. /\ l \in Names /\ w \in Names /\ r \in Names /\ l # w /\ r # w /\ used \in Nat
        /\ w \in 1 .. used' /\ r \in 1 .. used' /\ r \in Used
    BY <1>0, <1>3, <2>1, NameFacts, NodeNames DEF Publish, Used
  <2>3. heap' = [heap EXCEPT ![l].next = w, ![w] = NewNode(t)]
    BY <1>3 DEF Publish
  <2>4. heap'[w] = NewNode(t)
    BY <1>0, <2>2, <2>3 DEF TypeOK
  <2>5. heap'[w].key = K(t)
    BY <2>4 DEF NewNode
  <2>6. heap'[r].key > heap'[w].key
    BY <2>1, <2>2, <2>5 DEF Kept, SameKey
  <2> QED BY <2>1, <2>2, <2>6 DEF ThreadOK, HelpOK
<1>4. FinishContains(t) \/ FinishVain(t) \/ Delete(t) \/ DeleteLate(t) \/ Revive(t) \/ Link(t)
        \/ (Publish(t) /\ right[t] = Null) => \E r : Return(t, r)
  BY DEF FinishContains, FinishVain, Delete, DeleteLate, Revive, Publish, Link
<1> QED BY <1>1, <1>2, <1>3, <1>4, IndexMoves, NodeMoves DEF Step

\* the background thread does not move
LEMMA BgStays ==
  ASSUME Kept, BgOK, pc'[Bg] = pc[Bg], left'[Bg] = left[Bg], right'[Bg] = right[Bg],
         item'[Bg] = item[Bg], ahead' = ahead, inodes' = inodes
  PROVE  BgOK'
<1>1. /\ Reached(right[Bg]) => Reached(right[Bg])'
      /\ Reached(ahead) => Reached(ahead)'
  <2>1. \A n : n \in 1 .. used \/ (n \in Names /\ IsMarker(n)) =>
                 n \in 1 .. used' \/ (n \in Names /\ IsMarker(n))
    BY DEF Kept
  <2> QED BY <2>1 DEF Reached
<1> QED BY <1>1 DEF BgOK

\* a step of the background thread leaves alone what the others know
LEMMA BgAlone ==
  ASSUME TypeOK, BgStep
  PROVE  /\ \A t \in Threads : /\ pc'[t] = pc[t] /\ item'[t] = item[t]
                               /\ left'[t] = left[t] /\ right'[t] = right[t]
         /\ call' = call /\ nval' = nval /\ ret' = ret /\ round' = round /\ todo' = todo
<1> USE ActorFacts DEF TypeOK
<1>1. CASE BgWake \/ BgGathered \/ BgWalk \/ BgRaise \/ BgRaised
  BY <1>1 DEF BgWake, BgGathered, BgWalk, BgRaise, BgRaised, Visit, Goto, Free
<1>2. CASE BgRemove \/ BgSpare \/ BgCount \/ BgTraversed \/ BgGather \/ BgLookAhead
  BY <1>2 DEF BgRemove, BgSpare, BgCount, BgTraversed, BgGather, BgLookAhead, Goto, Free, at
<1>3. CASE HelpMark(Bg) \/ HelpUnlink(Bg)
  BY <1>3 DEF HelpMark, HelpUnlink, Goto, at, driver
<1>4. CASE BgClimb \/ BgNextLevel \/ BgClimbed \/ BgLower
  BY <1>4 DEF BgClimb, BgNextLevel, BgClimbed, BgLower, StartLower, Goto, Free, at
<1> QED BY <1>1, <1>2, <1>3, <1>4 DEF BgStep

\* what the background thread knows after its own step
LEMMA BgMoves ==
  ASSUME IInv, BgStep, Kept, TypeOK' PROVE BgOK' /\ HelpOK(Bg)'
<1>0. /\ TypeOK /\ NodesOK /\ ItemsOK /\ BgOK /\ HelpOK(Bg) /\ Bg \in Actors
      /\ pc \in [Actors -> Places] /\ item \in [Actors -> 0 .. MaxItems]
      /\ left \in [Actors -> Names \cup {Null}] /\ right \in [Actors -> Names \cup {Null}]
      /\ HeadNode \in Names /\ Null \notin Names
      /\ \A n : Reached(n) => Reached(n)' /\ n \in Names
      /\ inodes \in Seq(Items) /\ inodes' \in Seq(Items) /\ NoItem \notin Items
  <2>1. TypeOK /\ NodesOK /\ ItemsOK /\ BgOK /\ HelpOK(Bg) /\ Bg \in Actors
    BY ActorFacts DEF IInv
  <2>2. /\ pc \in [Actors -> Places] /\ item \in [Actors -> 0 .. MaxItems]
        /\ left \in [Actors -> Names \cup {Null}] /\ right \in [Actors -> Names \cup {Null}]
        /\ inodes \in Seq(Items) /\ inodes' \in Seq(Items)
    BY <2>1 DEF TypeOK
  <2>3. ASSUME NEW n, Reached(n) PROVE Reached(n)' /\ n \in Names
    BY <2>1, <2>3, ReachedKept, NameFacts DEF Reached
  <2>4. HeadNode \in Names /\ Null \notin Names /\ NoItem \notin Items
    BY NodeNames, ActorFacts DEF HeadNode, NoItem, Items
  <2> QED BY <2>1, <2>2, <2>3, <2>4
<1>n. ASSUME NEW n \in Names, heap[n].next # Null PROVE Reached(heap[n].next)
  <2>1. InOrder(n) /\ heap[n].next \in Names \cup {Null}
    BY <1>0, OrderedIs, NameFacts DEF NodesOK
  <2> QED BY <1>n, <2>1 DEF InOrder, Reached
<1>1. CASE BgWake
  <2>1. pc'[Bg] = "claim" /\ left'[Bg] = HeadNode /\ right'[Bg] = heap[HeadNode].next
    BY <1>0, <1>1 DEF BgWake, Goto, Visit
  <2>2. right'[Bg] = Null \/ Reached(right'[Bg])
    BY <1>0, <1>n, <2>1
  <2>3. right'[Bg] = Null \/ Reached(right[Bg])'
    BY <2>2 DEF Reached, Kept
  <2> QED BY <1>0, <2>1, <2>3 DEF BgOK, HelpOK
\* what Visit(l, r) leaves the background thread with
<1>v. ASSUME NEW l \in Names, NEW r, r = Null \/ Reached(r), Visit(l, r)
      PROVE  left'[Bg] = l /\ right'[Bg] = r /\ (right'[Bg] = Null \/ Reached(right[Bg])')
  <2>1. left'[Bg] = l /\ right'[Bg] = r
    BY <1>0, <1>v DEF Visit
  <2>2. Reached(right'[Bg]) => Reached(right[Bg])'
    BY DEF Reached, Kept
  <2> QED BY <1>v, <2>1, <2>2
\* the pointers it keeps
<1>w. /\ Reached(right[Bg]) /\ right' = right => Reached(right[Bg])'
      /\ \A n : Reached(n) /\ ahead' = n => Reached(ahead)'
  BY DEF Reached, Kept
<1>2. CASE BgRemove
  <2>1. PICK n : n = right[Bg] /\ n # Null /\ ~IsMarker(n) /\ heap' = [heap EXCEPT ![n].val = Self]
    BY <1>2 DEF BgRemove
  <2>2. n \in 1 .. used /\ n \in Names /\ used' = used
    BY <1>0, <1>2, <2>1, ReachedUsed DEF BgOK, BgRemove
  <2>3. pc'[Bg] = "mark" /\ left'[Bg] = left[Bg] /\ right'[Bg] = n /\ left[Bg] \in Names
    BY <1>0, <1>2, <2>1 DEF BgRemove, Goto, at, BgOK
  <2>4. heap'[n].val = Self
    BY <1>0, <2>1, <2>2 DEF TypeOK, NodeType
  <2> QED BY <2>2, <2>3, <2>4 DEF BgOK, HelpOK, Dead
<1>3. CASE BgSpare
  <2>1. /\ pc'[Bg] = "count" /\ left'[Bg] = left[Bg] /\ right' = right
        /\ left[Bg] \in Names /\ Reached(right[Bg])
    BY <1>0, <1>3 DEF BgSpare, Goto, at, BgOK
  <2> QED BY <1>w, <2>1 DEF BgOK, HelpOK
<1>4. CASE HelpMark(Bg) \/ HelpUnlink(Bg)
  <2>1. /\ HelpOK(Bg)' /\ pc'[Bg] \in {"unlink", "count"}
        /\ left' = left /\ right' = right /\ pc[Bg] \in {"mark", "unlink"}
    BY <1>0, <1>4, HelpMoves DEF HelpMark, HelpUnlink
  <2>2. left[Bg] \in Names /\ Reached(right[Bg])
    BY <1>0, <2>1 DEF BgOK, HelpOK, Reached
  <2> QED BY <1>w, <2>1, <2>2 DEF BgOK
<1>5. CASE BgCount
  <2>1. /\ pc'[Bg] = "walk" /\ left'[Bg] = left[Bg] /\ right' = right
        /\ left[Bg] \in Names /\ Reached(right[Bg])
    BY <1>0, <1>5 DEF BgCount, Goto, at, BgOK
  <2> QED BY <1>w, <2>1 DEF BgOK, HelpOK
<1>6. CASE BgWalk
  <2>1. Reached(right[Bg]) /\ pc'[Bg] = "claim" /\ Visit(right[Bg], heap[right[Bg]].next)
    BY <1>0, <1>6 DEF BgWalk, Goto, BgOK
  <2>2. left'[Bg] \in Names /\ (right'[Bg] = Null \/ Reached(right[Bg])')
    BY <1>0, <1>n, <1>v, <2>1
  <2> QED BY <2>1, <2>2 DEF BgOK, HelpOK
<1>7. CASE BgTraversed
  <2>1. pc'[Bg] = "gather" /\ item'[Bg] = top /\ top \in Items
    BY <1>0, <1>7, ItemFacts DEF BgTraversed, Goto
  <2> QED BY <1>0, <2>1 DEF BgOK, HelpOK
<1>8. CASE BgGather
  <2>1. PICK i \in Items : inodes' = <<i>> \o inodes
    <3>1. item[Bg] \in 0 .. MaxItems /\ item[Bg] # 0
      BY <1>0, <1>8 DEF BgGather, NoItem
    <3>2. item[Bg] \in Items /\ inodes' = <<item[Bg]>> \o inodes
      BY <1>8, <3>1, ActorFacts DEF BgGather, Items
    <3> QED BY <3>2
  <2>2. Len(inodes') = 1 + Len(inodes) /\ Len(inodes) \in Nat
    BY <1>0, <2>1
  <2>3. inodes' # <<>>
    BY <1>0, <2>2
  <2>4. pc'[Bg] = "gather"
    BY <1>8 DEF BgGather
  <2> QED BY <2>3, <2>4 DEF BgOK, HelpOK
<1>9. CASE BgGathered
  <2>1. /\ pc'[Bg] = "raise" /\ inodes' = inodes /\ inodes # <<>>
        /\ Visit(HeadNode, heap[HeadNode].next)
    BY <1>0, <1>9 DEF BgGathered, Goto, BgOK
  <2>2. left'[Bg] \in Names /\ (right'[Bg] = Null \/ Reached(right[Bg])')
    BY <1>0, <1>n, <1>v, <2>1
  <2> QED BY <2>1, <2>2 DEF BgOK, HelpOK
<1>10. CASE BgLookAhead
  <2>1. /\ pc'[Bg] = "place" /\ left'[Bg] = left[Bg] /\ right' = right /\ inodes' = inodes
        /\ left[Bg] \in Names /\ Reached(right[Bg]) /\ inodes # <<>>
        /\ ahead' = heap[right[Bg]].next
    BY <1>0, <1>10 DEF BgLookAhead, Goto, at, BgOK
  <2>2. ahead' = Null \/ Reached(ahead)'
    BY <1>0, <1>n, <1>w, <2>1
  <2> QED BY <1>w, <2>1, <2>2 DEF BgOK, HelpOK
<1>11. CASE BgRaise
  <2>1. /\ pc'[Bg] = "raise" /\ inodes' = inodes /\ inodes # <<>>
        /\ Reached(right[Bg]) /\ Reached(ahead) /\ Visit(right[Bg], ahead)
    BY <1>0, <1>11 DEF BgRaise, Goto, BgOK
  <2>2. left'[Bg] \in Names /\ (right'[Bg] = Null \/ Reached(right[Bg])')
    BY <1>0, <1>v, <2>1
  <2> QED BY <2>1, <2>2 DEF BgOK, HelpOK
<1>12. CASE BgRaised
  <2>1. /\ pc'[Bg] = "climb" /\ item'[Bg] = inodes[1] /\ inodes # <<>>
        /\ inodes' = inodes \/ inodes' = Append(inodes, top')
    BY <1>0, <1>12 DEF BgRaised, Goto, BgOK
  <2>2. inodes[1] \in Items
    BY <1>0, <2>1
  <2>3. inodes' # <<>>
    BY <1>0, <2>1
  <2> QED BY <1>0, <2>1, <2>2, <2>3 DEF BgOK, HelpOK
<1>13. CASE BgClimb
  <2>1. /\ pc'[Bg] = "climb" /\ item'[Bg] # NoItem /\ inodes' = inodes /\ inodes # <<>>
    BY <1>0, <1>13 DEF BgClimb, BgOK
  <2> QED BY <2>1 DEF BgOK, HelpOK
<1>14. CASE BgNextLevel
  <2>1. /\ pc'[Bg] = "climb" /\ item'[Bg] = inodes[level + 1] /\ inodes' = inodes
        /\ inodes # <<>> /\ level + 1 < Len(inodes) /\ level \in Nat
    BY <1>0, <1>14 DEF BgNextLevel, BgOK, TypeOK
  <2>2. inodes[level + 1] \in Items
    BY <1>0, <2>1
  <2> QED BY <1>0, <2>1, <2>2 DEF BgOK, HelpOK
<1>15. CASE BgClimbed
  <2>1. CASE tall > alive * 10 /\ Len(inodes) > 1
    <3>1. pc'[Bg] = "lower" /\ item'[Bg] = inodes[2]
      BY <1>0, <1>15, <2>1 DEF BgClimbed, StartLower, Goto
    <3>2. inodes[2] \in Items
      BY <1>0, <2>1
    <3> QED BY <1>0, <3>1, <3>2 DEF BgOK, HelpOK
  <2>2. CASE ~(tall > alive * 10 /\ Len(inodes) > 1)
    <3>1. pc'[Bg] = "idle"
      BY <1>0, <1>15, <2>2 DEF BgClimbed, StartLower, Goto
    <3> QED BY <3>1 DEF BgOK, HelpOK
  <2> QED BY <2>1, <2>2
<1>16. CASE BgLower
  <2>1. pc'[Bg] = "idle" \/ (pc'[Bg] = "lower" /\ item'[Bg] # NoItem)
    BY <1>0, <1>16 DEF BgLower, Goto
  <2> QED BY <2>1 DEF BgOK, HelpOK
<1> QED BY <1>1, <1>2, <1>3, <1>4, <1>5, <1>6, <1>7, <1>8, <1>9, <1>10, <1>11, <1>12, <1>13,
           <1>14, <1>15, <1>16 DEF BgStep

-------------------------------------------------------------------------------
(* The invariant is inductive                                              *)

\* it holds of an empty list below one index item
LEMMA InvInit == Init => IInv
<1> SUFFICES ASSUME Init PROVE IInv
  OBVIOUS
<1>0. TypeOK
  BY TypeInit
<1>1. /\ used = 0 /\ 1 .. used = {} /\ Used = {HeadNode} /\ HeadNode \in Names
      /\ ~IsMarker(HeadNode) /\ HeadNode \notin Inserted
  BY NodeNames DEF Init, Used, HeadNode, IsMarker, Inserted
<1>2. /\ heap[HeadNode] = NewHead
      /\ \A n \in Names : n # HeadNode => heap[n] = Blank
  BY <1>1 DEF Init
<1>3. \A n \in Names : /\ heap[n].next = Null
                       /\ heap[n].key = 0
                       /\ n # HeadNode => heap[n].val = Self
                       /\ Unmarked(n)
  BY <1>2, NameFacts, <1>0 DEF NewHead, Blank, Unmarked
<1>4. Ordered /\ WayBack /\ StillLinked
  BY <1>1, <1>3 DEF Ordered, WayBack, StillLinked
<1>5. Fixtures
  <2>1. heap[HeadNode].val # Self
    BY <1>2 DEF NewHead, NULL, Self
  <2>2. \A n \in Names : IsMarker(n) => n # HeadNode
    BY <1>1
  <2>3. \A n \in Inserted : n \in Names /\ Marker(n) \in Names /\ n # HeadNode
    BY <1>0, <1>1, NameFacts
  <2> QED BY <1>1, <1>3, <2>1, <2>2, <2>3 DEF Fixtures
<1>6. ItemsOK
  <2>1. /\ made = 1 /\ top \in Items
        /\ \A i \in Items : idx[i] = BlankItem
    BY ActorFacts DEF Init, Items
  <2>2. \A i \in Items : ItemOK(i)
    BY <1>1, <2>1 DEF ItemOK, BlankItem, NoItem
  <2> QED BY <2>1, <2>2 DEF ItemsOK, BlankItem
<1>7. /\ \A a \in Actors : HelpOK(a)
      /\ \A t \in Threads : ThreadOK(t)
      /\ BgOK
  BY ActorFacts DEF Init, HelpOK, ThreadOK, BgOK
<1> QED BY <1>0, <1>4, <1>5, <1>6, <1>7 DEF IInv, NodesOK

\* an actor that stays where it is keeps what it knows
LEMMA AllStay ==
  ASSUME IInv, Kept, IndexKept, UNCHANGED <<pc, call, item, left, right, ahead, inodes>>
  PROVE  /\ \A a \in Actors : HelpOK(a)'
         /\ \A t \in Threads : ThreadOK(t)'
         /\ BgOK'
<1>0. TypeOK /\ ItemsOK /\ BgOK
  BY DEF IInv
<1>1. ASSUME NEW a \in Actors PROVE HelpOK(a)'
  BY <1>1, HelpStays DEF IInv
<1>2. ASSUME NEW t \in Threads PROVE ThreadOK(t)'
  BY <1>0, <1>2, ThreadStays DEF IInv
<1>3. BgOK'
  BY <1>0, BgStays
<1> QED BY <1>1, <1>2, <1>3

\* and every step keeps it
LEMMA InvNext == IInv /\ [Next]_vars => IInv'
<1> SUFFICES ASSUME IInv, [Next]_vars PROVE IInv'
  OBVIOUS
<1>0. TypeOK /\ NodesOK /\ ItemsOK /\ BgOK
  BY DEF IInv
<1>1. CASE UNCHANGED vars
  <2> USE <1>1 DEF vars, list, index, at, bg, driver
  <2>1. TypeOK' /\ ItemsOK'
    BY <1>0 DEF TypeOK, ItemsOK, ItemOK, Used
  <2>2. Effect
    BY <1>0, ReadOnly
  <2>3. NodesOK' /\ Kept
    BY <1>0, <2>1, <2>2, EffectNodes, EffectKept
  <2>4. IndexKept
    BY <1>0, IndexSame, NameFacts
  <2> QED BY <2>1, <2>3, <2>4, AllStay DEF IInv
<1>2. CASE Next
  <2>1. Effect /\ IndexKept /\ TypeOK' /\ NodesOK'
    BY <1>2, StepKeeps
  <2>2. Kept /\ ItemsOK'
    BY <1>0, <2>1, EffectKept DEF IndexKept
  <2>3. /\ \A a \in Actors : HelpOK(a)'
        /\ \A t \in Threads : ThreadOK(t)'
        /\ BgOK'
    <3>1. ASSUME NEW t \in Threads, Step(t)
          PROVE  /\ \A a \in Actors : HelpOK(a)'
                 /\ \A u \in Threads : ThreadOK(u)'
                 /\ BgOK'
      <4>0. t # Bg /\ Bg \in Actors /\ Threads \subseteq Actors
        BY ActorFacts
      <4>1. ThreadOK(t)' /\ HelpOK(t)'
        BY <2>2, <3>1, ThreadMoves
      <4>2. /\ \A a \in Actors : a # t => /\ pc'[a] = pc[a] /\ item'[a] = item[a]
                                          /\ left'[a] = left[a] /\ right'[a] = right[a]
            /\ \A u \in Threads : u # t => call'[u] = call[u]
            /\ ahead' = ahead /\ inodes' = inodes
        BY <1>0, <3>1, StepAlone
      <4>3. ASSUME NEW a \in Actors, a # t PROVE HelpOK(a)'
        BY <2>2, <4>2, <4>3, HelpStays DEF IInv
      <4>4. ASSUME NEW u \in Threads, u # t PROVE ThreadOK(u)'
        BY <1>0, <2>1, <2>2, <4>0, <4>2, <4>4, ThreadStays DEF IInv
      <4>5. BgOK'
        BY <1>0, <2>2, <4>0, <4>2, BgStays
      <4> QED BY <4>1, <4>3, <4>4, <4>5
    <3>2. CASE BgStep
      <4>1. BgOK' /\ HelpOK(Bg)'
        BY <2>1, <2>2, <3>2, BgMoves
      <4>2. /\ \A t \in Threads : /\ pc'[t] = pc[t] /\ item'[t] = item[t]
                                  /\ left'[t] = left[t] /\ right'[t] = right[t]
            /\ call' = call
        BY <1>0, <3>2, BgAlone
      <4>3. ASSUME NEW t \in Threads PROVE ThreadOK(t)' /\ HelpOK(t)'
        <5>1. ThreadOK(t) /\ HelpOK(t) /\ t \in Actors
          BY ActorFacts DEF IInv
        <5> QED BY <1>0, <2>1, <2>2, <4>2, <5>1, HelpStays, ThreadStays
      <4> QED BY <4>1, <4>3 DEF Actors
    <3>3. CASE NextRound \/ Finished
      <4>1. UNCHANGED <<pc, call, item, left, right, ahead, inodes>>
        BY <3>3 DEF NextRound, Finished, vars, at, bg
      <4> QED BY <2>1, <2>2, <4>1, AllStay
    <3> QED BY <1>2, <3>1, <3>2, <3>3 DEF Next
  <2> QED BY <2>1, <2>2, <2>3 DEF IInv
<1> QED BY <1>1, <1>2

(* What every actor knows at each place it can be in, the shape of the     *)
(* list and of the index: the invariant from which the rest follows.       *)
THEOREM Inductive == Spec => []IInv
<1>1. Init => IInv
  BY InvInit
<1>2. IInv /\ [Next]_vars => IInv'
  BY InvNext
<1> QED BY <1>1, <1>2, PTL DEF Spec

(* The variables keep their types: no thread follows a pointer past the    *)
(* end of the list or of the index (the loops of sl_do_operation and       *)
(* bg_raise_ilevel), and no read of a value meets a node's own address.    *)
THEOREM TypeCorrect == Spec => []TypeOK
<1>1. IInv => TypeOK
  BY DEF IInv
<1> QED BY <1>1, Inductive, PTL

(* The list is whole whatever compare-and-swaps meet, for any number of    *)
(* threads: a node that is not being removed is on it, keys ascend, and    *)
(* the way back leads to smaller keys (sl_finish_insert, bg_help_remove).  *)
THEOREM ListIsWhole == Spec => []ListWhole
<1>1. IInv => ListWhole
  <2> SUFFICES ASSUME IInv PROVE ListWhole
    OBVIOUS
  <2>1. TypeOK /\ Ordered /\ WayBack /\ StillLinked
    BY DEF IInv, NodesOK
  <2>2. ASSUME NEW n \in 1 .. used, ~Dead(n) PROVE n \in Linked
    <3>1. n \in Names
      BY <2>1, NameFacts
    <3> QED BY <2>1, <2>2, <3>1, MarkerOf DEF StillLinked
  <2> QED BY <2>1, <2>2 DEF ListWhole
<1> QED BY <1>1, Inductive, PTL

(* A removed node stays removed, whatever threads still hold a pointer to  *)
(* it: its value is its own address for ever, nothing is put behind its    *)
(* marker, and no compare-and-swap links it again (bg_remove,              *)
(* bg_help_remove, sl_finish_insert).                                      *)
THEOREM RemovedStay == Spec => RemovedStays
<1>1. ASSUME IInv, [Next]_vars
      PROVE  [\A n \in 1 .. used : Dead(n) =>
                /\ heap'[n].val = Self
                /\ Sealed(n)
                /\ OffTheList(n) => \A m \in Linked : heap'[m].next # n]_vars
  <2>1. CASE UNCHANGED vars
    BY <2>1
  <2>2. CASE Next
    <3>1. TypeOK /\ NodesOK /\ Effect /\ TypeOK' /\ NodesOK'
      BY <1>1, <2>2, StepKeeps DEF IInv
    <3> QED BY <3>1, EffectRemoved DEF StaysRemoved
  <2> QED BY <1>1, <2>1, <2>2
<1> QED BY <1>1, Inductive, PTL DEF Spec, RemovedStays

===============================================================================
