-------------------------- MODULE BSkipLists_proofs --------------------------
(***************************************************************************)
(* Proofs about the lists of the B-skiplist, for any threads, workload,    *)
(* height and node size: who has locked which node, that no node is linked *)
(* twice, the order of the keys, the towers and the ways down, what the    *)
(* overriding of a slot would need to break them, that the leaves are the  *)
(* map the operations promise, and that no lookup misses a key.            *)
(***************************************************************************)
EXTENDS BSkip_proofs

\* how thread t has locked node n: for reading, for writing, or with the flag
\* set and readers still inside
Reading(t, n) == n \in Holding(t) /\ ~ForWriting(t, n)
Writing(t, n) == n \in Holding(t) /\ ForWriting(t, n)
Flagged(t, n) == n \in Flagging(t) /\ ForWriting(t, n)

ReadersOf(n) == {t \in Threads : Reading(t, n)}

\* a node that a search may come to: in its list, or locked until it is
Ready(c) == InList(c) \/ writer[c]

(* Links *)

\* the sentinels are in their lists
HeadsIn == \A l \in Levels : InList(Header(l)) /\ InList(EndSentinel(l))

\* what the nodes point to, those slots included that are not live: a stale
\* rank may be used after a split
Linked ==
  \A n \in Nodes :
    /\ heap[n].next # Null => InList(heap[n].next)
    /\ heap[n].next # n
    /\ \A i \in Slot : heap[n].child[i] # Null => Ready(heap[n].child[i])

\* nothing leads an insert to an end sentinel
EndsGuarded ==
  \A l \in Levels : \A n \in Nodes :
    /\ heap[n].next = EndSentinel(l) => heap[n].next_header = Inf
    /\ \A i \in Slot : heap[n].child[i] # EndSentinel(l)

\* where the threads are going
Going ==
  \A t \in Threads :
    /\ pc[t] = "idle" => call[t] = None
    /\ pc[t] = "visit" => prev[t] = Null
    /\ pc[t] = "lock" /\ curr[t] # Null => Ready(curr[t])
    /\ pc[t] = "drain" => ForWriting(t, curr[t])
    /\ pc[t] \in {"lock", "drain", "handover"} => curr[t] # prev[t]
    /\ Op(t) = "insert" => \A l \in Levels : curr[t] # EndSentinel(l)

\* no node has two left neighbours, and those in a list have one
OnePred ==
  /\ \A m1, m2 \in Nexts :
       heap[m1].next = heap[m2].next /\ heap[m1].next # Null => m1 = m2
  /\ \A n \in Nodes : InList(n) /\ n # Header(Level(n)) => \E m \in Nexts : heap[m].next = n

(* Locks *)

\* only nodes in lists are locked by those that came to them
HeldIn == \A t \in Threads : \A n \in Flagging(t) : InList(n)

\* the flags of the nodes an insert has yet to fill are set below the level of
\* its key, and nobody sets the others
Prepared ==
  \A t \in Threads :
    /\ \A i \in 1 .. MaxInserts[t], l \in Levels : i > ins[t] => ~writer[<<t, i, l>>]
    /\ Op(t) = "insert" /\ phase[t] = "search" /\ curr[t] # Null =>
         \A l \in Levels : l <= Level(curr[t]) /\ l <= Promote(t) =>
           (writer[NewNode(t, l)] <=> l < Promote(t))

\* nobody reads what is in no list
EmptyFree == \A n \in Nodes : ~InList(n) => readers[n] = 0

\* every thread that reads a node is counted.  (A lookup that misses leaves its
\* count behind, so there may be more.)
Counted == \A n \in Nodes : /\ IsFiniteSet(ReadersOf(n))
                            /\ readers[n] >= Cardinality(ReadersOf(n))

\* the flag of a node in a list is set by the thread that has it, the only one
Owned == \A n \in Nodes : InList(n) => (writer[n] <=> \E t \in Threads : Flagged(t, n))
OneOwner == \A t, u \in Threads : \A n \in Nodes : Flagged(t, n) /\ Flagged(u, n) => t = u

\* a writer is alone
Drained == \A t \in Threads : \A n \in Nodes : Writing(t, n) => readers[n] = 0

Links == HeadsIn /\ Linked /\ EndsGuarded /\ Going /\ OnePred
LocksHeld == HeldIn /\ Prepared /\ EmptyFree /\ Counted /\ Owned /\ OneOwner /\ Drained

\* The invariant of the locks and lists.  A flag that is set keeps a node that
\* is not in its list yet from those who find a pointer to it (Linked, Prepared);
\* so whoever holds a node holds one of a list (HeldIn), with the readers gone
\* if it writes (Drained).
LInv == IInv /\ Links /\ LocksHeld

-------------------------------------------------------------------------------
(* What an insert makes of the pointers of a node                          *)

\* node a has the links of node b: its next is the same, and its children are in S
SameLinks(a, b, S) == /\ a.next = b.next /\ a.next_header = b.next_header
                      /\ \A i \in Slot : a.child[i] \in S

\* placing a key adds at most the new child
LEMMA PlaceLinks ==
  ASSUME NEW t \in Threads, NEW l \in Levels, NEW node \in NodeOf(l), NEW r \in Nat,
         NEW counted \in BOOLEAN, NEW S, \A i \in Slot : node.child[i] \in S,
         l > 0 => NewNode(t, l - 1) \in S
  PROVE  SameLinks(Place(t, node, l, r, counted), node, S)
<1>1. CASE l = 0
  BY <1>1 DEF Place, InsertEltAtRank, NodeOf, SameLinks
<1>2. CASE l # 0
  <2> DEFINE c == NewNode(t, l - 1)
  <2>1. c \in S
    BY <1>2, Constants
  <2>2. node.child \in [Slot -> S]
    BY DEF NodeOf
  <2>3. CASE counted
    <3> DEFINE last == node.num + 1 - 1
    <3>1. last \in Int
      BY DEF NodeOf
    <3>2. ShiftIn(node.child, r, c, last) \in [Slot -> S]
      <4> HIDE DEF last, c
      <4> QED BY <2>1, <2>2, <3>1, ShiftInType
    <3>3. /\ Place(t, node, l, r, counted).child = ShiftIn(node.child, r, c, last)
          /\ Place(t, node, l, r, counted).next = node.next
          /\ Place(t, node, l, r, counted).next_header = node.next_header
      BY <1>2, <2>3 DEF Place, InsertChildAtRank, InsertKeyAtRank, NodeOf
    <3> HIDE DEF last, c
    <3> QED BY <3>2, <3>3 DEF SameLinks
  <2>4. CASE ~counted
    <3> DEFINE last == node.num
    <3>1. last \in Int
      BY DEF NodeOf
    <3>2. ShiftIn(node.child, r, c, last) \in [Slot -> S]
      <4> HIDE DEF last, c
      <4> QED BY <2>1, <2>2, <3>1, ShiftInType
    <3>3. /\ Place(t, node, l, r, counted).child = ShiftIn(node.child, r, c, last)
          /\ Place(t, node, l, r, counted).next = node.next
          /\ Place(t, node, l, r, counted).next_header = node.next_header
      BY <1>2, <2>4 DEF Place, InsertChildAtRank, InsertKeyAtRank, NodeOf
    <3> HIDE DEF last, c
    <3> QED BY <3>2, <3>3 DEF SameLinks
  <2> QED BY <2>3, <2>4
<1> QED BY <1>1, <1>2

\* the halves of a node share its children; the right one takes over its next
LEMMA HalfLinks ==
  ASSUME NEW l \in Levels, NEW node \in NodeOf(l), node.num >= MaxKeys,
         NEW blank \in NodeOf(l), NEW new, NEW S,
         \A i \in Slot : node.child[i] \in S, \A i \in Slot : blank.child[i] \in S
  PROVE  /\ LeftHalf(node, new).next = new
         /\ LeftHalf(node, new).next_header = node.key[Half(node)]
         /\ \A i \in Slot : LeftHalf(node, new).child[i] \in S
         /\ SameLinks(RightHalf(node, blank), node, S)
<1> DEFINE h == Half(node)
           n == node.num - h
<1>1. /\ h \in Nat /\ n \in Int /\ h + n <= MaxKeys
  BY HalfOfFull, Constants
<1>2. node.child \in [Slot -> S] /\ blank.child \in [Slot -> S]
  BY DEF NodeOf
<1>3. CopyTo(node.child, h, blank.child, 0, n) \in [Slot -> S]
  <2> HIDE DEF h, n
  <2> QED BY <1>1, <1>2, CopyToType
<1>4. /\ LeftHalf(node, new).next = new
      /\ LeftHalf(node, new).next_header = node.key[h]
      /\ LeftHalf(node, new).child = node.child
  BY DEF LeftHalf, SplitKeep, NodeOf
<1>5. /\ RightHalf(node, blank).child = CopyTo(node.child, h, blank.child, 0, n)
      /\ RightHalf(node, blank).next = node.next
      /\ RightHalf(node, blank).next_header = node.next_header
  BY DEF RightHalf, MoveChildren, SplitGive, NodeOf
<1> HIDE DEF h, n
<1> QED BY <1>2, <1>3, <1>4, <1>5 DEF SameLinks, h

\* the children a step of an insert may put into its node and the new one
Kids(m) == {heap[m].child[i] : i \in Slot}
Pool(t) == Kids(curr[t]) \cup Kids(NewNode(t, Level(curr[t]))) \cup
           (IF Level(curr[t]) > 0 THEN {NewNode(t, Level(curr[t]) - 1)} ELSE {})

\* the node a thread is at has changed, but not its place in the list
Wrote(t) ==
  LET n == curr[t] IN
    /\ n \in Nodes
    /\ \A m \in Nodes : m # n => heap'[m] = heap[m]
    /\ heap'[n].num > 0
    /\ SameLinks(heap'[n], heap[n], Pool(t))

\* a new node stands behind it
Divided(t) ==
  LET n == curr[t]
      new == NewNode(t, Level(n))
  IN /\ n \in Nodes /\ new \in Nodes /\ new # n /\ Level(new) = Level(n)
     /\ heap[n].num > 0 /\ heap[new].num = 0
     /\ \A m \in Nodes : m # n /\ m # new => heap'[m] = heap[m]
     /\ heap'[n].num > 0 /\ heap'[new].num > 0
     /\ heap'[n].next = new
     /\ \A i \in Slot : heap'[n].child[i] \in Pool(t)
     /\ SameLinks(heap'[new], heap[n], Pool(t))

\* the element that an override writes was there
LEMMA OverwriteLinks ==
  ASSUME IInv, HeldIn, NEW t \in Threads, Overwrite(t)
  PROVE  Wrote(t)
<1> DEFINE n == curr[t]
           at == IF phase[t] = "again" THEN rank[t] ELSE 0
           a == BlindWrite(heap[n], at, K(t), call[t].arg)
<1>1. pc[t] = "visit" /\ heap' = [heap EXCEPT ![n] = a]
  BY DEF Overwrite
<1>2. n \in Nodes /\ heap \in [Nodes -> NodeType(Pointers)]
  BY <1>1 DEF IInv, TypeOK
<1>3. heap[n].num > 0
  BY <1>1, <1>2 DEF HeldIn, Flagging, Holding, InList
<1>4. a.num = heap[n].num /\ a.next = heap[n].next /\ a.next_header = heap[n].next_header
      /\ a.child = heap[n].child
  BY <1>2 DEF BlindWrite, NodeType
<1> HIDE DEF a, at
<1>5. heap'[n] = a /\ \A m \in Nodes : m # n => heap'[m] = heap[m]
  BY <1>1, <1>2
<1>6. \A i \in Slot : a.child[i] \in Pool(t)
  BY <1>4 DEF Pool, Kids
<1> QED BY <1>2, <1>3, <1>4, <1>5, <1>6 DEF Wrote, SameLinks

\* what the four ways to add a key have in common
LEMMA FillFacts ==
  ASSUME IInv, NEW t \in Threads, NEW r, Missing(t, r)
  PROVE  /\ \A i \in Slot : heap[curr[t]].child[i] \in Pool(t)
         /\ \A i \in Slot : heap[NewNode(t, Level(curr[t]))].child[i] \in Pool(t)
         /\ Level(curr[t]) > 0 => NewNode(t, Level(curr[t]) - 1) \in Pool(t)
BY DEF Pool, Kids

\* a node with room takes the key
LEMMA HereLinks ==
  ASSUME IInv, NEW t \in Threads, NEW r \in Nat, InsertHere(t, r)
  PROVE  Wrote(t)
<1> DEFINE n == curr[t]
           a == Place(t, heap[n], Level(n), r + 1, FALSE)
<1>1. Missing(t, r) /\ heap[n].num + 1 <= MaxKeys /\ heap' = [heap EXCEPT ![n] = a]
  BY DEF InsertHere
<1>2. /\ n \in Nodes /\ Level(n) \in Levels /\ heap[n] \in NodeOf(Level(n))
      /\ K(t) \in AnyKey /\ call[t].arg \in Nat
      /\ Level(n) > 0 => NewNode(t, Level(n) - 1) \in Peers(Level(n) - 1)
      /\ r < heap[n].num
  BY <1>1, InsertFacts
<1>3. heap[n].num < MaxKeys /\ heap[n].num > 0 /\ r + 1 \in Nat /\ heap[n].num \in Int
  BY <1>1, <1>2, Constants DEF NodeOf
<1>4. a.num = heap[n].num + 1
  BY <1>2, <1>3, PlaceShape
<1>5. SameLinks(a, heap[n], Pool(t))
  BY <1>1, <1>2, <1>3, FillFacts, PlaceLinks
<1> HIDE DEF a
<1>6. heap'[n] = a /\ \A m \in Nodes : m # n => heap'[m] = heap[m]
  BY <1>1, <1>2 DEF IInv, TypeOK
<1>7. a.num > 0
  BY <1>3, <1>4
<1> QED BY <1>2, <1>5, <1>6, <1>7 DEF Wrote

\* writing the insert's node and the new one
LEMMA TwoWritten ==
  ASSUME IInv, NEW t \in Threads, NEW r, Missing(t, r), NEW a, NEW b,
         heap' = [heap EXCEPT ![NewNode(t, Level(curr[t]))] = b, ![curr[t]] = a],
         a.num > 0, b.num > 0, a.next = NewNode(t, Level(curr[t])),
         \A i \in Slot : a.child[i] \in Pool(t), SameLinks(b, heap[curr[t]], Pool(t))
  PROVE  Divided(t)
<1> DEFINE n == curr[t]
           new == NewNode(t, Level(n))
<1>1. /\ n \in Nodes /\ new \in Nodes /\ new # n /\ Level(new) = Level(n)
      /\ heap[new].num = 0 /\ r \in Nat /\ r < heap[n].num /\ heap[n] \in NodeOf(Level(n))
  BY InsertFacts
<1>2. heap[n].num > 0
  BY <1>1 DEF NodeOf
<1>3. heap' = [heap EXCEPT ![new] = b, ![n] = a] /\ heap \in [Nodes -> NodeType(Pointers)]
  BY DEF IInv, TypeOK
<1> HIDE DEF n, new
<1>4. /\ heap'[n] = a /\ heap'[new] = b
      /\ \A m \in Nodes : m # n /\ m # new => heap'[m] = heap[m]
  BY <1>1, <1>3
<1> QED BY <1>1, <1>2, <1>4 DEF Divided, n, new

\* the three ways to split
LEMMA LeftLinks ==
  ASSUME IInv, NEW t \in Threads, NEW r \in Nat, InsertLeft(t, r)
  PROVE  Divided(t)
<1> DEFINE n == curr[t]
           l == Level(n)
           new == NewNode(t, l)
           half == LeftHalf(heap[n], new)
           a == Place(t, half, l, r + 1, TRUE)
           b == RightHalf(heap[n], heap[new])
<1>1. Missing(t, r) /\ heap[n].num + 1 > MaxKeys /\ heap' = [heap EXCEPT ![new] = b, ![n] = a]
  BY DEF InsertLeft
<1>2. /\ n \in Nodes /\ l \in Levels /\ heap[n] \in NodeOf(l)
      /\ new \in Nodes /\ Level(new) = l /\ new \in Peers(l) /\ new # n
      /\ heap[new] \in NodeOf(l) /\ heap[new].num = 0
      /\ K(t) \in AnyKey /\ call[t].arg \in Nat
      /\ l > 0 => NewNode(t, l - 1) \in Peers(l - 1)
      /\ r < heap[n].num
  BY <1>1, InsertFacts
<1>3. heap[n].num >= MaxKeys /\ heap[n].num > 0 /\ r + 1 \in Nat
  BY <1>1, <1>2, Constants DEF NodeOf
<1>4. b.num = MaxKeys - Half(heap[n])
  BY <1>2, <1>3, RightHalfShape
<1>5. half \in NodeOf(l) /\ half.num = Half(heap[n])
  BY <1>2, <1>3, LeftHalfShape
<1>6. /\ half.next = new /\ \A i \in Slot : half.child[i] \in Pool(t)
      /\ SameLinks(b, heap[n], Pool(t))
  <2> DEFINE S == Pool(t)
  <2>1. /\ l \in Levels /\ heap[n] \in NodeOf(l) /\ heap[n].num >= MaxKeys
        /\ heap[new] \in NodeOf(l)
    BY <1>2, <1>3
  <2>2. /\ \A i \in Slot : heap[n].child[i] \in S
        /\ \A i \in Slot : heap[new].child[i] \in S
    BY <1>1, FillFacts
  <2> HIDE DEF S, n, l, new, a
  <2>3. /\ LeftHalf(heap[n], new).next = new
        /\ \A i \in Slot : LeftHalf(heap[n], new).child[i] \in S
        /\ SameLinks(RightHalf(heap[n], heap[new]), heap[n], S)
    BY <2>1, <2>2, HalfLinks
  <2> QED BY <2>3 DEF S
<1>7. half.num < MaxKeys
  BY <1>2, <1>3, <1>5, HalfOfFull
<1> HIDE DEF half
<1>8. SameLinks(a, half, Pool(t)) /\ a.num = half.num + 1
  BY <1>1, <1>2, <1>3, <1>5, <1>6, <1>7, FillFacts, PlaceLinks, PlaceShape
<1>9. a.num > 0 /\ b.num > 0
  <2>1. Half(heap[n]) \in Nat /\ Half(heap[n]) < MaxKeys
    BY <1>2, <1>3, HalfOfFull
  <2> HIDE DEF a, b
  <2> QED BY <1>4, <1>5, <1>8, <2>1, Constants
<1> HIDE DEF a, b
<1> QED BY <1>1, <1>6, <1>8, <1>9, TwoWritten DEF SameLinks

\* the key goes to the right half
LEMMA RightLinks ==
  ASSUME IInv, NEW t \in Threads, NEW r \in Nat, InsertRight(t, r)
  PROVE  Divided(t)
<1> DEFINE n == curr[t]
           l == Level(n)
           new == NewNode(t, l)
           at == r - Half(heap[n])
           a == LeftHalf(heap[n], new)
           right == RightHalf(heap[n], heap[new])
           b == Place(t, right, l, at + 1, TRUE)
<1>1. /\ Missing(t, r) /\ heap[n].num + 1 > MaxKeys /\ r + 1 > Half(heap[n])
      /\ heap' = [heap EXCEPT ![new] = b, ![n] = a]
  BY DEF InsertRight
<1>2. /\ n \in Nodes /\ l \in Levels /\ heap[n] \in NodeOf(l)
      /\ new \in Nodes /\ Level(new) = l /\ new \in Peers(l) /\ new # n
      /\ heap[new] \in NodeOf(l) /\ heap[new].num = 0
      /\ K(t) \in AnyKey /\ call[t].arg \in Nat
      /\ l > 0 => NewNode(t, l - 1) \in Peers(l - 1)
      /\ r < heap[n].num
  BY <1>1, InsertFacts
<1>3. heap[n].num >= MaxKeys /\ heap[n].num > 0
  BY <1>1, <1>2, Constants DEF NodeOf
<1>4. /\ at + 1 \in Nat /\ Half(heap[n]) \in Nat /\ Half(heap[n]) > 0
      /\ Half(heap[n]) < MaxKeys
  BY <1>1, <1>2, <1>3, HalfOfFull
<1>5. a.num = Half(heap[n])
  BY <1>2, <1>3, LeftHalfShape
<1>6. right \in NodeOf(l) /\ right.num = MaxKeys - Half(heap[n])
  BY <1>2, <1>3, RightHalfShape
<1>7. /\ a.next = new /\ \A i \in Slot : a.child[i] \in Pool(t)
      /\ SameLinks(right, heap[n], Pool(t))
  BY <1>1, <1>2, <1>3, FillFacts, HalfLinks
<1>8. right.num < MaxKeys /\ right.num \in Int /\ right.num > 0
  BY <1>4, <1>6, Constants
<1>9. \A i \in Slot : right.child[i] \in Pool(t)
  BY <1>7 DEF SameLinks
<1> HIDE DEF at, right
<1>10. SameLinks(b, right, Pool(t)) /\ b.num = right.num + 1
  BY <1>1, <1>2, <1>4, <1>6, <1>8, <1>9, FillFacts, PlaceLinks, PlaceShape
<1>11. SameLinks(b, heap[n], Pool(t))
  BY <1>7, <1>10 DEF SameLinks
<1>12. a.num > 0 /\ b.num > 0
  <2> HIDE DEF a, b
  <2> QED BY <1>4, <1>5, <1>8, <1>10
<1> HIDE DEF a, b
<1> QED BY <1>1, <1>7, <1>11, <1>12, TwoWritten

\* the key heads the new node
LEMMA PromoteLinks ==
  ASSUME IInv, NEW t \in Threads, NEW r \in Nat, PromoteSplit(t, r)
  PROVE  Divided(t)
<1> DEFINE n == curr[t]
           l == Level(n)
           new == NewNode(t, l)
           moved == heap[n].num - (r + 1)
           first == Place(t, heap[new], l, 0, TRUE)
           given == SplitGive(heap[n], first, r + 1, 1)
           whole == IF l = 0 THEN given ELSE MoveChildren(heap[n], given, r + 1, moved, 1)
           a == [SplitKeep(heap[n], r + 1) EXCEPT !.next = new, !.next_header = K(t)]
           b == [whole EXCEPT !.next = heap[n].next, !.next_header = heap[n].next_header]
<1>1. Missing(t, r) /\ heap' = [heap EXCEPT ![new] = b, ![n] = a]
  BY DEF PromoteSplit
<1>2. /\ n \in Nodes /\ l \in Levels /\ heap[n] \in NodeOf(l)
      /\ new \in Nodes /\ Level(new) = l /\ new \in Peers(l) /\ new # n
      /\ heap[new] \in NodeOf(l) /\ heap[new].num = 0
      /\ K(t) \in AnyKey /\ call[t].arg \in Nat
      /\ l > 0 => NewNode(t, l - 1) \in Peers(l - 1)
      /\ r < heap[n].num /\ r \in Nat
  BY <1>1, InsertFacts
<1>3. /\ heap[n].num > 0 /\ heap[n].num \in 0 .. MaxKeys /\ heap[n].num <= MaxKeys
      /\ r + 1 \in Nat /\ r + 1 \in 0 .. MaxKeys /\ r + 1 <= heap[n].num /\ r + 1 > 0
      /\ moved \in Int /\ 1 + moved <= MaxKeys /\ r + 1 + moved <= MaxKeys
      /\ 0 < MaxKeys /\ 0 + 1 = 1 /\ 0 \in Nat /\ 1 \in Nat /\ 1 + moved > 0
  BY <1>2, Constants DEF NodeOf
<1>4. first \in NodeOf(l) /\ first.num = 1 /\ SameLinks(first, heap[new], Pool(t))
  BY <1>1, <1>2, <1>3, FillFacts, PlaceShape, PlaceLinks
<1> HIDE DEF first
<1>5. given \in NodeOf(l) /\ given.num = first.num + moved
  <2>1. /\ l \in Levels /\ heap[n] \in NodeOf(l) /\ first \in NodeOf(l)
        /\ r + 1 \in Nat /\ 1 \in Nat /\ r + 1 <= heap[n].num /\ first.num + moved <= MaxKeys
    BY <1>2, <1>3, <1>4
  <2> HIDE DEF n, l, new, a, b
  <2> QED BY <2>1, GiveShape
<1>6. given.child = first.child
  BY <1>4 DEF SplitGive, NodeOf
<1>7. \A i \in Slot : given.child[i] \in Pool(t)
  BY <1>4, <1>6 DEF SameLinks
<1> HIDE DEF given, moved, a, b
<1>8. whole \in NodeOf(l) /\ whole.num = given.num /\ \A i \in Slot : whole.child[i] \in Pool(t)
  <2>1. CASE l = 0
    BY <1>5, <1>7, <2>1
  <2>2. CASE l # 0
    <3> HIDE DEF n, l, new
    <3>1. /\ MoveChildren(heap[n], given, r + 1, moved, 1) \in NodeOf(l)
          /\ MoveChildren(heap[n], given, r + 1, moved, 1).num = given.num
      <4>1. /\ l \in Levels /\ heap[n] \in NodeOf(l) /\ given \in NodeOf(l)
            /\ r + 1 \in Nat /\ 1 \in Nat /\ moved \in Int /\ (r + 1) + moved <= MaxKeys
        BY <1>2, <1>3, <1>5
      <4> QED BY <4>1, MoveShape
    <3>2. heap[n].child \in [Slot -> Pool(t)] /\ given.child \in [Slot -> Pool(t)]
      <4>1. \A i \in Slot : heap[n].child[i] \in Pool(t)
        BY <1>1, FillFacts DEF n
      <4> QED BY <1>2, <1>5, <1>7, <4>1 DEF NodeOf
    <3>3. CopyTo(heap[n].child, r + 1, given.child, 1, moved) \in [Slot -> Pool(t)]
      BY <1>3, <3>2, CopyToType
    <3>4. MoveChildren(heap[n], given, r + 1, moved, 1).child =
            CopyTo(heap[n].child, r + 1, given.child, 1, moved)
      BY <1>5 DEF MoveChildren, NodeOf
    <3> QED BY <2>2, <3>1, <3>3, <3>4
  <2> QED BY <2>1, <2>2
<1> HIDE DEF whole
<1>9. /\ a.num = r + 1 /\ a.next = new /\ a.child = heap[n].child
  BY <1>2 DEF SplitKeep, NodeOf, a
<1>10. /\ b.num = whole.num /\ b.next = heap[n].next /\ b.next_header = heap[n].next_header
       /\ b.child = whole.child
  BY <1>8 DEF NodeOf, b
<1>11. a.num > 0 /\ b.num > 0
  BY <1>3, <1>4, <1>5, <1>8, <1>9, <1>10
<1>12. \A i \in Slot : a.child[i] \in Pool(t)
  BY <1>1, <1>9, FillFacts
<1>13. SameLinks(b, heap[n], Pool(t))
  BY <1>8, <1>10 DEF SameLinks
<1> QED BY <1>1, <1>9, <1>11, <1>12, <1>13, TwoWritten DEF a, b

\* A step leaves the nodes alone, or is one of an insert at its node.
LEMMA HeapEffect ==
  ASSUME IInv, HeldIn, NEW t \in Threads, Step(t)
  PROVE  \/ heap' = heap /\ ~\E r \in 0 .. MaxKeys : Filling(t, r)
         \/ Overwrite(t) /\ Wrote(t)
         \/ \E r \in Nat : InsertHere(t, r) /\ Wrote(t)
         \/ \E r \in Nat : (InsertLeft(t, r) \/ InsertRight(t, r) \/ PromoteSplit(t, r)) /\ Divided(t)
<1>1. ASSUME NEW r \in 0 .. MaxKeys, Filling(t, r)
      PROVE  \/ \E s \in Nat : InsertHere(t, s) /\ Wrote(t)
             \/ \E s \in Nat : /\ InsertLeft(t, s) \/ InsertRight(t, s) \/ PromoteSplit(t, s)
                               /\ Divided(t)
  <2>1. r \in Nat
    BY Constants
  <2> QED BY <1>1, <2>1, HereLinks, LeftLinks, RightLinks, PromoteLinks DEF Filling
<1>2. CASE Overwrite(t)
  BY <1>2, OverwriteLinks
<1>3. CASE ~Overwrite(t) /\ ~\E r \in 0 .. MaxKeys : Filling(t, r)
  <2>1. CASE Idle(t) \/ Locking(t)
    BY <1>3, <2>1 DEF Idle, StartRead, StartInsert, InsertZero, Begin, Locking, ReadLock, WriteLock,
                      Drain, Handover
  <2>2. CASE MoveRight(t) \/ Again(t)
    BY <1>3, <2>2 DEF MoveRight, Again, GoDown
  <2>3. ASSUME NEW r, Moving(t, r) \/ Ending(t, r) \/ Scanning(t, r) PROVE heap' = heap
    BY <2>3 DEF Moving, Descend, ReaderFound, Down, InsertFound, GoDown, Ending, ValueHit,
                ValueMiss, ExistsHit, ExistsMiss, Scanning, ScanOn, ScanEnd
  <2> QED BY <1>3, <2>1, <2>2, <2>3, StepCases
<1> QED BY <1>1, <1>2, <1>3

\* no step takes a node out of its list
LEMMA ListGrows ==
  ASSUME IInv, HeldIn, NEW t \in Threads, Step(t), NEW n \in Nodes, InList(n)
  PROVE  heap'[n].num > 0
BY HeapEffect DEF InList, Wrote, Divided

-------------------------------------------------------------------------------
(* What a step does to the locks                                           *)

\* the others stay where they are
LEMMA OthersStay ==
  ASSUME IInv, NEW t \in Threads, Step(t), NEW u \in Threads, u # t
  PROVE  pc'[u] = pc[u] /\ prev'[u] = prev[u]
<1>1. pc \in [Threads -> {"idle", "lock", "drain", "handover", "visit"}]
      /\ prev \in [Threads -> Pointers]
  BY DEF IInv, TypeOK
<1> DEFINE Stays == pc'[u] = pc[u] /\ prev'[u] = prev[u]
<1>2. ASSUME NEW n, NEW held, Approach(t, n, held) PROVE Stays
  BY <1>1, <1>2 DEF Approach
<1>3. ASSUME EndCall(t) PROVE Stays
  BY <1>1, <1>3 DEF EndCall
<1>4. ASSUME NEW n, GoDown(t, n) PROVE Stays
  BY <1>2, <1>4 DEF GoDown
<1>5. CASE Idle(t)
  <2>1. CASE InsertZero(t)
    BY <2>1 DEF InsertZero, place
  <2> QED BY <1>2, <1>5, <2>1 DEF Idle, StartRead, StartInsert, Begin
<1>6. CASE Locking(t)
  BY <1>1, <1>6 DEF Locking, ReadLock, WriteLock, Drain, Handover, Inside, place
<1>7. CASE MoveRight(t) \/ Again(t)
  BY <1>2, <1>4, <1>7 DEF MoveRight, Again
<1>8. CASE Overwrite(t)
  BY <1>3, <1>8 DEF Overwrite, Return
<1>9. ASSUME NEW r, Moving(t, r) PROVE Stays
  <2>1. CASE Descend(t, r)
    BY <1>2, <2>1 DEF Descend
  <2>2. CASE InsertFound(t, r)
    BY <1>1, <2>2 DEF InsertFound, place
  <2> QED BY <1>4, <1>9, <2>1, <2>2 DEF Moving, ReaderFound, Down
<1>10. ASSUME NEW r, Ending(t, r) PROVE Stays
  BY <1>3, <1>10 DEF Ending, ValueHit, ValueMiss, ExistsHit, ExistsMiss, Return
<1>11. ASSUME NEW r, Scanning(t, r) PROVE Stays
  BY <1>2, <1>3, <1>11 DEF Scanning, ScanOn, ScanEnd
<1>12. ASSUME NEW r, Filling(t, r) PROVE Stays
  <2>1. \E c, held : EndOrDescend(t, c, held)
    BY <1>12 DEF Filling, InsertHere, InsertLeft, InsertRight, PromoteSplit
  <2> QED BY <1>2, <1>3, <2>1 DEF EndOrDescend, Return
<1> QED BY <1>5, <1>6, <1>7, <1>8, <1>9, <1>10, <1>11, <1>12, StepCases

\* so they keep their locks
LEMMA OthersHold ==
  ASSUME IInv, NEW t \in Threads, Step(t), NEW u \in Threads, u # t, NEW n \in Nodes
  PROVE  /\ Reading(u, n)' <=> Reading(u, n)
         /\ Writing(u, n)' <=> Writing(u, n)
         /\ Flagged(u, n)' <=> Flagged(u, n)
         /\ n \in Flagging(u)' <=> n \in Flagging(u)
<1>1. pc'[u] = pc[u] /\ prev'[u] = prev[u] /\ SameThread(u)
  BY OthersStay, OthersKept
<1>2. Holding(u)' = Holding(u) /\ Flagging(u)' = Flagging(u)
  BY <1>1 DEF Holding, Flagging, SameThread
<1>3. ForWriting(u, n)' <=> ForWriting(u, n)
  BY <1>1 DEF ForWriting, Op, Promote, K, SameThread
<1> QED BY <1>2, <1>3 DEF Reading, Writing, Flagged

Leaking(t) == \E r \in 0 .. MaxKeys : ExistsMiss(t, r)
Drawn(t, n) == StartInsert(t) /\ \E l \in Levels : n = <<t, ins[t] + 1, l>>

\* What a step of t does to the lock of node n, and to what t has of it.  A
\* lookup that leaves its lock behind is the only one to lose count.
Effect(t, n) ==
  /\ \/ readers'[n] = readers[n] /\ (Reading(t, n)' <=> Reading(t, n))
     \/ /\ readers'[n] = readers[n] + 1 /\ ~Reading(t, n) /\ Reading(t, n)'
        /\ InList(n) /\ ~writer[n]
     \/ readers'[n] = readers[n] - 1 /\ Reading(t, n) /\ ~Reading(t, n)'
     \/ Leaking(t) /\ readers'[n] = readers[n] /\ Reading(t, n) /\ ~Reading(t, n)'
  /\ \/ (writer'[n] <=> writer[n]) /\ (Flagged(t, n)' <=> Flagged(t, n))
     \/ writer'[n] /\ ~writer[n] /\ Flagged(t, n)'
     \/ ~writer'[n] /\ Flagged(t, n) /\ ~Flagged(t, n)'
     \/ ~InList(n)
  /\ Writing(t, n)' => Writing(t, n) \/ readers[n] = 0
  /\ InList(n)' /\ ~InList(n) => (writer'[n] <=> Flagged(t, n)')
  /\ ~InList(n)' => (writer'[n] <=> writer[n]) \/ Drawn(t, n)
  /\ n \in Flagging(t)' => InList(n)'

\* t has locked what it had
HoldsSame(t) ==
  \A n \in Nodes : /\ Reading(t, n)' <=> Reading(t, n)
                   /\ Writing(t, n)' <=> Writing(t, n)
                   /\ Flagged(t, n)' <=> Flagged(t, n)
                   /\ n \in Flagging(t)' => n \in Flagging(t)

\* steps that touch neither locks nor nodes
LEMMA SameEffect ==
  ASSUME HeldIn, NEW t \in Threads, HoldsSame(t), UNCHANGED <<heap, writer, readers>>,
         NEW n \in Nodes
  PROVE  Effect(t, n)
<1>1. InList(n)' <=> InList(n)
  BY DEF InList
<1>2. n \in Flagging(t)' => InList(n)'
  BY <1>1 DEF HoldsSame, HeldIn
<1> QED BY <1>1, <1>2 DEF Effect, HoldsSame

\* a thread goes on from the node it is at and keeps its lock
LEMMA GoesOn ==
  ASSUME IInv, Going, NEW t \in Threads, pc[t] = "visit",
         NEW h \in Nodes, h = curr[t], NEW x, Approach(t, x, h),
         ForWriting(t, h)' <=> ForWriting(t, h)
  PROVE  HoldsSame(t) /\ Holding(t)' = {h} /\ Flagging(t)' = {h}
<1>1. h # Null
  BY NodeNames
<1>2. pc'[t] = "lock" /\ prev'[t] = h
  BY DEF Approach, IInv, TypeOK
<1>3. Holding(t)' = {h} /\ Flagging(t)' = {h}
  BY <1>1, <1>2 DEF Holding, Flagging
<1>4. Holding(t) = {h} /\ Flagging(t) = {h}
  BY DEF Holding, Flagging
<1> QED BY <1>3, <1>4 DEF HoldsSame, Reading, Writing, Flagged

\* the mode of a lock depends on the call and on the phase
LEMMA ModeKept ==
  ASSUME NEW t \in Threads, NEW n, call'[t] = call[t], phase'[t] = phase[t]
  PROVE  ForWriting(t, n)' <=> ForWriting(t, n)
BY DEF ForWriting, Op, Promote, K

\* going down from a node above the leaves where the key was found: the lock is
\* for reading before and after
LEMMA DownEffect ==
  ASSUME IInv, Going, HeldIn, NEW t \in Threads, pc[t] = "visit", NEW r, GoDown(t, r),
         Op(t) # "insert" \/ phase[t] # "search", NEW n \in Nodes
  PROVE  Effect(t, n)
<1>1. PICK h \in Nodes : h = curr[t]
  BY DEF IInv, TypeOK
<1>2. /\ Level(h) > 0 /\ Approach(t, ChildAt(t, r), h) /\ call'[t] = call[t]
      /\ phase'[t] = "down" /\ UNCHANGED <<heap, writer, readers>>
  BY <1>1 DEF GoDown, locks, IInv, TypeOK
<1>3. Level(h) # 0
  BY <1>2, NodeNames, Constants
<1>4. ForWriting(t, h)' <=> ForWriting(t, h)
  BY <1>2, <1>3 DEF ForWriting, Op
<1> QED BY <1>1, <1>2, <1>4, GoesOn, SameEffect

\* a thread that lets its node go, or leaves it locked
LEMMA LetsGo ==
  ASSUME IInv, Going, HeldIn, NEW t \in Threads, pc[t] = "visit",
         NEW h \in Nodes, h = curr[t],
         Holding(t)' = {}, Flagging(t)' = {},
         \A m \in Nodes : InList(m)' <=> InList(m),
         \/ Unlock(t, h)
         \/ ~ForWriting(t, h) /\ Leaking(t) /\ UNCHANGED <<writer, readers>>,
         NEW n \in Nodes
  PROVE  Effect(t, n)
<1>1. Holding(t) = {h} /\ Flagging(t) = {h}
  BY DEF Holding, Flagging
<1>2. InList(h)
  BY <1>1 DEF HeldIn
<1>3. ~Reading(t, n)' /\ ~Writing(t, n)' /\ ~Flagged(t, n)' /\ n \notin Flagging(t)'
  BY DEF Reading, Writing, Flagged
<1>4. /\ Reading(t, n) <=> n = h /\ ~ForWriting(t, h)
      /\ Flagged(t, n) <=> n = h /\ ForWriting(t, h)
  BY <1>1 DEF Reading, Flagged
<1>5. writer \in [Nodes -> BOOLEAN] /\ readers \in [Nodes -> Int]
  BY DEF IInv, TypeOK
<1>6. CASE Unlock(t, h) /\ ForWriting(t, h)
  <2>1. writer' = [writer EXCEPT ![h] = FALSE] /\ readers' = readers
    BY <1>6 DEF Unlock
  <2>2. readers'[n] = readers[n] /\ (n = h => ~writer'[n]) /\ (n # h => writer'[n] = writer[n])
    BY <1>5, <2>1
  <2> QED BY <1>2, <1>3, <1>4, <1>6, <2>2 DEF Effect
<1>7. CASE Unlock(t, h) /\ ~ForWriting(t, h)
  <2>1. readers' = [readers EXCEPT ![h] = @ - 1] /\ writer' = writer
    BY <1>7 DEF Unlock
  <2>2. /\ writer'[n] = writer[n]
        /\ n = h => readers'[n] = readers[n] - 1
        /\ n # h => readers'[n] = readers[n]
    BY <1>5, <2>1
  <2> QED BY <1>2, <1>3, <1>4, <1>7, <2>2 DEF Effect
<1>8. CASE ~ForWriting(t, h) /\ Leaking(t) /\ UNCHANGED <<writer, readers>>
  BY <1>2, <1>3, <1>4, <1>8 DEF Effect
<1> QED BY <1>6, <1>7, <1>8

\* after EndCall nothing is held
LEMMA EndHolds ==
  ASSUME IInv, NEW t \in Threads, EndCall(t)
  PROVE  Holding(t)' = {} /\ Flagging(t)' = {}
<1>1. pc'[t] = "idle"
  BY DEF EndCall, IInv, TypeOK
<1> QED BY <1>1 DEF Holding, Flagging

\* the steps of the hand-over-hand walk
LEMMA ReadLockEffect ==
  ASSUME IInv, Going, HeldIn, NEW t \in Threads, ReadLock(t), NEW n \in Nodes
  PROVE  Effect(t, n)
<1>1. PICK c : c = curr[t]
  OBVIOUS
<1>2. /\ pc[t] = "lock" /\ c # Null /\ ~ForWriting(t, c) /\ ~writer[c]
      /\ readers' = [readers EXCEPT ![c] = @ + 1]
      /\ UNCHANGED <<heap, writer, call, phase, curr, prev>>
      /\ pc'[t] = IF prev[t] = Null THEN "visit" ELSE "handover"
  BY <1>1 DEF ReadLock, Inside, place, IInv, TypeOK
<1>3. c \in Nodes /\ c # prev[t] /\ InList(c)
  BY <1>1, <1>2 DEF Going, Ready, IInv, TypeOK, Pointers
<1>4. \A m : ForWriting(t, m)' <=> ForWriting(t, m)
  BY <1>2 DEF ForWriting, Op, Promote, K
<1>5. /\ Holding(t) = {prev[t]} \ {Null} /\ Flagging(t) = {prev[t]} \ {Null}
      /\ Holding(t)' = ({prev[t]} \ {Null}) \cup {c} /\ Flagging(t)' = Holding(t)'
  BY <1>1, <1>2 DEF Holding, Flagging
<1>6. readers'[n] = IF n = c THEN readers[n] + 1 ELSE readers[n]
  BY <1>2, <1>3 DEF IInv, TypeOK
<1>7. InList(n)' <=> InList(n)
  BY <1>2 DEF InList
<1>8. n \in Flagging(t)' => InList(n)'
  BY <1>3, <1>5, <1>7 DEF HeldIn
<1>9. CASE n = c
  <2>1. ~Reading(t, n) /\ Reading(t, n)' /\ ~Flagged(t, n) /\ ~Flagged(t, n)' /\ ~Writing(t, n)'
    BY <1>2, <1>3, <1>4, <1>5, <1>9 DEF Reading, Flagged, Writing
  <2> QED BY <1>2, <1>3, <1>6, <1>7, <1>8, <1>9, <2>1 DEF Effect
<1>10. CASE n # c
  <2>1. n \in Holding(t)' <=> n \in Holding(t)
    BY <1>5, <1>10
  <2>2. n \in Flagging(t)' <=> n \in Flagging(t)
    BY <1>5, <1>10
  <2>3. /\ Reading(t, n)' <=> Reading(t, n)
        /\ Writing(t, n)' <=> Writing(t, n)
        /\ Flagged(t, n)' <=> Flagged(t, n)
    BY <1>4, <2>1, <2>2 DEF Reading, Flagged, Writing
  <2> QED BY <1>2, <1>6, <1>7, <1>8, <1>10, <2>3 DEF Effect
<1> QED BY <1>9, <1>10

\* the flag
LEMMA WriteLockEffect ==
  ASSUME IInv, Going, HeldIn, NEW t \in Threads, WriteLock(t), NEW n \in Nodes
  PROVE  Effect(t, n)
<1>1. PICK c : c = curr[t]
  OBVIOUS
<1>2. /\ pc[t] = "lock" /\ c # Null /\ ForWriting(t, c) /\ ~writer[c]
      /\ writer' = [writer EXCEPT ![c] = TRUE]
      /\ UNCHANGED <<heap, readers, call, phase, curr, prev>>
      /\ pc'[t] = "drain"
  BY <1>1 DEF WriteLock, place, IInv, TypeOK
<1>3. c \in Nodes /\ c # prev[t] /\ InList(c)
  BY <1>1, <1>2 DEF Going, Ready, IInv, TypeOK, Pointers
<1>4. \A m : ForWriting(t, m)' <=> ForWriting(t, m)
  BY <1>2 DEF ForWriting, Op, Promote, K
<1>5. /\ Holding(t) = {prev[t]} \ {Null} /\ Flagging(t) = {prev[t]} \ {Null}
      /\ Holding(t)' = {prev[t]} \ {Null} /\ Flagging(t)' = ({prev[t]} \ {Null}) \cup {c}
  BY <1>1, <1>2 DEF Holding, Flagging
<1>6. (n = c => writer'[n]) /\ (n # c => writer'[n] = writer[n])
  BY <1>2, <1>3 DEF IInv, TypeOK
<1>7. InList(n)' <=> InList(n)
  BY <1>2 DEF InList
<1>8. n \in Flagging(t)' => InList(n)'
  BY <1>3, <1>5, <1>7 DEF HeldIn
<1>9. /\ Reading(t, n)' <=> Reading(t, n)
      /\ Writing(t, n)' <=> Writing(t, n)
  BY <1>4, <1>5 DEF Reading, Writing
<1>10. CASE n = c
  <2>1. Flagged(t, n)'
    BY <1>2, <1>4, <1>5, <1>10 DEF Flagged
  <2> QED BY <1>2, <1>3, <1>6, <1>7, <1>8, <1>9, <1>10, <2>1 DEF Effect
<1>11. CASE n # c
  <2>1. n \in Flagging(t)' <=> n \in Flagging(t)
    BY <1>5, <1>11
  <2>2. Flagged(t, n)' <=> Flagged(t, n)
    BY <1>4, <2>1 DEF Flagged
  <2> QED BY <1>2, <1>6, <1>7, <1>8, <1>9, <1>11, <2>2 DEF Effect
<1> QED BY <1>10, <1>11

\* the readers are gone
LEMMA DrainEffect ==
  ASSUME IInv, Going, HeldIn, NEW t \in Threads, Drain(t), NEW n \in Nodes
  PROVE  Effect(t, n)
<1>1. PICK c : c = curr[t]
  OBVIOUS
<1>2. /\ pc[t] = "drain" /\ readers[c] = 0
      /\ UNCHANGED <<heap, readers, writer, call, phase, curr, prev>>
      /\ pc'[t] = IF prev[t] = Null THEN "visit" ELSE "handover"
  BY <1>1 DEF Drain, Inside, place, locks, IInv, TypeOK
<1>3. /\ Holding(t) = {prev[t]} \ {Null} /\ Flagging(t) = ({prev[t]} \ {Null}) \cup {c}
      /\ Holding(t)' = ({prev[t]} \ {Null}) \cup {c} /\ Flagging(t)' = Holding(t)'
  BY <1>1, <1>2 DEF Holding, Flagging
<1>4. \A m : ForWriting(t, m)' <=> ForWriting(t, m)
  BY <1>2 DEF ForWriting, Op, Promote, K
<1>5. InList(n)' <=> InList(n)
  BY <1>2 DEF InList
<1>6. n \in Flagging(t)' => InList(n)'
  BY <1>3, <1>5 DEF HeldIn
<1>7. Flagged(t, n)' <=> Flagged(t, n)
  BY <1>3, <1>4 DEF Flagged
<1>8. Writing(t, n)' => Writing(t, n) \/ readers[n] = 0
  BY <1>2, <1>3, <1>4 DEF Writing
<1>9. Reading(t, n)' <=> Reading(t, n)
  <2>1. ForWriting(t, c)
    BY <1>1, <1>2 DEF Going
  <2> QED BY <1>3, <1>4, <2>1 DEF Reading
<1> QED BY <1>2, <1>5, <1>6, <1>7, <1>8, <1>9 DEF Effect

\* the parent or the left neighbour is released
LEMMA HandoverEffect ==
  ASSUME IInv, Going, HeldIn, NEW t \in Threads, Handover(t), NEW n \in Nodes
  PROVE  Effect(t, n)
<1>1. PICK c, p : c = curr[t] /\ p = prev[t]
  OBVIOUS
<1>2. /\ pc[t] = "handover" /\ Unlock(t, p) /\ UNCHANGED <<heap, call, phase, curr>>
      /\ prev'[t] = Null /\ pc'[t] = "visit"
  BY <1>1 DEF Handover, IInv, TypeOK
<1>3. c \in Nodes /\ p \in Nodes /\ c # p
  BY <1>1, <1>2 DEF Going, IInv, TypeOK
<1>4. \A m : ForWriting(t, m)' <=> ForWriting(t, m)
  BY <1>2 DEF ForWriting, Op, Promote, K
<1>5. /\ Holding(t) = {c, p} /\ Flagging(t) = {c, p}
      /\ Holding(t)' = {c} /\ Flagging(t)' = {c}
  BY <1>1, <1>2 DEF Holding, Flagging
<1>6. InList(n)' <=> InList(n)
  BY <1>2 DEF InList
<1>7. InList(c) /\ InList(p) /\ (n \in Flagging(t)' => InList(n)')
  BY <1>5, <1>6 DEF HeldIn
<1>8. writer \in [Nodes -> BOOLEAN] /\ readers \in [Nodes -> Int]
  BY DEF IInv, TypeOK
<1>9. CASE n # p
  <2>1. writer'[n] = writer[n] /\ readers'[n] = readers[n]
    BY <1>2, <1>8, <1>9 DEF Unlock
  <2>2. /\ Reading(t, n)' <=> Reading(t, n)
        /\ Writing(t, n)' <=> Writing(t, n)
        /\ Flagged(t, n)' <=> Flagged(t, n)
    BY <1>4, <1>5, <1>9 DEF Reading, Writing, Flagged
  <2> QED BY <1>6, <1>7, <2>1, <2>2 DEF Effect
<1>10. CASE n = p
  <2>1. ~Reading(t, n)' /\ ~Writing(t, n)' /\ ~Flagged(t, n)'
    BY <1>3, <1>5, <1>10 DEF Reading, Writing, Flagged
  <2>2. /\ Reading(t, n) <=> ~ForWriting(t, p)
        /\ Flagged(t, n) <=> ForWriting(t, p)
    BY <1>5, <1>10 DEF Reading, Flagged
  <2>3. CASE ForWriting(t, p)
    <3>1. ~writer'[n] /\ readers'[n] = readers[n]
      BY <1>2, <1>3, <1>8, <1>10, <2>3 DEF Unlock
    <3> QED BY <1>6, <1>7, <1>10, <2>1, <2>2, <2>3, <3>1 DEF Effect
  <2>4. CASE ~ForWriting(t, p)
    <3>1. writer'[n] = writer[n] /\ readers'[n] = readers[n] - 1
      BY <1>2, <1>3, <1>8, <1>10, <2>4 DEF Unlock
    <3> QED BY <1>6, <1>7, <1>10, <2>1, <2>2, <2>4, <3>1 DEF Effect
  <2> QED BY <2>3, <2>4
<1> QED BY <1>9, <1>10

\* A call starts: an insert sets the flags of its new nodes.
LEMMA IdleEffect ==
  ASSUME IInv, Going, HeldIn, NEW t \in Threads, Idle(t), NEW n \in Nodes
  PROVE  Effect(t, n)
<1>1. pc[t] = "idle" /\ heap' = heap /\ readers' = readers
  BY DEF Idle, StartRead, StartInsert, InsertZero, Begin, locks
<1>2. Holding(t) = {} /\ Flagging(t) = {}
  BY <1>1 DEF Holding, Flagging
<1>3. Holding(t)' = {} /\ Flagging(t)' = {}
  <2>1. CASE InsertZero(t)
    <3>1. pc'[t] = "idle"
      BY <1>1, <2>1 DEF InsertZero
    <3> QED BY <3>1 DEF Holding, Flagging
  <2>2. CASE StartRead(t) \/ StartInsert(t)
    <3>1. pc'[t] = "lock" /\ prev'[t] = Null
      BY <2>2 DEF StartRead, StartInsert, Begin, Approach, IInv, TypeOK
    <3> QED BY <3>1 DEF Holding, Flagging
  <2> QED BY <2>1, <2>2 DEF Idle
<1>4. InList(n)' <=> InList(n)
  BY <1>1 DEF InList
<1>5. /\ ~Reading(t, n) /\ ~Writing(t, n) /\ ~Flagged(t, n)
      /\ ~Reading(t, n)' /\ ~Writing(t, n)' /\ ~Flagged(t, n)' /\ n \notin Flagging(t)'
  BY <1>2, <1>3 DEF Reading, Writing, Flagged
<1>6. (writer'[n] <=> writer[n]) \/ (~InList(n) /\ Drawn(t, n))
  <2>1. CASE StartRead(t) \/ InsertZero(t)
    BY <2>1 DEF StartRead, InsertZero, locks
  <2>2. CASE StartInsert(t)
    <3>1. PICK c \in todo[t] :
            /\ c.key # 0 /\ ins[t] < MaxInserts[t]
            /\ writer' = [m \in Nodes |->
                 writer[m] \/ \E l \in 0 .. LevelOf[c.key] - 1 : m = <<t, ins[t] + 1, l>>]
      BY <2>2 DEF StartInsert
    <3>2. c \in Calls
      BY DEF IInv, TypeOK
    <3>3. LevelOf[c.key] \in Levels
      BY <3>2, LevelAssumption DEF Calls
    <3>4. 0 .. LevelOf[c.key] - 1 \subseteq Levels
      BY <3>3, HeightAssumption DEF Levels
    <3>5. CASE \E l \in 0 .. LevelOf[c.key] - 1 : n = <<t, ins[t] + 1, l>>
      <4>1. PICK l \in Levels : n = <<t, ins[t] + 1, l>>
        BY <3>4, <3>5
      <4>2. ins[t] + 1 \in 1 .. MaxInserts[t] /\ ins[t] + 1 > ins[t]
        BY <3>1, MaxInsertsAssumption DEF IInv, TypeOK
      <4>3. heap[n].num = 0
        BY <4>1, <4>2 DEF IInv, Fresh
      <4> QED BY <2>2, <4>1, <4>3 DEF InList, Drawn
    <3>6. CASE ~\E l \in 0 .. LevelOf[c.key] - 1 : n = <<t, ins[t] + 1, l>>
      <4>1. writer'[n] <=> writer[n]
        BY <3>1, <3>6, Zenon
      <4> QED BY <4>1
    <3> QED BY <3>5, <3>6
  <2> QED BY <2>1, <2>2 DEF Idle
<1> QED BY <1>1, <1>4, <1>5, <1>6 DEF Effect

\* from node to node
LEMMA MovingEffect ==
  ASSUME IInv, Going, HeldIn, NEW t \in Threads, NEW n \in Nodes,
         MoveRight(t) \/ Again(t) \/ \E r : Moving(t, r)
  PROVE  Effect(t, n)
<1>1. ASSUME NEW x, pc[t] = "visit", Approach(t, x, curr[t]),
             UNCHANGED <<heap, writer, readers, call, phase>>
      PROVE  Effect(t, n)
  <2>1. PICK h \in Nodes : h = curr[t]
    BY <1>1 DEF IInv, TypeOK
  <2>2. ForWriting(t, h)' <=> ForWriting(t, h)
    BY <1>1, ModeKept
  <2>3. HoldsSame(t)
    BY <1>1, <2>1, <2>2, GoesOn
  <2> QED BY <1>1, <2>3, SameEffect
<1>2. CASE MoveRight(t)
  BY <1>1, <1>2 DEF MoveRight, locks
<1>3. CASE Again(t)
  BY <1>3, DownEffect DEF Again
<1>4. ASSUME NEW r, Moving(t, r) PROVE Effect(t, n)
  <2>1. CASE Descend(t, r)
    BY <1>1, <2>1 DEF Descend, At, locks
  <2>2. CASE ReaderFound(t, r)
    <3>1. pc[t] = "visit" /\ Op(t) # "insert" /\ GoDown(t, r)
      BY <2>2 DEF ReaderFound, At
    <3> QED BY <3>1, DownEffect
  <2>3. CASE Down(t, r)
    <3>1. pc[t] = "visit" /\ phase[t] # "search" /\ GoDown(t, r)
      BY <2>3 DEF Down
    <3> QED BY <3>1, DownEffect
  <2>4. CASE InsertFound(t, r)
    <3>1. PICK h \in Nodes : h = curr[t]
      BY <2>4 DEF InsertFound, At, IInv, TypeOK
    <3>2. /\ pc[t] = "visit" /\ Unlock(t, h) /\ pc'[t] = "lock" /\ prev'[t] = prev[t]
          /\ heap' = heap
      BY <2>4, <3>1 DEF InsertFound, At, place, IInv, TypeOK
    <3>3. prev[t] = Null
      BY <3>2 DEF Going
    <3>4. Holding(t)' = {} /\ Flagging(t)' = {}
      BY <3>2, <3>3 DEF Holding, Flagging
    <3>5. \A m \in Nodes : InList(m)' <=> InList(m)
      BY <3>2 DEF InList
    <3> QED BY <3>1, <3>2, <3>4, <3>5, LetsGo
  <2> QED BY <1>4, <2>1, <2>2, <2>3, <2>4 DEF Moving
<1> QED BY <1>2, <1>3, <1>4

\* lookups and scans
LEMMA ReadingEffect ==
  ASSUME IInv, Going, HeldIn, NEW t \in Threads, NEW r \in 0 .. MaxKeys,
         Ending(t, r) \/ Scanning(t, r), NEW n \in Nodes
  PROVE  Effect(t, n)
<1>1. pc[t] = "visit" /\ heap' = heap
  BY DEF Ending, ValueHit, ValueMiss, ExistsHit, ExistsMiss, Scanning, ScanOn, ScanEnd, From, At
<1>2. PICK h \in Nodes : h = curr[t]
  BY <1>1 DEF IInv, TypeOK
<1>3. \A m \in Nodes : InList(m)' <=> InList(m)
  BY <1>1 DEF InList
<1>4. CASE ScanOn(t, r)
  <2>1. /\ Op(t) # "insert" /\ UNCHANGED <<heap, writer, readers, call>>
        /\ Approach(t, heap[curr[t]].next, h)
    BY <1>2, <1>4 DEF ScanOn, locks
  <2>2. ForWriting(t, h)' <=> ForWriting(t, h)
    BY <2>1 DEF ForWriting, Op
  <2>3. HoldsSame(t)
    BY <1>1, <1>2, <2>1, <2>2, GoesOn
  <2> QED BY <2>1, <2>3, SameEffect
<1>5. CASE ExistsMiss(t, r)
  <2>1. EndCall(t) /\ UNCHANGED <<writer, readers>> /\ Op(t) = "exists"
    BY <1>5 DEF ExistsMiss, Return, locks
  <2>2. Leaking(t) /\ ~ForWriting(t, h)
    BY <1>5, <2>1 DEF Leaking, ForWriting
  <2> QED BY <1>1, <1>2, <1>3, <2>1, <2>2, EndHolds, LetsGo
<1>6. CASE ScanEnd(t, r) \/ ValueHit(t, r) \/ ValueMiss(t, r) \/ ExistsHit(t, r)
  <2>1. EndCall(t) /\ Unlock(t, h)
    BY <1>2, <1>6 DEF ScanEnd, ValueHit, ValueMiss, ExistsHit, Return
  <2> QED BY <1>1, <1>2, <1>3, <2>1, EndHolds, LetsGo
<1> QED BY <1>4, <1>5, <1>6 DEF Ending, Scanning

\* an override ends its call
LEMMA OverwriteEffect ==
  ASSUME IInv, Going, HeldIn, NEW t \in Threads, Overwrite(t), NEW n \in Nodes
  PROVE  Effect(t, n)
<1>1. PICK h \in Nodes : h = curr[t]
  BY DEF Overwrite, IInv, TypeOK
<1>2. pc[t] = "visit" /\ EndCall(t) /\ Unlock(t, h)
  BY <1>1 DEF Overwrite, Return
<1>3. Wrote(t)
  BY OverwriteLinks
<1>4. InList(h)
  BY <1>1, <1>2 DEF HeldIn, Flagging, Holding
<1>5. \A m \in Nodes : InList(m)' <=> InList(m)
  BY <1>1, <1>3, <1>4 DEF Wrote, InList
<1> QED BY <1>1, <1>2, <1>5, EndHolds, LetsGo

\* an insert that has come to its node has it for writing, and alone knows of
\* its new one
LEMMA FillHolds ==
  ASSUME IInv, Going, HeldIn, Prepared, NEW t \in Threads, NEW r, Missing(t, r),
         Level(curr[t]) <= Promote(t)
  PROVE  LET n == curr[t]
             new == NewNode(t, Level(n))
         IN /\ pc[t] = "visit" /\ Holding(t) = {n} /\ Flagging(t) = {n}
            /\ ForWriting(t, n) /\ ForWriting(t, new) /\ InList(n) /\ ~InList(new)
            /\ writer[new] <=> Level(n) < Promote(t)
<1> DEFINE n == curr[t]
           new == NewNode(t, Level(n))
<1>1. /\ n \in Nodes /\ Level(n) \in Levels /\ new \in Nodes /\ Level(new) = Level(n)
      /\ heap[new].num = 0 /\ Op(t) = "insert" /\ phase[t] = "search"
  BY InsertFacts
<1>2. pc[t] = "visit"
  BY DEF Missing, At
<1>3. Holding(t) = {n} /\ Flagging(t) = {n}
  BY <1>2 DEF Holding, Flagging
<1>4. ForWriting(t, n) /\ ForWriting(t, new)
  BY <1>1 DEF ForWriting
<1>5. InList(n) /\ ~InList(new)
  BY <1>1, <1>3 DEF HeldIn, InList
<1>6. writer[new] <=> Level(n) < Promote(t)
  <2>1. Level(n) \in Int /\ n # Null
    BY <1>1, NodeNames, Constants
  <2>2. Level(n) <= Level(n)
    BY <2>1
  <2> QED BY <1>1, <2>1, <2>2 DEF Prepared
<1> QED BY <1>2, <1>3, <1>4, <1>5, <1>6

\* the insert has locked H of its node n and the new one, and the flags say so
Rests(t, n, new, H) ==
  /\ readers' = readers
  /\ \A m \in Nodes : m # n /\ m # new => writer'[m] = writer[m] /\ heap'[m] = heap[m]
  /\ heap'[n].num > 0
  /\ H \subseteq {n, new} /\ Holding(t)' = H /\ Flagging(t)' = H
  /\ \A m \in H : ForWriting(t, m)'
  /\ writer'[n] <=> n \in H
  /\ heap'[new].num > 0 => (writer'[new] <=> new \in H)
  /\ ~(heap'[new].num > 0) => new \notin H /\ writer'[new] = writer[new]

\* such a step is good for the locks
LEMMA FillEffect ==
  ASSUME IInv, Going, HeldIn, Prepared, EmptyFree, NEW t \in Threads, NEW r, Missing(t, r),
         Level(curr[t]) <= Promote(t),
         NEW n \in Nodes, n = curr[t], NEW new \in Nodes, new = NewNode(t, Level(n)),
         NEW H, Rests(t, n, new, H), NEW m \in Nodes
  PROVE  Effect(t, m)
<1> USE DEF Rests
<1>1. /\ Holding(t) = {n} /\ Flagging(t) = {n} /\ ForWriting(t, n)
      /\ InList(n) /\ ~InList(new)
  BY FillHolds
<1>2. ~Reading(t, m) /\ ~Reading(t, m)'
  BY <1>1 DEF Reading
<1>3. Flagged(t, m) <=> m = n
  BY <1>1 DEF Flagged
<1>4. Flagged(t, m)' <=> m \in H
  BY DEF Flagged
<1>5. Writing(t, m)' => m \in H
  BY DEF Writing
<1>6. CASE m = n
  <2>1. InList(m)'
    BY <1>6 DEF InList
  <2>2. Writing(t, m)
    BY <1>1, <1>6 DEF Writing
  <2> QED BY <1>1, <1>2, <1>3, <1>4, <1>6, <2>1, <2>2 DEF Effect
<1>7. CASE m = new
  <2>1. InList(m)' <=> heap'[new].num > 0
    BY <1>7 DEF InList
  <2>2. Writing(t, m)' => readers[m] = 0
    BY <1>1, <1>5, <1>7 DEF EmptyFree
  <2> QED BY <1>1, <1>2, <1>3, <1>4, <1>7, <2>1, <2>2 DEF Effect
<1>8. CASE m # n /\ m # new
  <2>1. heap'[m] = heap[m] /\ writer'[m] = writer[m]
    BY <1>8
  <2>2. InList(m)' <=> InList(m)
    BY <2>1 DEF InList
  <2>3. m \notin H
    BY <1>8
  <2> QED BY <1>2, <1>3, <1>4, <1>5, <1>8, <2>1, <2>2, <2>3 DEF Effect
<1> QED BY <1>6, <1>7, <1>8

\* what an insert holds after its step: nothing when it was at a leaf
LEMMA EndOrDescendHolds ==
  ASSUME IInv, NEW t \in Threads, NEW x, NEW held \in Nodes, EndOrDescend(t, x, held)
  PROVE  /\ Level(curr[t]) = 0 => Holding(t)' = {} /\ Flagging(t)' = {}
         /\ Level(curr[t]) # 0 => /\ Holding(t)' = {held} /\ Flagging(t)' = {held}
                                  /\ \A m : ForWriting(t, m)' <=> ForWriting(t, m)
<1>1. CASE Level(curr[t]) = 0
  BY <1>1, EndHolds DEF EndOrDescend, Return
<1>2. CASE Level(curr[t]) # 0
  <2>1. Approach(t, x, held) /\ UNCHANGED <<call, phase>>
    BY <1>2 DEF EndOrDescend
  <2>2. pc'[t] = "lock" /\ prev'[t] = held /\ held # Null
    BY <2>1, NodeNames DEF Approach, IInv, TypeOK
  <2>3. Holding(t)' = {held} /\ Flagging(t)' = {held}
    BY <2>2 DEF Holding, Flagging
  <2> QED BY <1>2, <2>1, <2>3, ModeKept
<1> QED BY <1>1, <1>2

\* the four ways to add a key, and the locks
LEMMA HereEffect ==
  ASSUME LInv, NEW t \in Threads, NEW r \in Nat, InsertHere(t, r), NEW m \in Nodes
  PROVE  Effect(t, m)
<1>1. PICK n, new : n = curr[t] /\ new = NewNode(t, Level(n))
  OBVIOUS
<1>2. IInv /\ Going /\ HeldIn /\ Prepared /\ EmptyFree /\ Owned
  BY DEF LInv, Links, LocksHeld
<1>3. /\ Missing(t, r) /\ Promote(t) = Level(n)
      /\ IF Level(n) = 0 THEN Unlock(t, n) ELSE UNCHANGED locks
      /\ EndOrDescend(t, ChildAt(t, r), n)
  BY <1>1 DEF InsertHere
<1>4. n \in Nodes /\ new \in Nodes /\ new # n /\ heap[new].num = 0 /\ Level(n) \in Int
  BY <1>1, <1>2, <1>3, InsertFacts, Constants
<1>5. Level(n) <= Promote(t)
  BY <1>3, <1>4
<1>6. Flagging(t) = {n} /\ ForWriting(t, n) /\ InList(n)
  BY <1>1, <1>2, <1>3, <1>5, FillHolds
<1>7. writer[n]
  BY <1>2, <1>4, <1>6 DEF Owned, Flagged
<1>8. Wrote(t)
  BY <1>2, HereLinks
<1>9. \A k \in Nodes : k # n => heap'[k] = heap[k]
  BY <1>1, <1>8 DEF Wrote
<1>10. heap'[n].num > 0 /\ ~(heap'[new].num > 0)
  BY <1>1, <1>4, <1>8, <1>9 DEF Wrote
<1>11. writer \in [Nodes -> BOOLEAN]
  BY <1>2 DEF IInv, TypeOK
<1>12. CASE Level(n) = 0
  <2>1. writer' = [writer EXCEPT ![n] = FALSE] /\ readers' = readers
    BY <1>3, <1>6, <1>12 DEF Unlock
  <2>2. ~writer'[n] /\ \A k \in Nodes : k # n => writer'[k] = writer[k]
    BY <1>4, <1>11, <2>1
  <2>3. Holding(t)' = {} /\ Flagging(t)' = {}
    BY <1>1, <1>2, <1>3, <1>4, <1>12, EndOrDescendHolds
  <2>4. Rests(t, n, new, {})
    BY <1>1, <1>2, <1>3, <1>4, <1>5, <1>9, <1>10, <2>1, <2>2, <2>3 DEF Rests
  <2> QED BY <1>1, <1>2, <1>3, <1>4, <1>5, <1>6, <2>4, FillEffect
<1>13. CASE Level(n) # 0
  <2>1. writer' = writer /\ readers' = readers
    BY <1>3, <1>13 DEF locks
  <2>2. Holding(t)' = {n} /\ Flagging(t)' = {n} /\ ForWriting(t, n)'
    BY <1>1, <1>2, <1>3, <1>4, <1>6, <1>13, EndOrDescendHolds
  <2>4. Rests(t, n, new, {n})
    BY <1>1, <1>2, <1>3, <1>4, <1>5, <1>7, <1>9, <1>10, <2>1, <2>2 DEF Rests
  <2> QED BY <1>1, <1>2, <1>3, <1>4, <1>5, <1>6, <2>4, FillEffect
<1> QED BY <1>12, <1>13

\* what the three splits start from
LEMMA SplitHolds ==
  ASSUME LInv, NEW t \in Threads, NEW r \in Nat, Missing(t, r), Level(curr[t]) <= Promote(t),
         Divided(t), NEW n, n = curr[t], NEW new, new = NewNode(t, Level(n))
  PROVE  /\ IInv /\ Going /\ HeldIn /\ Prepared /\ EmptyFree
         /\ n \in Nodes /\ new \in Nodes /\ new # n /\ Level(n) \in Int
         /\ ForWriting(t, n) /\ ForWriting(t, new) /\ writer[n]
         /\ writer[new] <=> Level(n) < Promote(t)
         /\ heap'[n].num > 0 /\ heap'[new].num > 0
         /\ \A k \in Nodes : k # n /\ k # new => heap'[k] = heap[k]
         /\ writer \in [Nodes -> BOOLEAN]
<1>1. IInv /\ Going /\ HeldIn /\ Prepared /\ EmptyFree /\ Owned
  BY DEF LInv, Links, LocksHeld
<1>2. n \in Nodes /\ new \in Nodes /\ new # n /\ Level(n) \in Int
  BY <1>1, InsertFacts, Constants
<1>3. /\ Flagging(t) = {n} /\ ForWriting(t, n) /\ ForWriting(t, new) /\ InList(n)
      /\ writer[new] <=> Level(n) < Promote(t)
  BY <1>1, FillHolds
<1>4. writer[n]
  BY <1>1, <1>2, <1>3 DEF Owned, Flagged
<1>5. writer \in [Nodes -> BOOLEAN]
  BY <1>1 DEF IInv, TypeOK
<1> QED BY <1>1, <1>2, <1>3, <1>4, <1>5 DEF Divided

\* the insert stays with the left half
LEMMA LeftEffect ==
  ASSUME LInv, NEW t \in Threads, NEW r \in Nat, InsertLeft(t, r), NEW m \in Nodes
  PROVE  Effect(t, m)
<1>1. PICK n, new : n = curr[t] /\ new = NewNode(t, Level(n))
  OBVIOUS
<1>2. /\ Missing(t, r) /\ Promote(t) = Level(n)
      /\ IF Level(n) = 0 THEN Unlock(t, n) ELSE UNCHANGED locks
      /\ EndOrDescend(t, ChildAt(t, r), n)
  BY <1>1 DEF InsertLeft
<1>3. IInv
  BY DEF LInv
<1>4. Divided(t)
  BY <1>3, LeftLinks
<1>5. Level(n) <= Promote(t) /\ ~(Level(n) < Promote(t))
  <2>1. Level(n) \in Int
    BY <1>1, <1>2, <1>3, InsertFacts, Constants
  <2> QED BY <1>2, <2>1
<1>6. /\ IInv /\ Going /\ HeldIn /\ Prepared /\ EmptyFree
      /\ n \in Nodes /\ new \in Nodes /\ new # n
      /\ ForWriting(t, n) /\ writer[n] /\ ~writer[new]
      /\ heap'[n].num > 0 /\ heap'[new].num > 0
      /\ \A k \in Nodes : k # n /\ k # new => heap'[k] = heap[k]
      /\ writer \in [Nodes -> BOOLEAN]
  BY <1>1, <1>2, <1>4, <1>5, SplitHolds
<1>7. CASE Level(n) = 0
  <2>1. writer' = [writer EXCEPT ![n] = FALSE] /\ readers' = readers
    BY <1>2, <1>6, <1>7 DEF Unlock
  <2>2. ~writer'[n] /\ \A k \in Nodes : k # n => writer'[k] = writer[k]
    BY <1>6, <2>1
  <2>3. Holding(t)' = {} /\ Flagging(t)' = {}
    BY <1>1, <1>2, <1>6, <1>7, EndOrDescendHolds
  <2>4. Rests(t, n, new, {})
    BY <1>1, <1>2, <1>5, <1>6, <2>1, <2>2, <2>3 DEF Rests
  <2> QED BY <1>1, <1>2, <1>3, <1>4, <1>5, <1>6, <2>4, FillEffect
<1>8. CASE Level(n) # 0
  <2>1. writer' = writer /\ readers' = readers
    BY <1>2, <1>8 DEF locks
  <2>2. Holding(t)' = {n} /\ Flagging(t)' = {n} /\ ForWriting(t, n)'
    BY <1>1, <1>2, <1>6, <1>8, EndOrDescendHolds
  <2>4. Rests(t, n, new, {n})
    BY <1>1, <1>2, <1>5, <1>6, <2>1, <2>2 DEF Rests
  <2> QED BY <1>1, <1>2, <1>3, <1>4, <1>5, <1>6, <2>4, FillEffect
<1> QED BY <1>7, <1>8

\* the insert goes on with the right half: that one is locked, the left one free
LEMMA RightEffect ==
  ASSUME LInv, NEW t \in Threads, NEW r \in Nat, InsertRight(t, r), NEW m \in Nodes
  PROVE  Effect(t, m)
<1>1. PICK n, new : n = curr[t] /\ new = NewNode(t, Level(n))
  OBVIOUS
<1> DEFINE above == Level(n) > 0
<1>2. /\ Missing(t, r) /\ Promote(t) = Level(n)
      /\ writer' = [writer EXCEPT ![n] = FALSE, ![new] = above] /\ readers' = readers
      /\ EndOrDescend(t, ChildAt(t, r), new)
  BY <1>1 DEF InsertRight
<1>3. IInv
  BY DEF LInv
<1>4. Divided(t)
  BY <1>3, RightLinks
<1>5. Level(n) <= Promote(t) /\ (above <=> Level(n) # 0)
  <2>1. Level(n) \in Int /\ Level(n) >= 0
    BY <1>1, <1>2, <1>3, InsertFacts, Constants
  <2> QED BY <1>2, <2>1
<1>6. /\ IInv /\ Going /\ HeldIn /\ Prepared /\ EmptyFree
      /\ n \in Nodes /\ new \in Nodes /\ new # n
      /\ ForWriting(t, new)
      /\ heap'[n].num > 0 /\ heap'[new].num > 0
      /\ \A k \in Nodes : k # n /\ k # new => heap'[k] = heap[k]
      /\ writer \in [Nodes -> BOOLEAN]
  BY <1>1, <1>2, <1>4, <1>5, SplitHolds
<1> HIDE DEF above
<1>7. /\ ~writer'[n] /\ writer'[new] = above
      /\ \A k \in Nodes : k # n /\ k # new => writer'[k] = writer[k]
  BY <1>2, <1>6
<1>8. CASE Level(n) = 0
  <2>1. Holding(t)' = {} /\ Flagging(t)' = {}
    BY <1>1, <1>2, <1>6, <1>8, EndOrDescendHolds
  <2>4. Rests(t, n, new, {})
    BY <1>1, <1>2, <1>5, <1>6, <1>7, <1>8, <2>1 DEF Rests
  <2> QED BY <1>1, <1>2, <1>3, <1>4, <1>5, <1>6, <2>4, FillEffect
<1>9. CASE Level(n) # 0
  <2>1. Holding(t)' = {new} /\ Flagging(t)' = {new} /\ ForWriting(t, new)'
    BY <1>1, <1>2, <1>6, <1>9, EndOrDescendHolds
  <2>4. Rests(t, n, new, {new})
    BY <1>1, <1>2, <1>5, <1>6, <1>7, <1>9, <2>1 DEF Rests
  <2> QED BY <1>1, <1>2, <1>3, <1>4, <1>5, <1>6, <2>4, FillEffect
<1> QED BY <1>8, <1>9

\* the new node is free once it is linked
LEMMA PromoteEffect ==
  ASSUME LInv, NEW t \in Threads, NEW r \in Nat, PromoteSplit(t, r), NEW m \in Nodes
  PROVE  Effect(t, m)
<1>1. PICK n, new : n = curr[t] /\ new = NewNode(t, Level(n))
  OBVIOUS
<1> DEFINE above == Level(n) > 0
<1>2. /\ Missing(t, r) /\ Promote(t) > Level(n)
      /\ writer' = [writer EXCEPT ![new] = FALSE, ![n] = above] /\ readers' = readers
      /\ EndOrDescend(t, ChildAt(t, r), n)
  BY <1>1 DEF PromoteSplit
<1>3. IInv
  BY DEF LInv
<1>4. Divided(t)
  BY <1>3, PromoteLinks
<1>5. Level(n) <= Promote(t) /\ (above <=> Level(n) # 0)
  <2>1. Level(n) \in Int /\ Level(n) >= 0
    BY <1>1, <1>2, <1>3, InsertFacts, Constants
  <2>2. Promote(t) \in Int
    <3>1. pc[t] # "idle"
      BY <1>2 DEF Missing, At
    <3>2. K(t) \in 0 .. Inf - 1
      BY <1>3, <3>1, CallType DEF IInv
    <3> QED BY <3>2, LevelAssumption, Constants DEF Promote
  <2> QED BY <1>2, <2>1, <2>2
<1>6. /\ IInv /\ Going /\ HeldIn /\ Prepared /\ EmptyFree
      /\ n \in Nodes /\ new \in Nodes /\ new # n
      /\ ForWriting(t, n)
      /\ heap'[n].num > 0 /\ heap'[new].num > 0
      /\ \A k \in Nodes : k # n /\ k # new => heap'[k] = heap[k]
      /\ writer \in [Nodes -> BOOLEAN]
  BY <1>1, <1>2, <1>4, <1>5, SplitHolds
<1> HIDE DEF above
<1>7. /\ ~writer'[new] /\ writer'[n] = above
      /\ \A k \in Nodes : k # n /\ k # new => writer'[k] = writer[k]
  BY <1>2, <1>6
<1>8. CASE Level(n) = 0
  <2>1. Holding(t)' = {} /\ Flagging(t)' = {}
    BY <1>1, <1>2, <1>6, <1>8, EndOrDescendHolds
  <2>4. Rests(t, n, new, {})
    BY <1>1, <1>2, <1>5, <1>6, <1>7, <1>8, <2>1 DEF Rests
  <2> QED BY <1>1, <1>2, <1>3, <1>4, <1>5, <1>6, <2>4, FillEffect
<1>9. CASE Level(n) # 0
  <2>1. Holding(t)' = {n} /\ Flagging(t)' = {n} /\ ForWriting(t, n)'
    BY <1>1, <1>2, <1>6, <1>9, EndOrDescendHolds
  <2>4. Rests(t, n, new, {n})
    BY <1>1, <1>2, <1>5, <1>6, <1>7, <1>9, <2>1 DEF Rests
  <2> QED BY <1>1, <1>2, <1>3, <1>4, <1>5, <1>6, <2>4, FillEffect
<1> QED BY <1>8, <1>9

\* every step of a thread is good for every lock
LEMMA EffectStep ==
  ASSUME LInv, NEW t \in Threads, Step(t), NEW n \in Nodes
  PROVE  Effect(t, n)
<1>1. IInv /\ Going /\ HeldIn
  BY DEF LInv, Links, LocksHeld
<1>2. ASSUME NEW r \in 0 .. MaxKeys, Filling(t, r) PROVE Effect(t, n)
  <2>1. r \in Nat
    BY Constants
  <2> QED BY <1>2, <2>1, HereEffect, LeftEffect, RightEffect, PromoteEffect DEF Filling
<1> QED BY <1>1, <1>2, StepCases, IdleEffect, ReadLockEffect, WriteLockEffect, DrainEffect,
           HandoverEffect, MovingEffect, ReadingEffect, OverwriteEffect DEF Locking

-------------------------------------------------------------------------------
(* The locks stay in order                                                 *)

\* the readers counted and the readers there are change together
LEMMA BalanceStep ==
  ASSUME LInv, NEW t \in Threads, Step(t), NEW n \in Nodes
  PROVE  /\ IsFiniteSet(ReadersOf(n)')
         /\ readers'[n] - Cardinality(ReadersOf(n)') >= readers[n] - Cardinality(ReadersOf(n))
         /\ ~Leaking(t) =>
              readers'[n] - Cardinality(ReadersOf(n)') = readers[n] - Cardinality(ReadersOf(n))
<1>1. PICK R, S : R = ReadersOf(n) /\ S = ReadersOf(n)'
  OBVIOUS
<1>2. IsFiniteSet(R) /\ Cardinality(R) \in Nat
  BY <1>1, FS_CardinalityType DEF LInv, LocksHeld, Counted
<1>3. readers[n] \in Int /\ readers'[n] \in Int
  <2>1. IInv'
    BY InvNext DEF LInv, Next
  <2> QED BY <2>1 DEF LInv, IInv, TypeOK
<1>4. \A u \in Threads : u # t => (u \in S <=> u \in R)
  BY <1>1, OthersHold DEF LInv, ReadersOf
<1>5. /\ t \in R <=> Reading(t, n)
      /\ t \in S <=> Reading(t, n)'
      /\ R \subseteq Threads /\ S \subseteq Threads
  BY <1>1 DEF ReadersOf
<1>6. Effect(t, n)
  BY EffectStep
<1>7. CASE Reading(t, n)' <=> Reading(t, n)
  <2>1. S = R
    BY <1>4, <1>5, <1>7
  <2>2. readers'[n] = readers[n]
    BY <1>6, <1>7 DEF Effect
  <2> QED BY <1>1, <1>2, <1>3, <2>1, <2>2
<1>8. CASE ~Reading(t, n) /\ Reading(t, n)'
  <2>1. S = R \cup {t} /\ t \notin R
    BY <1>4, <1>5, <1>8
  <2>2. IsFiniteSet(S) /\ Cardinality(S) = Cardinality(R) + 1
    BY <1>2, <2>1, FS_AddElement
  <2>3. readers'[n] = readers[n] + 1
    BY <1>6, <1>8 DEF Effect
  <2> QED BY <1>1, <1>2, <1>3, <2>2, <2>3
<1>9. CASE Reading(t, n) /\ ~Reading(t, n)'
  <2>1. S = R \ {t} /\ t \in R
    BY <1>4, <1>5, <1>9
  <2>2. IsFiniteSet(S) /\ Cardinality(S) = Cardinality(R) - 1
    BY <1>2, <2>1, FS_RemoveElement
  <2>3. readers'[n] = readers[n] - 1 \/ (Leaking(t) /\ readers'[n] = readers[n])
    BY <1>6, <1>9 DEF Effect
  <2> QED BY <1>1, <1>2, <1>3, <2>2, <2>3
<1> QED BY <1>7, <1>8, <1>9

\* a thread that reads is counted
LEMMA ReaderCounts ==
  ASSUME LInv, NEW t \in Threads, NEW n \in Nodes, Reading(t, n)
  PROVE  readers[n] > 0
<1>1. IsFiniteSet(ReadersOf(n)) /\ readers[n] >= Cardinality(ReadersOf(n))
  BY DEF LInv, LocksHeld, Counted
<1>2. t \in ReadersOf(n)
  BY DEF ReadersOf
<1>3. Cardinality(ReadersOf(n)) \in Nat /\ Cardinality(ReadersOf(n)) # 0
  BY <1>1, <1>2, FS_CardinalityType, FS_EmptySet
<1>4. readers[n] \in Int
  BY DEF LInv, IInv, TypeOK
<1> QED BY <1>1, <1>3, <1>4

\* the nodes that threads have locked are in lists
LEMMA HeldInStep ==
  ASSUME LInv, NEW t \in Threads, Step(t)
  PROVE  HeldIn'
<1> SUFFICES ASSUME NEW u \in Threads, NEW n \in Flagging(u)' PROVE InList(n)'
  BY DEF HeldIn
<1>1. IInv'
  BY InvNext DEF LInv, Next
<1>2. n \in Nodes
  BY <1>1 DEF IInv, TypeOK, Flagging, Holding, Pointers
<1>3. CASE u = t
  BY <1>2, <1>3, EffectStep DEF Effect
<1>4. CASE u # t
  <2>1. n \in Flagging(u)
    BY <1>2, <1>4, OthersHold DEF LInv
  <2>2. InList(n)
    BY <2>1 DEF LInv, LocksHeld, HeldIn
  <2> QED BY <1>2, <2>2, ListGrows DEF InList, LInv, LocksHeld
<1> QED BY <1>3, <1>4

\* nodes that are in no list have no readers
LEMMA EmptyFreeStep ==
  ASSUME LInv, NEW t \in Threads, Step(t)
  PROVE  EmptyFree'
<1> SUFFICES ASSUME NEW n \in Nodes, ~InList(n)' PROVE readers'[n] = 0
  BY DEF EmptyFree
<1>1. ~InList(n)
  BY ListGrows DEF InList, LInv, LocksHeld
<1>2. readers[n] = 0
  BY <1>1 DEF LInv, LocksHeld, EmptyFree
<1>3. ~Reading(t, n)
  BY <1>2, ReaderCounts
<1> QED BY <1>1, <1>2, <1>3, EffectStep DEF Effect

\* the counts
LEMMA CountedStep ==
  ASSUME LInv, NEW t \in Threads, Step(t)
  PROVE  Counted'
<1> SUFFICES ASSUME NEW n \in Nodes
             PROVE  /\ IsFiniteSet(ReadersOf(n)')
                    /\ readers'[n] >= Cardinality(ReadersOf(n)')
  BY DEF Counted
<1>1. IsFiniteSet(ReadersOf(n)) /\ readers[n] >= Cardinality(ReadersOf(n))
  BY DEF LInv, LocksHeld, Counted
<1>2. IsFiniteSet(ReadersOf(n)') /\
      readers'[n] - Cardinality(ReadersOf(n)') >= readers[n] - Cardinality(ReadersOf(n))
  BY BalanceStep
<1>3. Cardinality(ReadersOf(n)) \in Nat /\ Cardinality(ReadersOf(n)') \in Nat
  BY <1>1, <1>2, FS_CardinalityType
<1>4. readers[n] \in Int /\ readers'[n] \in Int
  <2>1. IInv'
    BY InvNext DEF LInv, Next
  <2> QED BY <2>1 DEF LInv, IInv, TypeOK
<1> QED BY <1>1, <1>2, <1>3, <1>4

\* who has the flag
LEMMA OwnedStep ==
  ASSUME LInv, NEW t \in Threads, Step(t)
  PROVE  Owned' /\ OneOwner'
<1> SUFFICES ASSUME NEW n \in Nodes
             PROVE  /\ InList(n)' => (writer'[n] <=> \E u \in Threads : Flagged(u, n)')
                    /\ \A u, v \in Threads : Flagged(u, n)' /\ Flagged(v, n)' => u = v
  BY DEF Owned, OneOwner
<1>1. \A u \in Threads : u # t => (Flagged(u, n)' <=> Flagged(u, n))
  BY OthersHold DEF LInv
<1>2. Effect(t, n)
  BY EffectStep
<1>3. \A u, v \in Threads : Flagged(u, n) /\ Flagged(v, n) => u = v
  BY DEF LInv, LocksHeld, OneOwner
<1>4. CASE ~InList(n)
  <2>1. \A u \in Threads : ~Flagged(u, n)
    BY <1>4 DEF LInv, LocksHeld, HeldIn, Flagged
  <2> QED BY <1>1, <1>2, <1>4, <2>1 DEF Effect
<1>5. CASE InList(n)
  <2>1. writer[n] <=> \E u \in Threads : Flagged(u, n)
    BY <1>5 DEF LInv, LocksHeld, Owned
  <2>2. \/ (writer'[n] <=> writer[n]) /\ (Flagged(t, n)' <=> Flagged(t, n))
        \/ writer'[n] /\ ~writer[n] /\ Flagged(t, n)'
        \/ ~writer'[n] /\ Flagged(t, n) /\ ~Flagged(t, n)'
    BY <1>2, <1>5 DEF Effect
  <2>3. CASE (writer'[n] <=> writer[n]) /\ (Flagged(t, n)' <=> Flagged(t, n))
    <3>1. \A u \in Threads : Flagged(u, n)' <=> Flagged(u, n)
      BY <1>1, <2>3
    <3> QED BY <1>3, <2>1, <2>3, <3>1
  <2>4. CASE writer'[n] /\ ~writer[n] /\ Flagged(t, n)'
    BY <1>1, <2>1, <2>4
  <2>5. CASE ~writer'[n] /\ Flagged(t, n) /\ ~Flagged(t, n)'
    BY <1>1, <1>3, <2>5
  <2> QED BY <2>2, <2>3, <2>4, <2>5
<1> QED BY <1>4, <1>5

\* no reader comes in while a thread writes
LEMMA DrainedStep ==
  ASSUME LInv, NEW t \in Threads, Step(t)
  PROVE  Drained'
<1> SUFFICES ASSUME NEW u \in Threads, NEW n \in Nodes, Writing(u, n)' PROVE readers'[n] = 0
  BY DEF Drained
<1>1. Effect(t, n)
  BY EffectStep
<1>2. readers[n] = 0
  <2>1. CASE u = t
    <3>1. Writing(t, n) \/ readers[n] = 0
      BY <1>1, <2>1 DEF Effect
    <3> QED BY <3>1 DEF LInv, LocksHeld, Drained
  <2>2. CASE u # t
    <3>1. Writing(u, n)
      BY <2>2, OthersHold DEF LInv
    <3> QED BY <3>1 DEF LInv, LocksHeld, Drained
  <2> QED BY <2>1, <2>2
<1>3. ~Reading(t, n)
  BY <1>2, ReaderCounts
<1>4. ~(Reading(t, n)' /\ InList(n) /\ ~writer[n])
  <2>1. CASE u = t
    BY <2>1 DEF Reading, Writing
  <2>2. CASE u # t
    <3>1. Writing(u, n)
      BY <2>2, OthersHold DEF LInv
    <3>2. Flagged(u, n)
      BY <3>1 DEF Writing, Flagged, Flagging
    <3> QED BY <3>2 DEF LInv, LocksHeld, Owned
  <2> QED BY <2>1, <2>2
<1> QED BY <1>1, <1>2, <1>3, <1>4 DEF Effect

\* the names that a thread may draw next, and those of its insert
LEMMA OwnNames ==
  ASSUME IInv, NEW t \in Threads
  PROVE  /\ ins[t] \in Nat /\ MaxInserts[t] \in Nat
         /\ \A i \in 1 .. MaxInserts[t], l \in Levels : <<t, i, l>> \in Nodes
         /\ Op(t) = "insert" => ins[t] \in 1 .. MaxInserts[t]
<1>1. ins[t] \in Nat /\ MaxInserts[t] \in Nat /\ ins[t] <= MaxInserts[t]
  BY MaxInsertsAssumption DEF IInv, TypeOK
<1>2. Op(t) = "insert" => ins[t] \in 1 .. MaxInserts[t]
  BY <1>1 DEF IInv, Started
<1> QED BY <1>1, <1>2, OwnNodes

\* what an insert finds of its new nodes' flags
LEMMA PreparedStep ==
  ASSUME LInv, NEW t \in Threads, Step(t)
  PROVE  Prepared'
<1>1. IInv /\ IInv' /\ Prepared
  BY InvNext DEF LInv, LocksHeld, Next
<1>2. ASSUME NEW u \in Threads, NEW i \in 1 .. MaxInserts[u], NEW l \in Levels, i > ins'[u]
      PROVE  ~writer'[<<u, i, l>>]
  <2>1. ins[u] \in Nat /\ ins'[u] \in Nat /\ ins[u] <= ins'[u] /\ MaxInserts[u] \in Nat
    BY <1>1, InsGrows, OwnNames
  <2>2. i > ins[u]
    BY <1>2, <2>1
  <2>3. ~writer[<<u, i, l>>] /\ <<u, i, l>> \in Nodes
    BY <1>1, <2>2, OwnNames DEF Prepared
  <2>4. ~InList(<<u, i, l>>)'
    <3>1. heap'[<<u, i, l>>].num = 0
      BY <1>1, <1>2 DEF IInv, Fresh
    <3> QED BY <3>1 DEF InList
  <2>5. ~Drawn(t, <<u, i, l>>)
    <3> SUFFICES ASSUME StartInsert(t), u = t, i = ins[t] + 1 PROVE FALSE
      BY DEF Drawn
    <3>1. ins'[t] = ins[t] + 1
      BY <1>1, InsGrows
    <3> QED BY <1>2, <2>1, <3>1
  <2> QED BY <2>3, <2>4, <2>5, EffectStep DEF Effect
<1>3. ASSUME NEW u \in Threads, call'[u].op = "insert", phase'[u] = "search", curr'[u] # Null,
             NEW l \in Levels, l <= Level(curr'[u]), l <= LevelOf[call'[u].key]
      PROVE  writer'[<<u, ins'[u], l>>] <=> l < LevelOf[call'[u].key]
  <2>1. CASE u = t /\ StartInsert(t)
    <3>1. PICK c \in todo[t] :
            /\ call'[t] = c /\ ins'[t] = ins[t] + 1 /\ ins[t] < MaxInserts[t]
            /\ writer' = [m \in Nodes |->
                 writer[m] \/ \E j \in 0 .. LevelOf[c.key] - 1 : m = <<t, ins[t] + 1, j>>]
      BY <1>1, <2>1 DEF StartInsert, Begin, IInv, TypeOK
    <3>2. ins[t] + 1 \in 1 .. MaxInserts[t] /\ ins[t] + 1 > ins[t]
      BY <1>1, <3>1, OwnNames
    <3>3. ~writer[<<t, ins[t] + 1, l>>] /\ <<t, ins[t] + 1, l>> \in Nodes
      BY <1>1, <3>2, OwnNames DEF Prepared
    <3>4. writer'[<<t, ins[t] + 1, l>>] <=>
            writer[<<t, ins[t] + 1, l>>] \/
            \E j \in 0 .. LevelOf[c.key] - 1 : <<t, ins[t] + 1, l>> = <<t, ins[t] + 1, j>>
      BY <3>1, <3>3, Zenon
    <3>5. c \in Calls
      BY <1>1 DEF IInv, TypeOK
    <3>6. LevelOf[c.key] \in Int /\ l \in Int /\ l >= 0
      BY <3>5, LevelAssumption, Constants DEF Calls
    <3>7. (\E j \in 0 .. LevelOf[c.key] - 1 : <<t, ins[t] + 1, l>> = <<t, ins[t] + 1, j>>)
            <=> l < LevelOf[c.key]
      BY <3>6
    <3> QED BY <2>1, <3>1, <3>3, <3>4, <3>7
  <2>2. ASSUME call'[u] = call[u], ins'[u] = ins[u], phase[u] = "search", curr[u] # Null,
               l <= Level(curr[u]), ~StartInsert(t) \/ u # t
        PROVE  writer'[<<u, ins'[u], l>>] <=> l < LevelOf[call'[u].key]
    <3>1. Op(u) = "insert" /\ l <= Promote(u) /\ Promote(u) = LevelOf[call'[u].key]
      BY <1>3, <2>2 DEF Op, Promote, K
    <3>2. writer[NewNode(u, l)] <=> l < Promote(u)
      BY <1>1, <2>2, <3>1 DEF Prepared
    <3>3. PICK m \in Nodes : m = NewNode(u, l) /\ m = <<u, ins'[u], l>>
      BY <1>1, <2>2, <3>1, OwnNames DEF NewNode
    <3>4. ~InList(m)'
      <4>1. heap'[<<u, ins'[u], l>>].num = 0
        BY <1>1, <1>3 DEF IInv, Fresh, Op, NewNode
      <4> QED BY <3>3, <4>1 DEF InList
    <3>5. ~Drawn(t, m)
      BY <2>2, <3>3 DEF Drawn
    <3>6. writer'[m] <=> writer[m]
      BY <3>4, <3>5, EffectStep DEF Effect
    <3> QED BY <3>1, <3>2, <3>3, <3>6
  <2>3. CASE u # t
    <3>1. SameThread(u)
      BY <1>1, <2>3, OthersKept
    <3> QED BY <1>3, <2>2, <2>3, <3>1 DEF SameThread
  <2>4. CASE u = t /\ ~StartInsert(t)
    <3>1. Advances(t)
      BY <1>1, <1>3, <2>4, OwnStep
    <3>2. curr[t] \in Nodes /\ curr'[t] \in Nodes /\ curr[t] # Null
      BY <1>1, <1>3, <2>4, <3>1, NodeNames DEF Advances, IInv, TypeOK, Pointers
    <3>3. l \in Int /\ Level(curr[t]) \in Int /\ Level(curr'[t]) \in Int
      BY <3>2, NodeNames, Constants
    <3>4. l <= Level(curr[t])
      BY <1>3, <2>4, <3>1, <3>3 DEF Advances
    <3> QED BY <2>2, <2>4, <3>1, <3>2, <3>4 DEF Advances
  <2> QED BY <2>1, <2>3, <2>4
<1> QED BY <1>2, <1>3 DEF Prepared, Op, NewNode, Promote, K

\* every step keeps the locks in order
LEMMA LocksHeldStep ==
  ASSUME LInv, NEW t \in Threads, Step(t)
  PROVE  LocksHeld'
BY HeldInStep, PreparedStep, EmptyFreeStep, CountedStep, OwnedStep, DrainedStep DEF LocksHeld

-------------------------------------------------------------------------------
(* The links stay in order                                                 *)

\* a node that a search may come to stays one
LEMMA ReadyStays ==
  ASSUME LInv, NEW t \in Threads, Step(t), NEW c \in Nodes, Ready(c)
  PROVE  Ready(c)'
<1>1. CASE InList(c)
  BY <1>1, ListGrows DEF Ready, InList, LInv, LocksHeld
<1>2. CASE ~InList(c) /\ ~InList(c)'
  <2>1. writer[c]
    BY <1>2 DEF Ready
  <2>2. (writer'[c] <=> writer[c]) \/ Drawn(t, c)
    BY <1>2, EffectStep DEF Effect
  <2>3. CASE Drawn(t, c)
    <3>1. ins[t] + 1 \in 1 .. MaxInserts[t] /\ ins[t] + 1 > ins[t]
      BY <2>3, OwnNames DEF Drawn, StartInsert, LInv
    <3>2. ~writer[c]
      BY <2>3, <3>1 DEF Drawn, LInv, LocksHeld, Prepared
    <3> QED BY <2>1, <3>2
  <2> QED BY <2>1, <2>2, <2>3 DEF Ready
<1>3. CASE InList(c)'
  BY <1>3 DEF Ready
<1> QED BY <1>1, <1>2, <1>3

\* the children an insert may write are ready
LEMMA PoolReady ==
  ASSUME LInv, NEW t \in Threads,
         (\E r : Missing(t, r) /\ Level(curr[t]) <= Promote(t)) \/ Overwrite(t),
         NEW p \in Pool(t), p # Null
  PROVE  /\ p \in Nodes /\ Ready(p)
         /\ \A l \in Levels : p # EndSentinel(l)
<1>1. IInv /\ Linked /\ EndsGuarded /\ Prepared
  BY DEF LInv, Links, LocksHeld
<1>2. curr[t] \in Nodes /\ Op(t) = "insert" /\ Level(curr[t]) \in Levels
  BY <1>1, InsertFacts, NodeNames DEF Overwrite, IInv, TypeOK
<1>3. ins[t] \in 1 .. MaxInserts[t]
  BY <1>1, <1>2, OwnNames
<1>4. \A l \in Levels : NewNode(t, l) \in Nodes
  BY <1>1, <1>3, OwnNames DEF NewNode
<1>5. ASSUME NEW m \in Nodes, p \in Kids(m)
      PROVE  p \in Nodes /\ Ready(p) /\ \A l \in Levels : p # EndSentinel(l)
  <2>1. PICK i \in Slot : p = heap[m].child[i]
    BY <1>5 DEF Kids
  <2>2. p \in Pointers
    BY <1>1, <2>1 DEF IInv, TypeOK, NodeType
  <2> QED BY <1>1, <2>1, <2>2 DEF Linked, EndsGuarded, Pointers
<1>6. ASSUME Level(curr[t]) > 0, p = NewNode(t, Level(curr[t]) - 1)
      PROVE  p \in Nodes /\ Ready(p) /\ \A l \in Levels : p # EndSentinel(l)
  <2>1. PICK l : l = Level(curr[t]) - 1
    OBVIOUS
  <2>2. l \in Levels /\ l < Level(curr[t]) /\ l <= Level(curr[t])
    BY <1>2, <1>6, <2>1, HeightAssumption DEF Levels
  <2>3. ~Overwrite(t)
    BY <1>6 DEF Overwrite
  <2>4. /\ phase[t] = "search" /\ curr[t] # Null /\ Level(curr[t]) <= Promote(t)
    BY <1>1, <1>2, <2>3, InsertFacts, NodeNames
  <2>5. Promote(t) \in Int
    <3>1. K(t) \in 0 .. Inf - 1
      BY <1>1, <2>3, CallType DEF IInv, Missing, At
    <3> QED BY <3>1, LevelAssumption, Constants DEF Promote
  <2>6. l < Promote(t) /\ l <= Promote(t)
    <3>1. l \in Int /\ Level(curr[t]) \in Int
      BY <1>2, <2>2, Constants
    <3> QED BY <2>2, <2>4, <2>5, <3>1
  <2>7. writer[NewNode(t, l)]
    BY <1>1, <1>2, <2>2, <2>4, <2>6 DEF Prepared
  <2>8. \A j \in Levels : NewNode(t, l) # EndSentinel(j)
    BY <1>3 DEF NewNode, EndSentinel
  <2> QED BY <1>4, <1>6, <2>1, <2>2, <2>7, <2>8 DEF Ready
<1> QED BY <1>2, <1>4, <1>5, <1>6 DEF Pool

\* an insert fills nodes of the levels it promotes its key to, and overrides leaves
LEMMA WriterPool ==
  ASSUME IInv, NEW t \in Threads,
         Overwrite(t) \/ \E r \in Nat : InsertHere(t, r) \/ InsertLeft(t, r) \/ InsertRight(t, r)
                                        \/ PromoteSplit(t, r)
  PROVE  (\E r : Missing(t, r) /\ Level(curr[t]) <= Promote(t)) \/ Overwrite(t)
<1> SUFFICES ASSUME NEW r \in Nat, InsertHere(t, r) \/ InsertLeft(t, r) \/ InsertRight(t, r)
                                   \/ PromoteSplit(t, r)
             PROVE  Missing(t, r) /\ Level(curr[t]) <= Promote(t)
  OBVIOUS
<1>1. Missing(t, r) /\ (Promote(t) = Level(curr[t]) \/ Promote(t) > Level(curr[t]))
  BY DEF InsertHere, InsertLeft, InsertRight, PromoteSplit
<1>2. Level(curr[t]) \in Int
  BY <1>1, InsertFacts, Constants
<1>3. K(t) \in 0 .. Inf - 1
  BY <1>1, CallType DEF IInv, Missing, At
<1>4. Promote(t) \in Int
  BY <1>3, LevelAssumption, Constants DEF Promote
<1> QED BY <1>1, <1>2, <1>4

\* What a step makes of the links: none have changed, or an insert writes its node
\* in its place, or puts a new one behind it.
LEMMA LinkEffect ==
  ASSUME LInv, NEW t \in Threads, Step(t)
  PROVE  \/ heap' = heap
         \/ /\ Wrote(t) \/ (Divided(t) /\ \E r \in Nat : Missing(t, r))
            /\ pc[t] = "visit" /\ Op(t) = "insert"
            /\ \A p \in Pool(t) : p # Null =>
                 p \in Nodes /\ Ready(p) /\ \A l \in Levels : p # EndSentinel(l)
<1>1. IInv /\ HeldIn
  BY DEF LInv, LocksHeld
<1>2. \A r : InsertLeft(t, r) \/ InsertRight(t, r) \/ PromoteSplit(t, r) => Missing(t, r)
  BY DEF InsertLeft, InsertRight, PromoteSplit
<1>3. (\E r : Missing(t, r) /\ Level(curr[t]) <= Promote(t)) \/ Overwrite(t) =>
        pc[t] = "visit" /\ Op(t) = "insert"
  BY DEF Missing, At, Overwrite
<1> QED BY <1>1, <1>2, <1>3, HeapEffect, WriterPool, PoolReady

\* the sentinels stay
LEMMA HeadsInStep ==
  ASSUME LInv, NEW t \in Threads, Step(t)
  PROVE  HeadsIn'
<1>1. \A l \in Levels : Header(l) \in Nodes /\ EndSentinel(l) \in Nodes
  BY Sentinels
<1> QED BY <1>1, ListGrows DEF HeadsIn, InList, LInv, Links, LocksHeld

\* what Linked and EndsGuarded say of one node
Tied(n) ==
  /\ heap[n].next # Null => InList(heap[n].next)
  /\ heap[n].next # n
  /\ \A i \in Slot : heap[n].child[i] # Null => Ready(heap[n].child[i])
  /\ \A l \in Levels : /\ heap[n].next = EndSentinel(l) => heap[n].next_header = Inf
                       /\ \A i \in Slot : heap[n].child[i] # EndSentinel(l)

\* and so do the links
LEMMA LinkedStep ==
  ASSUME LInv, NEW t \in Threads, Step(t)
  PROVE  Linked' /\ EndsGuarded'
<1>1. IInv /\ Linked /\ EndsGuarded
  BY DEF LInv, Links
<1>2. \A m \in Nodes : heap[m].next \in Pointers /\ \A i \in Slot : heap[m].child[i] \in Pointers
  BY <1>1 DEF IInv, TypeOK, NodeType
<1> SUFFICES ASSUME NEW n \in Nodes
             PROVE  Tied(n)'
  BY DEF Linked, EndsGuarded, Tied
<1>3. ASSUME NEW x \in Nodes, InList(x) PROVE InList(x)'
  BY <1>3, ListGrows DEF InList, LInv, LocksHeld
<1>4. ASSUME NEW m \in Nodes,
             heap'[n].next = heap[m].next, heap'[n].next_header = heap[m].next_header,
             heap[m].next # n,
             \A i \in Slot : heap'[n].child[i] # Null =>
               /\ heap'[n].child[i] \in Nodes /\ Ready(heap'[n].child[i])
               /\ \A l \in Levels : heap'[n].child[i] # EndSentinel(l)
      PROVE  Tied(n)'
  <2>1. PICK x : x = heap'[n].next
    OBVIOUS
  <2>2. x # Null => InList(x)'
    BY <1>1, <1>2, <1>3, <1>4, <2>1 DEF Linked, Pointers
  <2>3. ASSUME NEW i \in Slot, NEW c, c = heap'[n].child[i], c # Null PROVE Ready(c)'
    BY <1>4, <2>3, ReadyStays
  <2>4. \A l \in Levels : Null # EndSentinel(l)
    BY DEF Null, EndSentinel
  <2>5. \A l \in Levels : x = EndSentinel(l) => heap'[n].next_header = Inf
    BY <1>1, <1>4, <2>1 DEF EndsGuarded
  <2> QED BY <1>4, <2>1, <2>2, <2>3, <2>4, <2>5 DEF Tied, InList, Ready
<1>5. ASSUME heap'[n] = heap[n]
      PROVE  Tied(n)'
  <2>1. heap[n].next # n
    BY <1>1 DEF Linked
  <2>2. \A i \in Slot : heap[n].child[i] # Null =>
               /\ heap[n].child[i] \in Nodes /\ Ready(heap[n].child[i])
               /\ \A l \in Levels : heap[n].child[i] # EndSentinel(l)
    BY <1>1, <1>2 DEF Linked, EndsGuarded, Pointers
  <2> QED BY <1>4, <1>5, <2>1, <2>2
<1>6. CASE heap' = heap
  BY <1>5, <1>6
<1> DEFINE Fit == \A p \in Pool(t) : p # Null =>
                    p \in Nodes /\ Ready(p) /\ \A l \in Levels : p # EndSentinel(l)
<1>7. CASE Wrote(t) /\ Fit
  <2>1. CASE n # curr[t]
    BY <1>5, <1>7, <2>1 DEF Wrote
  <2>2. CASE n = curr[t]
    <3>1. /\ heap'[n].next = heap[n].next /\ heap'[n].next_header = heap[n].next_header
          /\ \A i \in Slot : heap'[n].child[i] \in Pool(t)
      BY <1>7, <2>2 DEF Wrote, SameLinks
    <3>2. heap[n].next # n
      BY <1>1 DEF Linked
    <3> QED BY <1>4, <1>7, <3>1, <3>2
  <2> QED BY <2>1, <2>2
<1>8. CASE Divided(t) /\ Fit /\ \E r \in Nat : Missing(t, r)
  <2>1. PICK h \in Nodes : h = curr[t]
    BY <1>8 DEF Divided
  <2>2. PICK new \in Nodes : new = NewNode(t, Level(h))
    BY <1>8, <2>1 DEF Divided
  <2>3. /\ new # h /\ heap[new].num = 0
        /\ \A m \in Nodes : m # h /\ m # new => heap'[m] = heap[m]
        /\ heap'[new].num > 0 /\ heap'[h].next = new
        /\ \A i \in Slot : heap'[h].child[i] \in Pool(t)
        /\ SameLinks(heap'[new], heap[h], Pool(t))
    BY <1>8, <2>1, <2>2 DEF Divided
  <2>4. CASE n # h /\ n # new
    BY <1>5, <2>3, <2>4
  <2>5. CASE n = new
    <3>1. heap[h].next # new
      <4>1. ~InList(new) /\ new # Null
        BY <2>3, NodeNames DEF InList
      <4> QED BY <1>1, <4>1 DEF Linked
    <3>2. /\ heap'[n].next = heap[h].next /\ heap'[n].next_header = heap[h].next_header
          /\ \A i \in Slot : heap'[n].child[i] \in Pool(t)
      BY <2>3, <2>5 DEF SameLinks
    <3> QED BY <1>4, <1>8, <2>5, <3>1, <3>2
  <2>6. CASE n = h
    <3>1. \A l \in Levels : new # EndSentinel(l)
      <4>1. PICK r \in Nat : Missing(t, r)
        BY <1>8
      <4>2. ins[t] \in 1 .. MaxInserts[t]
        BY <1>1, <4>1, OwnNames DEF Missing
      <4> QED BY <2>2, <4>2 DEF NewNode, EndSentinel
    <3>2. InList(new)'
      BY <2>3 DEF InList
    <3>3. ASSUME NEW i \in Slot, NEW c, c = heap'[h].child[i]
          PROVE  /\ c # Null => Ready(c)'
                 /\ \A l \in Levels : c # EndSentinel(l)
      <4>1. c \in Pool(t)
        BY <2>3, <3>3
      <4>2. c # Null => c \in Nodes /\ Ready(c) /\ \A l \in Levels : c # EndSentinel(l)
        BY <1>8, <4>1
      <4>3. \A l \in Levels : Null # EndSentinel(l)
        BY DEF Null, EndSentinel
      <4> QED BY <4>2, <4>3, ReadyStays
    <3> QED BY <2>3, <2>6, <3>1, <3>2, <3>3 DEF Tied, InList, Ready
  <2> QED BY <2>4, <2>5, <2>6
<1> QED BY <1>6, <1>7, <1>8, LinkEffect

\* and every node keeps its one left neighbour
LEMMA OnePredStep ==
  ASSUME LInv, NEW t \in Threads, Step(t)
  PROVE  OnePred'
<1>1. IInv /\ HeldIn /\ Linked /\ OnePred /\ Going
  BY DEF LInv, Links, LocksHeld
<1>2. CASE heap' = heap
  <2>1. Nexts' = Nexts /\ \A n \in Nodes : InList(n)' <=> InList(n)
    BY <1>2 DEF Nexts, InList
  <2> QED BY <1>1, <1>2, <2>1 DEF OnePred
<1>3. CASE Wrote(t) /\ pc[t] = "visit"
  <2>1. PICK h \in Nodes : h = curr[t]
    BY <1>3 DEF Wrote
  <2>2. InList(h)
    BY <1>1, <1>3, <2>1 DEF HeldIn, Flagging, Holding
  <2>3. \A n \in Nodes : InList(n)' <=> InList(n)
    BY <1>3, <2>1, <2>2 DEF Wrote, InList
  <2>4. \A n \in Nodes : heap'[n].next = heap[n].next
    BY <1>3, <2>1 DEF Wrote, SameLinks
  <2>5. Nexts' = Nexts
    BY <2>3 DEF Nexts
  <2>6. Nexts \subseteq Nodes
    BY DEF Nexts
  <2> QED BY <1>1, <2>3, <2>4, <2>5, <2>6 DEF OnePred
<1>4. CASE Divided(t) /\ pc[t] = "visit" /\ Op(t) = "insert" /\ \E r \in Nat : Missing(t, r)
  <2>1. PICK h \in Nodes : h = curr[t]
    BY <1>4 DEF Divided
  <2>2. PICK new \in Nodes : new = NewNode(t, Level(h))
    BY <1>4, <2>1 DEF Divided
  <2>3. /\ new # h /\ heap[new].num = 0 /\ heap'[h].num > 0
        /\ \A m \in Nodes : m # h /\ m # new => heap'[m] = heap[m]
        /\ heap'[new].num > 0 /\ heap'[h].next = new
        /\ heap'[new].next = heap[h].next
    BY <1>4, <2>1, <2>2 DEF Divided, SameLinks
  <2>4. InList(h)
    BY <1>1, <1>4, <2>1 DEF HeldIn, Flagging, Holding
  <2>5. ~IsTail(h) /\ ~IsTail(new)
    <3>1. ins[t] \in 1 .. MaxInserts[t]
      BY <1>1, <1>4, OwnNames
    <3>2. \A l : new # EndSentinel(l)
      BY <2>2, <3>1 DEF NewNode, EndSentinel
    <3>3. \A l \in Levels : h # EndSentinel(l)
      BY <1>1, <1>4, <2>1 DEF Going
    <3> QED BY <3>2, <3>3, NodeNames DEF IsTail
  <2>6. \A n \in Nodes : InList(n)' <=> InList(n) \/ n = new
    BY <2>3, <2>4 DEF InList
  <2>7. \A n \in Nodes : n \in Nexts' <=> n \in Nexts \/ n = new
    BY <2>5, <2>6 DEF Nexts
  <2>8. ~InList(new) /\ h \in Nexts /\ new \notin Nexts /\ new # Null
    BY <2>3, <2>4, <2>5, NodeNames DEF InList, Nexts
  <2>9. \A m \in Nodes : heap[m].next # new
    BY <1>1, <2>8 DEF Linked
  <2>10. Nexts \subseteq Nodes /\ Nexts' \subseteq Nodes
    BY DEF Nexts
  <2>11. ASSUME NEW m1 \in Nexts', NEW m2 \in Nexts',
                heap'[m1].next = heap'[m2].next, heap'[m1].next # Null
         PROVE  m1 = m2
    <3>1. \A a, b \in Nexts : heap[a].next = heap[b].next /\ heap[a].next # Null => a = b
      BY <1>1 DEF OnePred
    <3>2. CASE m1 = new
      BY <2>3, <2>7, <2>8, <2>9, <2>10, <2>11, <3>1, <3>2
    <3>3. CASE m1 = h
      BY <2>3, <2>7, <2>9, <2>10, <2>11, <3>3
    <3>4. CASE m1 # h /\ m1 # new
      BY <2>3, <2>7, <2>8, <2>9, <2>10, <2>11, <3>1, <3>4
    <3> QED BY <3>2, <3>3, <3>4
  <2>12. ASSUME NEW n \in Nodes, InList(n)', n # Header(Level(n))
         PROVE  \E m \in Nexts' : heap'[m].next = n
    <3>1. CASE n = new
      BY <2>3, <2>7, <2>8, <3>1
    <3>2. CASE n # new
      <4>1. PICK m \in Nexts : heap[m].next = n
        BY <1>1, <2>6, <2>12, <3>2 DEF OnePred
      <4>2. CASE m = h
        BY <2>3, <2>7, <4>1, <4>2
      <4>3. CASE m # h
        BY <2>3, <2>7, <2>8, <2>10, <4>1, <4>3
      <4> QED BY <4>2, <4>3
    <3> QED BY <3>1, <3>2
  <2> QED BY <2>11, <2>12 DEF OnePred
<1> QED BY <1>2, <1>3, <1>4, LinkEffect

\* what Going says of one thread
OnWay(t) ==
  /\ pc[t] = "idle" => call[t] = None
  /\ pc[t] = "visit" => prev[t] = Null
  /\ pc[t] = "lock" /\ curr[t] # Null => Ready(curr[t])
  /\ pc[t] = "drain" => ForWriting(t, curr[t])
  /\ pc[t] \in {"lock", "drain", "handover"} => curr[t] # prev[t]
  /\ Op(t) = "insert" => \A l \in Levels : curr[t] # EndSentinel(l)

\* a thread sets out for another node, holding one
LEMMA ApproachOnWay ==
  ASSUME LInv, NEW t \in Threads, Step(t), NEW x \in Pointers, NEW held, Approach(t, x, held),
         x # held, x # Null => Ready(x),
         call'[t].op = "insert" => \A l \in Levels : x # EndSentinel(l)
  PROVE  OnWay(t)'
<1>1. pc'[t] = "lock" /\ curr'[t] = x /\ prev'[t] = held
  BY DEF Approach, LInv, IInv, TypeOK
<1>2. x # Null => Ready(x)'
  BY ReadyStays DEF Pointers
<1> QED BY <1>1, <1>2 DEF OnWay, Op, Ready, InList

\* after its call it goes nowhere
LEMMA EndOnWay ==
  ASSUME IInv, NEW t \in Threads, EndCall(t)
  PROVE  OnWay(t)'
<1>1. pc'[t] = "idle" /\ call'[t] = None
  BY DEF EndCall, IInv, TypeOK
<1> QED BY <1>1 DEF OnWay, Op, None

\* the ways on from a node: to the right, and down
LEMMA WaysOn ==
  ASSUME LInv, NEW t \in Threads, pc[t] = "visit"
  PROVE  /\ curr[t] \in Nodes /\ Level(curr[t]) \in Int
         /\ LET x == heap[curr[t]].next IN x \in Pointers /\ x # curr[t] /\ (x # Null => Ready(x))
         /\ \A i \in Slot : LET x == heap[curr[t]].child[i] IN
              /\ x \in Pointers /\ x # curr[t] /\ (x # Null => Ready(x))
              /\ x # Null => Level(x) < Level(curr[t])
              /\ \A l \in Levels : x # EndSentinel(l)
<1>1. IInv /\ Linked /\ EndsGuarded
  BY DEF LInv, Links
<1>2. PICK n \in Nodes : n = curr[t]
  BY <1>1 DEF IInv, TypeOK
<1>3. Level(n) \in Int /\ n # Null
  BY NodeNames, Constants
<1>4. heap[n].next \in Pointers /\ heap[n].next # n /\ (heap[n].next # Null => Ready(heap[n].next))
  BY <1>1 DEF Linked, Ready, IInv, TypeOK, NodeType
<1>5. ASSUME NEW i \in Slot, NEW x, x = heap[n].child[i]
      PROVE  /\ x \in Pointers /\ x # n /\ (x # Null => Ready(x))
             /\ x # Null => Level(x) < Level(n)
             /\ \A l \in Levels : x # EndSentinel(l)
  <2>1. x \in Pointers /\ (x # Null => Ready(x)) /\ \A l \in Levels : x # EndSentinel(l)
    BY <1>1, <1>5 DEF Linked, EndsGuarded, IInv, TypeOK, NodeType
  <2>2. x \in Peers(Level(n) - 1)
    BY <1>1, <1>5 DEF IInv, Shaped, NodeOf
  <2>3. x # Null => Level(x) = Level(n) - 1
    BY <2>2, PeerLevel
  <2> QED BY <1>3, <2>1, <2>3
<1> QED BY <1>2, <1>3, <1>4, <1>5

\* going down where the key was found
LEMMA DownOnWay ==
  ASSUME LInv, NEW t \in Threads, Step(t), pc[t] = "visit", NEW r \in Slot, GoDown(t, r)
  PROVE  OnWay(t)'
<1>1. Approach(t, ChildAt(t, r), curr[t])
  BY DEF GoDown
<1> QED BY <1>1, WaysOn, ApproachOnWay DEF ChildAt

\* an insert that is done with its node goes down too
LEMMA FillOnWay ==
  ASSUME LInv, NEW t \in Threads, Step(t), NEW r, Filling(t, r)
  PROVE  OnWay(t)'
<1>1. Missing(t, r)
  BY DEF Filling, InsertHere, InsertLeft, InsertRight, PromoteSplit
<1>2. PICK held \in {curr[t], NewNode(t, Level(curr[t]))} : EndOrDescend(t, ChildAt(t, r), held)
  BY DEF Filling, InsertHere, InsertLeft, InsertRight, PromoteSplit
<1>3. pc[t] = "visit" /\ r \in Slot /\ Level(NewNode(t, Level(curr[t]))) = Level(curr[t])
      /\ NewNode(t, Level(curr[t])) \in Nodes
  BY <1>1, InsertFacts DEF Missing, At, LInv
<1>4. CASE Return(t, 1)
  BY <1>4, EndOnWay DEF Return, LInv
<1>5. CASE Approach(t, ChildAt(t, r), held)
  <2>1. /\ curr[t] \in Nodes /\ Level(curr[t]) \in Int
        /\ LET x == ChildAt(t, r) IN
              /\ x \in Pointers /\ (x # Null => Ready(x))
              /\ x # Null => Level(x) < Level(curr[t])
              /\ \A l \in Levels : x # EndSentinel(l)
    BY <1>3, WaysOn DEF ChildAt
  <2>2. held \in Nodes /\ held # Null /\ Level(held) = Level(curr[t])
    BY <1>2, <1>3, <2>1, NodeNames
  <2>3. ChildAt(t, r) # held
    BY <2>1, <2>2
  <2> QED BY <1>5, <2>1, <2>3, ApproachOnWay
<1> QED BY <1>2, <1>4, <1>5 DEF EndOrDescend

\* every thread stays on its way
LEMMA GoingStep ==
  ASSUME LInv, NEW t \in Threads, Step(t)
  PROVE  Going'
<1>1. /\ IInv /\ Going /\ HeadsIn /\ EndsGuarded
      /\ pc \in [Threads -> {"idle", "lock", "drain", "handover", "visit"}]
      /\ prev \in [Threads -> Pointers] /\ phase \in [Threads -> Phases]
      /\ curr \in [Threads -> Pointers] /\ call \in [Threads -> Calls \cup {None}]
  BY DEF LInv, Links, IInv, TypeOK, Phases
<1>2. OnWay(t)
  BY <1>1 DEF Going, OnWay
<1>3. ASSUME NEW u \in Threads, u # t PROVE OnWay(u)'
  <2>1. pc'[u] = pc[u] /\ prev'[u] = prev[u] /\ SameThread(u)
    BY <1>1, <1>3, OthersStay, OthersKept
  <2>2. OnWay(u)
    BY <1>1 DEF Going, OnWay
  <2>3. ForWriting(u, curr[u])' <=> ForWriting(u, curr[u])
    BY <2>1 DEF ForWriting, Op, Promote, K, SameThread
  <2>4. PICK c \in Pointers : c = curr[u] /\ c = curr'[u]
    BY <1>1, <2>1 DEF SameThread
  <2>5. Ready(c) /\ c # Null => Ready(c)'
    BY <2>4, ReadyStays DEF Pointers
  <2>6. Ready(curr[u])' <=> Ready(c)'
    BY <2>4 DEF Ready, InList
  <2> QED BY <2>1, <2>2, <2>3, <2>4, <2>5, <2>6 DEF OnWay, SameThread, Op
<1> SUFFICES OnWay(t)'
  BY <1>3 DEF Going, OnWay
<1>4. CASE Idle(t)
  <2>1. ASSUME NEW c \in todo[t], Begin(t, c) PROVE OnWay(t)'
    <3>1. PICK l \in Levels : l = Height - 1
      BY HeightAssumption DEF Levels
    <3>2. Header(l) \in Nodes /\ Header(l) # Null /\ InList(Header(l))
      BY <1>1, <3>1, Sentinels, NodeNames DEF HeadsIn
    <3>3. \A j \in Levels : Header(l) # EndSentinel(j)
      BY DEF Header, EndSentinel
    <3> QED BY <2>1, <3>1, <3>2, <3>3, ApproachOnWay DEF Begin, Pointers, Ready
  <2>2. CASE InsertZero(t)
    <3>1. /\ pc[t] = "idle" /\ pc' = pc /\ call' = call
      BY <2>2 DEF InsertZero
    <3> QED BY <1>2, <3>1 DEF OnWay, Op, None
  <2> QED BY <1>4, <2>1, <2>2 DEF Idle, StartRead, StartInsert
<1>5. CASE Locking(t)
  <2>1. CASE ReadLock(t) \/ Drain(t)
    <3>1. /\ pc[t] \in {"lock", "drain"} /\ curr' = curr /\ prev' = prev /\ call' = call
          /\ pc'[t] = IF prev[t] = Null THEN "visit" ELSE "handover"
      BY <1>1, <2>1 DEF ReadLock, Drain, Inside, place
    <3> QED BY <1>2, <3>1 DEF OnWay, Op
  <2>2. CASE WriteLock(t)
    <3>1. /\ pc[t] = "lock" /\ curr' = curr /\ prev' = prev /\ call' = call /\ phase' = phase
          /\ pc'[t] = "drain" /\ ForWriting(t, curr[t])
      BY <1>1, <2>2 DEF WriteLock, place
    <3> QED BY <1>2, <3>1 DEF OnWay, Op, ForWriting, Promote, K
  <2>3. CASE Handover(t)
    <3>1. pc'[t] = "visit" /\ prev'[t] = Null /\ curr' = curr /\ call' = call
      BY <1>1, <2>3 DEF Handover
    <3> QED BY <1>2, <3>1 DEF OnWay, Op
  <2> QED BY <1>5, <2>1, <2>2, <2>3 DEF Locking
<1>6. CASE MoveRight(t)
  <2>1. /\ pc[t] = "visit" /\ heap[curr[t]].next_header <= K(t) /\ call' = call
        /\ Approach(t, heap[curr[t]].next, curr[t])
    BY <1>6 DEF MoveRight
  <2>2. curr[t] \in Nodes /\ heap[curr[t]].next_header \in Int /\ K(t) \in 0 .. Inf - 1
    <3>1. curr[t] \in Nodes /\ heap[curr[t]] \in NodeType(Pointers)
      BY <1>1, <2>1 DEF IInv, TypeOK
    <3> QED BY <1>1, <2>1, <3>1, CallType, Constants DEF IInv, NodeType
  <2>3. heap[curr[t]].next_header # Inf
    BY <2>1, <2>2, Constants
  <2>4. \A l \in Levels : heap[curr[t]].next # EndSentinel(l)
    BY <1>1, <2>2, <2>3 DEF EndsGuarded
  <2> QED BY <2>1, <2>4, WaysOn, ApproachOnWay
<1>7. CASE Again(t)
  BY <1>1, <1>7, DownOnWay DEF Again, IInv, TypeOK
<1>8. CASE Overwrite(t)
  BY <1>1, <1>8, EndOnWay DEF Overwrite, Return
<1>9. ASSUME NEW r, Moving(t, r) PROVE OnWay(t)'
  <2>1. CASE Descend(t, r)
    <3>1. pc[t] = "visit" /\ r \in Slot /\ Approach(t, ChildAt(t, r), curr[t])
      BY <2>1, RankIsSlot DEF Descend, At
    <3> QED BY <3>1, WaysOn, ApproachOnWay DEF ChildAt
  <2>2. CASE ReaderFound(t, r) \/ Down(t, r)
    <3>1. pc[t] = "visit" /\ r \in Slot /\ GoDown(t, r)
      BY <2>2, RankIsSlot, Constants DEF ReaderFound, Down, At
    <3> QED BY <3>1, DownOnWay
  <2>3. CASE InsertFound(t, r)
    <3>1. pc[t] = "visit" /\ pc'[t] = "lock" /\ curr' = curr /\ prev' = prev /\ call' = call
      BY <1>1, <2>3 DEF InsertFound, At, place
    <3>2. prev[t] = Null /\ curr[t] \in Nodes /\ curr[t] # Null
      BY <1>1, <1>2, <3>1, NodeNames DEF OnWay, IInv, TypeOK
    <3>3. Ready(curr[t])'
      <4>1. PICK h \in Nodes : h = curr[t] /\ h = curr'[t]
        BY <3>1, <3>2
      <4>2. InList(h)
        BY <3>1, <4>1 DEF LInv, LocksHeld, HeldIn, Flagging, Holding
      <4>3. Ready(h)'
        BY <4>2, ReadyStays DEF Ready
      <4> QED BY <4>1, <4>3 DEF Ready, InList
    <3> QED BY <1>2, <3>1, <3>2, <3>3 DEF OnWay, Op
  <2> QED BY <1>9, <2>1, <2>2, <2>3 DEF Moving
<1>10. ASSUME NEW r, Ending(t, r) PROVE OnWay(t)'
  BY <1>1, <1>10, EndOnWay DEF Ending, ValueHit, ValueMiss, ExistsHit, ExistsMiss, Return
<1>11. ASSUME NEW r, Scanning(t, r) PROVE OnWay(t)'
  <2>1. CASE ScanOn(t, r)
    <3>1. /\ pc[t] = "visit" /\ Op(t) # "insert" /\ call' = call
          /\ Approach(t, heap[curr[t]].next, curr[t])
      BY <2>1 DEF ScanOn, From, At
    <3> QED BY <3>1, WaysOn, ApproachOnWay DEF Op
  <2>2. CASE ScanEnd(t, r)
    BY <1>1, <2>2, EndOnWay DEF ScanEnd
  <2> QED BY <1>11, <2>1, <2>2 DEF Scanning
<1> QED BY <1>4, <1>5, <1>6, <1>7, <1>8, <1>9, <1>10, <1>11, FillOnWay, StepCases

-------------------------------------------------------------------------------
(* The invariant                                                           *)

\* the links of the empty list
LEMMA EmptyLinks ==
  ASSUME NEW n \in Nodes
  PROVE  LET a == EmptyList(n)
             l == Level(n)
         IN /\ \/ n = Header(l) /\ a.num = 1 /\ a.next = EndSentinel(l)
               \/ n = EndSentinel(l) /\ a.num = 1 /\ a.next = Null
               \/ n # Header(l) /\ n # EndSentinel(l) /\ a.num = 0 /\ a.next = Null
            /\ a.next_header = Inf
            /\ \A i \in Slot : a.child[i] = Null \/ \E j \in Levels : a.child[i] = Header(j)
<1> DEFINE l == Level(n)
           down == IF l > 0 THEN Header(l - 1) ELSE Null
<1>1. down = Null \/ \E j \in Levels : down = Header(j)
  <2>1. l \in Levels
    BY NodeNames
  <2>2. CASE l > 0
    <3>1. l - 1 \in Levels
      BY <2>1, <2>2, HeightAssumption DEF Levels
    <3> QED BY <2>2, <3>1
  <2> QED BY <2>2
<1>2. Header(l) # EndSentinel(l)
  BY DEF Header, EndSentinel
<1> HIDE DEF l, down
<1>3. CASE n = Header(l)
  <2>1. EmptyList(n) = [Blank EXCEPT !.num = 1, !.next = EndSentinel(l), !.child[0] = down]
    <3>1. n = Header(Level(n)) /\ n # EndSentinel(Level(n))
      BY <1>2, <1>3 DEF l
    <3> QED BY <3>1, Zenon DEF EmptyList, l, down
  <2> QED BY <1>1, <1>3, <2>1 DEF Blank, l
<1>4. CASE n = EndSentinel(l)
  <2>1. EmptyList(n) = [Blank EXCEPT !.num = 1, !.key[0] = Inf]
    BY <1>2, <1>4 DEF EmptyList, l
  <2> QED BY <1>4, <2>1 DEF Blank, l
<1>5. CASE n # Header(l) /\ n # EndSentinel(l)
  <2>1. EmptyList(n) = Blank
    BY <1>5 DEF EmptyList, l
  <2> QED BY <1>5, <2>1 DEF Blank, l
<1> QED BY <1>3, <1>4, <1>5

\* nobody has locked anything yet
LEMMA LInvInit == Init => LInv
<1> SUFFICES ASSUME Init PROVE LInv
  OBVIOUS
<1>1. IInv
  BY InvInit
<1>2. \A n \in Nodes : heap[n] = EmptyList(n)
  BY DEF Init
<1>3. \A n \in Nodes :
        LET l == Level(n) IN
          /\ l \in Levels /\ n # Null
          /\ \/ n = Header(l) /\ heap[n].num = 1 /\ heap[n].next = EndSentinel(l)
             \/ n = EndSentinel(l) /\ heap[n].num = 1 /\ heap[n].next = Null
             \/ n # Header(l) /\ n # EndSentinel(l) /\ heap[n].num = 0 /\ heap[n].next = Null
          /\ heap[n].next_header = Inf
          /\ \A i \in Slot : heap[n].child[i] = Null \/ \E j \in Levels : heap[n].child[i] = Header(j)
  BY <1>2, EmptyLinks, NodeNames
<1>4. /\ \A l \in Levels : Header(l) \in Nodes /\ EndSentinel(l) \in Nodes
      /\ \A l \in Levels : Level(Header(l)) = l /\ Level(EndSentinel(l)) = l
      /\ \A l, j \in Levels : /\ Header(l) # EndSentinel(j)
                              /\ EndSentinel(l) = EndSentinel(j) => l = j
  BY Sentinels DEF Header, EndSentinel
<1>5. \A t \in Threads : /\ pc[t] = "idle" /\ call[t] = None /\ Op(t) # "insert" /\ curr[t] = Null
                         /\ Holding(t) = {} /\ Flagging(t) = {}
  BY DEF Init, Op, None, Holding, Flagging
<1>6. HeadsIn
  BY <1>3, <1>4 DEF HeadsIn, InList
<1>7. Linked /\ EndsGuarded
  <2>1. \A l \in Levels : Null # Header(l) /\ Null # EndSentinel(l)
    BY DEF Null, Header, EndSentinel
  <2>2. ASSUME NEW n \in Nodes
        PROVE  /\ heap[n].next # Null => InList(heap[n].next)
               /\ heap[n].next # n
    BY <1>3, <1>4, <1>6, <2>2 DEF HeadsIn
  <2>3. ASSUME NEW n \in Nodes, NEW i \in Slot
        PROVE  /\ heap[n].child[i] # Null => Ready(heap[n].child[i])
               /\ \A l \in Levels : heap[n].child[i] # EndSentinel(l)
    BY <1>3, <1>4, <1>6, <2>1, <2>3 DEF HeadsIn, Ready
  <2> QED BY <1>3, <2>2, <2>3 DEF Linked, EndsGuarded
<1>8. Going
  BY <1>5 DEF Going
<1>9. OnePred
  <2>1. \A m \in Nexts : /\ m \in Nodes /\ Level(m) \in Levels /\ m = Header(Level(m))
                         /\ heap[m].next = EndSentinel(Level(m))
    BY <1>3, <1>4 DEF Nexts, InList, IsTail
  <2>2. ASSUME NEW n \in Nodes, InList(n), n # Header(Level(n))
        PROVE  \E m \in Nexts : heap[m].next = n
    <3>1. n = EndSentinel(Level(n)) /\ Level(n) \in Levels
      BY <1>3, <2>2 DEF InList
    <3>2. PICK m \in Nodes : m = Header(Level(n))
      BY <1>4, <3>1
    <3>3. Level(m) = Level(n) /\ m # EndSentinel(Level(m))
      BY <1>4, <3>1, <3>2
    <3>4. heap[m].num = 1 /\ heap[m].next = n
      BY <1>3, <3>1, <3>2, <3>3
    <3> QED BY <3>3, <3>4 DEF Nexts, InList, IsTail
  <2>3. ASSUME NEW m1 \in Nexts, NEW m2 \in Nexts, heap[m1].next = heap[m2].next
        PROVE  m1 = m2
    BY <1>4, <2>1, <2>3
  <2> QED BY <2>2, <2>3 DEF OnePred
<1>10. \A n \in Nodes : ~writer[n] /\ readers[n] = 0
  BY DEF Init
<1>11. \A t \in Threads : \A n \in Nodes : ~Reading(t, n) /\ ~Writing(t, n) /\ ~Flagged(t, n)
  BY <1>5 DEF Reading, Writing, Flagged
<1>12. Prepared
  BY <1>5, <1>10, OwnNodes DEF Prepared
<1>13. Counted
  <2>1. \A n \in Nodes : ReadersOf(n) = {}
    BY <1>11 DEF ReadersOf
  <2> QED BY <1>10, <2>1, FS_EmptySet DEF Counted
<1>14. HeldIn /\ EmptyFree /\ Owned /\ OneOwner /\ Drained
  BY <1>5, <1>10, <1>11 DEF HeldIn, EmptyFree, Owned, OneOwner, Drained
<1> QED BY <1>1, <1>6, <1>7, <1>8, <1>9, <1>12, <1>13, <1>14 DEF LInv, Links, LocksHeld

\* the driver's steps touch neither nodes nor locks
LEMMA LInvStutter ==
  ASSUME LInv, IInv',
         UNCHANGED <<heap, writer, readers, pc, call, phase, curr, prev, ins>>
  PROVE  LInv'
<1>1. \A t \in Threads : Holding(t)' = Holding(t) /\ Flagging(t)' = Flagging(t)
  BY DEF Holding, Flagging
<1>2. \A t \in Threads : \A n : ForWriting(t, n)' <=> ForWriting(t, n)
  BY DEF ForWriting, Op, Promote, K
<1>3. \A t \in Threads : \A n : /\ Reading(t, n)' <=> Reading(t, n)
                                /\ Writing(t, n)' <=> Writing(t, n)
                                /\ Flagged(t, n)' <=> Flagged(t, n)
  BY <1>1, <1>2 DEF Reading, Writing, Flagged
<1>4. \A n : InList(n)' <=> InList(n)
  BY DEF InList
<1>5. \A n : Ready(n)' <=> Ready(n)
  BY <1>4 DEF Ready
<1>6. Nexts' = Nexts
  BY <1>4 DEF Nexts
<1>7. \A n : ReadersOf(n)' = ReadersOf(n)
  BY <1>3 DEF ReadersOf
<1>8. HeadsIn'
  BY <1>4 DEF LInv, Links, HeadsIn
<1>9. Linked' /\ EndsGuarded'
  BY <1>4, <1>5 DEF LInv, Links, Linked, EndsGuarded, InList, Ready
<1>10. Going'
  BY <1>2 DEF LInv, Links, Going, Op, ForWriting, Promote, K, Ready, InList
<1>11. OnePred'
  BY <1>4, <1>6 DEF LInv, Links, OnePred
<1>12. Prepared'
  BY DEF LInv, LocksHeld, Prepared, Op, Promote, K, NewNode
<1>13. Counted'
  BY <1>7 DEF LInv, LocksHeld, Counted
<1>14. HeldIn' /\ EmptyFree' /\ Drained'
  BY <1>1, <1>3, <1>4 DEF LInv, LocksHeld, HeldIn, EmptyFree, Drained
<1>15. Owned' /\ OneOwner'
  BY <1>3, <1>4 DEF LInv, LocksHeld, Owned, OneOwner
<1> QED BY <1>8, <1>9, <1>10, <1>11, <1>12, <1>13, <1>14, <1>15 DEF LInv, Links, LocksHeld

\* every step keeps the invariant
LEMMA LInvNext == LInv /\ [Next]_vars => LInv'
<1> SUFFICES ASSUME LInv, [Next]_vars PROVE LInv'
  OBVIOUS
<1>1. IInv'
  BY InvNext DEF LInv
<1>2. ASSUME NEW t \in Threads, Step(t) PROVE LInv'
  BY <1>1, <1>2, LocksHeldStep, HeadsInStep, LinkedStep, GoingStep, OnePredStep DEF LInv, Links
<1>3. CASE NextRound
  <2>1. UNCHANGED <<heap, writer, readers, pc, call, phase, curr, prev, ins>>
    BY <1>3 DEF NextRound, locks, place
  <2> QED BY <1>1, <2>1, LInvStutter
<1>4. CASE UNCHANGED vars
  <2>1. UNCHANGED <<heap, writer, readers, pc, call, phase, curr, prev, ins>>
    BY <1>4 DEF vars, locks, place, driver
  <2> QED BY <1>1, <2>1, LInvStutter
<1> QED BY <1>2, <1>3, <1>4 DEF Next, Finished

(* The invariant of the locks and lists holds in every state of the        *)
(* B-skiplist.                                                             *)
THEOREM LocksInductive == Spec => []LInv
BY LInvInit, LInvNext, PTL DEF Spec

-------------------------------------------------------------------------------
(* The theorems                                                            *)

(* The writer flag of a node in a list is set exactly while one thread has *)
(* locked it for writing or waits for its readers: no write lock is lost,  *)
(* taken twice or released by another thread, through splits, new nodes    *)
(* locked before they are linked, and the unlock in an override.           *)
THEOREM WritersExact == Spec => []WriterExact
<1>1. LInv => WriterExact
  <2> SUFFICES ASSUME LInv, NEW n \in Nodes, InList(n)
               PROVE  Cardinality({t \in Threads : n \in Flagging(t) /\ ForWriting(t, n)}) =
                        IF writer[n] THEN 1 ELSE 0
    BY DEF WriterExact
  <2>1. PICK S : S = {t \in Threads : n \in Flagging(t) /\ ForWriting(t, n)}
    OBVIOUS
  <2>2. \A t \in Threads : t \in S <=> Flagged(t, n)
    BY <2>1 DEF Flagged
  <2>3. /\ writer[n] <=> \E t \in Threads : Flagged(t, n)
        /\ \A t, u \in Threads : Flagged(t, n) /\ Flagged(u, n) => t = u
    BY DEF LInv, LocksHeld, Owned, OneOwner
  <2>4. CASE writer[n]
    <3>1. PICK t \in Threads : Flagged(t, n)
      BY <2>3, <2>4
    <3>2. S = {t}
      BY <2>1, <2>2, <2>3, <3>1
    <3> QED BY <2>1, <2>4, <3>2, FS_Singleton
  <2>5. CASE ~writer[n]
    <3>1. S = {}
      BY <2>1, <2>2, <2>3, <2>5
    <3> QED BY <2>1, <2>5, <3>1, FS_EmptySet
  <2> QED BY <2>4, <2>5
<1> QED BY <1>1, LocksInductive, PTL

\* no call of exists misses its key: find returns NULL without unlocking the leaf
Finding == \A t \in Threads : ~Leaking(t)
ExistsFinds == [][Finding]_vars

(* A node counts as many readers as there are threads that have it locked  *)
(* for reading, as long as no exists misses its key: whatever else the     *)
(* threads do, no read lock is lost or released twice.                     *)
THEOREM ReadersAreExact == Spec /\ ExistsFinds => []ReadersExact
<1> DEFINE Even == \A n \in Nodes : readers[n] = Cardinality(ReadersOf(n))
<1>1. Even <=> ReadersExact
  BY DEF ReadersExact, ReadersOf, Reading
<1>2. Init => Even
  <2> SUFFICES ASSUME Init, NEW n \in Nodes PROVE readers[n] = Cardinality(ReadersOf(n))
    OBVIOUS
  <2>1. \A t \in Threads : Holding(t) = {}
    BY DEF Init, Holding
  <2>2. ReadersOf(n) = {} /\ readers[n] = 0
    BY <2>1 DEF ReadersOf, Reading, Init
  <2> QED BY <2>2, FS_EmptySet
<1>3. LInv /\ Even /\ [Next]_vars /\ [Finding]_vars => Even'
  <2> SUFFICES ASSUME LInv, Even, [Next]_vars, [Finding]_vars, NEW n \in Nodes
               PROVE  readers'[n] = Cardinality(ReadersOf(n)')
    OBVIOUS
  <2>1. readers[n] = Cardinality(ReadersOf(n))
    OBVIOUS
  <2> HIDE DEF Even
  <2>2. CASE UNCHANGED vars \/ NextRound
    <3>1. UNCHANGED <<readers, pc, call, phase, curr, prev>>
      BY <2>2 DEF vars, locks, place, driver, NextRound
    <3>2. \A t \in Threads : Reading(t, n)' <=> Reading(t, n)
      BY <3>1 DEF Reading, Holding, ForWriting, Op, Promote, K
    <3>3. ReadersOf(n)' = ReadersOf(n)
      BY <3>2 DEF ReadersOf
    <3> QED BY <2>1, <3>1, <3>3
  <2>3. ASSUME NEW t \in Threads, Step(t), ~UNCHANGED vars
        PROVE  readers'[n] = Cardinality(ReadersOf(n)')
    <3>1. readers'[n] - Cardinality(ReadersOf(n)') = readers[n] - Cardinality(ReadersOf(n))
      BY <2>3, BalanceStep DEF Finding
    <3>2. IsFiniteSet(ReadersOf(n)')
      BY <2>3, BalanceStep
    <3>3. PICK c : c = Cardinality(ReadersOf(n)')
      OBVIOUS
    <3>4. c \in Nat
      BY <3>2, <3>3, FS_CardinalityType
    <3>5. readers[n] \in Int /\ readers'[n] \in Int
      <4>1. IInv /\ IInv'
        BY InvNext DEF LInv
      <4> QED BY <4>1 DEF IInv, TypeOK
    <3> QED BY <2>1, <3>1, <3>3, <3>4, <3>5
  <2> QED BY <2>2, <2>3 DEF Next, Finished
<1> HIDE DEF Even
<1> QED BY <1>1, <1>2, <1>3, LocksInductive, PTL DEF Spec, ExistsFinds

\* an insert writes only nodes it has locked for writing
LEMMA WriterAlone ==
  ASSUME LInv, NEW t \in Threads, Step(t), NEW n \in Nodes, InList(n), heap'[n] # heap[n]
  PROVE  writer[n] /\ readers[n] = 0
<1>1. IInv /\ HeldIn
  BY DEF LInv, LocksHeld
<1>2. /\ (\E r : Missing(t, r) /\ Level(curr[t]) <= Promote(t)) \/ Overwrite(t)
      /\ Wrote(t) \/ Divided(t)
  BY <1>1, HeapEffect, WriterPool
<1>3. n = curr[t]
  BY <1>2 DEF Wrote, Divided, InList
<1>4. n \in Holding(t) /\ ForWriting(t, n)
  BY <1>1, <1>2, <1>3, InsertFacts DEF Holding, ForWriting, Missing, At, Overwrite
<1>5. Writing(t, n) /\ Flagged(t, n)
  BY <1>4 DEF Writing, Flagged, Flagging
<1> QED BY <1>5 DEF LInv, LocksHeld, Owned, Drained

(* A node in a list is written only by a step of a thread that has it      *)
(* alone: its flag is set and no reader is inside.                         *)
THEOREM WritersAlone == Spec => WritesAlone
<1>1. LInv /\ [Next]_vars =>
        [\A n \in Nodes : InList(n) /\ heap'[n] # heap[n] => writer[n] /\ readers[n] = 0]_vars
  <2> SUFFICES ASSUME LInv, Next, NEW n \in Nodes, InList(n), heap'[n] # heap[n]
               PROVE  writer[n] /\ readers[n] = 0
    OBVIOUS
  <2>1. ~NextRound /\ ~Finished
    BY DEF NextRound, Finished, vars
  <2> QED BY <2>1, WriterAlone DEF Next
<1> QED BY <1>1, LocksInductive, PTL DEF Spec, WritesAlone

(* Every node that holds keys is on its level's list exactly once: splits  *)
(* of neighbours lose no node.                                             *)
THEOREM NodesOnce == Spec => []ListsWhole
<1>1. LInv => ListsWhole
  <2> SUFFICES ASSUME LInv, NEW n \in Nodes, InList(n), n # Header(Level(n))
               PROVE  Cardinality({m \in Nexts : heap[m].next = n}) = 1
    BY DEF ListsWhole
  <2>1. PICK m \in Nexts : heap[m].next = n
    BY DEF LInv, Links, OnePred
  <2>2. n # Null
    BY NodeNames
  <2>3. {p \in Nexts : heap[p].next = n} = {m}
    BY <2>1, <2>2 DEF LInv, Links, OnePred
  <2> QED BY <2>3, FS_Singleton
<1> QED BY <1>1, LocksInductive, PTL

-------------------------------------------------------------------------------
(* The order of keys: what an insert makes of the elements of a node       *)

\* the keys of a node ascend, and stay below its next_header
Ascends(node) == \A i, j \in Live(node) : i < j => node.key[i] < node.key[j]
Within(node) == \A k \in Keys(node) : k < node.next_header

\* the elements of a are elements of b
Part(a, b, l) == \A i \in Live(a) : \E j \in Live(b) :
                   a.key[i] = b.key[j] /\ (l > 0 => a.child[i] = b.child[j])
\* ... or the one the insert adds
Added(t, a, i, l) == a.key[i] = K(t) /\ (l > 0 => a.child[i] = NewNode(t, l - 1))
PartWith(t, a, b, l) == \A i \in Live(a) :
  \/ Added(t, a, i, l)
  \/ \E j \in Live(b) : a.key[i] = b.key[j] /\ (l > 0 => a.child[i] = b.child[j])

\* key k goes behind rank r
GoesBehind(node, k, r) == /\ r < node.num
                          /\ node.key[r] < k
                          /\ r + 1 < node.num => k < node.key[r + 1]

\* the live ranks, as the provers need them
LEMMA LiveRanks ==
  ASSUME NEW l, NEW node \in NodeOf(l)
  PROVE  /\ node.num \in Int /\ node.num <= MaxKeys
         /\ \A i \in Int : i \in Live(node) <=> 0 <= i /\ i < node.num
         /\ Live(node) \subseteq Int /\ Live(node) \subseteq Slot
         /\ \A i \in Slot : node.key[i] \in Int
<1>1. node.num \in 0 .. MaxKeys /\ node.key \in [Slot -> AnyKey]
  BY DEF NodeOf
<1>2. node.num \in Int /\ node.num <= MaxKeys
  BY <1>1, Constants
<1>3. \A i \in Slot : node.key[i] \in Int
  BY <1>1, Constants
<1>4. ASSUME NEW i \in Int PROVE i \in Live(node) <=> 0 <= i /\ i < node.num
  <2>1. i \in Slot <=> 0 <= i /\ i < MaxKeys
    BY Constants
  <2>2. MaxKeys \in Int
    BY Constants
  <2> QED BY <1>2, <2>1, <2>2 DEF Live
<1>5. Live(node) \subseteq Int /\ Live(node) \subseteq Slot
  BY Constants DEF Live
<1> QED BY <1>2, <1>3, <1>4, <1>5

\* placing a key shifts the keys, and above the leaves the children, by one
LEMMA PlaceArrays ==
  ASSUME NEW t \in Threads, NEW l \in Levels, NEW node \in NodeOf(l), NEW r \in Nat,
         NEW counted \in BOOLEAN
  PROVE  /\ Place(t, node, l, r, counted).key = ShiftIn(node.key, r, K(t), node.num)
         /\ l > 0 => Place(t, node, l, r, counted).child =
                       ShiftIn(node.child, r, NewNode(t, l - 1), node.num)
<1>1. CASE l = 0
  BY <1>1 DEF Place, InsertEltAtRank, NodeOf
<1>2. CASE l # 0
  <2> DEFINE keyed == InsertKeyAtRank(node, r, K(t))
             c == NewNode(t, l - 1)
  <2>1. /\ keyed = [node EXCEPT !.key = ShiftIn(node.key, r, K(t), node.num)]
        /\ keyed.key = ShiftIn(node.key, r, K(t), node.num)
        /\ keyed.num = node.num /\ keyed.child = node.child
    BY DEF InsertKeyAtRank, NodeOf
  <2>2. node.num \in Int
    BY DEF NodeOf
  <2>3. CASE counted
    <3> DEFINE more == [keyed EXCEPT !.num = @ + 1]
    <3>1. /\ more.key = keyed.key /\ more.child = node.child
          /\ more.num - 1 = node.num
          /\ more = [node EXCEPT !.key = keyed.key, !.num = node.num + 1]
      BY <2>1, <2>2 DEF NodeOf
    <3>2. Place(t, node, l, r, counted) = InsertChildAtRank(more, r, c, TRUE)
      BY <1>2, <2>3 DEF Place
    <3>3. InsertChildAtRank(more, r, c, TRUE) =
            [more EXCEPT !.child = ShiftIn(node.child, r, c, node.num)]
      <4> HIDE DEF more, c
      <4> QED BY <3>1 DEF InsertChildAtRank
    <3> HIDE DEF c, keyed
    <3> QED BY <2>1, <3>1, <3>2, <3>3 DEF NodeOf, c
  <2>4. CASE ~counted
    <3>1. Place(t, node, l, r, counted) = [InsertChildAtRank(keyed, r, c, FALSE) EXCEPT !.num = @ + 1]
      BY <1>2, <2>4 DEF Place
    <3>2. InsertChildAtRank(keyed, r, c, FALSE) =
            [keyed EXCEPT !.child = ShiftIn(node.child, r, c, node.num)]
      <4> HIDE DEF keyed, c
      <4> QED BY <2>1 DEF InsertChildAtRank
    <3> HIDE DEF c, keyed
    <3>3. keyed = [num |-> node.num, key |-> keyed.key, val |-> node.val, child |-> node.child,
                   next |-> node.next, next_header |-> node.next_header]
      BY <2>1 DEF NodeOf
    <3> QED BY <2>1, <3>1, <3>2, <3>3 DEF c
  <2> QED BY <2>3, <2>4
<1> QED BY <1>1, <1>2

\* A key placed behind the rank that the search found keeps the order: the
\* elements are those that were there and the new one.
LEMMA PlaceOrder ==
  ASSUME NEW t \in Threads, NEW l \in Levels, NEW node \in NodeOf(l), NEW r \in Nat,
         node.num < MaxKeys, NEW counted \in BOOLEAN,
         K(t) \in AnyKey, call[t].arg \in Nat,
         l > 0 => NewNode(t, l - 1) \in Peers(l - 1),
         Ascends(node), GoesBehind(node, K(t), r)
  PROVE  LET a == Place(t, node, l, r + 1, counted) IN
           /\ Ascends(a) /\ a.key[0] = node.key[0]
           /\ PartWith(t, a, node, l)
           /\ Keys(node) \subseteq Keys(a) /\ Keys(a) \subseteq Keys(node) \cup {K(t)}
           /\ K(t) \in Keys(a)
<1>0. K(t) \in Int
  BY Constants
<1> DEFINE a == Place(t, node, l, r + 1, counted)
           k == K(t)
           c == NewNode(t, l - 1)
<1>1. r + 1 \in Nat /\ r \in Int /\ k \in Int /\ 0 <= r
  BY <1>0
<1>2. a \in NodeOf(l) /\ a.num = node.num + 1
  BY <1>1, PlaceShape
<1>3. /\ a.key = ShiftIn(node.key, r + 1, k, node.num)
      /\ l > 0 => a.child = ShiftIn(node.child, r + 1, c, node.num)
  BY <1>1, PlaceArrays
<1>4. /\ node.num \in Int /\ node.num < MaxKeys /\ r < node.num
      /\ \A i \in Int : i \in Live(node) <=> 0 <= i /\ i < node.num
      /\ \A i \in Int : i \in Live(a) <=> 0 <= i /\ i < node.num + 1
      /\ Live(node) \subseteq Int /\ Live(a) \subseteq Int
      /\ Live(node) \subseteq Slot /\ Live(a) \subseteq Slot
      /\ \A i \in Slot : node.key[i] \in Int
  BY <1>2, LiveRanks DEF GoesBehind
<1>5. /\ node.key[r] < k /\ (r + 1 < node.num => k < node.key[r + 1])
      /\ \A i, j \in Live(node) : i < j => node.key[i] < node.key[j]
  BY DEF GoesBehind, Ascends
<1> HIDE DEF a, k, c
<1>6. \A i \in Live(a) :
        /\ i <= r => i \in Live(node) /\ a.key[i] = node.key[i] /\ (l > 0 => a.child[i] = node.child[i])
        /\ i = r + 1 => a.key[i] = k /\ (l > 0 => a.child[i] = c)
        /\ i > r + 1 => /\ i - 1 \in Live(node) /\ a.key[i] = node.key[i - 1]
                        /\ l > 0 => a.child[i] = node.child[i - 1]
  <2> SUFFICES ASSUME NEW i \in Live(a)
               PROVE /\ i <= r => /\ i \in Live(node) /\ a.key[i] = node.key[i]
                                  /\ l > 0 => a.child[i] = node.child[i]
                     /\ i = r + 1 => a.key[i] = k /\ (l > 0 => a.child[i] = c)
                     /\ i > r + 1 => /\ i - 1 \in Live(node) /\ a.key[i] = node.key[i - 1]
                                     /\ l > 0 => a.child[i] = node.child[i - 1]
    OBVIOUS
  <2>1. i \in Slot /\ i \in Int /\ 0 <= i /\ i < node.num + 1
    BY <1>4
  <2>2. /\ i = r + 1 => a.key[i] = k /\ (l > 0 => a.child[i] = c)
        /\ i > r + 1 => a.key[i] = node.key[i - 1] /\ (l > 0 => a.child[i] = node.child[i - 1])
        /\ i <= r => a.key[i] = node.key[i] /\ (l > 0 => a.child[i] = node.child[i])
    BY <1>1, <1>3, <1>4, <2>1 DEF ShiftIn
  <2>3. (i <= r => i \in Live(node)) /\ (i > r + 1 => i - 1 \in Live(node))
    BY <1>1, <1>4, <2>1
  <2> QED BY <2>2, <2>3
<1>7. \A i \in Live(a) : i <= r \/ i = r + 1 \/ i > r + 1
  BY <1>1, <1>4
<1>8. r \in Live(node)
  BY <1>1, <1>4
<1>9. Ascends(a)
  <2> SUFFICES ASSUME NEW i \in Live(a), NEW j \in Live(a), i < j PROVE a.key[i] < a.key[j]
    BY DEF Ascends
  <2>1. \A m \in Live(node) : /\ m <= r => node.key[m] < k
                              /\ m > r => k < node.key[m]
    <3> SUFFICES ASSUME NEW m \in Live(node) PROVE (m <= r => node.key[m] < k) /\ (m > r => k < node.key[m])
      OBVIOUS
    <3>1. m \in Int /\ m < node.num /\ node.key[m] \in Int /\ node.key[r] \in Int
      BY <1>4, <1>8
    <3>2. CASE m <= r
      <4>1. m = r \/ node.key[m] < node.key[r]
        BY <1>1, <1>5, <1>8, <3>1, <3>2
      <4> QED BY <1>1, <1>5, <3>1, <3>2, <4>1
    <3>3. CASE m > r
      <4>1. r + 1 \in Live(node) /\ r + 1 < node.num
        BY <1>1, <1>4, <3>1, <3>3
      <4>2. m = r + 1 \/ node.key[r + 1] < node.key[m]
        BY <1>1, <1>5, <3>1, <3>3, <4>1
      <4>3. node.key[r + 1] \in Int
        BY <1>4, <4>1
      <4> QED BY <1>1, <1>5, <3>1, <3>3, <4>1, <4>2, <4>3
    <3> QED BY <1>1, <3>1, <3>2, <3>3
  <2>2. i \in Int /\ j \in Int
    BY <1>4
  <2>3. CASE j <= r
    BY <1>1, <1>5, <1>6, <2>2, <2>3
  <2>4. CASE i <= r /\ j = r + 1
    BY <1>6, <2>1, <2>4
  <2>5. CASE i <= r /\ j > r + 1
    <3>1. /\ i \in Live(node) /\ j - 1 \in Live(node) /\ i < j - 1
          /\ a.key[i] = node.key[i] /\ a.key[j] = node.key[j - 1]
      BY <1>1, <1>6, <2>2, <2>5
    <3> QED BY <1>5, <3>1
  <2>6. CASE i = r + 1
    <3>1. /\ j > r + 1 /\ j - 1 \in Live(node) /\ j - 1 > r
          /\ a.key[i] = k /\ a.key[j] = node.key[j - 1]
      BY <1>1, <1>6, <2>2, <2>6
    <3> QED BY <2>1, <3>1
  <2>7. CASE i > r + 1
    <3>1. /\ j > r + 1 /\ j - 1 \in Live(node) /\ i - 1 \in Live(node) /\ i - 1 < j - 1
          /\ a.key[i] = node.key[i - 1] /\ a.key[j] = node.key[j - 1]
      BY <1>1, <1>6, <2>2, <2>7
    <3> QED BY <1>5, <3>1
  <2> QED BY <1>7, <2>2, <2>3, <2>4, <2>5, <2>6, <2>7
<1>10. a.key[0] = node.key[0]
  <2>1. 0 \in Live(a) /\ 0 <= r
    BY <1>1, <1>4
  <2> QED BY <1>6, <2>1
<1>11. PartWith(t, a, node, l)
  BY <1>6, <1>7 DEF PartWith, Added, k, c
<1>12. Keys(node) \subseteq Keys(a)
  <2> SUFFICES ASSUME NEW j \in Live(node) PROVE \E i \in Live(a) : a.key[i] = node.key[j]
    BY DEF Keys
  <2>1. j \in Int /\ 0 <= j /\ j < node.num
    BY <1>4
  <2>2. CASE j <= r
    <3>1. j \in Live(a)
      BY <1>4, <2>1
    <3> QED BY <1>6, <2>2, <3>1
  <2>3. CASE j > r
    <3>1. PICK m \in Int : m = j + 1
      BY <2>1
    <3>2. m \in Live(a) /\ m > r + 1 /\ m - 1 = j
      BY <1>1, <1>4, <2>1, <2>3, <3>1
    <3>3. a.key[m] = node.key[m - 1]
      BY <1>6, <3>2
    <3> QED BY <3>2, <3>3
  <2> QED BY <1>1, <2>1, <2>2, <2>3
<1>13. Keys(a) \subseteq Keys(node) \cup {k}
  BY <1>6, <1>7 DEF Keys
<1>14. k \in Keys(a)
  <2>1. r + 1 \in Int /\ r + 1 \in Live(a)
    BY <1>1, <1>4
  <2> QED BY <1>6, <2>1 DEF Keys
<1> QED BY <1>9, <1>10, <1>11, <1>12, <1>13, <1>14 DEF a, k

\* what the halves of a full node hold
LEMMA HalfArrays ==
  ASSUME NEW l \in Levels, NEW node \in NodeOf(l), node.num >= MaxKeys, NEW new \in Peers(l),
         NEW blank \in NodeOf(l), blank.num = 0, NEW h, h = Half(node)
  PROVE  /\ LeftHalf(node, new).key = node.key /\ LeftHalf(node, new).child = node.child
         /\ LeftHalf(node, new).next_header = node.key[h]
         /\ RightHalf(node, blank).next_header = node.next_header
         /\ \A i \in Slot : i < node.num - h =>
              /\ RightHalf(node, blank).key[i] = node.key[h + i]
              /\ RightHalf(node, blank).child[i] = node.child[h + i]
<1>1. /\ LeftHalf(node, new).key = node.key /\ LeftHalf(node, new).child = node.child
      /\ LeftHalf(node, new).next_header = node.key[h]
  BY DEF LeftHalf, SplitKeep, NodeOf
<1> DEFINE n == node.num - h
           given == SplitGive(node, blank, h, 0)
           moved == MoveChildren(node, given, h, n, 0)
<1>2. h \in Nat /\ n \in Int
  <2>1. node.num \in Int
    BY DEF NodeOf
  <2> QED BY <2>1, HalfOfFull
<1>3. /\ given.key = CopyTo(node.key, h, blank.key, 0, n) /\ given.child = blank.child
      /\ given = [num |-> given.num, key |-> given.key, val |-> given.val, child |-> given.child,
                  next |-> given.next, next_header |-> given.next_header]
  <2>1. given = [blank EXCEPT !.num = blank.num + n,
                              !.key = CopyTo(node.key, h, blank.key, 0, n),
                              !.val = CopyTo(node.val, h, blank.val, 0, n)]
    BY DEF SplitGive
  <2> HIDE DEF given, n
  <2>2. blank = [num |-> blank.num, key |-> blank.key, val |-> blank.val, child |-> blank.child,
                 next |-> blank.next, next_header |-> blank.next_header]
    BY DEF NodeOf
  <2> QED BY <2>1, <2>2
<1> HIDE DEF given, n
<1>4. /\ moved.key = given.key /\ moved.child = CopyTo(node.child, h, given.child, 0, n)
      /\ moved = [num |-> moved.num, key |-> moved.key, val |-> moved.val, child |-> moved.child,
                  next |-> moved.next, next_header |-> moved.next_header]
  BY <1>3 DEF MoveChildren
<1>5. RightHalf(node, blank) = [moved EXCEPT !.next = node.next, !.next_header = node.next_header]
  BY DEF RightHalf, n, given
<1> HIDE DEF moved
<1>6. /\ RightHalf(node, blank).key = moved.key /\ RightHalf(node, blank).child = moved.child
      /\ RightHalf(node, blank).next_header = node.next_header
  BY <1>4, <1>5
<1>7. ASSUME NEW i \in Slot, i < n
      PROVE  /\ CopyTo(node.key, h, blank.key, 0, n)[i] = node.key[h + i]
             /\ CopyTo(node.child, h, given.child, 0, n)[i] = node.child[h + i]
  <2>1. i \in 0 .. 0 + n - 1 /\ h + i - 0 = h + i
    BY <1>2, <1>7, Constants
  <2> QED BY <2>1 DEF CopyTo
<1> QED BY <1>1, <1>3, <1>4, <1>6, <1>7 DEF n

\* Halving keeps the order: the right half begins with the key that bounds the left.
LEMMA HalvesOrder ==
  ASSUME NEW l \in Levels, NEW node \in NodeOf(l), node.num >= MaxKeys, NEW new \in Peers(l),
         NEW blank \in NodeOf(l), blank.num = 0, Ascends(node)
  PROVE  LET a == LeftHalf(node, new)
             b == RightHalf(node, blank)
         IN /\ Ascends(a) /\ Within(a) /\ Part(a, node, l) /\ a.key[0] = node.key[0]
            /\ Ascends(b) /\ Part(b, node, l) /\ Keys(b) \subseteq Keys(node)
            /\ a.next_header = b.key[0]
            /\ Keys(node) \subseteq Keys(a) \cup Keys(b)
<1> DEFINE a == LeftHalf(node, new)
           b == RightHalf(node, blank)
<1>1. PICK h : h = Half(node)
  OBVIOUS
<1>2. /\ node.num = MaxKeys /\ h \in Int /\ h > 0 /\ h < MaxKeys /\ MaxKeys \in Int
  BY <1>1, HalfOfFull, Constants
<1>3. /\ a \in NodeOf(l) /\ a.num = h /\ b \in NodeOf(l) /\ b.num = MaxKeys - h
  BY <1>1, LeftHalfShape, RightHalfShape
<1>4. /\ a.key = node.key /\ a.child = node.child /\ a.next_header = node.key[h]
      /\ \A i \in Slot : i < MaxKeys - h =>
           b.key[i] = node.key[h + i] /\ b.child[i] = node.child[h + i]
  BY <1>1, <1>2, HalfArrays
<1>5. /\ \A i \in Int : i \in Live(node) <=> 0 <= i /\ i < MaxKeys
      /\ \A i \in Int : i \in Live(a) <=> 0 <= i /\ i < h
      /\ \A i \in Int : i \in Live(b) <=> 0 <= i /\ i < MaxKeys - h
      /\ Live(node) \subseteq Int /\ Live(a) \subseteq Int /\ Live(b) \subseteq Int
      /\ Live(b) \subseteq Slot
  BY <1>2, <1>3, LiveRanks
<1>6. \A i, j \in Live(node) : i < j => node.key[i] < node.key[j]
  BY DEF Ascends
<1> HIDE DEF a, b
<1>7. \A i \in Live(a) : i \in Live(node) /\ i < h
  BY <1>2, <1>5
<1>8. ASSUME NEW i \in Live(b)
      PROVE  h + i \in Live(node) /\ b.key[i] = node.key[h + i] /\ b.child[i] = node.child[h + i]
  <2>1. i \in Int /\ 0 <= i /\ i < MaxKeys - h /\ i \in Slot
    BY <1>5
  <2>2. h + i \in Live(node)
    BY <1>2, <1>5, <2>1
  <2> QED BY <1>4, <2>1, <2>2
<1>9. 0 \in Live(b) /\ h + 0 = h /\ h \in Live(node)
  BY <1>2, <1>5
<1>10. Ascends(a)
  BY <1>4, <1>6, <1>7 DEF Ascends
<1>11. Ascends(b)
  <2> SUFFICES ASSUME NEW i \in Live(b), NEW j \in Live(b), i < j PROVE b.key[i] < b.key[j]
    BY DEF Ascends
  <2>1. h + i < h + j
    BY <1>2, <1>5
  <2> QED BY <1>6, <1>8, <2>1
<1>12. Within(a)
  BY <1>4, <1>6, <1>7, <1>9 DEF Within, Keys
<1>13. Part(a, node, l) /\ a.key[0] = node.key[0]
  BY <1>4, <1>7 DEF Part
<1>14. Part(b, node, l) /\ Keys(b) \subseteq Keys(node)
  BY <1>8 DEF Part, Keys
<1>15. a.next_header = b.key[0]
  BY <1>4, <1>8, <1>9
<1>16. Keys(node) \subseteq Keys(a) \cup Keys(b)
  <2> SUFFICES ASSUME NEW j \in Live(node) PROVE node.key[j] \in Keys(a) \cup Keys(b)
    BY DEF Keys
  <2>1. j \in Int /\ 0 <= j /\ j < MaxKeys
    BY <1>5
  <2>2. CASE j < h
    <3>1. j \in Live(a)
      BY <1>5, <2>1, <2>2
    <3> QED BY <1>4, <3>1 DEF Keys
  <2>3. CASE j >= h
    <3>1. PICK i \in Int : i = j - h
      BY <1>2, <2>1
    <3>2. i \in Live(b) /\ h + i = j
      BY <1>2, <1>5, <2>1, <2>3, <3>1
    <3> QED BY <1>8, <3>2 DEF Keys
  <2> QED BY <1>2, <2>1, <2>2, <2>3
<1> QED BY <1>10, <1>11, <1>12, <1>13, <1>14, <1>15, <1>16 DEF a, b

\* parts of parts
LEMMA PartOfPart ==
  ASSUME NEW t, NEW l, NEW a, NEW b, NEW node, PartWith(t, a, b, l), Part(b, node, l)
  PROVE  PartWith(t, a, node, l)
<1> SUFFICES ASSUME NEW i \in Live(a), ~Added(t, a, i, l)
             PROVE  \E j \in Live(node) : a.key[i] = node.key[j] /\ (l > 0 => a.child[i] = node.child[j])
  BY DEF PartWith
<1>1. PICK j \in Live(b) : a.key[i] = b.key[j] /\ (l > 0 => a.child[i] = b.child[j])
  BY DEF PartWith
<1>2. PICK m \in Live(node) : b.key[j] = node.key[m] /\ (l > 0 => b.child[j] = node.child[m])
  BY DEF Part
<1> QED BY <1>1, <1>2

\* a part of a split as Part states it is one as PartWith does
LEMMA PartIsPartWith ==
  ASSUME NEW t, NEW l, NEW a, NEW b, Part(a, b, l)
  PROVE  PartWith(t, a, b, l)
BY DEF Part, PartWith

\* placing a key does not touch next_header
LEMMA PlaceBound ==
  ASSUME NEW t \in Threads, NEW l \in Levels, NEW node \in NodeOf(l), NEW r \in Nat,
         NEW counted \in BOOLEAN, l > 0 => NewNode(t, l - 1) \in Peers(l - 1)
  PROVE  Place(t, node, l, r, counted).next_header = node.next_header
<1>1. \A i \in Slot : node.child[i] \in Peers(l - 1)
  BY DEF NodeOf
<1>2. SameLinks(Place(t, node, l, r, counted), node, Peers(l - 1))
  BY <1>1, PlaceLinks
<1> QED BY <1>2 DEF SameLinks

\* what stays of a node that PromoteSplit splits, and what the new node holds
KeptPart(t, node, new, r) ==
  [SplitKeep(node, r + 1) EXCEPT !.next = new, !.next_header = K(t)]
HeadedPart(t, node, blank, l, r) ==
  LET moved == node.num - (r + 1)
      first == Place(t, blank, l, 0, TRUE)
      given == SplitGive(node, first, r + 1, 1)
      whole == IF l = 0 THEN given ELSE MoveChildren(node, given, r + 1, moved, 1)
  IN [whole EXCEPT !.next = node.next, !.next_header = node.next_header]

\* the two nodes of an insert that promotes: their keys and children, slot by slot
LEMMA PromoteArrays ==
  ASSUME NEW t \in Threads, NEW l \in Levels, NEW node \in NodeOf(l), NEW r \in Nat,
         r < node.num, NEW blank \in NodeOf(l), blank.num = 0, NEW new,
         K(t) \in AnyKey, call[t].arg \in Nat,
         l > 0 => NewNode(t, l - 1) \in Peers(l - 1)
  PROVE  LET a == KeptPart(t, node, new, r)
             b == HeadedPart(t, node, blank, l, r)
         IN /\ a.num = r + 1 /\ a.key = node.key /\ a.child = node.child
            /\ a.next_header = K(t)
            /\ b.num = node.num - r /\ b.next_header = node.next_header
            /\ Added(t, b, 0, l)
            /\ \A i \in Slot : 0 < i /\ i < node.num - r =>
                 b.key[i] = node.key[r + i] /\ (l > 0 => b.child[i] = node.child[r + i])
<1> DEFINE moved == node.num - (r + 1)
           first == Place(t, blank, l, 0, TRUE)
           given == SplitGive(node, first, r + 1, 1)
           whole == IF l = 0 THEN given ELSE MoveChildren(node, given, r + 1, moved, 1)
           a == [SplitKeep(node, r + 1) EXCEPT !.next = new, !.next_header = K(t)]
           b == [whole EXCEPT !.next = node.next, !.next_header = node.next_header]
<1>1. /\ node.num \in Int /\ moved \in Int /\ r + 1 \in Nat /\ 0 < MaxKeys /\ 0 \in Slot
      /\ 1 + moved = node.num - r /\ node.num <= MaxKeys
  <2>1. node.num \in Int /\ node.num <= MaxKeys
    BY LiveRanks
  <2>2. 0 < MaxKeys /\ 0 \in Slot
    BY Constants
  <2> QED BY <2>1, <2>2
<1>2. a.num = r + 1 /\ a.key = node.key /\ a.child = node.child /\ a.next_header = K(t) /\ a.next = new
  BY DEF SplitKeep, NodeOf
<1> HIDE DEF moved, a
<1>3. first \in NodeOf(l) /\ first.num = 1
  <2>1. 0 \in Nat /\ blank.num < MaxKeys /\ TRUE \in BOOLEAN /\ blank.num + 1 = 1
    BY <1>1
  <2> HIDE DEF given, whole, b, first
  <2>2. /\ Place(t, blank, l, 0, TRUE) \in NodeOf(l)
        /\ Place(t, blank, l, 0, TRUE).num = blank.num + 1
    BY <2>1, PlaceShape
  <2> QED BY <2>1, <2>2 DEF first
<1>4. /\ first.key = ShiftIn(blank.key, 0, K(t), 0)
      /\ l > 0 => first.child = ShiftIn(blank.child, 0, NewNode(t, l - 1), 0)
  <2>1. 0 \in Nat /\ TRUE \in BOOLEAN
    OBVIOUS
  <2> HIDE DEF given, whole, b, first
  <2>2. /\ Place(t, blank, l, 0, TRUE).key = ShiftIn(blank.key, 0, K(t), blank.num)
        /\ l > 0 => Place(t, blank, l, 0, TRUE).child =
                       ShiftIn(blank.child, 0, NewNode(t, l - 1), blank.num)
    BY <2>1, PlaceArrays
  <2> QED BY <2>2 DEF first
<1>5. first.key[0] = K(t) /\ (l > 0 => first.child[0] = NewNode(t, l - 1))
  BY <1>1, <1>4 DEF ShiftIn
<1> HIDE DEF first
<1>6. /\ given.num = 1 + moved
      /\ given.key = CopyTo(node.key, r + 1, first.key, 1, moved)
      /\ given.child = first.child
      /\ given = [num |-> given.num, key |-> given.key, val |-> given.val, child |-> given.child,
                  next |-> given.next, next_header |-> given.next_header]
  <2>1. given = [first EXCEPT !.num = first.num + moved,
                              !.key = CopyTo(node.key, r + 1, first.key, 1, moved),
                              !.val = CopyTo(node.val, r + 1, first.val, 1, moved)]
    BY DEF SplitGive, moved
  <2> HIDE DEF given
  <2>2. first = [num |-> first.num, key |-> first.key, val |-> first.val, child |-> first.child,
                 next |-> first.next, next_header |-> first.next_header]
    BY <1>3 DEF NodeOf
  <2> QED BY <1>3, <2>1, <2>2
<1> HIDE DEF given
<1>7. /\ whole.num = given.num /\ whole.key = given.key
      /\ l > 0 => whole.child = CopyTo(node.child, r + 1, first.child, 1, moved)
      /\ whole = [num |-> whole.num, key |-> whole.key, val |-> whole.val, child |-> whole.child,
                  next |-> whole.next, next_header |-> whole.next_header]
  <2>1. CASE l = 0
    BY <1>6, <2>1
  <2>2. CASE l # 0
    BY <1>6, <2>2 DEF MoveChildren
  <2> QED BY <2>1, <2>2
<1> HIDE DEF whole
<1>8. /\ b.num = node.num - r /\ b.key = CopyTo(node.key, r + 1, first.key, 1, moved)
      /\ l > 0 => b.child = CopyTo(node.child, r + 1, first.child, 1, moved)
      /\ b.next_header = node.next_header /\ b.next = node.next
  BY <1>1, <1>6, <1>7
<1> HIDE DEF b
<1>9. b.key[0] = K(t) /\ (l > 0 => b.child[0] = NewNode(t, l - 1))
  <2>1. 0 \notin 1 .. 1 + moved - 1
    BY <1>1
  <2> QED BY <1>1, <1>5, <1>8, <2>1 DEF CopyTo
<1>10. ASSUME NEW i \in Slot, 0 < i, i < node.num - r
       PROVE  b.key[i] = node.key[r + i] /\ (l > 0 => b.child[i] = node.child[r + i])
  <2>1. i \in Int
    BY Constants
  <2>2. i \in 1 .. 1 + moved - 1 /\ r + 1 + i - 1 = r + i
    BY <1>1, <1>10, <2>1
  <2> QED BY <1>8, <2>2 DEF CopyTo
<1>11. KeptPart(t, node, new, r) = a
  BY DEF KeptPart, a
<1>12. HeadedPart(t, node, blank, l, r) = b
  BY DEF HeadedPart, b, whole, given, first, moved
<1> QED BY <1>2, <1>8, <1>9, <1>10, <1>11, <1>12 DEF Added

\* Splitting at the key keeps the order: the key bounds the node and heads the new one.
LEMMA PromoteOrder ==
  ASSUME NEW t, NEW l, NEW node \in NodeOf(l), NEW r \in Nat, NEW a, NEW b,
         NEW k \in Int, k = K(t), node.next_header \in Int,
         Ascends(node), Within(node), GoesBehind(node, k, r), k < node.next_header,
         a.num = r + 1, a.key = node.key, a.child = node.child, a.next_header = k,
         b.num = node.num - r, b.next_header = node.next_header, Added(t, b, 0, l),
         \A i \in Slot : 0 < i /\ i < node.num - r =>
           b.key[i] = node.key[r + i] /\ (l > 0 => b.child[i] = node.child[r + i])
  PROVE  /\ Ascends(a) /\ Within(a) /\ a.key[0] = node.key[0] /\ PartWith(t, a, node, l)
         /\ Ascends(b) /\ Within(b) /\ a.next_header = b.key[0] /\ PartWith(t, b, node, l)
         /\ Keys(a) \cup Keys(b) = Keys(node) \cup {K(t)}
<1>1. /\ node.num \in Int /\ node.num <= MaxKeys /\ r < node.num /\ MaxKeys \in Int
      /\ \A i \in Int : i \in Slot <=> 0 <= i /\ i < MaxKeys
      /\ Slot \subseteq Int
  BY LiveRanks, Constants DEF GoesBehind
<1>2. ASSUME NEW i \in Int
      PROVE  /\ i \in Live(node) <=> 0 <= i /\ i < node.num
             /\ i \in Live(a) <=> 0 <= i /\ i <= r
             /\ i \in Live(b) <=> 0 <= i /\ i < node.num - r
  <2>1. i \in Slot <=> 0 <= i /\ i < MaxKeys
    BY <1>1
  <2> QED BY <1>1, <2>1 DEF Live
<1>3. Live(node) \subseteq Int /\ Live(a) \subseteq Int /\ Live(b) \subseteq Int
      /\ Live(b) \subseteq Slot
  BY <1>1 DEF Live
<1>4. /\ \A i \in Live(node) : node.key[i] \in Int /\ node.key[i] < node.next_header
      /\ \A i, j \in Live(node) : i < j => node.key[i] < node.key[j]
  BY LiveRanks DEF Within, Keys, Ascends
<1>5. r \in Live(node) /\ r \in Int /\ node.key[r] < k
  BY <1>1, <1>2 DEF GoesBehind
<1>6. \A i \in Live(a) : i \in Live(node) /\ node.key[i] < k
  <2> SUFFICES ASSUME NEW i \in Live(a) PROVE i \in Live(node) /\ node.key[i] < k
    OBVIOUS
  <2>1. i \in Int /\ 0 <= i /\ i <= r /\ i \in Live(node)
    BY <1>1, <1>2, <1>3, <1>5
  <2>2. i = r \/ node.key[i] < node.key[r]
    BY <1>4, <1>5, <2>1
  <2>3. node.key[i] \in Int /\ node.key[r] \in Int
    BY <1>4, <1>5, <2>1
  <2> QED BY <1>5, <2>1, <2>2, <2>3
<1>7. \A j \in Live(node) : j > r => k < node.key[j]
  <2> SUFFICES ASSUME NEW j \in Live(node), j > r PROVE k < node.key[j]
    OBVIOUS
  <2>1. j \in Int /\ j < node.num
    BY <1>2, <1>3
  <2>2. r + 1 \in Live(node) /\ r + 1 < node.num /\ k < node.key[r + 1]
    BY <1>1, <1>2, <1>5, <2>1 DEF GoesBehind
  <2>3. j = r + 1 \/ node.key[r + 1] < node.key[j]
    BY <1>4, <1>5, <2>1, <2>2
  <2>4. node.key[j] \in Int /\ node.key[r + 1] \in Int
    BY <1>4, <2>2
  <2> QED BY <2>2, <2>3, <2>4
<1>8. b.key[0] = k
  BY DEF Added
<1>9. ASSUME NEW i \in Live(b), i # 0
      PROVE  /\ i > 0 /\ r + i \in Live(node) /\ r + i > r /\ b.key[i] = node.key[r + i]
             /\ l > 0 => b.child[i] = node.child[r + i]
  <2>1. i \in Int /\ i > 0 /\ i < node.num - r /\ i \in Slot
    BY <1>2, <1>3, <1>9
  <2>2. r + i \in Live(node) /\ r + i > r
    BY <1>1, <1>2, <1>5, <2>1
  <2> QED BY <2>1, <2>2
<1>10. Ascends(a) /\ Within(a) /\ a.key[0] = node.key[0]
  BY <1>4, <1>6 DEF Ascends, Within, Keys
<1>11. PartWith(t, a, node, l)
  BY <1>6 DEF PartWith
<1>12. Ascends(b)
  <2> SUFFICES ASSUME NEW i \in Live(b), NEW j \in Live(b), i < j PROVE b.key[i] < b.key[j]
    BY DEF Ascends
  <2>1. i \in Int /\ j \in Int /\ 0 <= i /\ j # 0
    BY <1>2, <1>3
  <2>2. r + j \in Live(node) /\ r + j > r /\ b.key[j] = node.key[r + j]
    BY <1>9, <2>1
  <2>3. CASE i = 0
    BY <1>7, <1>8, <2>2, <2>3
  <2>4. CASE i # 0
    <3>1. r + i \in Live(node) /\ b.key[i] = node.key[r + i] /\ r + i < r + j
      BY <1>5, <1>9, <2>1, <2>4
    <3> QED BY <1>4, <2>2, <3>1
  <2> QED BY <2>3, <2>4
<1>13. Within(b)
  <2> SUFFICES ASSUME NEW i \in Live(b) PROVE b.key[i] < node.next_header
    BY DEF Within, Keys
  <2>1. CASE i = 0
    BY <1>8, <2>1
  <2>2. CASE i # 0
    BY <1>4, <1>9, <2>2
  <2> QED BY <2>1, <2>2
<1>14. PartWith(t, b, node, l)
  <2> SUFFICES ASSUME NEW i \in Live(b), i # 0
               PROVE  \E j \in Live(node) : b.key[i] = node.key[j] /\ (l > 0 => b.child[i] = node.child[j])
    BY DEF PartWith
  <2> QED BY <1>9
<1>15. Keys(node) \subseteq Keys(a) \cup Keys(b)
  <2> SUFFICES ASSUME NEW j \in Live(node) PROVE node.key[j] \in Keys(a) \cup Keys(b)
    BY DEF Keys
  <2>1. j \in Int /\ 0 <= j /\ j < node.num
    BY <1>2, <1>3
  <2>2. CASE j <= r
    <3>1. j \in Live(a)
      BY <1>2, <2>1, <2>2
    <3> QED BY <3>1 DEF Keys
  <2>3. CASE j > r
    <3>1. PICK i \in Int : i = j - r
      BY <1>5, <2>1
    <3>2. i \in Live(b) /\ i # 0 /\ r + i = j
      BY <1>1, <1>2, <1>5, <2>1, <2>3, <3>1
    <3> QED BY <1>9, <3>2 DEF Keys
  <2> QED BY <1>5, <2>1, <2>2, <2>3
<1>16. k \in Keys(b)
  <2>1. 0 \in Live(b)
    BY <1>1, <1>2
  <2> QED BY <1>8, <2>1 DEF Keys
<1>17. Keys(a) \subseteq Keys(node) \cup {k} /\ Keys(b) \subseteq Keys(node) \cup {k}
  BY <1>11, <1>14 DEF PartWith, Added, Keys
<1> QED BY <1>8, <1>10, <1>11, <1>12, <1>13, <1>14, <1>15, <1>16, <1>17

-------------------------------------------------------------------------------
(* The order along the lists and down                                      *)

\* the header of node c is k, or will be: a node that is not in its list yet is
\* put there by the insert it belongs to, with its key
HeadIs(c, k) ==
  /\ InList(c) => GetHeader(heap[c]) = k
  /\ ~InList(c) => \A t \in Threads : Op(t) = "insert" /\ c = NewNode(t, Level(c)) => K(t) = k

\* the sentinels enclose the keys
EndKeys == \A l \in Levels : /\ GetHeader(heap[Header(l)]) = 0
                             /\ GetHeader(heap[EndSentinel(l)]) = Inf

\* keys ascend within a node
Ascending == \A n \in Nexts : Ascends(heap[n]) /\ Within(heap[n])

\* next_header is that of the next node
Following == \A n \in Nexts : /\ heap[n].next # Null
                              /\ heap[n].next_header = GetHeader(heap[heap[n].next])

\* the child of a key leads to that key
Aligned ==
  \A n \in Nexts : Level(n) > 0 =>
    \A i \in Live(heap[n]) : /\ heap[n].child[i] # Null
                             /\ HeadIs(heap[n].child[i], heap[n].key[i])

\* a search goes to nodes that begin at or before its key, and a lookup that has
\* found it to nodes that begin with it
Searching ==
  \A t \in Threads :
    /\ pc[t] = "idle" => phase[t] = "search"
    /\ phase[t] = "again" => Op(t) = "insert"
    /\ pc[t] # "idle" /\ phase[t] = "search" =>
         curr[t] # Null /\ \E h \in 0 .. K(t) : HeadIs(curr[t], h)
    /\ pc[t] # "idle" /\ phase[t] = "down" /\ Op(t) # "insert" =>
         curr[t] # Null /\ HeadIs(curr[t], K(t))

Ordered == EndKeys /\ Ascending /\ Following /\ Aligned /\ Searching

\* The invariant of the order.  A search relies on the headers it was led by
\* (Searching), those on the keys of the nodes above (Aligned), which are there
\* before the node they lead to: its flag keeps the search out until it has the
\* header that was promised (HeadIs, and Linked of LInv).
OInv == LInv /\ Ordered

\* where an override writes
Aim(t) == IF phase[t] = "again" THEN rank[t] ELSE 0
\* ... its key is still there
AimsWell(t) == Overwrite(t) => heap[curr[t]].key[Aim(t)] = K(t)
Aimed == \A t \in Threads : AimsWell(t)

\* a thread at a node is in a list, and a search is right of its key nowhere
LEMMA AtNodeFacts ==
  ASSUME OInv, NEW t \in Threads, pc[t] = "visit"
  PROVE  /\ curr[t] \in Nodes /\ InList(curr[t]) /\ heap[curr[t]] \in NodeOf(Level(curr[t]))
         /\ 0 \in Live(heap[curr[t]]) /\ K(t) \in Int /\ K(t) < Inf /\ 0 <= K(t)
         /\ phase[t] = "search" => curr[t] \in Nexts /\ GetHeader(heap[curr[t]]) <= K(t)
         /\ phase[t] = "down" /\ Op(t) # "insert" =>
              curr[t] \in Nexts /\ GetHeader(heap[curr[t]]) = K(t)
         /\ Op(t) = "insert" => curr[t] \in Nexts
<1>1. IInv /\ HeldIn /\ Going /\ EndKeys /\ Searching
  BY DEF OInv, LInv, Links, LocksHeld, Ordered
<1>2. PICK n \in Nodes : n = curr[t]
  BY <1>1 DEF IInv, TypeOK
<1>3. InList(n) /\ heap[n] \in NodeOf(Level(n)) /\ Level(n) \in Levels
  BY <1>1, <1>2, NodeNames DEF HeldIn, Flagging, Holding, IInv, Shaped
<1>4. K(t) \in Int /\ K(t) < Inf /\ 0 <= K(t) /\ Inf \in Int
  <2>1. K(t) \in 0 .. Inf - 1
    BY <1>1, CallType DEF IInv
  <2> QED BY <2>1, Constants
<1>5. 0 \in Live(heap[n])
  BY <1>3, LiveRanks DEF InList
<1>6. n # EndSentinel(Level(n)) => n \in Nexts
  BY <1>3 DEF Nexts, IsTail
<1>7. GetHeader(heap[n]) # Inf => n \in Nexts
  BY <1>1, <1>3, <1>6 DEF EndKeys
<1>8. CASE phase[t] = "search"
  <2>1. PICK h \in 0 .. K(t) : HeadIs(n, h)
    BY <1>1, <1>2, <1>8 DEF Searching
  <2>2. GetHeader(heap[n]) = h /\ h <= K(t) /\ h \in Int
    BY <1>3, <2>1 DEF HeadIs
  <2>3. GetHeader(heap[n]) # Inf
    BY <1>4, <2>2
  <2>4. GetHeader(heap[n]) <= K(t) /\ n \in Nexts
    BY <1>7, <2>2, <2>3
  <2> QED BY <1>2, <1>3, <1>4, <1>5, <1>8, <2>4
<1>9. phase[t] = "down" /\ Op(t) # "insert" => n \in Nexts /\ GetHeader(heap[n]) = K(t)
  <2> SUFFICES ASSUME phase[t] = "down", Op(t) # "insert" PROVE n \in Nexts /\ GetHeader(heap[n]) = K(t)
    OBVIOUS
  <2>1. GetHeader(heap[n]) = K(t)
    BY <1>1, <1>2, <1>3 DEF Searching, HeadIs
  <2> QED BY <1>4, <1>7, <2>1
<1>10. Op(t) = "insert" => n \in Nexts
  BY <1>1, <1>2, <1>3, <1>6 DEF Going
<1> QED BY <1>2, <1>3, <1>4, <1>5, <1>8, <1>9, <1>10

\* find_key_and_check answers the last key that is not above
LEMMA AtRank ==
  ASSUME OInv, NEW t \in Threads, NEW r, At(t, r)
  PROVE  LET n == curr[t] IN
           /\ n \in Nexts /\ n \in Nodes /\ heap[n] \in NodeOf(Level(n))
           /\ r \in Live(heap[n]) /\ r \in Nat
           /\ heap[n].key[r] <= K(t)
           /\ r + 1 < heap[n].num => K(t) < heap[n].key[r + 1]
           /\ K(t) < heap[n].next_header
           /\ Ascends(heap[n]) /\ Within(heap[n]) /\ heap[n].next_header \in Int
<1>1. pc[t] = "visit" /\ phase[t] = "search" /\ heap[curr[t]].next_header > K(t)
      /\ IsRank(heap[curr[t]], K(t), r)
  BY DEF At
<1>2. PICK n \in Nexts : n = curr[t]
  BY <1>1, AtNodeFacts
<1>3. /\ n \in Nodes /\ heap[n] \in NodeOf(Level(n)) /\ 0 \in Live(heap[n])
      /\ K(t) \in Int /\ heap[n].key[0] <= K(t)
  BY <1>1, <1>2, AtNodeFacts DEF GetHeader
<1>4. PICK node \in NodeOf(Level(n)) : node = heap[n]
  BY <1>3
<1>5. /\ node.num \in Int /\ node.num <= MaxKeys
      /\ \A i \in Int : i \in Live(node) <=> 0 <= i /\ i < node.num
      /\ Live(node) \subseteq Int /\ Live(node) \subseteq Slot
      /\ \A i \in Slot : node.key[i] \in Int
  BY LiveRanks
<1>6. Ascends(node) /\ Within(node) /\ node.next_header \in Int
  <2>1. node.next_header \in AnyKey
    BY DEF NodeOf
  <2> QED BY <1>2, <1>4, <2>1, Constants DEF OInv, Ordered, Ascending
<1>7. 0 \in Leading(node, K(t))
  <2>1. \A j \in 0 .. 0 : j = 0
    OBVIOUS
  <2> QED BY <1>3, <1>4, <2>1 DEF Leading
<1>8. r \in Leading(node, K(t)) /\ r + 1 \notin Leading(node, K(t))
  BY <1>1, <1>2, <1>4, <1>7 DEF IsRank
<1>9. r \in Live(node) /\ r \in Int /\ 0 <= r /\ \A j \in 0 .. r : node.key[j] <= K(t)
  BY <1>5, <1>8 DEF Leading
<1>10. node.key[r] <= K(t)
  <2>1. r \in 0 .. r
    BY <1>9
  <2> QED BY <1>9, <2>1
<1>11. r + 1 < node.num => K(t) < node.key[r + 1]
  <2> SUFFICES ASSUME r + 1 < node.num PROVE K(t) < node.key[r + 1]
    OBVIOUS
  <2>1. r + 1 \in Live(node) /\ r + 1 \in Slot /\ node.key[r + 1] \in Int
    BY <1>5, <1>9
  <2>2. PICK j \in 0 .. r + 1 : ~(node.key[j] <= K(t))
    BY <1>8, <2>1 DEF Leading
  <2>3. j = r + 1
    BY <1>9, <2>2
  <2> QED BY <1>3, <2>1, <2>2, <2>3
<1>12. K(t) < node.next_header
  BY <1>1, <1>2, <1>3, <1>4, <1>6
<1> QED BY <1>2, <1>3, <1>4, <1>6, <1>9, <1>10, <1>11, <1>12

\* ... and a key that is not there goes behind it
LEMMA MissRank ==
  ASSUME OInv, NEW t \in Threads, NEW r, At(t, r), ~Hit(t, r)
  PROVE  LET n == curr[t] IN
           /\ n \in Nexts /\ heap[n] \in NodeOf(Level(n))
           /\ GoesBehind(heap[n], K(t), r) /\ K(t) < heap[n].next_header
           /\ Ascends(heap[n]) /\ Within(heap[n])
           /\ heap[n].next_header \in Int /\ K(t) \in Int
<1>1. At(t, r) /\ ~Hit(t, r)
  OBVIOUS
<1>2. /\ curr[t] \in Nexts /\ heap[curr[t]] \in NodeOf(Level(curr[t]))
      /\ r \in Live(heap[curr[t]])
      /\ heap[curr[t]].key[r] <= K(t)
      /\ r + 1 < heap[curr[t]].num => K(t) < heap[curr[t]].key[r + 1]
      /\ K(t) < heap[curr[t]].next_header
      /\ Ascends(heap[curr[t]]) /\ Within(heap[curr[t]]) /\ heap[curr[t]].next_header \in Int
  BY <1>1, AtRank
<1>3. K(t) \in Int
  BY <1>1, AtNodeFacts DEF At
<1>4. heap[curr[t]].key[r] \in Int /\ r < heap[curr[t]].num
  BY <1>2, LiveRanks DEF Live
<1>5. heap[curr[t]].key[r] < K(t)
  BY <1>1, <1>2, <1>3, <1>4 DEF Hit
<1> QED BY <1>2, <1>3, <1>4, <1>5 DEF GoesBehind

\* ... where an insert puts it
LEMMA MissingRank ==
  ASSUME OInv, NEW t \in Threads, NEW r, Missing(t, r)
  PROVE  LET n == curr[t] IN
           /\ n \in Nexts /\ heap[n] \in NodeOf(Level(n))
           /\ GoesBehind(heap[n], K(t), r) /\ K(t) < heap[n].next_header
           /\ Ascends(heap[n]) /\ Within(heap[n])
           /\ heap[n].next_header \in Int /\ K(t) \in Int
BY MissRank DEF Missing

-------------------------------------------------------------------------------
(* What a step makes of the order                                          *)

\* the insert of t wrote one node, in order
OnePut(t) ==
  LET a == heap'[curr[t]]
      b == heap[curr[t]]
  IN /\ Ascends(a) /\ Within(a) /\ a.key[0] = b.key[0]
     /\ PartWith(t, a, b, Level(curr[t]))
     /\ (\E r \in Nat : Missing(t, r)) => Keys(a) = Keys(b) \cup {K(t)}
     /\ (~\E r \in Nat : Missing(t, r)) => Keys(a) = Keys(b)

\* ... or two: the new one begins where the other ends, with the key of the
\* insert if its flag was set
TwoPut(t) ==
  LET new == NewNode(t, Level(curr[t]))
      a == heap'[curr[t]]
      b == heap[curr[t]]
      c == heap'[new]
  IN /\ Ascends(a) /\ Within(a) /\ a.key[0] = b.key[0]
     /\ Ascends(c) /\ Within(c) /\ a.next_header = c.key[0]
     /\ PartWith(t, a, b, Level(curr[t])) /\ PartWith(t, c, b, Level(curr[t]))
     /\ Keys(a) \cup Keys(c) = Keys(b) \cup {K(t)}
     /\ writer[new] => c.key[0] = K(t)

\* a node with room takes the key
LEMMA HereOrder ==
  ASSUME OInv, NEW t \in Threads, NEW r \in Nat, InsertHere(t, r)
  PROVE  OnePut(t)
<1>1. /\ Missing(t, r) /\ heap[curr[t]].num + 1 <= MaxKeys
      /\ heap' = [heap EXCEPT ![curr[t]] =
                   Place(t, heap[curr[t]], Level(curr[t]), r + 1, FALSE)]
  BY DEF InsertHere
<1>2. /\ curr[t] \in Nodes /\ Level(curr[t]) \in Levels /\ heap[curr[t]] \in NodeOf(Level(curr[t]))
      /\ K(t) \in AnyKey /\ call[t].arg \in Nat
      /\ Level(curr[t]) > 0 => NewNode(t, Level(curr[t]) - 1) \in Peers(Level(curr[t]) - 1)
  BY <1>1, InsertFacts DEF OInv, LInv
<1>3. /\ GoesBehind(heap[curr[t]], K(t), r) /\ K(t) < heap[curr[t]].next_header
      /\ Ascends(heap[curr[t]]) /\ Within(heap[curr[t]])
  BY <1>1, MissingRank
<1>4. heap[curr[t]].num < MaxKeys /\ r + 1 \in Nat /\ FALSE \in BOOLEAN
  BY <1>1, <1>2, LiveRanks, Constants
<1>5. PICK a : a = Place(t, heap[curr[t]], Level(curr[t]), r + 1, FALSE)
  OBVIOUS
<1>6. /\ Ascends(a) /\ a.key[0] = heap[curr[t]].key[0]
      /\ PartWith(t, a, heap[curr[t]], Level(curr[t]))
      /\ Keys(heap[curr[t]]) \subseteq Keys(a) /\ Keys(a) \subseteq Keys(heap[curr[t]]) \cup {K(t)}
      /\ K(t) \in Keys(a)
  BY <1>2, <1>3, <1>4, <1>5, PlaceOrder
<1>7. a.next_header = heap[curr[t]].next_header
  BY <1>2, <1>4, <1>5, PlaceBound
<1>8. Within(a)
  BY <1>3, <1>6, <1>7 DEF Within
<1>9. heap'[curr[t]] = a
  BY <1>1, <1>2, <1>5 DEF OInv, LInv, IInv, TypeOK
<1> QED BY <1>1, <1>6, <1>8, <1>9 DEF OnePut

\* an override that aims well writes the key that is there
LEMMA OverwriteOrder ==
  ASSUME OInv, NEW t \in Threads, Overwrite(t), heap[curr[t]].key[Aim(t)] = K(t)
  PROVE  OnePut(t)
<1>1. /\ pc[t] = "visit" /\ Op(t) = "insert"
      /\ heap' = [heap EXCEPT ![curr[t]] = BlindWrite(@, Aim(t), K(t), call[t].arg)]
  BY DEF Overwrite, Aim
<1>2. PICK n \in Nexts : n = curr[t] /\ n \in Nodes
  BY <1>1, AtNodeFacts
<1>3. Ascends(heap[n]) /\ Within(heap[n]) /\ heap[n] \in NodeOf(Level(n))
  BY <1>2 DEF OInv, Ordered, Ascending, LInv, IInv, Shaped
<1>4. PICK a : a = BlindWrite(heap[n], Aim(t), K(t), call[t].arg)
  OBVIOUS
<1>5. heap'[n] = a
  BY <1>1, <1>2, <1>4 DEF OInv, LInv, IInv, TypeOK
<1>6. /\ a.num = heap[n].num /\ a.child = heap[n].child /\ a.next_header = heap[n].next_header
      /\ a.key = [heap[n].key EXCEPT ![Aim(t)] = K(t)]
  BY <1>3, <1>4 DEF BlindWrite, NodeOf
<1>7. a.key = heap[n].key
  BY <1>2, <1>3, <1>6 DEF NodeOf
<1>8. Live(a) = Live(heap[n]) /\ Keys(a) = Keys(heap[n])
  BY <1>6, <1>7 DEF Live, Keys
<1>9. Ascends(a) /\ Within(a) /\ PartWith(t, a, heap[n], Level(n))
  BY <1>3, <1>6, <1>7, <1>8 DEF Ascends, Within, PartWith
<1>10. ~\E r \in Nat : Missing(t, r)
  BY DEF Overwrite, Missing, At
<1> QED BY <1>2, <1>5, <1>7, <1>8, <1>9, <1>10 DEF OnePut

\* the node that a full node of the key's own level splits into has no flag
LEMMA NewUnlocked ==
  ASSUME OInv, NEW t \in Threads, NEW r, Missing(t, r), Promote(t) = Level(curr[t])
  PROVE  ~writer[NewNode(t, Level(curr[t]))]
<1>1. IInv /\ Prepared
  BY DEF OInv, LInv, LocksHeld
<1>2. /\ Op(t) = "insert" /\ phase[t] = "search" /\ curr[t] # Null
      /\ Level(curr[t]) \in Levels /\ Level(curr[t]) \in Int
  BY <1>1, InsertFacts, NodeNames, Constants
<1> QED BY <1>1, <1>2 DEF Prepared

\* the left half takes the key
LEMMA LeftOrder ==
  ASSUME OInv, NEW t \in Threads, NEW r \in Nat, InsertLeft(t, r)
  PROVE  TwoPut(t)
<1>1. Missing(t, r) /\ heap[curr[t]].num + 1 > MaxKeys /\ r + 1 <= Half(heap[curr[t]])
      /\ Promote(t) = Level(curr[t])
  BY DEF InsertLeft
<1>2. PICK n : n = curr[t]
  OBVIOUS
<1>3. PICK l : l = Level(n)
  OBVIOUS
<1>4. PICK new : new = NewNode(t, l)
  OBVIOUS
<1>5. /\ n \in Nodes /\ l \in Levels /\ heap[n] \in NodeOf(l)
      /\ new \in Nodes /\ new \in Peers(l) /\ new # n
      /\ heap[new] \in NodeOf(l) /\ heap[new].num = 0
      /\ K(t) \in AnyKey /\ call[t].arg \in Nat
      /\ l > 0 => NewNode(t, l - 1) \in Peers(l - 1)
  BY <1>1, <1>2, <1>3, <1>4, InsertFacts DEF OInv, LInv
<1>6. PICK node \in NodeOf(l) : node = heap[n]
  BY <1>5
<1>7. PICK blank \in NodeOf(l) : blank = heap[new]
  BY <1>5
<1>8. /\ GoesBehind(node, K(t), r) /\ K(t) < node.next_header
      /\ Ascends(node) /\ Within(node) /\ K(t) \in Int /\ node.next_header \in Int
  BY <1>1, <1>2, <1>6, MissingRank
<1>9. PICK half \in NodeOf(l) : half = LeftHalf(node, new)
  BY <1>1, <1>2, <1>5, <1>6, LeftHalfShape, LiveRanks, Constants
<1>10. PICK c : c = RightHalf(node, blank)
  OBVIOUS
<1>11. PICK a : a = Place(t, half, l, r + 1, TRUE)
  OBVIOUS
<1>12. heap'[n] = a /\ heap'[new] = c
  <2>1. heap' = [heap EXCEPT ![new] = c, ![n] = a]
    BY <1>2, <1>3, <1>4, <1>5, <1>6, <1>7, <1>9, <1>10, <1>11 DEF InsertLeft
  <2> QED BY <1>5, <2>1 DEF OInv, LInv, IInv, TypeOK
<1>13. node.num >= MaxKeys /\ MaxKeys \in Int /\ blank.num = 0 /\ node.num = MaxKeys
  BY <1>1, <1>2, <1>5, <1>6, <1>7, LiveRanks, Constants, HalfOfFull
<1>14. /\ Ascends(half) /\ Within(half) /\ Part(half, node, l) /\ half.key[0] = node.key[0]
       /\ Ascends(c) /\ Part(c, node, l) /\ Keys(c) \subseteq Keys(node)
       /\ half.next_header = c.key[0]
       /\ Keys(node) \subseteq Keys(half) \cup Keys(c)
  BY <1>5, <1>8, <1>9, <1>10, <1>13, HalvesOrder
<1>15. PICK h : h = Half(node) /\ h \in Int /\ h \in Slot /\ h < MaxKeys
  BY <1>5, <1>13, HalfOfFull, Constants
<1>16. /\ half.num = h /\ half.key = node.key /\ half.next_header = node.key[h]
       /\ c.next_header = node.next_header
  BY <1>5, <1>9, <1>10, <1>13, <1>15, LeftHalfShape, HalfArrays
<1>17. r + 1 <= h /\ r + 1 \in Nat /\ TRUE \in BOOLEAN
  BY <1>1, <1>2, <1>6, <1>15
<1>18. K(t) < node.key[h]
  <2>1. /\ node.num = MaxKeys /\ h \in Live(node)
        /\ \A i \in Int : i \in Live(node) <=> 0 <= i /\ i < node.num
    BY <1>13, <1>15, HalfOfFull, LiveRanks DEF Live
  <2>2. r + 1 < node.num /\ r + 1 \in Live(node) /\ K(t) < node.key[r + 1]
    <3>1. 0 <= r + 1 /\ r + 1 \in Int /\ r + 1 < node.num
      BY <1>13, <1>15, <1>17
    <3> QED BY <1>8, <2>1, <3>1 DEF GoesBehind
  <2>3. node.key[r + 1] \in Int /\ node.key[h] \in Int
    BY <2>1, <2>2, LiveRanks
  <2>4. r + 1 = h \/ node.key[r + 1] < node.key[h]
    BY <1>8, <1>15, <1>17, <2>1, <2>2 DEF Ascends
  <2> QED BY <1>8, <2>2, <2>3, <2>4
<1>19. GoesBehind(half, K(t), r) /\ half.num < MaxKeys
  <2>1. r < h /\ r < half.num /\ half.num < MaxKeys /\ half.key = node.key
    BY <1>13, <1>15, <1>16, <1>17
  <2>2. r + 1 < half.num => r + 1 < node.num
    BY <1>13, <1>15, <1>16, <1>17
  <2> QED BY <1>8, <2>1, <2>2 DEF GoesBehind
<1>20. /\ Ascends(a) /\ a.key[0] = half.key[0]
       /\ PartWith(t, a, half, l)
       /\ Keys(half) \subseteq Keys(a) /\ Keys(a) \subseteq Keys(half) \cup {K(t)}
       /\ K(t) \in Keys(a)
  BY <1>5, <1>11, <1>14, <1>17, <1>19, PlaceOrder
<1>21. a.next_header = half.next_header
  BY <1>5, <1>11, <1>17, PlaceBound
<1>22. Within(a)
  BY <1>14, <1>16, <1>18, <1>20, <1>21 DEF Within
<1>23. Within(c)
  BY <1>8, <1>14, <1>16 DEF Within
<1>24. PartWith(t, a, node, l) /\ PartWith(t, c, node, l)
  BY <1>14, <1>20, PartOfPart, PartIsPartWith
<1>25. ~writer[new]
  BY <1>1, <1>2, <1>3, <1>4, NewUnlocked
<1>26. /\ Keys(a) \cup Keys(c) = Keys(node) \cup {K(t)}
       /\ a.next_header = c.key[0] /\ a.key[0] = node.key[0]
  <2>1. Keys(half) \subseteq Keys(node)
    BY <1>14 DEF Part, Keys
  <2> QED BY <1>14, <1>20, <1>21, <2>1
<1> QED BY <1>2, <1>3, <1>4, <1>6, <1>12, <1>14, <1>20, <1>22, <1>23, <1>24, <1>25, <1>26 DEF TwoPut

\* the right half takes it
LEMMA RightOrder ==
  ASSUME OInv, NEW t \in Threads, NEW r \in Nat, InsertRight(t, r)
  PROVE  TwoPut(t)
<1>1. Missing(t, r) /\ heap[curr[t]].num + 1 > MaxKeys /\ r + 1 > Half(heap[curr[t]])
      /\ Promote(t) = Level(curr[t])
  BY DEF InsertRight
<1>2. PICK n : n = curr[t]
  OBVIOUS
<1>3. PICK l : l = Level(n)
  OBVIOUS
<1>4. PICK new : new = NewNode(t, l)
  OBVIOUS
<1>5. /\ n \in Nodes /\ l \in Levels /\ heap[n] \in NodeOf(l)
      /\ new \in Nodes /\ new \in Peers(l) /\ new # n
      /\ heap[new] \in NodeOf(l) /\ heap[new].num = 0
      /\ K(t) \in AnyKey /\ call[t].arg \in Nat
      /\ l > 0 => NewNode(t, l - 1) \in Peers(l - 1)
      /\ r < heap[n].num
  BY <1>1, <1>2, <1>3, <1>4, InsertFacts DEF OInv, LInv
<1>6. PICK node \in NodeOf(l) : node = heap[n]
  BY <1>5
<1>7. PICK blank \in NodeOf(l) : blank = heap[new]
  BY <1>5
<1>8. /\ GoesBehind(node, K(t), r) /\ K(t) < node.next_header
      /\ Ascends(node) /\ Within(node) /\ K(t) \in Int /\ node.next_header \in Int
  BY <1>1, <1>2, <1>6, MissingRank
<1>9. node.num >= MaxKeys /\ MaxKeys \in Int /\ blank.num = 0 /\ node.num = MaxKeys
  BY <1>1, <1>2, <1>5, <1>6, <1>7, LiveRanks, Constants, HalfOfFull
<1>10. PICK h : h = Half(node) /\ h \in Int /\ h \in Slot /\ h < MaxKeys /\ h > 0
  BY <1>5, <1>9, HalfOfFull, Constants
<1>11. PICK at : at = r - h /\ at \in Nat /\ at + 1 \in Nat /\ h + at = r
  BY <1>1, <1>2, <1>6, <1>10
<1>12. PICK a : a = LeftHalf(node, new)
  OBVIOUS
<1>13. PICK half \in NodeOf(l) : half = RightHalf(node, blank) /\ half.num = MaxKeys - h
  BY <1>5, <1>9, <1>10, RightHalfShape
<1>14. PICK c : c = Place(t, half, l, at + 1, TRUE)
  OBVIOUS
<1>15. heap'[n] = a /\ heap'[new] = c
  <2>1. heap' = [heap EXCEPT ![new] = c, ![n] = a]
    BY <1>2, <1>3, <1>4, <1>5, <1>6, <1>7, <1>10, <1>11, <1>12, <1>13, <1>14 DEF InsertRight
  <2> QED BY <1>5, <2>1 DEF OInv, LInv, IInv, TypeOK
<1>16. /\ Ascends(a) /\ Within(a) /\ Part(a, node, l) /\ a.key[0] = node.key[0]
       /\ Ascends(half) /\ Part(half, node, l) /\ Keys(half) \subseteq Keys(node)
       /\ a.next_header = half.key[0]
       /\ Keys(node) \subseteq Keys(a) \cup Keys(half)
  BY <1>5, <1>8, <1>9, <1>12, <1>13, HalvesOrder
<1>17. /\ half.next_header = node.next_header
       /\ \A i \in Slot : i < MaxKeys - h => half.key[i] = node.key[h + i]
  BY <1>5, <1>9, <1>10, <1>13, HalfArrays
<1>18. GoesBehind(half, K(t), at) /\ half.num < MaxKeys
  <2>1. at < half.num /\ at \in Slot
    <3>1. r < MaxKeys
      BY <1>5, <1>6, <1>9
    <3> QED BY <1>9, <1>10, <1>11, <1>13, <3>1, Constants
  <2>2. half.key[at] = node.key[r]
    BY <1>11, <1>13, <1>17, <2>1
  <2>3. at + 1 < half.num => half.key[at + 1] = node.key[r + 1] /\ r + 1 < node.num
    <3> SUFFICES ASSUME at + 1 < half.num
                 PROVE  half.key[at + 1] = node.key[r + 1] /\ r + 1 < node.num
      OBVIOUS
    <3>1. at + 1 \in Slot /\ at + 1 < MaxKeys - h /\ h + (at + 1) = r + 1 /\ r + 1 < MaxKeys
      BY <1>9, <1>10, <1>11, <1>13, Constants
    <3> QED BY <1>9, <1>17, <3>1
  <2> QED BY <1>8, <1>9, <1>10, <1>13, <2>1, <2>2, <2>3 DEF GoesBehind
<1>19. /\ Ascends(c) /\ c.key[0] = half.key[0]
       /\ PartWith(t, c, half, l)
       /\ Keys(half) \subseteq Keys(c) /\ Keys(c) \subseteq Keys(half) \cup {K(t)}
       /\ K(t) \in Keys(c)
  <2>1. TRUE \in BOOLEAN
    OBVIOUS
  <2>2. /\ Ascends(half) /\ GoesBehind(half, K(t), at) /\ half.num < MaxKeys /\ at \in Nat
        /\ K(t) \in AnyKey /\ call[t].arg \in Nat /\ l \in Levels
        /\ l > 0 => NewNode(t, l - 1) \in Peers(l - 1)
    BY <1>5, <1>11, <1>16, <1>18
  <2> QED BY <1>14, <2>1, <2>2, PlaceOrder
<1>20. c.next_header = node.next_header
  <2>1. TRUE \in BOOLEAN
    OBVIOUS
  <2>2. PICK q \in Nat : q = at + 1
    BY <1>11
  <2>3. c = Place(t, half, l, q, TRUE)
    BY <1>14, <2>2
  <2>4. c.next_header = half.next_header
    BY <1>5, <2>1, <2>3, PlaceBound
  <2> QED BY <1>17, <2>4
<1>21. Within(c)
  BY <1>8, <1>16, <1>19, <1>20 DEF Within
<1>22. PartWith(t, c, node, l) /\ PartWith(t, a, node, l)
  BY <1>16, <1>19, PartOfPart, PartIsPartWith
<1>23. ~writer[new]
  BY <1>1, <1>2, <1>3, <1>4, NewUnlocked
<1>24. Keys(a) \cup Keys(c) = Keys(node) \cup {K(t)} /\ a.next_header = c.key[0]
  <2>1. Keys(a) \subseteq Keys(node)
    BY <1>16 DEF Part, Keys
  <2> QED BY <1>16, <1>19, <2>1
<1> QED BY <1>2, <1>3, <1>4, <1>6, <1>15, <1>16, <1>19, <1>21, <1>22, <1>23, <1>24 DEF TwoPut

\* the key heads a node of its own
LEMMA PromotedOrder ==
  ASSUME OInv, NEW t \in Threads, NEW r \in Nat, PromoteSplit(t, r)
  PROVE  TwoPut(t)
<1>1. Missing(t, r)
  BY DEF PromoteSplit
<1>2. PICK n : n = curr[t]
  OBVIOUS
<1>3. PICK l : l = Level(n)
  OBVIOUS
<1>4. PICK new : new = NewNode(t, l)
  OBVIOUS
<1>5. /\ n \in Nodes /\ l \in Levels /\ heap[n] \in NodeOf(l)
      /\ new \in Nodes /\ new \in Peers(l) /\ new # n
      /\ heap[new] \in NodeOf(l) /\ heap[new].num = 0
      /\ K(t) \in AnyKey /\ call[t].arg \in Nat
      /\ l > 0 => NewNode(t, l - 1) \in Peers(l - 1)
      /\ r < heap[n].num
  BY <1>1, <1>2, <1>3, <1>4, InsertFacts DEF OInv, LInv
<1>6. PICK node \in NodeOf(l) : node = heap[n]
  BY <1>5
<1>7. PICK blank \in NodeOf(l) : blank = heap[new]
  BY <1>5
<1>8. PICK k \in Int : k = K(t)
  BY <1>5, Constants
<1>9. /\ GoesBehind(node, k, r) /\ k < node.next_header
      /\ Ascends(node) /\ Within(node) /\ node.next_header \in Int
  BY <1>1, <1>2, <1>6, <1>8, MissingRank
<1>10. PICK a : a = KeptPart(t, node, new, r)
  OBVIOUS
<1>11. PICK c : c = HeadedPart(t, node, blank, l, r)
  OBVIOUS
<1>13. heap'[n] = a /\ heap'[new] = c
  <2>1. heap' = [heap EXCEPT ![new] = c, ![n] = a]
    BY <1>2, <1>3, <1>4, <1>5, <1>6, <1>7, <1>10, <1>11 DEF PromoteSplit, KeptPart, HeadedPart
  <2> QED BY <1>5, <2>1 DEF OInv, LInv, IInv, TypeOK
<1>14. /\ a.num = r + 1 /\ a.key = node.key /\ a.child = node.child /\ a.next_header = K(t)
       /\ c.num = node.num - r /\ c.next_header = node.next_header
       /\ Added(t, c, 0, l)
       /\ \A i \in Slot : 0 < i /\ i < node.num - r =>
            c.key[i] = node.key[r + i] /\ (l > 0 => c.child[i] = node.child[r + i])
  <2>1. r < node.num /\ blank.num = 0
    BY <1>5, <1>6, <1>7
  <2> QED BY <1>5, <1>10, <1>11, <2>1, PromoteArrays
<1>15. /\ Ascends(a) /\ Within(a) /\ a.key[0] = node.key[0] /\ PartWith(t, a, node, l)
       /\ Ascends(c) /\ Within(c) /\ a.next_header = c.key[0] /\ PartWith(t, c, node, l)
       /\ Keys(a) \cup Keys(c) = Keys(node) \cup {K(t)}
  BY <1>5, <1>8, <1>9, <1>14, PromoteOrder
<1>16. c.key[0] = K(t)
  BY <1>14, <1>15
<1> QED BY <1>2, <1>3, <1>4, <1>6, <1>13, <1>15, <1>16 DEF TwoPut

\* what a step makes of the nodes, with their order
LEMMA OrderEffect ==
  ASSUME OInv, NEW t \in Threads, Step(t), AimsWell(t)
  PROVE  \/ heap' = heap
         \/ /\ curr[t] \in Nexts /\ pc[t] = "visit"
            /\ \/ Wrote(t) /\ OnePut(t) /\ (Level(curr[t]) = 0 \/ \E r \in Nat : Missing(t, r))
               \/ Divided(t) /\ TwoPut(t) /\ \E r \in Nat : Missing(t, r)
<1>1. IInv /\ HeldIn
  BY DEF OInv, LInv, LocksHeld
<1>2. Overwrite(t) => curr[t] \in Nexts /\ pc[t] = "visit" /\ Level(curr[t]) = 0
  BY AtNodeFacts DEF Overwrite
<1>3. \A r : Missing(t, r) => curr[t] \in Nexts /\ pc[t] = "visit"
  BY MissingRank DEF Missing, At
<1>4. ASSUME NEW r \in Nat, InsertHere(t, r) PROVE OnePut(t) /\ Missing(t, r)
  BY <1>4, HereOrder DEF InsertHere
<1>5. ASSUME NEW r \in Nat, InsertLeft(t, r) \/ InsertRight(t, r) \/ PromoteSplit(t, r)
      PROVE  TwoPut(t) /\ Missing(t, r)
  <2>1. Missing(t, r)
    BY <1>5 DEF InsertLeft, InsertRight, PromoteSplit
  <2> QED BY <1>5, <2>1, LeftOrder, RightOrder, PromotedOrder
<1> QED BY <1>1, <1>2, <1>3, <1>4, <1>5, HeapEffect, OverwriteOrder DEF AimsWell

-------------------------------------------------------------------------------
(* The order stays                                                         *)

\* a step keeps the types and the locks
LEMMA LInvStep ==
  ASSUME LInv, NEW t \in Threads, Step(t)
  PROVE  LInv'
BY LInvNext DEF Next

\* the header of a node in a list stays, and its next_header moves left at most
LEMMA HeadersStay ==
  ASSUME OInv, NEW t \in Threads, Step(t), AimsWell(t), NEW n \in Nodes, InList(n)
  PROVE  /\ InList(n)' /\ heap'[n].num > 0
         /\ GetHeader(heap'[n]) = GetHeader(heap[n])
         /\ heap'[n].next_header <= heap[n].next_header
<1>1. heap'[n].num > 0
  BY ListGrows DEF OInv, LInv, LocksHeld
<1>2. heap[n].next_header \in Int
  BY Constants DEF OInv, LInv, IInv, TypeOK, NodeType
<1>3. CASE heap'[n] = heap[n]
  BY <1>1, <1>2, <1>3 DEF InList
<1>4. CASE Wrote(t) /\ OnePut(t) /\ n = curr[t]
  BY <1>1, <1>2, <1>4 DEF Wrote, OnePut, SameLinks, GetHeader, InList
<1>5. CASE Divided(t) /\ TwoPut(t) /\ n = curr[t]
  <2>1. PICK c \in Nodes : c = NewNode(t, Level(n))
    BY <1>5 DEF Divided
  <2>2. /\ heap'[c].num > 0 /\ heap'[c].next_header = heap[n].next_header
        /\ Within(heap'[c]) /\ heap'[n].next_header = heap'[c].key[0]
        /\ heap'[n].key[0] = heap[n].key[0]
    BY <1>5, <2>1 DEF Divided, TwoPut, SameLinks
  <2>3. 0 \in Slot
    BY Constants
  <2>4. heap'[c].key[0] < heap[n].next_header
    BY <2>2, <2>3 DEF Within, Keys, Live
  <2>5. heap'[c].key[0] \in Int
    <3>1. heap'[c] \in NodeType(Pointers)
      BY <2>1, LInvStep DEF OInv, LInv, IInv, TypeOK
    <3> QED BY <2>3, <3>1, Constants DEF NodeType
  <2> QED BY <1>1, <1>2, <2>2, <2>4, <2>5 DEF GetHeader, InList
<1>6. CASE Divided(t) /\ n # curr[t]
  BY <1>3, <1>6 DEF Divided, InList
<1>7. CASE Wrote(t) /\ n # curr[t]
  BY <1>3, <1>7 DEF Wrote
<1> QED BY <1>3, <1>4, <1>5, <1>6, <1>7, OrderEffect

\* an insert keeps its key and its names to its end
LEMMA InsertKept ==
  ASSUME LInv, NEW t \in Threads, Step(t), NEW u \in Threads, call'[u].op = "insert",
         ~(u = t /\ StartInsert(t))
  PROVE  call'[u] = call[u] /\ ins'[u] = ins[u]
BY InsStep, OthersKept DEF LInv, SameThread

\* the header that a node has, or is promised, stays
LEMMA HeadStays ==
  ASSUME OInv, NEW t \in Threads, Step(t), AimsWell(t), NEW c \in Nodes, Ready(c),
         NEW k, HeadIs(c, k)
  PROVE  HeadIs(c, k)'
<1>1. LInv /\ IInv /\ Prepared
  BY DEF OInv, LInv, LocksHeld
<1>2. CASE InList(c)
  BY <1>2, HeadersStay DEF HeadIs, InList
<1>3. CASE ~InList(c) /\ ~InList(c)'
  <2>1. writer[c]
    BY <1>3 DEF Ready
  <2> SUFFICES ASSUME NEW u \in Threads, call'[u].op = "insert", c = <<u, ins'[u], Level(c)>>
               PROVE  call'[u].key = k
    BY <1>3 DEF HeadIs, Op, NewNode, K, InList
  <2>2. ~(u = t /\ StartInsert(t))
    <3> SUFFICES ASSUME u = t, StartInsert(t) PROVE FALSE
      OBVIOUS
    <3>1. ins'[t] = ins[t] + 1 /\ ins'[t] \in 1 .. MaxInserts[t] /\ ins[t] \in Nat
      BY <1>1, InsGrows
    <3>2. ins'[t] > ins[t] /\ Level(c) \in Levels
      BY <3>1, NodeNames
    <3>3. ~writer[<<t, ins'[t], Level(c)>>]
      BY <1>1, <3>1, <3>2 DEF Prepared
    <3> QED BY <2>1, <3>3
  <2>3. call'[u] = call[u] /\ ins'[u] = ins[u]
    BY <1>1, <2>2, InsertKept
  <2> QED BY <1>3, <2>3 DEF HeadIs, Op, NewNode, K
<1>4. CASE ~InList(c) /\ InList(c)'
  <2>1. heap' # heap
    BY <1>4 DEF InList
  <2>2. ~(Wrote(t) /\ curr[t] \in Nexts)
    BY <1>4 DEF InList, Wrote, Nexts
  <2>3. Divided(t) /\ TwoPut(t) /\ \E r \in Nat : Missing(t, r)
    BY <2>1, <2>2, OrderEffect
  <2>4. c = NewNode(t, Level(curr[t])) /\ Level(c) = Level(curr[t])
    BY <1>4, <2>3 DEF Divided, InList
  <2>5. heap'[c].key[0] = K(t)
    BY <1>4, <2>3, <2>4 DEF TwoPut, Ready
  <2>6. Op(t) = "insert"
    BY <2>3 DEF Missing
  <2>7. K(t) = k
    BY <1>4, <2>4, <2>6 DEF HeadIs
  <2> QED BY <1>4, <2>5, <2>7 DEF HeadIs, InList, GetHeader
<1> QED BY <1>2, <1>3, <1>4

\* the sentinels keep their keys
LEMMA EndKeysStep ==
  ASSUME OInv, NEW t \in Threads, Step(t), AimsWell(t)
  PROVE  EndKeys'
<1>1. \A l \in Levels : /\ Header(l) \in Nodes /\ EndSentinel(l) \in Nodes
                        /\ InList(Header(l)) /\ InList(EndSentinel(l))
  BY Sentinels DEF OInv, LInv, Links, HeadsIn
<1>2. EndKeys
  BY DEF OInv, Ordered
<1> QED BY <1>1, <1>2, HeadersStay DEF EndKeys

\* the nodes in lists that are not end sentinels are those there were, and the
\* new one of a split
LEMMA NextsStep ==
  ASSUME OInv, NEW t \in Threads, Step(t), NEW n \in Nexts'
  PROVE  n \in Nodes /\ (n \in Nexts \/ (Divided(t) /\ n = NewNode(t, Level(curr[t]))))
<1>1. n \in Nodes /\ heap'[n].num > 0 /\ ~IsTail(n)
  BY DEF Nexts, InList
<1>2. CASE heap' = heap
  BY <1>1, <1>2 DEF Nexts, InList
<1>3. CASE Wrote(t) /\ pc[t] = "visit"
  <2>1. InList(curr[t])
    BY <1>3, AtNodeFacts
  <2> QED BY <1>1, <1>3, <2>1 DEF Nexts, InList, Wrote
<1>4. CASE Divided(t)
  BY <1>1, <1>4 DEF Nexts, InList, Divided
<1> QED BY <1>2, <1>3, <1>4, LinkEffect DEF OInv

\* keys ascend within every node
LEMMA AscendingStep ==
  ASSUME OInv, NEW t \in Threads, Step(t), AimsWell(t)
  PROVE  Ascending'
<1>1. Ascending
  BY DEF OInv, Ordered
<1> SUFFICES ASSUME NEW n \in Nexts' PROVE Ascends(heap'[n]) /\ Within(heap'[n])
  BY DEF Ascending, Ascends, Within, Live, Keys
<1>2. n \in Nodes /\ (n \in Nexts \/ (Divided(t) /\ n = NewNode(t, Level(curr[t]))))
  BY NextsStep
<1>3. CASE n \in Nexts /\ heap'[n] = heap[n]
  BY <1>1, <1>3 DEF Ascending
<1>4. CASE Wrote(t) /\ OnePut(t)
  <2>1. ~Divided(t) => n \in Nexts
    BY <1>2
  <2>2. n # curr[t] => heap'[n] = heap[n]
    BY <1>2, <1>4 DEF Wrote
  <2>3. n = curr[t] => Ascends(heap'[n]) /\ Within(heap'[n])
    BY <1>4 DEF OnePut
  <2>4. n # curr[t] => n \in Nexts
    BY <2>2 DEF Nexts, InList
  <2> QED BY <1>3, <2>2, <2>3, <2>4
<1>5. CASE Divided(t) /\ TwoPut(t)
  BY <1>2, <1>3, <1>5 DEF Divided, TwoPut
<1>6. CASE heap' = heap
  <2>1. n \in Nexts
    BY <1>6 DEF Nexts, InList
  <2> QED BY <1>3, <1>6, <2>1
<1> QED BY <1>4, <1>5, <1>6, OrderEffect

\* next_header follows the splits
LEMMA FollowingStep ==
  ASSUME OInv, NEW t \in Threads, Step(t), AimsWell(t)
  PROVE  Following'
<1>1. /\ Following /\ Linked
      /\ \A m \in Nodes : heap[m].next \in Pointers
  BY DEF OInv, LInv, Links, Ordered, IInv, TypeOK, NodeType
<1>2. ASSUME NEW m \in Nexts
      PROVE  /\ heap[m].next \in Nodes /\ heap[m].next # Null
             /\ heap[m].next_header = GetHeader(heap'[heap[m].next])
  <2>1. PICK x : x = heap[m].next
    OBVIOUS
  <2>2. x # Null /\ x \in Nodes /\ InList(x) /\ heap[m].next_header = GetHeader(heap[x])
    BY <1>1, <2>1 DEF Following, Linked, Pointers, Nexts
  <2> QED BY <2>1, <2>2, HeadersStay
<1> SUFFICES ASSUME NEW n \in Nexts'
             PROVE  /\ heap'[n].next # Null
                    /\ heap'[n].next_header = GetHeader(heap'[heap'[n].next])
  BY DEF Following, GetHeader
<1>3. n \in Nodes /\ (n \in Nexts \/ (Divided(t) /\ n = NewNode(t, Level(curr[t]))))
  BY NextsStep
<1>4. ASSUME NEW m \in Nexts, heap'[n].next = heap[m].next,
             heap'[n].next_header = heap[m].next_header
      PROVE  /\ heap'[n].next # Null
             /\ heap'[n].next_header = GetHeader(heap'[heap'[n].next])
  BY <1>2, <1>4
<1>5. CASE heap' = heap
  <2>1. n \in Nexts
    BY <1>5 DEF Nexts, InList
  <2> QED BY <1>4, <1>5, <2>1
<1>6. CASE Wrote(t) /\ curr[t] \in Nexts
  <2>1. n \in Nexts /\ heap'[n].next = heap[n].next /\ heap'[n].next_header = heap[n].next_header
    BY <1>3, <1>6 DEF Wrote, SameLinks, Nexts, InList
  <2> QED BY <1>4, <2>1
<1>7. CASE Divided(t) /\ TwoPut(t) /\ curr[t] \in Nexts
  <2>1. PICK new \in Nodes : new = NewNode(t, Level(curr[t]))
    BY <1>7 DEF Divided
  <2>2. new # Null
    BY NodeNames
  <2>3. CASE n = curr[t]
    BY <1>7, <2>1, <2>2, <2>3 DEF Divided, TwoPut, GetHeader
  <2>4. CASE n = new
    BY <1>4, <1>7, <2>1, <2>4 DEF Divided, SameLinks
  <2>5. CASE n # curr[t] /\ n # new
    BY <1>3, <1>4, <1>7, <2>1, <2>5 DEF Divided
  <2> QED BY <2>3, <2>4, <2>5
<1> QED BY <1>5, <1>6, <1>7, OrderEffect

\* HeadIs after the step, of what c and k are before it
WillHead(c, k) ==
  /\ heap'[c].num > 0 => GetHeader(heap'[c]) = k
  /\ ~(heap'[c].num > 0) =>
       \A u \in Threads : call'[u].op = "insert" /\ c = <<u, ins'[u], Level(c)>> => call'[u].key = k

\* what heads a node, or will, goes on doing so through a step
LEMMA WillStay ==
  ASSUME OInv, NEW t \in Threads, Step(t), AimsWell(t), NEW c \in Nodes, Ready(c),
         NEW k, HeadIs(c, k)
  PROVE  WillHead(c, k)
<1>1. HeadIs(c, k)'
  BY HeadStays
<1> QED BY <1>1 DEF WillHead, HeadIs, InList, Op, NewNode, K, GetHeader

\* a pointer that has been found leads where it led
LEMMA ElementStays ==
  ASSUME OInv, NEW t \in Threads, Step(t), AimsWell(t), NEW m \in Nexts, Level(m) > 0,
         NEW j \in Live(heap[m])
  PROVE  /\ heap[m].child[j] # Null /\ heap[m].child[j] \in Nodes
         /\ WillHead(heap[m].child[j], heap[m].key[j])
<1>1. Aligned /\ Linked /\ m \in Nodes /\ j \in Slot
  BY DEF OInv, LInv, Links, Ordered, Nexts, Live
<1>2. PICK c : c = heap[m].child[j]
  OBVIOUS
<1>3. PICK k : k = heap[m].key[j]
  OBVIOUS
<1>4. c # Null /\ c \in Nodes /\ Ready(c) /\ HeadIs(c, k)
  BY <1>1, <1>2, <1>3 DEF Aligned, Linked, Pointers, OInv, LInv, IInv, TypeOK, NodeType
<1>5. WillHead(c, k)
  BY <1>4, WillStay
<1> QED BY <1>2, <1>3, <1>4, <1>5

\* the child that an insert adds with its key is the node it will fill next
LEMMA ChildPromised ==
  ASSUME OInv, NEW t \in Threads, Step(t), NEW r, Missing(t, r), Level(curr[t]) > 0,
         Wrote(t) \/ Divided(t),
         NEW c, c = NewNode(t, Level(curr[t]) - 1)
  PROVE  c # Null /\ WillHead(c, K(t))
<1>1. LInv /\ IInv
  BY DEF OInv, LInv
<1>2. /\ Op(t) = "insert" /\ phase[t] = "search" /\ curr[t] \in Nodes /\ Level(curr[t]) \in Levels
      /\ pc[t] = "visit" /\ curr[t] # Null
  BY <1>1, InsertFacts, NodeNames DEF Missing, At
<1>3. PICK l \in Levels : l = Level(curr[t]) - 1 /\ l < Level(curr[t]) /\ l <= Level(curr[t])
  BY <1>2, HeightAssumption DEF Levels
<1>4. c \in Nodes /\ Level(c) = l /\ c # Null /\ c = <<t, ins[t], l>>
  <2>1. ins[t] \in 1 .. MaxInserts[t]
    BY <1>1, <1>2, OwnNames
  <2> QED BY <1>3, <2>1, OwnNodes, NodeNames DEF NewNode
<1>5. heap[c].num = 0
  BY <1>1, <1>2, <1>3 DEF IInv, Fresh
<1>6. heap'[c] = heap[c]
  <2>1. Level(c) # Level(curr[t])
    BY <1>2, <1>3, <1>4, Constants
  <2> QED BY <1>4, <2>1 DEF Wrote, Divided
<1>7. ~(heap'[c].num > 0)
  BY <1>5, <1>6
<1> SUFFICES ASSUME NEW u \in Threads, call'[u].op = "insert", c = <<u, ins'[u], Level(c)>>
             PROVE  call'[u].key = K(t)
  BY <1>4, <1>7 DEF WillHead
<1>8. u = t
  BY <1>4
<1>9. ~StartInsert(t)
  BY <1>2 DEF StartInsert, Begin
<1> QED BY <1>1, <1>8, <1>9, InsertKept DEF K

\* the child of a key leads to that key
LEMMA AlignedStep ==
  ASSUME OInv, NEW t \in Threads, Step(t), AimsWell(t)
  PROVE  Aligned'
<1> SUFFICES ASSUME NEW n \in Nexts', Level(n) > 0, NEW i \in Live(heap'[n])
             PROVE  heap'[n].child[i] # Null /\ WillHead(heap'[n].child[i], heap'[n].key[i])
  BY DEF Aligned, Live, WillHead, HeadIs, InList, GetHeader, Op, NewNode, K
<1> DEFINE Leads(x, y) == x # Null /\ WillHead(x, y)
<1>1. PICK c : c = heap'[n].child[i]
  OBVIOUS
<1>2. PICK k : k = heap'[n].key[i]
  OBVIOUS
<1> SUFFICES Leads(c, k)
  BY <1>1, <1>2
<1>3. n \in Nodes /\ (n \in Nexts \/ (Divided(t) /\ n = NewNode(t, Level(curr[t]))))
  BY NextsStep
<1>4. ASSUME NEW m \in Nexts, Level(m) > 0, NEW j \in Live(heap[m]),
             c = heap[m].child[j], k = heap[m].key[j]
      PROVE  Leads(c, k)
  <2>1. WillHead(heap[m].child[j], heap[m].key[j]) /\ heap[m].child[j] # Null
    BY <1>4, ElementStays
  <2> QED BY <1>4, <2>1
<1>5. ASSUME n \in Nexts, heap'[n] = heap[n] PROVE Leads(c, k)
  BY <1>1, <1>2, <1>4, <1>5
<1>6. ASSUME curr[t] \in Nexts, Level(curr[t]) = Level(n), PartWith(t, heap'[n], heap[curr[t]], Level(n)),
             Wrote(t) \/ Divided(t), Level(curr[t]) = 0 \/ \E r \in Nat : Missing(t, r)
      PROVE  Leads(c, k)
  <2>1. CASE \E j \in Live(heap[curr[t]]) : /\ k = heap[curr[t]].key[j]
                                            /\ c = heap[curr[t]].child[j]
    BY <1>4, <1>6, <2>1
  <2>2. CASE k = K(t) /\ c = NewNode(t, Level(curr[t]) - 1)
    <3>1. PICK r : Missing(t, r)
      <4>1. ~(0 > 0)
        OBVIOUS
      <4> QED BY <1>6, <4>1
    <3>2. c # Null /\ WillHead(c, K(t))
      BY <1>6, <2>2, <3>1, ChildPromised
    <3> QED BY <2>2, <3>2
  <2> QED BY <1>1, <1>2, <1>6, <2>1, <2>2 DEF PartWith, Added
<1>7. CASE heap' = heap
  <2>1. n \in Nexts
    BY <1>7 DEF Nexts, InList
  <2> QED BY <1>5, <1>7, <2>1
<1>8. CASE /\ Wrote(t) /\ OnePut(t) /\ curr[t] \in Nexts
           /\ Level(curr[t]) = 0 \/ \E r \in Nat : Missing(t, r)
  <2>1. n # curr[t] => n \in Nexts /\ heap'[n] = heap[n]
    BY <1>3, <1>8 DEF Wrote, Nexts, InList
  <2>2. n = curr[t] => PartWith(t, heap'[n], heap[curr[t]], Level(n))
    BY <1>8 DEF OnePut
  <2> QED BY <1>5, <1>6, <1>8, <2>1, <2>2
<1>9. CASE Divided(t) /\ TwoPut(t) /\ curr[t] \in Nexts /\ \E r \in Nat : Missing(t, r)
  <2>1. PICK new \in Nodes : new = NewNode(t, Level(curr[t])) /\ Level(new) = Level(curr[t])
    BY <1>9 DEF Divided
  <2>2. /\ PartWith(t, heap'[curr[t]], heap[curr[t]], Level(curr[t]))
        /\ PartWith(t, heap'[new], heap[curr[t]], Level(curr[t]))
    BY <1>9, <2>1 DEF TwoPut
  <2>3. CASE n = curr[t] \/ n = new
    BY <1>6, <1>9, <2>1, <2>2, <2>3
  <2>4. CASE n # curr[t] /\ n # new
    BY <1>3, <1>5, <1>9, <2>1, <2>4 DEF Divided
  <2> QED BY <2>3, <2>4
<1> QED BY <1>7, <1>8, <1>9, OrderEffect

\* what Searching says of one thread
Guided(t) ==
  /\ pc[t] = "idle" => phase[t] = "search"
  /\ phase[t] = "again" => Op(t) = "insert"
  /\ pc[t] # "idle" /\ phase[t] = "search" =>
       curr[t] # Null /\ \E h \in 0 .. K(t) : HeadIs(curr[t], h)
  /\ pc[t] # "idle" /\ phase[t] = "down" /\ Op(t) # "insert" =>
       curr[t] # Null /\ HeadIs(curr[t], K(t))

\* a search that is promised a header finds it
LEMMA GuideStays ==
  ASSUME OInv, NEW t \in Threads, Step(t), AimsWell(t), NEW u \in Threads,
         NEW x \in Pointers, x = curr'[u], pc'[u] # "idle",
         phase'[u] = "again" => call'[u].op = "insert",
         phase'[u] = "search" =>
           x # Null /\ Ready(x) /\ \E h \in 0 .. call'[u].key : HeadIs(x, h),
         phase'[u] = "down" /\ call'[u].op # "insert" =>
           x # Null /\ Ready(x) /\ HeadIs(x, call'[u].key)
  PROVE  Guided(u)'
<1>1. ASSUME x # Null, Ready(x), NEW h, HeadIs(x, h) PROVE WillHead(x, h)
  BY <1>1, WillStay DEF Pointers
<1>2. phase'[u] = "search" => x # Null /\ \E h \in 0 .. call'[u].key : WillHead(x, h)
  BY <1>1
<1>3. phase'[u] = "down" /\ call'[u].op # "insert" => x # Null /\ WillHead(x, call'[u].key)
  BY <1>1
<1> QED BY <1>2, <1>3 DEF Guided, WillHead, HeadIs, InList, GetHeader, Op, NewNode, K

\* where a thread is or is going, a search may come to
LEMMA CurrReady ==
  ASSUME LInv, NEW u \in Threads, pc[u] # "idle", curr[u] # Null
  PROVE  curr[u] \in Nodes /\ Ready(curr[u])
<1>1. /\ pc[u] \in {"idle", "lock", "drain", "handover", "visit"} /\ curr[u] \in Nodes
      /\ HeldIn /\ Going
  BY DEF LInv, Links, LocksHeld, IInv, TypeOK, Pointers
<1>2. pc[u] # "lock" => curr[u] \in Flagging(u)
  BY <1>1 DEF Flagging, Holding
<1> QED BY <1>1, <1>2 DEF HeldIn, Going, Ready

\* a thread that stays where it is or goes there stays guided
LEMMA StillGuided ==
  ASSUME OInv, NEW t \in Threads, Step(t), AimsWell(t), NEW u \in Threads,
         curr'[u] = curr[u], phase'[u] = phase[u], call'[u] = call[u],
         pc[u] # "idle", pc'[u] # "idle"
  PROVE  Guided(u)'
<1>1. Guided(u) /\ LInv /\ curr[u] \in Pointers
  BY DEF OInv, LInv, IInv, TypeOK, Ordered, Searching, Guided
<1>2. PICK x \in Pointers : x = curr[u]
  BY <1>1
<1>3. x # Null => Ready(x)
  BY <1>1, <1>2, CurrReady
<1>4. /\ phase[u] = "search" => x # Null /\ Ready(x) /\ \E h \in 0 .. call[u].key : HeadIs(x, h)
      /\ phase[u] = "down" /\ call[u].op # "insert" =>
           x # Null /\ Ready(x) /\ HeadIs(x, call[u].key)
      /\ phase[u] = "again" => call[u].op = "insert"
  BY <1>1, <1>2, <1>3 DEF Guided, K, Op
<1> QED BY <1>2, <1>4, GuideStays

\* after a call nothing guides the thread
LEMMA EndGuided ==
  ASSUME OInv, NEW t \in Threads, EndCall(t)
  PROVE  Guided(t)'
<1>1. pc'[t] = "idle" /\ phase'[t] = "search"
  BY DEF EndCall, OInv, LInv, IInv, TypeOK
<1> QED BY <1>1 DEF Guided

\* a call starts at the sentinel of the top level
LEMMA BeginGuided ==
  ASSUME OInv, NEW t \in Threads, Step(t), AimsWell(t), NEW c \in todo[t], Begin(t, c)
  PROVE  Guided(t)'
<1>1. /\ LInv /\ EndKeys /\ Guided(t)
      /\ todo \in [Threads -> SUBSET Calls] /\ curr \in [Threads -> Pointers]
      /\ pc \in [Threads -> {"idle", "lock", "drain", "handover", "visit"}]
      /\ call \in [Threads -> Calls \cup {None}]
  BY DEF OInv, LInv, IInv, TypeOK, Ordered, Searching, Guided
<1>2. PICK x : x = Header(Height - 1)
  OBVIOUS
<1>3. Height - 1 \in Levels
  BY HeightAssumption DEF Levels
<1>4. x \in Nodes /\ x # Null /\ InList(x) /\ GetHeader(heap[x]) = 0
  BY <1>1, <1>2, <1>3, Sentinels, NodeNames DEF LInv, Links, HeadsIn, EndKeys
<1>5. /\ pc[t] = "idle" /\ pc'[t] = "lock" /\ curr'[t] = x /\ call'[t] = c /\ phase' = phase
  BY <1>1, <1>2 DEF Begin, Approach
<1>6. phase'[t] = "search"
  BY <1>1, <1>5 DEF Guided
<1>7. 0 \in 0 .. c.key
  BY <1>1 DEF Calls
<1>8. Ready(x) /\ HeadIs(x, 0)
  BY <1>4 DEF Ready, HeadIs
<1>9. x \in Pointers
  BY <1>4 DEF Pointers
<1> QED BY <1>4, <1>5, <1>6, <1>7, <1>8, <1>9, GuideStays

\* the nodes that a search may go on to, and their headers
LEMMA NextHead ==
  ASSUME OInv, NEW n \in Nexts
  PROVE  LET x == heap[n].next IN
           x \in Pointers /\ x # Null /\ Ready(x) /\ HeadIs(x, heap[n].next_header)
<1>1. PICK x : x = heap[n].next
  OBVIOUS
<1>2. x \in Pointers /\ x # Null /\ InList(x) /\ heap[n].next_header = GetHeader(heap[x])
  BY <1>1 DEF OInv, LInv, Links, Linked, IInv, TypeOK, NodeType, Ordered, Following, Nexts
<1> QED BY <1>1, <1>2 DEF Ready, HeadIs

\* the child at a live slot is headed by the key of the slot
LEMMA ChildHead ==
  ASSUME OInv, NEW n \in Nexts, Level(n) > 0, NEW i \in Live(heap[n])
  PROVE  LET x == heap[n].child[i] IN
           x \in Pointers /\ x # Null /\ Ready(x) /\ HeadIs(x, heap[n].key[i])
<1>1. n \in Nodes /\ i \in Slot
  BY DEF Nexts, Live
<1>2. PICK x : x = heap[n].child[i]
  OBVIOUS
<1>3. x \in Pointers /\ x # Null /\ Ready(x) /\ HeadIs(x, heap[n].key[i])
  BY <1>1, <1>2 DEF OInv, LInv, Links, Linked, IInv, TypeOK, NodeType, Ordered, Aligned
<1> QED BY <1>2, <1>3

\* a lookup that comes down to a node that begins with its key goes on through
\* the first child
LEMMA FirstRank ==
  ASSUME OInv, NEW t \in Threads, NEW r, Down(t, r), Op(t) # "insert"
  PROVE  curr[t] \in Nexts /\ r \in Live(heap[curr[t]]) /\ heap[curr[t]].key[r] = K(t)
<1>1. pc[t] = "visit" /\ phase[t] = "down"
  BY DEF Down
<1>2. PICK n \in Nexts : n = curr[t]
  BY <1>1, AtNodeFacts
<1>3. /\ heap[n] \in NodeOf(Level(n)) /\ 0 \in Live(heap[n]) /\ heap[n].key[0] = K(t)
      /\ K(t) \in Int /\ Ascends(heap[n])
  BY <1>1, <1>2, AtNodeFacts DEF GetHeader, OInv, Ordered, Ascending
<1>4. CASE r = 0
  BY <1>2, <1>3, <1>4
<1>5. CASE IsRank(heap[n], K(t), r)
  <2>1. 0 \in Leading(heap[n], K(t))
    <3>1. \A j \in 0 .. 0 : j = 0
      OBVIOUS
    <3> QED BY <1>3, <3>1 DEF Leading
  <2>2. r \in Live(heap[n]) /\ \A j \in 0 .. r : heap[n].key[j] <= K(t)
    BY <1>5, <2>1 DEF IsRank, Leading
  <2>3. r \in Int /\ 0 <= r /\ heap[n].key[r] \in Int
    BY <1>3, <2>2, LiveRanks
  <2>4. heap[n].key[r] <= K(t)
    BY <2>2, <2>3
  <2>5. r = 0 \/ heap[n].key[0] < heap[n].key[r]
    BY <1>3, <2>2, <2>3 DEF Ascends
  <2> QED BY <1>2, <1>3, <2>2, <2>3, <2>4, <2>5
<1> QED BY <1>2, <1>4, <1>5 DEF Down

\* every thread stays guided
LEMMA SearchingStep ==
  ASSUME OInv, NEW t \in Threads, Step(t), AimsWell(t)
  PROVE  Searching'
<1>1. /\ LInv /\ IInv /\ Guided(t)
      /\ pc \in [Threads -> {"idle", "lock", "drain", "handover", "visit"}]
      /\ phase \in [Threads -> Phases]
      /\ curr \in [Threads -> Pointers] /\ call \in [Threads -> Calls \cup {None}]
  BY DEF OInv, LInv, IInv, TypeOK, Phases, Ordered, Searching, Guided
<1>2. ASSUME NEW u \in Threads, u # t PROVE Guided(u)'
  <2>1. pc'[u] = pc[u] /\ SameThread(u)
    BY <1>1, <1>2, OthersStay, OthersKept
  <2>2. CASE pc[u] = "idle"
    <3>1. Guided(u)
      BY DEF OInv, Ordered, Searching, Guided
    <3> QED BY <2>1, <2>2, <3>1 DEF Guided, SameThread, Op
  <2>3. CASE pc[u] # "idle"
    BY <2>1, <2>3, StillGuided DEF SameThread
  <2> QED BY <2>2, <2>3
<1> SUFFICES Guided(t)'
  BY <1>2 DEF Searching, Guided
<1>3. ASSUME NEW x, NEW held, Approach(t, x, held) PROVE curr'[t] = x /\ pc'[t] = "lock"
  BY <1>1, <1>3 DEF Approach
<1>4. ASSUME pc[t] = "visit", phase[t] = "search", NEW x \in Pointers, x # Null, Ready(x),
             NEW h, HeadIs(x, h), h \in Int, 0 <= h, h <= K(t), NEW held, Approach(t, x, held),
             call' = call, phase' = phase
      PROVE  Guided(t)'
  <2>1. K(t) \in Int
    BY <1>4, AtNodeFacts
  <2>2. h \in 0 .. call'[t].key
    BY <1>4, <2>1 DEF K
  <2>3. phase'[t] = "search" /\ curr'[t] = x /\ pc'[t] # "idle"
    BY <1>3, <1>4
  <2> QED BY <1>4, <2>2, <2>3, GuideStays
<1>5. ASSUME NEW r, GoDown(t, r), r \in Slot, pc[t] = "visit",
             Op(t) # "insert" => /\ curr[t] \in Nexts /\ r \in Live(heap[curr[t]])
                                 /\ heap[curr[t]].key[r] = K(t)
      PROVE  Guided(t)'
  <2>1. PICK x : x = ChildAt(t, r)
    OBVIOUS
  <2>2. /\ phase'[t] = "down" /\ curr'[t] = x /\ pc'[t] # "idle" /\ call' = call
        /\ Level(curr[t]) > 0
    BY <1>1, <1>3, <1>5, <2>1 DEF GoDown
  <2>3. x \in Pointers
    BY <1>1, <1>5, <2>1, WaysOn DEF ChildAt
  <2>4. Op(t) # "insert" => x # Null /\ Ready(x) /\ HeadIs(x, K(t))
    BY <1>5, <2>1, <2>2, ChildHead DEF ChildAt
  <2> QED BY <2>2, <2>3, <2>4, GuideStays DEF Op, K
<1>6. \A r : At(t, r) => /\ pc[t] = "visit" /\ phase[t] = "search" /\ curr[t] \in Nexts
                         /\ r \in Live(heap[curr[t]]) /\ r \in Slot
                         /\ heap[curr[t]].key[r] <= K(t)
                         /\ heap[curr[t]].key[r] \in Int /\ 0 <= heap[curr[t]].key[r]
  <2> SUFFICES ASSUME NEW r, At(t, r)
               PROVE  /\ pc[t] = "visit" /\ phase[t] = "search" /\ curr[t] \in Nexts
                      /\ r \in Live(heap[curr[t]]) /\ r \in Slot
                      /\ heap[curr[t]].key[r] <= K(t)
                      /\ heap[curr[t]].key[r] \in Int /\ 0 <= heap[curr[t]].key[r]
    OBVIOUS
  <2>1. /\ curr[t] \in Nexts /\ r \in Live(heap[curr[t]]) /\ heap[curr[t]].key[r] <= K(t)
        /\ heap[curr[t]] \in NodeOf(Level(curr[t]))
    BY AtRank
  <2>2. r \in Slot /\ heap[curr[t]].key[r] \in AnyKey
    BY <2>1 DEF Live, NodeOf
  <2>3. heap[curr[t]].key[r] \in Int /\ 0 <= heap[curr[t]].key[r]
    BY <2>2, Constants
  <2> QED BY <2>1, <2>2, <2>3 DEF At
<1>7. CASE Idle(t)
  <2>1. CASE InsertZero(t)
    <3>1. pc[t] = "idle" /\ pc' = pc /\ phase' = phase
      BY <2>1 DEF InsertZero
    <3> QED BY <1>1, <3>1 DEF Guided
  <2> QED BY <1>7, <2>1, BeginGuided DEF Idle, StartRead, StartInsert
<1>8. CASE Locking(t)
  <2>1. /\ curr'[t] = curr[t] /\ phase'[t] = phase[t] /\ call'[t] = call[t]
        /\ pc[t] # "idle" /\ pc'[t] # "idle"
    BY <1>1, <1>8 DEF Locking, ReadLock, WriteLock, Drain, Handover, Inside, place
  <2> QED BY <2>1, StillGuided
<1>9. CASE MoveRight(t)
  <2>1. /\ pc[t] = "visit" /\ phase[t] = "search" /\ heap[curr[t]].next_header <= K(t)
        /\ Approach(t, heap[curr[t]].next, curr[t]) /\ call' = call /\ phase' = phase
    BY <1>9 DEF MoveRight
  <2>2. curr[t] \in Nexts /\ heap[curr[t]] \in NodeOf(Level(curr[t]))
    BY <2>1, AtNodeFacts
  <2>3. heap[curr[t]].next_header \in Int /\ 0 <= heap[curr[t]].next_header
    BY <2>2, Constants DEF NodeOf
  <2> QED BY <1>4, <2>1, <2>2, <2>3, NextHead
<1>10. CASE Again(t)
  <2>1. Op(t) = "insert" /\ GoDown(t, rank[t]) /\ pc[t] = "visit"
    BY <1>1, <1>10 DEF Again, Guided
  <2>2. rank[t] \in Slot
    BY <1>1 DEF IInv, TypeOK
  <2> QED BY <1>5, <2>1, <2>2
<1>11. CASE Overwrite(t)
  BY <1>11, EndGuided DEF Overwrite, Return
<1>12. ASSUME NEW r, Moving(t, r) PROVE Guided(t)'
  <2>1. CASE Descend(t, r)
    <3>1. /\ At(t, r) /\ Level(curr[t]) > 0 /\ Approach(t, ChildAt(t, r), curr[t])
          /\ call' = call /\ phase' = phase
      BY <2>1 DEF Descend
    <3> QED BY <1>4, <1>6, <3>1, ChildHead DEF ChildAt
  <2>2. CASE ReaderFound(t, r)
    BY <1>5, <1>6, <2>2 DEF ReaderFound, Hit
  <2>3. CASE Down(t, r)
    <3>1. r \in Slot
      BY <2>3, RankIsSlot, Constants DEF Down
    <3> QED BY <1>5, <2>3, <3>1, FirstRank DEF Down
  <2>4. CASE InsertFound(t, r)
    <3>1. /\ phase'[t] = "again" /\ pc'[t] # "idle" /\ call' = call /\ curr' = curr
          /\ Op(t) = "insert"
      BY <1>1, <2>4 DEF InsertFound, place
    <3>2. curr[t] \in Pointers
      BY <1>1
    <3> QED BY <3>1, <3>2, GuideStays DEF Op
  <2> QED BY <1>12, <2>1, <2>2, <2>3, <2>4 DEF Moving
<1>13. ASSUME NEW r, Ending(t, r) PROVE Guided(t)'
  BY <1>13, EndGuided DEF Ending, ValueHit, ValueMiss, ExistsHit, ExistsMiss, Return
<1>14. ASSUME NEW r, Scanning(t, r) PROVE Guided(t)'
  <2>1. CASE ScanOn(t, r)
    <3>1. PICK x : x = heap[curr[t]].next
      OBVIOUS
    <3>2. phase'[t] = "scan" /\ curr'[t] = x /\ pc'[t] # "idle" /\ pc[t] = "visit"
      BY <1>1, <1>3, <2>1, <3>1 DEF ScanOn, From, At
    <3>3. x \in Pointers
      BY <1>1, <3>1, <3>2, WaysOn
    <3> QED BY <3>2, <3>3, GuideStays
  <2>2. CASE ScanEnd(t, r)
    BY <2>2, EndGuided DEF ScanEnd
  <2> QED BY <1>14, <2>1, <2>2 DEF Scanning
<1>15. ASSUME NEW r, Filling(t, r) PROVE Guided(t)'
  <2>1. Missing(t, r) /\ \E held : EndOrDescend(t, ChildAt(t, r), held)
    BY <1>15 DEF Filling, InsertHere, InsertLeft, InsertRight, PromoteSplit
  <2>2. CASE Return(t, 1)
    BY <2>2, EndGuided DEF Return
  <2>3. CASE ~Return(t, 1)
    <3>1. PICK held : Approach(t, ChildAt(t, r), held) /\ call' = call /\ phase' = phase
      BY <2>1, <2>3 DEF EndOrDescend
    <3>2. At(t, r) /\ Level(curr[t]) # 0
      BY <2>1, <2>3 DEF Missing, EndOrDescend
    <3>3. Level(curr[t]) > 0
      <4>1. Level(curr[t]) \in Levels
        BY <1>1, <2>1, InsertFacts
      <4>2. \A l \in Levels : l # 0 => l > 0
        BY Constants
      <4> QED BY <3>2, <4>1, <4>2
    <3> QED BY <1>4, <1>6, <3>1, <3>2, <3>3, ChildHead DEF ChildAt
  <2> QED BY <2>2, <2>3
<1> QED BY <1>7, <1>8, <1>9, <1>10, <1>11, <1>12, <1>13, <1>14, <1>15, StepCases

\* the first node of an empty list begins with key 0, the last with the largest
LEMMA EmptyOrder ==
  ASSUME NEW l \in Levels, NEW a
  PROVE  /\ a = EmptyList(Header(l)) =>
              /\ a.num = 1 /\ a.key[0] = 0 /\ a.next = EndSentinel(l) /\ a.next_header = Inf
              /\ l > 0 => a.child[0] = Header(l - 1)
         /\ a = EmptyList(EndSentinel(l)) => a.num = 1 /\ a.key[0] = Inf
<1> DEFINE down == IF l > 0 THEN Header(l - 1) ELSE Null
<1>1. /\ Header(l) # EndSentinel(l) /\ Level(Header(l)) = l /\ Level(EndSentinel(l)) = l
      /\ 0 \in Slot
  BY Sentinels, Constants DEF Header, EndSentinel
<1> HIDE DEF down
<1>2. CASE a = EmptyList(Header(l))
  <2>1. a = [Blank EXCEPT !.num = 1, !.next = EndSentinel(l), !.child[0] = down]
    BY <1>1, <1>2, Zenon DEF EmptyList, down
  <2>2. /\ a.num = 1 /\ a.key[0] = 0 /\ a.next = EndSentinel(l) /\ a.next_header = Inf
        /\ a.child[0] = down
    BY <1>1, <2>1 DEF Blank
  <2>3. a # EmptyList(EndSentinel(l))
    <3>1. EmptyList(EndSentinel(l)) = [Blank EXCEPT !.num = 1, !.key[0] = Inf]
      BY <1>1, Zenon DEF EmptyList
    <3>2. EmptyList(EndSentinel(l)).key[0] = Inf
      BY <1>1, <3>1 DEF Blank
    <3> QED BY <2>2, <3>2, Constants
  <2> QED BY <2>2, <2>3 DEF down
<1>3. CASE a = EmptyList(EndSentinel(l)) /\ a # EmptyList(Header(l))
  <2>1. a = [Blank EXCEPT !.num = 1, !.key[0] = Inf]
    BY <1>1, <1>3, Zenon DEF EmptyList
  <2> QED BY <1>1, <1>3, <2>1 DEF Blank
<1> QED BY <1>2, <1>3

\* the empty lists are in order
LEMMA OInvInit == Init => OInv
<1> SUFFICES ASSUME Init PROVE OInv
  OBVIOUS
<1>1. LInv /\ Linked /\ HeadsIn
  BY LInvInit DEF LInv, Links
<1>2. \A n \in Nodes : heap[n] = EmptyList(n)
  BY DEF Init
<1>3. \A l \in Levels :
        /\ Header(l) \in Nodes /\ EndSentinel(l) \in Nodes
        /\ Level(Header(l)) = l
        /\ LET a == heap[Header(l)] IN
             /\ a.num = 1 /\ a.key[0] = 0 /\ a.next = EndSentinel(l) /\ a.next_header = Inf
             /\ l > 0 => a.child[0] = Header(l - 1)
        /\ heap[EndSentinel(l)].key[0] = Inf
  BY <1>2, EmptyOrder, Sentinels
<1>4. EndKeys
  BY <1>3 DEF EndKeys, GetHeader
<1>5. ASSUME NEW n \in Nexts PROVE Level(n) \in Levels /\ n = Header(Level(n))
  <2>1. n \in Nodes /\ heap[n].num > 0 /\ n # EndSentinel(Level(n))
    BY <1>5 DEF Nexts, InList, IsTail
  <2>2. n = Header(Level(n)) \/ heap[n].num = 0
    BY <1>2, <2>1, EmptyLinks
  <2> QED BY <2>1, <2>2, NodeNames
<1>6. ASSUME NEW n \in Nexts, NEW i \in Live(heap[n]) PROVE i = 0
  <2>1. heap[n].num = 1
    BY <1>3, <1>5
  <2>2. i \in Int /\ 0 <= i /\ i < 1
    BY <1>6, <2>1, Constants DEF Live
  <2> QED BY <2>2
<1>7. Ascending
  <2> SUFFICES ASSUME NEW n \in Nexts PROVE Ascends(heap[n]) /\ Within(heap[n])
    BY DEF Ascending
  <2>1. heap[n].key[0] = 0 /\ heap[n].next_header = Inf
    BY <1>3, <1>5
  <2>2. Ascends(heap[n])
    BY <1>6 DEF Ascends
  <2>3. Within(heap[n])
    BY <1>6, <2>1, Constants DEF Within, Keys
  <2> QED BY <2>2, <2>3
<1>8. Following
  <2>1. \A l \in Levels : EndSentinel(l) # Null
    BY DEF EndSentinel, Null
  <2> QED BY <1>3, <1>5, <2>1 DEF Following, GetHeader
<1>9. Aligned
  <2> SUFFICES ASSUME NEW n \in Nexts, Level(n) > 0, NEW i \in Live(heap[n])
               PROVE  heap[n].child[i] # Null /\ HeadIs(heap[n].child[i], heap[n].key[i])
    BY DEF Aligned
  <2>1. PICK l \in Levels : l = Level(n) - 1
    <3>1. Level(n) \in Levels
      BY <1>5
    <3> QED BY <3>1, HeightAssumption DEF Levels
  <2>2. i = 0 /\ heap[n].child[0] = Header(l) /\ heap[n].key[0] = 0
    BY <1>3, <1>5, <1>6, <2>1
  <2>3. InList(Header(l)) /\ GetHeader(heap[Header(l)]) = 0 /\ Header(l) # Null
    BY <1>1, <1>3 DEF HeadsIn, GetHeader, Header, Null
  <2> QED BY <2>2, <2>3 DEF HeadIs
<1>10. Searching
  BY DEF Init, Searching
<1> QED BY <1>1, <1>4, <1>7, <1>8, <1>9, <1>10 DEF OInv, Ordered

\* the driver's steps do not touch the order
LEMMA OInvStutter ==
  ASSUME OInv, LInv', UNCHANGED <<heap, pc, call, phase, curr, ins>>
  PROVE  OInv'
<1>1. /\ EndKeys /\ Ascending /\ Following /\ Aligned /\ Searching
  BY DEF OInv, Ordered
<1>2. \A n : InList(n)' <=> InList(n)
  BY DEF InList
<1>3. Nexts' = Nexts
  BY <1>2 DEF Nexts
<1>4. \A c, k : HeadIs(c, k) => WillHead(c, k)
  BY DEF HeadIs, WillHead, InList, Op, NewNode, K
<1>5. EndKeys' /\ Ascending' /\ Following'
  BY <1>1, <1>3 DEF EndKeys, Ascending, Ascends, Within, Live, Keys, Following, GetHeader
<1>6. Aligned'
  <2> SUFFICES ASSUME NEW n \in Nexts', Level(n) > 0, NEW i \in Live(heap'[n])
               PROVE  heap'[n].child[i] # Null /\ WillHead(heap'[n].child[i], heap'[n].key[i])
    BY DEF Aligned, Live, WillHead, HeadIs, InList, GetHeader, Op, NewNode, K
  <2> QED BY <1>1, <1>3, <1>4 DEF Aligned
<1>7. Searching'
  <2> SUFFICES ASSUME NEW u \in Threads PROVE Guided(u)'
    BY DEF Searching, Guided
  <2>1. Guided(u)
    BY <1>1 DEF Searching, Guided
  <2>2. phase[u] = "search" /\ pc[u] # "idle" => \E h \in 0 .. call[u].key : WillHead(curr[u], h)
    BY <1>4, <2>1 DEF Guided, K
  <2>3. phase[u] = "down" /\ pc[u] # "idle" /\ Op(u) # "insert" => WillHead(curr[u], call[u].key)
    BY <1>4, <2>1 DEF Guided, K
  <2> QED BY <2>1, <2>2, <2>3 DEF Guided, WillHead, HeadIs, InList, GetHeader, Op, NewNode, K
<1> QED BY <1>5, <1>6, <1>7 DEF OInv, Ordered

\* every step keeps the order, if overrides write where their key is
LEMMA OInvNext == OInv /\ [Next]_vars /\ [Aimed]_vars => OInv'
<1> SUFFICES ASSUME OInv, [Next]_vars, [Aimed]_vars PROVE OInv'
  OBVIOUS
<1>1. LInv'
  BY LInvNext DEF OInv
<1>2. ASSUME NEW t \in Threads, Step(t), Aimed PROVE OInv'
  <2>1. AimsWell(t)
    BY <1>2 DEF Aimed
  <2> QED BY <1>1, <1>2, <2>1, EndKeysStep, AscendingStep, FollowingStep, AlignedStep,
             SearchingStep DEF OInv, Ordered
<1>3. CASE NextRound
  <2>1. UNCHANGED <<heap, pc, call, phase, curr, ins>>
    BY <1>3 DEF NextRound, place
  <2> QED BY <1>1, <2>1, OInvStutter
<1>4. CASE UNCHANGED vars
  <2>1. UNCHANGED <<heap, pc, call, phase, curr, ins>>
    BY <1>4 DEF vars, place, driver
  <2> QED BY <1>1, <2>1, OInvStutter
<1> QED BY <1>2, <1>3, <1>4 DEF Next, Finished

-------------------------------------------------------------------------------
(* The theorems about the order                                            *)

\* every override writes where its key is.  (One whose key moved while it had
\* no lock does not: that is a finding of its own.)
OverridesAim == [][Aimed]_vars

(* The invariant of the order holds as long as overrides aim well.         *)
THEOREM OrderInductive == Spec /\ OverridesAim => []OInv
BY OInvInit, OInvNext, PTL DEF Spec, OverridesAim

(* The order validate_structure asserts holds in every state and not only  *)
(* at rest: the keys of a node ascend, and so do the headers along a level *)
(* - whatever splits and promotions overlap.                               *)
THEOREM KeysInOrder == Spec /\ OverridesAim => []KeysAscend
<1>1. OInv => KeysAscend
  <2> SUFFICES ASSUME OInv, NEW n \in Nexts
               PROVE  /\ \A i, j \in Live(heap[n]) : i < j => heap[n].key[i] < heap[n].key[j]
                      /\ GetHeader(heap[n]) < GetHeader(heap[heap[n].next])
    BY DEF KeysAscend
  <2>1. Ascends(heap[n]) /\ Within(heap[n])
        /\ heap[n].next_header = GetHeader(heap[heap[n].next])
    BY DEF OInv, Ordered, Ascending, Following
  <2>2. 0 \in Live(heap[n])
    BY Constants DEF Nexts, InList, Live
  <2>3. heap[n].key[0] < heap[n].next_header
    BY <2>1, <2>2 DEF Within, Keys
  <2> QED BY <2>1, <2>3 DEF Ascends, GetHeader
<1> QED BY <1>1, OrderInductive, PTL

(* next_header, which searches read instead of the neighbour, is the       *)
(* neighbour's header - what validate_structure counts violations of - and *)
(* bounds the node's own keys: no split leaves it behind.                  *)
THEOREM NextHeadersExact == Spec /\ OverridesAim => []NextHeaderExact
<1>1. OInv => NextHeaderExact
  BY DEF OInv, Ordered, Ascending, Within, Following, NextHeaderExact
<1> QED BY <1>1, OrderInductive, PTL

(* The header of a node in a list never changes and next_header only moves *)
(* left, so what a thread read before it locked the next node still holds. *)
THEOREM HeadersNeverChange == Spec /\ OverridesAim => HeadersFixed
<1> DEFINE Fixed == \A n \in Nodes : InList(n) =>
                      /\ heap'[n].num > 0
                      /\ GetHeader(heap'[n]) = GetHeader(heap[n])
                      /\ heap'[n].next_header <= heap[n].next_header
<1>1. OInv /\ [Next]_vars /\ [Aimed]_vars => [Fixed]_vars
  <2> SUFFICES ASSUME OInv, Next, Aimed, vars' # vars PROVE Fixed
    OBVIOUS
  <2>1. CASE NextRound
    <3>1. heap' = heap
      BY <2>1 DEF NextRound
    <3>2. \A n \in Nodes : heap[n].next_header \in Int
      BY Constants DEF OInv, LInv, IInv, TypeOK, NodeType
    <3> QED BY <3>1, <3>2 DEF InList
  <2>2. ASSUME NEW t \in Threads, Step(t) PROVE Fixed
    <3>1. AimsWell(t)
      BY <2>2 DEF Aimed
    <3> QED BY <2>2, <3>1, HeadersStay
  <2> QED BY <2>1, <2>2 DEF Next, Finished
<1> HIDE DEF Fixed
<1>2. HeadersFixed <=> [][Fixed]_vars
  BY DEF HeadersFixed, Fixed
<1> QED BY <1>1, <1>2, OrderInductive, PTL DEF Spec, OverridesAim

(* No key of the leaves disappears: nothing deletes, no split loses one    *)
(* and no insert writes over another key.                                  *)
THEOREM KeysRemain == Spec /\ OverridesAim => KeysStay
<1> DEFINE Stays == Contents \subseteq {k \in AnyKey : \E n \in Leaves : k \in Keys(heap'[n])}
<1>1. OInv /\ [Next]_vars /\ [Aimed]_vars => [Stays]_vars
  <2> SUFFICES ASSUME OInv, Next, Aimed, vars' # vars PROVE Stays
    OBVIOUS
  <2> SUFFICES ASSUME NEW m \in Leaves, NEW k \in Keys(heap[m])
               PROVE  k \in AnyKey /\ \E n \in Leaves : k \in Keys(heap'[n])
    BY DEF Contents
  <2>1. k \in AnyKey
    <3>1. m \in Nodes
      BY DEF Leaves
    <3> QED BY <3>1 DEF Keys, Live, OInv, LInv, IInv, TypeOK, NodeType
  <2>2. CASE heap' = heap
    BY <2>1, <2>2
  <2>3. ASSUME NEW t \in Threads, Step(t), heap' # heap
        PROVE  \E n \in Leaves : k \in Keys(heap'[n])
    <3>1. AimsWell(t)
      BY <2>3 DEF Aimed
    <3>2. CASE Wrote(t) /\ OnePut(t)
      <4>1. m # curr[t] => heap'[m] = heap[m]
        BY <3>2 DEF Wrote, Leaves
      <4> QED BY <3>2, <4>1 DEF OnePut
    <3>3. CASE Divided(t) /\ TwoPut(t) /\ \E r : Missing(t, r)
      <4>1. PICK new \in Nodes : new = NewNode(t, Level(curr[t])) /\ Level(new) = Level(curr[t])
        BY <3>3 DEF Divided
      <4>2. CASE m # curr[t]
        <5>1. m # new
          <6>1. heap[m].num > 0
            <7>1. PICK i \in Live(heap[m]) : k = heap[m].key[i]
              BY DEF Keys
            <7>2. i \in Int /\ 0 <= i /\ i < heap[m].num
              BY <7>1, Constants DEF Live
            <7>3. heap[m].num \in Int
              BY DEF Leaves, OInv, LInv, IInv, TypeOK, NodeType
            <7> QED BY <7>2, <7>3
          <6> QED BY <3>3, <4>1, <6>1 DEF Divided
        <5> QED BY <3>3, <4>1, <4>2, <5>1 DEF Divided, Leaves
      <4>3. CASE m = curr[t]
        <5>1. new # EndSentinel(0)
          <6>1. ins[t] \in 1 .. MaxInserts[t]
            BY <3>3, OwnNames DEF OInv, LInv, Missing
          <6> QED BY <4>1, <6>1 DEF NewNode, EndSentinel
        <5>2. new \in Leaves
          BY <4>1, <4>3, <5>1 DEF Leaves
        <5> QED BY <3>3, <4>1, <4>3, <5>2 DEF TwoPut
      <4> QED BY <4>2, <4>3
    <3> QED BY <2>3, <3>1, <3>2, <3>3, OrderEffect
  <2>4. NextRound => heap' = heap
    BY DEF NextRound
  <2> QED BY <2>1, <2>2, <2>3, <2>4 DEF Next, Finished
<1> HIDE DEF Stays
<1>2. KeysStay <=> [][Stays]_vars
  BY DEF KeysStay, Stays
<1> QED BY <1>1, <1>2, OrderInductive, PTL DEF Spec, OverridesAim

-------------------------------------------------------------------------------
(* The keys on the levels                                                  *)

\* key k is in a node of level l
OnLevel(k, l) == \E n \in Nexts : Level(n) = l /\ k \in Keys(heap[n])

\* an insert that has put its key on the first of its levels and not on the last
Placing(t) == /\ Op(t) = "insert" /\ phase[t] = "search" /\ curr[t] # Null
              /\ Level(curr[t]) < Promote(t)

\* a step that puts the key of t on the level it is on
Puts(t) == \E r \in 0 .. MaxKeys : Filling(t, r)

\* the nodes in lists after a step
LEMMA NextsGrow ==
  ASSUME OInv, NEW t \in Threads, Step(t), NEW n
  PROVE  n \in Nexts' <=> n \in Nexts \/ (Divided(t) /\ n = NewNode(t, Level(curr[t])))
<1>1. n \in Nexts' => n \in Nexts \/ (Divided(t) /\ n = NewNode(t, Level(curr[t])))
  BY NextsStep
<1>2. n \in Nexts => n \in Nexts'
  <2> SUFFICES ASSUME n \in Nexts PROVE n \in Nexts'
    OBVIOUS
  <2>1. n \in Nodes /\ InList(n) /\ ~IsTail(n)
    BY DEF Nexts
  <2>2. heap'[n].num > 0
    BY <2>1, ListGrows DEF OInv, LInv, LocksHeld
  <2> QED BY <2>1, <2>2 DEF Nexts, InList
<1>3. Divided(t) /\ n = NewNode(t, Level(curr[t])) => n \in Nexts'
  <2> SUFFICES ASSUME Divided(t), n = NewNode(t, Level(curr[t])) PROVE n \in Nexts'
    OBVIOUS
  <2>1. n \in Nodes /\ heap[n].num = 0 /\ heap'[n].num > 0
    BY DEF Divided
  <2>2. ~IsTail(n)
    <3>1. Level(n) \in Levels
      BY <2>1, NodeNames
    <3>2. heap[EndSentinel(Level(n))].num > 0
      BY <3>1 DEF OInv, LInv, Links, HeadsIn, InList
    <3> QED BY <2>1, <3>2 DEF IsTail
  <2> QED BY <2>1, <2>2 DEF Nexts, InList
<1> QED BY <1>1, <1>2, <1>3

\* a step that changes nodes without adding a key is an override
LEMMA PutEffect ==
  ASSUME OInv, NEW t \in Threads, Step(t), AimsWell(t)
  PROVE  \/ heap' = heap /\ ~Puts(t)
         \/ /\ curr[t] \in Nexts /\ Wrote(t) /\ OnePut(t) /\ ~Puts(t)
            /\ Keys(heap'[curr[t]]) = Keys(heap[curr[t]])
         \/ /\ curr[t] \in Nexts /\ Wrote(t) /\ OnePut(t) /\ Puts(t)
            /\ Keys(heap'[curr[t]]) = Keys(heap[curr[t]]) \cup {K(t)}
         \/ /\ curr[t] \in Nexts /\ Divided(t) /\ TwoPut(t) /\ Puts(t)
<1>1. IInv /\ HeldIn
  BY DEF OInv, LInv, LocksHeld
<1>2. ASSUME NEW r, Missing(t, r) PROVE curr[t] \in Nexts /\ r \in 0 .. MaxKeys
  <2>1. r \in Slot /\ r \in Int
    BY <1>2, RankIsSlot, Constants DEF Missing, At
  <2> QED BY <1>2, <2>1, MissingRank, Constants
<1>3. CASE Overwrite(t)
  <2>1. ~Puts(t) /\ ~\E r \in Nat : Missing(t, r)
    BY <1>3 DEF Overwrite, Puts, Filling, InsertHere, InsertLeft, InsertRight, PromoteSplit,
                Missing, At
  <2>2. Wrote(t) /\ OnePut(t) /\ curr[t] \in Nexts
    BY <1>1, <1>3, OverwriteOrder, OverwriteLinks, AtNodeFacts DEF AimsWell, Overwrite
  <2>3. Keys(heap'[curr[t]]) = Keys(heap[curr[t]])
    BY <2>1, <2>2 DEF OnePut
  <2> QED BY <2>1, <2>2, <2>3
<1>4. ASSUME NEW r \in Nat, InsertHere(t, r), Wrote(t)
      PROVE  /\ curr[t] \in Nexts /\ OnePut(t) /\ Puts(t)
             /\ Keys(heap'[curr[t]]) = Keys(heap[curr[t]]) \cup {K(t)}
  <2>1. Missing(t, r)
    BY <1>4 DEF InsertHere
  <2>2. Puts(t)
    BY <1>2, <1>4, <2>1 DEF Puts, Filling
  <2>3. OnePut(t)
    BY <1>4, HereOrder
  <2>4. Keys(heap'[curr[t]]) = Keys(heap[curr[t]]) \cup {K(t)}
    BY <2>1, <2>3 DEF OnePut
  <2> QED BY <1>2, <2>1, <2>2, <2>3, <2>4
<1>5. ASSUME NEW r \in Nat, InsertLeft(t, r) \/ InsertRight(t, r) \/ PromoteSplit(t, r)
      PROVE  curr[t] \in Nexts /\ TwoPut(t) /\ Puts(t)
  <2>1. Missing(t, r)
    BY <1>5 DEF InsertLeft, InsertRight, PromoteSplit
  <2>2. Puts(t)
    BY <1>2, <1>5, <2>1 DEF Puts, Filling
  <2>3. TwoPut(t)
    BY <1>5, LeftOrder, RightOrder, PromotedOrder
  <2> QED BY <1>2, <2>1, <2>2, <2>3
<1> QED BY <1>1, <1>3, <1>4, <1>5, HeapEffect DEF Puts

\* the keys on the levels after a step: the insert's, where it puts it
LEMMA LevelsStep ==
  ASSUME OInv, NEW t \in Threads, Step(t), AimsWell(t), NEW k, NEW l
  PROVE  OnLevel(k, l)' <=> OnLevel(k, l) \/ (Puts(t) /\ k = K(t) /\ l = Level(curr[t]))
<1> DEFINE Has(n) == Level(n) = l /\ k \in Keys(heap'[n])
<1>1. OnLevel(k, l)' <=> \E n \in Nexts' : Has(n)
  BY DEF OnLevel, Keys, Live
<1>2. CASE heap' = heap /\ ~Puts(t)
  <2>1. ~Divided(t)
    BY <1>2 DEF Divided
  <2> QED BY <1>1, <1>2, <2>1, NextsGrow DEF OnLevel
<1>3. CASE curr[t] \in Nexts /\ Wrote(t)
  <2>1. ~Divided(t)
    BY <1>3 DEF Wrote, Divided
  <2>2. \A n \in Nexts : n # curr[t] => heap'[n] = heap[n]
    BY <1>3 DEF Wrote, Nexts
  <2>3. CASE ~Puts(t) /\ Keys(heap'[curr[t]]) = Keys(heap[curr[t]])
    <3>1. \A n \in Nexts : Keys(heap'[n]) = Keys(heap[n])
      BY <2>2, <2>3
    <3> QED BY <1>1, <2>1, <2>3, <3>1, NextsGrow DEF OnLevel
  <2>4. CASE Puts(t) /\ Keys(heap'[curr[t]]) = Keys(heap[curr[t]]) \cup {K(t)}
    <3>1. \A n \in Nexts : k \in Keys(heap'[n]) <=> k \in Keys(heap[n]) \/ (n = curr[t] /\ k = K(t))
      BY <2>2, <2>4
    <3>2. \E n \in Nexts : n = curr[t]
      BY <1>3
    <3> QED BY <1>1, <2>1, <2>4, <3>1, <3>2, NextsGrow DEF OnLevel
  <2> QED BY <1>3, <2>1, <2>3, <2>4, PutEffect DEF Wrote
<1>4. CASE curr[t] \in Nexts /\ Divided(t) /\ TwoPut(t) /\ Puts(t)
  <2>1. PICK new \in Nodes : new = NewNode(t, Level(curr[t])) /\ Level(new) = Level(curr[t])
    BY <1>4 DEF Divided
  <2>2. Keys(heap'[curr[t]]) \cup Keys(heap'[new]) = Keys(heap[curr[t]]) \cup {K(t)}
    BY <1>4, <2>1 DEF TwoPut
  <2>3. \A n \in Nexts : n # curr[t] => n # new /\ heap'[n] = heap[n]
    BY <1>4, <2>1 DEF Divided, Nexts, InList
  <2>4. \E n \in Nexts' : n = new
    BY <1>4, <2>1, NextsGrow
  <2>5. \E n \in Nexts' : n = curr[t]
    BY <1>4, NextsGrow
  <2>6. ASSUME NEW n \in Nexts', Has(n)
        PROVE  OnLevel(k, l) \/ (Puts(t) /\ k = K(t) /\ l = Level(curr[t]))
    <3>1. CASE n = curr[t] \/ n = new
      BY <1>4, <2>1, <2>2, <2>6, <3>1 DEF OnLevel
    <3>2. CASE n # curr[t] /\ n # new
      <4>1. n \in Nexts
        BY <2>1, <3>2, NextsGrow
      <4> QED BY <2>3, <2>6, <3>2, <4>1 DEF OnLevel
    <3> QED BY <3>1, <3>2
  <2>7. ASSUME NEW n \in Nexts, Level(n) = l, k \in Keys(heap[n])
        PROVE  \E m \in Nexts' : Has(m)
    <3>1. CASE n = curr[t]
      BY <2>1, <2>2, <2>4, <2>5, <2>7, <3>1
    <3>2. CASE n # curr[t]
      BY <2>3, <2>7, <3>2, NextsGrow
    <3> QED BY <3>1, <3>2
  <2>8. k = K(t) /\ l = Level(curr[t]) => \E m \in Nexts' : Has(m)
    BY <2>1, <2>2, <2>4, <2>5
  <2> QED BY <1>1, <1>4, <2>6, <2>7, <2>8 DEF OnLevel
<1> QED BY <1>2, <1>3, <1>4, PutEffect

\* what a step of t makes of its insert, by where it is on the way: elsewhere,
\* between two levels, one level down, at the end, or finding its key
OffWay(t) == ~Puts(t) /\ ~Placing(t) /\ ~Placing(t)'
Between(t) == /\ ~Puts(t) /\ Placing(t) /\ Placing(t)'
              /\ call'[t] = call[t] /\ Level(curr'[t]) = Level(curr[t])
LevelDown(t) == /\ Puts(t) /\ Placing(t)' /\ Level(curr[t]) <= Promote(t) /\ Level(curr[t]) > 0
                /\ call'[t] = call[t] /\ Level(curr'[t]) = Level(curr[t]) - 1
AtBottom(t) == Puts(t) /\ ~Placing(t)' /\ Level(curr[t]) = 0 /\ call'[t] = None
FindsKey(t) == ~Puts(t) /\ ~Placing(t)' /\ \E r : InsertFound(t, r)

\* a thread's place after a step towards another node
LEMMA PlaceAfter ==
  ASSUME IInv, NEW t \in Threads, NEW x, NEW held, Approach(t, x, held), call' = call
  PROVE  /\ curr'[t] = x
         /\ phase'[t] = phase[t] =>
              (Placing(t)' <=> Op(t) = "insert" /\ phase[t] = "search" /\ x # Null
                               /\ Level(x) < Promote(t))
         /\ phase'[t] # "search" => ~Placing(t)'
<1>1. curr'[t] = x
  BY DEF Approach, IInv, TypeOK
<1> QED BY <1>1 DEF Placing, Op, Promote, K

\* the ends of calls
LEMMA EndsOffWay ==
  ASSUME IInv, NEW t \in Threads, EndCall(t)
  PROVE  ~Placing(t)'
<1>1. call'[t] = None
  BY DEF EndCall, IInv, TypeOK
<1> QED BY <1>1 DEF Placing, Op, None

\* an insert adds its key on the way down from its top level
LEMMA FillLevel ==
  ASSUME OInv, NEW t \in Threads, NEW r, Filling(t, r)
  PROVE  /\ Level(curr[t]) \in Levels /\ Promote(t) \in Levels
         /\ Level(curr[t]) \in Int /\ Promote(t) \in Int
         /\ Level(curr[t]) <= Promote(t)
<1>1. Promote(t) = Level(curr[t]) \/ Promote(t) > Level(curr[t])
  <2>1. InsertHere(t, r) => Promote(t) = Level(curr[t])
    BY DEF InsertHere
  <2>2. InsertLeft(t, r) => Promote(t) = Level(curr[t])
    BY DEF InsertLeft
  <2>3. InsertRight(t, r) => Promote(t) = Level(curr[t])
    BY DEF InsertRight
  <2>4. PromoteSplit(t, r) => Promote(t) > Level(curr[t])
    BY DEF PromoteSplit
  <2> QED BY <2>1, <2>2, <2>3, <2>4 DEF Filling
<1>2. Missing(t, r) /\ pc[t] = "visit"
  BY DEF Filling, InsertHere, InsertLeft, InsertRight, PromoteSplit, Missing, At
<1>3. Level(curr[t]) \in Levels /\ Level(curr[t]) \in Int
  <2>1. curr[t] \in Nodes
    BY <1>2, AtNodeFacts
  <2> QED BY <2>1, NodeNames, Constants
<1>4. Promote(t) \in Levels /\ Promote(t) \in Int
  <2>1. K(t) \in 0 .. Inf - 1
    BY <1>2, CallType DEF OInv, LInv, IInv
  <2> QED BY <2>1, LevelAssumption, Constants DEF Promote
<1> QED BY <1>1, <1>3, <1>4

\* the five cases of a step
LEMMA WayCases ==
  ASSUME OInv, NEW t \in Threads, Step(t)
  PROVE  OffWay(t) \/ Between(t) \/ LevelDown(t) \/ AtBottom(t) \/ FindsKey(t)
<1>1. /\ LInv /\ IInv /\ Guided(t)
      /\ phase \in [Threads -> Phases]
      /\ curr \in [Threads -> Pointers] /\ call \in [Threads -> Calls \cup {None}]
  BY DEF OInv, LInv, IInv, TypeOK, Phases, Ordered, Searching, Guided
<1>2. Puts(t) => \E r : Filling(t, r)
  BY DEF Puts
<1>3. \A r : Filling(t, r) => Missing(t, r) /\ pc[t] = "visit" /\ phase[t] = "search" /\ Op(t) = "insert"
  BY DEF Filling, InsertHere, InsertLeft, InsertRight, PromoteSplit, Missing, At
<1>4. CASE Idle(t)
  <2>1. pc[t] = "idle" /\ ~Puts(t)
    BY <1>2, <1>3, <1>4 DEF Idle, StartRead, StartInsert, InsertZero, Begin
  <2>2. ~Placing(t)
    <3>1. call[t] = None
      BY <1>1, <2>1 DEF LInv, Links, Going
    <3> QED BY <3>1 DEF Placing, Op, None
  <2>3. ~Placing(t)'
    <3>1. CASE InsertZero(t)
      BY <2>2, <3>1 DEF InsertZero, place, Placing, Op, Promote, K
    <3>2. ASSUME NEW c \in todo[t], Begin(t, c) PROVE ~Placing(t)'
      <4>1. call'[t] = c /\ curr'[t] = Header(Height - 1) /\ c \in Calls
        BY <1>1, <3>2 DEF Begin, Approach, IInv, TypeOK
      <4>2. Level(Header(Height - 1)) = Height - 1
        BY DEF Level, Header
      <4>3. LevelOf[c.key] <= Height - 1
        <5>1. c.key \in 0 .. Inf - 1
          BY <4>1 DEF Calls
        <5> QED BY <5>1, LevelAssumption, HeightAssumption DEF Levels
      <4>4. LevelOf[c.key] \in Int /\ Height - 1 \in Int
        BY <4>1, LevelAssumption, HeightAssumption DEF Levels, Calls
      <4> QED BY <4>1, <4>2, <4>3, <4>4 DEF Placing, Op, Promote, K
    <3> QED BY <1>4, <3>1, <3>2 DEF Idle, StartRead, StartInsert
  <2> QED BY <2>1, <2>2, <2>3 DEF OffWay
<1>5. CASE Locking(t)
  <2>1. UNCHANGED <<call, phase, curr>> /\ ~Puts(t)
    BY <1>2, <1>3, <1>5 DEF Locking, ReadLock, WriteLock, Drain, Handover, place
  <2> QED BY <2>1 DEF OffWay, Between, Placing, Op, Promote, K
<1>6. CASE MoveRight(t)
  <2>1. /\ pc[t] = "visit" /\ phase[t] = "search" /\ heap[curr[t]].next_header <= K(t)
        /\ Approach(t, heap[curr[t]].next, curr[t]) /\ call' = call /\ phase' = phase
    BY <1>6 DEF MoveRight
  <2>2. PICK n \in Nexts : n = curr[t] /\ n \in Nodes /\ heap[n] \in NodeOf(Level(n))
    BY <2>1, AtNodeFacts
  <2>3. n # Null
    BY <2>2, NodeNames
  <2>4. heap[n].next # Null /\ Level(heap[n].next) = Level(n)
    BY <2>2 DEF NodeOf, Peers, OInv, Ordered, Following
  <2>5. ~Puts(t)
    <3> SUFFICES ASSUME NEW r, At(t, r) PROVE FALSE
      BY <1>2, <1>3 DEF Missing
    <3>1. K(t) < heap[n].next_header /\ heap[n].next_header \in Int
      BY <2>2, AtRank
    <3>2. K(t) \in Int
      BY <2>1, AtNodeFacts
    <3> QED BY <2>1, <2>2, <3>1, <3>2
  <2> QED BY <1>1, <2>1, <2>2, <2>3, <2>4, <2>5, PlaceAfter DEF OffWay, Between, Placing
<1>7. ASSUME pc[t] = "visit", NEW r, GoDown(t, r), Op(t) # "insert" \/ phase[t] # "search"
      PROVE  OffWay(t)
  <2>1. phase'[t] = "down" /\ call' = call /\ ~Puts(t)
    BY <1>1, <1>2, <1>3, <1>7 DEF GoDown
  <2> QED BY <1>7, <2>1 DEF OffWay, Placing
<1>8. CASE Again(t)
  BY <1>7, <1>8 DEF Again
<1>9. CASE Overwrite(t)
  <2>1. EndCall(t) /\ phase[t] # "search"
    BY <1>9 DEF Overwrite, Return
  <2> QED BY <1>1, <1>2, <1>3, <2>1, EndsOffWay DEF OffWay, Placing
<1>10. ASSUME NEW r, Moving(t, r) PROVE OffWay(t) \/ FindsKey(t)
  <2>1. CASE Descend(t, r)
    <3>1. /\ At(t, r) /\ Level(curr[t]) > 0 /\ Approach(t, ChildAt(t, r), curr[t])
          /\ call' = call /\ phase' = phase /\ (Op(t) = "insert" => Promote(t) < Level(curr[t]))
      BY <2>1 DEF Descend
    <3>2. curr[t] \in Nexts /\ r \in Live(heap[curr[t]]) /\ heap[curr[t]] \in NodeOf(Level(curr[t]))
      BY <3>1, AtRank
    <3>3. PICK x : x = ChildAt(t, r)
      OBVIOUS
    <3>4. x # Null /\ Level(x) = Level(curr[t]) - 1
      BY <3>1, <3>2, <3>3, ChildHead DEF ChildAt, NodeOf, Peers, Live
    <3>5. ASSUME Op(t) = "insert"
          PROVE  /\ ~(Level(curr[t]) < Promote(t)) /\ ~(Level(x) < Promote(t))
                 /\ ~(Level(curr[t]) <= Promote(t))
      <4>1. Level(curr[t]) \in Int
        BY <3>2, NodeNames, Constants DEF Nexts
      <4>2. Promote(t) \in Int
        <5>1. pc[t] # "idle"
          BY <3>1 DEF At
        <5>2. K(t) \in 0 .. Inf - 1
          BY <1>1, <5>1, CallType DEF IInv
        <5> QED BY <5>2, LevelAssumption, Constants DEF Promote
      <4> QED BY <3>1, <3>4, <3>5, <4>1, <4>2
    <3>6. ~Placing(t) /\ ~Placing(t)'
      BY <1>1, <3>1, <3>3, <3>5, PlaceAfter DEF Placing
    <3>7. ~Puts(t)
      BY <1>2, <1>3, <3>5, FillLevel
    <3> QED BY <3>6, <3>7 DEF OffWay
  <2>2. CASE ReaderFound(t, r)
    BY <1>7, <2>2 DEF ReaderFound, At
  <2>3. CASE Down(t, r)
    BY <1>7, <2>3 DEF Down
  <2>4. CASE InsertFound(t, r)
    <3>1. phase'[t] = "again"
      BY <1>1, <2>4 DEF InsertFound
    <3>2. ~Puts(t)
      <4> SUFFICES ASSUME NEW s, Filling(t, s) PROVE FALSE
        BY <1>2
      <4>1. phase' = phase \/ phase'[t] = "search"
        BY <1>1 DEF Filling, InsertHere, InsertLeft, InsertRight, PromoteSplit, EndOrDescend,
                    Return, EndCall
      <4> QED BY <1>3, <3>1, <4>1
    <3> QED BY <2>4, <3>1, <3>2 DEF FindsKey, Placing
  <2> QED BY <1>10, <2>1, <2>2, <2>3, <2>4 DEF Moving
<1>11. ASSUME NEW r, Ending(t, r) PROVE OffWay(t)
  <2>1. EndCall(t) /\ Op(t) # "insert"
    BY <1>11 DEF Ending, ValueHit, ValueMiss, ExistsHit, ExistsMiss, Return
  <2> QED BY <1>1, <1>2, <1>3, <2>1, EndsOffWay DEF OffWay, Placing
<1>12. ASSUME NEW r, Scanning(t, r) PROVE OffWay(t)
  <2>1. Op(t) # "insert" /\ (call' = call \/ EndCall(t))
    BY <1>12 DEF Scanning, ScanOn, ScanEnd
  <2> QED BY <1>1, <1>2, <1>3, <2>1, EndsOffWay DEF OffWay, Placing, Op
<1>13. ASSUME NEW r \in 0 .. MaxKeys, Filling(t, r) PROVE LevelDown(t) \/ AtBottom(t)
  <2>1. Missing(t, r) /\ \E held : EndOrDescend(t, ChildAt(t, r), held)
    BY <1>13 DEF Filling, InsertHere, InsertLeft, InsertRight, PromoteSplit
  <2>2. Puts(t)
    BY <1>13 DEF Puts
  <2>3. CASE Level(curr[t]) = 0
    <3>1. EndCall(t)
      BY <2>1, <2>3 DEF EndOrDescend, Return
    <3>2. call'[t] = None
      BY <1>1, <3>1 DEF EndCall
    <3> QED BY <1>1, <2>2, <2>3, <3>1, <3>2, EndsOffWay DEF AtBottom
  <2>4. CASE Level(curr[t]) # 0
    <3>1. PICK held : Approach(t, ChildAt(t, r), held) /\ call' = call /\ phase' = phase
      BY <2>1, <2>4 DEF EndOrDescend
    <3>2. /\ curr[t] \in Nexts /\ r \in Live(heap[curr[t]]) /\ heap[curr[t]] \in NodeOf(Level(curr[t]))
          /\ Op(t) = "insert" /\ phase[t] = "search" /\ pc[t] = "visit"
      BY <2>1, AtRank DEF Missing, At
    <3>3. Level(curr[t]) \in Int /\ Level(curr[t]) > 0
      <4>1. Level(curr[t]) \in Levels
        BY <3>2, NodeNames DEF Nexts
      <4> QED BY <2>4, <4>1 DEF Levels
    <3>4. PICK x : x = ChildAt(t, r)
      OBVIOUS
    <3>5. x # Null /\ Level(x) = Level(curr[t]) - 1
      BY <3>2, <3>3, <3>4, ChildHead DEF ChildAt, NodeOf, Peers, Live
    <3>6. Promote(t) \in Int
      <4>1. K(t) \in 0 .. Inf - 1
        BY <1>1, <3>2, CallType DEF IInv
      <4> QED BY <4>1, LevelAssumption, Constants DEF Promote
    <3>7. Level(curr[t]) <= Promote(t)
      BY <1>13, FillLevel
    <3>8. Level(x) < Promote(t)
      BY <3>3, <3>5, <3>6, <3>7
    <3> QED BY <1>1, <2>2, <3>1, <3>2, <3>3, <3>4, <3>5, <3>7, <3>8, PlaceAfter DEF LevelDown
  <2> QED BY <2>3, <2>4
<1> QED BY <1>4, <1>5, <1>6, <1>8, <1>9, <1>10, <1>11, <1>12, <1>13, StepCases

-------------------------------------------------------------------------------
(* The towers: on which levels the keys are                                *)

\* the nodes of a level share no key: one ends where the other begins, or before
Apart == \A n, m \in Nexts : Level(n) = Level(m) /\ n # m =>
           \/ heap[n].next_header <= GetHeader(heap[m])
           \/ heap[m].next_header <= GetHeader(heap[n])

\* a key is on no level above its own ...
High == \A k \in 1 .. Inf - 1, l \in Levels : OnLevel(k, l) => l <= LevelOf[k]

\* ... and on all below, once nobody is placing it
Whole ==
  \A k \in 0 .. Inf - 1 :
    (\E l \in Levels : OnLevel(k, l)) /\ (\A t \in Threads : Placing(t) => K(t) # k) =>
      \A l \in Levels : l <= LevelOf[k] => OnLevel(k, l)

\* a key that is being placed is on the levels above the one its insert has come to
Growing == \A t \in Threads : Placing(t) =>
             \A l \in Levels : l <= Promote(t) => (OnLevel(K(t), l) <=> Level(curr[t]) < l)

\* one insert of a key places it
Single == \A t, u \in Threads : Placing(t) /\ Placing(u) /\ K(t) = K(u) => t = u

\* the end sentinels hold nothing else
Tails == \A l \in Levels : heap[EndSentinel(l)].num = 1

Towers == Apart /\ High /\ Whole /\ Growing /\ Single /\ Tails

\* The invariant of the towers: two inserts of a key meet at the topmost node it
\* belongs to (Single, Growing), so the one that comes second finds it there.
TInv == OInv /\ Towers

\* the header of a node and its next_header bound its keys
LEMMA NodeSpan ==
  ASSUME OInv, NEW n \in Nexts
  PROVE  /\ GetHeader(heap[n]) \in Int /\ heap[n].next_header \in Int
         /\ GetHeader(heap[n]) < heap[n].next_header
         /\ \A k \in Keys(heap[n]) : k \in Int /\ GetHeader(heap[n]) <= k /\ k < heap[n].next_header
<1>1. n \in Nodes /\ heap[n].num > 0
  BY DEF Nexts, InList
<1>2. heap[n] \in NodeType(Pointers)
  BY <1>1 DEF OInv, LInv, IInv, TypeOK
<1>3. GetHeader(heap[n]) \in Int /\ heap[n].next_header \in Int /\ 0 \in Live(heap[n])
  BY <1>1, <1>2, Constants DEF NodeType, GetHeader, Live
<1>4. Ascends(heap[n]) /\ Within(heap[n])
  BY DEF OInv, Ordered, Ascending
<1>5. GetHeader(heap[n]) < heap[n].next_header
  BY <1>3, <1>4 DEF Within, Keys, GetHeader
<1>6. ASSUME NEW k \in Keys(heap[n])
      PROVE  k \in Int /\ GetHeader(heap[n]) <= k /\ k < heap[n].next_header
  <2>1. PICK i \in Live(heap[n]) : k = heap[n].key[i]
    BY DEF Keys
  <2>2. i \in Slot /\ i \in Int /\ 0 <= i
    BY Constants DEF Live
  <2>3. k \in Int
    BY <1>2, <2>1, <2>2, Constants DEF NodeType
  <2>4. i = 0 \/ 0 < i
    BY <2>2
  <2>5. GetHeader(heap[n]) = k \/ GetHeader(heap[n]) < k
    BY <1>3, <1>4, <2>1, <2>4 DEF Ascends, GetHeader
  <2> QED BY <1>3, <1>4, <2>3, <2>5 DEF Within
<1> QED BY <1>3, <1>5, <1>6

\* a search that misses its key in the node misses it on the level
LEMMA NotThere ==
  ASSUME OInv, Apart, NEW t \in Threads, NEW r, At(t, r), ~Hit(t, r)
  PROVE  ~OnLevel(K(t), Level(curr[t]))
<1>1. /\ curr[t] \in Nexts /\ heap[curr[t]] \in NodeOf(Level(curr[t]))
      /\ GoesBehind(heap[curr[t]], K(t), r) /\ K(t) < heap[curr[t]].next_header
      /\ Ascends(heap[curr[t]]) /\ K(t) \in Int
  BY MissRank
<1>2. At(t, r) /\ pc[t] = "visit" /\ phase[t] = "search"
  BY DEF At
<1>3. GetHeader(heap[curr[t]]) <= K(t)
  BY <1>2, AtNodeFacts
<1> SUFFICES ASSUME NEW n \in Nexts, Level(n) = Level(curr[t]), K(t) \in Keys(heap[n])
             PROVE  FALSE
  BY DEF OnLevel
<1>4. CASE n = curr[t]
  <2>1. PICK i \in Live(heap[n]) : heap[n].key[i] = K(t)
    BY DEF Keys
  <2>2. r \in Int /\ r \in Live(heap[n]) /\ heap[n].num \in Int
    BY <1>1, <1>2, <1>4, AtRank, LiveRanks
  <2>3. i \in Int
    BY <1>1, <1>4, <2>1, LiveRanks
  <2>4. heap[n].key[r] \in Int /\ (r + 1 \in Live(heap[n]) => heap[n].key[r + 1] \in Int)
    BY <1>1, <1>4, <2>2, LiveRanks
  <2>5. CASE i <= r
    <3>1. i = r \/ i < r
      BY <2>2, <2>3, <2>5
    <3>2. heap[n].key[i] = heap[n].key[r] \/ heap[n].key[i] < heap[n].key[r]
      BY <1>1, <1>4, <2>1, <2>2, <3>1 DEF Ascends
    <3>3. heap[n].key[r] < K(t)
      BY <1>1, <1>4 DEF GoesBehind
    <3> QED BY <1>1, <2>1, <2>4, <3>2, <3>3
  <2>6. CASE i > r
    <3>1. r + 1 \in Live(heap[n]) /\ r + 1 < heap[n].num
      <4>1. 0 <= r /\ i < heap[n].num
        BY <1>1, <1>4, <2>1, <2>2, LiveRanks
      <4> QED BY <1>1, <1>4, <2>2, <2>3, <2>6, <4>1, LiveRanks
    <3>2. K(t) < heap[n].key[r + 1]
      BY <1>1, <1>4, <3>1 DEF GoesBehind
    <3>3. i = r + 1 \/ r + 1 < i
      BY <2>2, <2>3, <2>6
    <3>4. heap[n].key[i] = heap[n].key[r + 1] \/ heap[n].key[r + 1] < heap[n].key[i]
      BY <1>1, <1>4, <2>1, <3>1, <3>3 DEF Ascends
    <3> QED BY <1>1, <2>1, <2>4, <3>1, <3>2, <3>4
  <2> QED BY <2>2, <2>3, <2>5, <2>6
<1>5. CASE n # curr[t]
  <2>1. /\ GetHeader(heap[n]) <= K(t) /\ K(t) < heap[n].next_header
        /\ GetHeader(heap[n]) \in Int /\ heap[n].next_header \in Int
    BY NodeSpan
  <2>2. GetHeader(heap[curr[t]]) \in Int /\ heap[curr[t]].next_header \in Int
    BY <1>1, NodeSpan
  <2>3. \/ heap[n].next_header <= GetHeader(heap[curr[t]])
        \/ heap[curr[t]].next_header <= GetHeader(heap[n])
    BY <1>1, <1>5 DEF Apart
  <2> QED BY <1>1, <1>3, <2>1, <2>2, <2>3
<1> QED BY <1>4, <1>5

\* an insert that finds its key has come to a level it is on
LEMMA FoundThere ==
  ASSUME OInv, NEW t \in Threads, NEW r, InsertFound(t, r)
  PROVE  OnLevel(K(t), Level(curr[t]))
<1>1. At(t, r) /\ Hit(t, r)
  BY DEF InsertFound
<1>2. curr[t] \in Nexts /\ r \in Live(heap[curr[t]])
  BY <1>1, AtRank
<1> QED BY <1>1, <1>2 DEF OnLevel, Keys, Hit

\* a split leaves the two parts apart, and apart from the others
LEMMA ApartStep ==
  ASSUME OInv, Apart, NEW t \in Threads, Step(t), AimsWell(t)
  PROVE  Apart'
<1> DEFINE Split(n, m) == \/ heap'[n].next_header <= GetHeader(heap'[m])
                          \/ heap'[m].next_header <= GetHeader(heap'[n])
<1>1. LInv' /\ OInv
  BY LInvStep DEF OInv
<1>2. \A n \in Nodes : heap'[n].next_header \in Int /\ GetHeader(heap'[n]) \in Int
  <2> SUFFICES ASSUME NEW n \in Nodes PROVE heap'[n].next_header \in Int /\ GetHeader(heap'[n]) \in Int
    OBVIOUS
  <2>1. heap'[n] \in NodeType(Pointers)
    BY <1>1 DEF LInv, IInv, TypeOK
  <2>2. PICK a \in NodeType(Pointers) : a = heap'[n]
    BY <2>1
  <2>3. a.next_header \in Int /\ a.key[0] \in Int
    <3>1. 0 \in Slot /\ AnyKey \subseteq Int
      BY Constants
    <3>2. a.next_header \in AnyKey /\ a.key \in [Slot -> AnyKey]
      BY DEF NodeType
    <3> QED BY <3>1, <3>2
  <2> QED BY <2>2, <2>3 DEF GetHeader
<1>3. ASSUME NEW n \in Nexts, NEW m \in Nexts, Level(n) = Level(m), n # m PROVE Split(n, m)
  <2>1. n \in Nodes /\ InList(n) /\ m \in Nodes /\ InList(m)
    BY DEF Nexts
  <2>2. /\ GetHeader(heap'[n]) = GetHeader(heap[n]) /\ heap'[n].next_header <= heap[n].next_header
        /\ GetHeader(heap'[m]) = GetHeader(heap[m]) /\ heap'[m].next_header <= heap[m].next_header
    BY <2>1, HeadersStay
  <2>3. heap[n].next_header <= GetHeader(heap[m]) \/ heap[m].next_header <= GetHeader(heap[n])
    BY <1>3 DEF Apart
  <2>4. /\ heap[n].next_header \in Int /\ heap[m].next_header \in Int
        /\ GetHeader(heap[n]) \in Int /\ GetHeader(heap[m]) \in Int
    BY NodeSpan
  <2> QED BY <1>2, <2>1, <2>2, <2>3, <2>4
<1>4. ASSUME Divided(t), NEW new \in Nodes, new = NewNode(t, Level(curr[t])), NEW m \in Nexts,
             Level(m) = Level(new)
      PROVE  Split(new, m)
  <2>1. curr[t] \in Nexts /\ TwoPut(t)
    <3>1. heap' # heap /\ ~Wrote(t)
      BY <1>4 DEF Divided, Wrote
    <3> QED BY <3>1, OrderEffect
  <2>2. /\ heap'[curr[t]].next_header = GetHeader(heap'[new])
        /\ heap'[new].next_header = heap[curr[t]].next_header
        /\ Within(heap'[curr[t]]) /\ heap'[curr[t]].num > 0 /\ Level(new) = Level(curr[t])
    BY <1>4, <2>1 DEF TwoPut, Divided, SameLinks, GetHeader
  <2>3. CASE m = curr[t]
    BY <1>2, <1>4, <2>2, <2>3
  <2>4. CASE m # curr[t]
    <3>1. m # new /\ heap'[m] = heap[m] /\ curr[t] \in Nodes /\ m \in Nodes
      BY <1>4, <2>4 DEF Divided, Nexts, InList
    <3>2. \/ heap[m].next_header <= GetHeader(heap[curr[t]])
          \/ heap[curr[t]].next_header <= GetHeader(heap[m])
      BY <1>4, <2>1, <2>2, <2>4 DEF Apart
    <3>3. GetHeader(heap[curr[t]]) = GetHeader(heap'[curr[t]])
      BY <2>1 DEF TwoPut, GetHeader
    <3>4. GetHeader(heap'[curr[t]]) < GetHeader(heap'[new])
      <4>1. 0 \in Live(heap'[curr[t]])
        BY <2>2, Constants DEF Live
      <4> QED BY <2>2, <4>1 DEF Within, Keys, GetHeader
    <3> QED BY <1>2, <1>4, <2>2, <3>1, <3>2, <3>3, <3>4
  <2> QED BY <2>3, <2>4
<1> SUFFICES ASSUME NEW n \in Nexts', NEW m \in Nexts', Level(n) = Level(m), n # m
             PROVE  Split(n, m)
  BY DEF Apart, GetHeader
<1>5. /\ n \in Nodes /\ (n \in Nexts \/ (Divided(t) /\ n = NewNode(t, Level(curr[t]))))
      /\ m \in Nodes /\ (m \in Nexts \/ (Divided(t) /\ m = NewNode(t, Level(curr[t]))))
  BY NextsStep
<1> HIDE DEF Split
<1>6. Split(n, m) \/ Split(m, n)
  BY <1>3, <1>4, <1>5
<1> QED BY <1>6 DEF Split

\* the others keep their inserts and their places
LEMMA OthersWay ==
  ASSUME IInv, NEW t \in Threads, Step(t), NEW u \in Threads, u # t
  PROVE  /\ Placing(u)' <=> Placing(u)
         /\ K(u)' = K(u) /\ Promote(u)' = Promote(u) /\ curr'[u] = curr[u]
BY OthersKept DEF SameThread, Placing, Op, K, Promote

\* what a placing thread has to do with levels
LEMMA PlacingLevels ==
  ASSUME IInv, NEW t \in Threads, pc[t] # "idle"
  PROVE  /\ K(t) \in 0 .. Inf - 1 /\ Promote(t) \in Levels /\ Promote(t) \in Int
         /\ Promote(t) = LevelOf[K(t)]
         /\ curr[t] # Null => curr[t] \in Nodes /\ Level(curr[t]) \in Levels /\ Level(curr[t]) \in Int
<1>1. K(t) \in 0 .. Inf - 1
  BY CallType DEF IInv
<1>2. curr[t] # Null => curr[t] \in Nodes
  BY DEF IInv, TypeOK, Pointers
<1>3. Promote(t) = LevelOf[K(t)] /\ Promote(t) \in Levels
  BY <1>1, LevelAssumption DEF Promote
<1> QED BY <1>1, <1>2, <1>3, NodeNames, Constants

\* an idle thread places nothing
LEMMA PlacingBusy ==
  ASSUME OInv, NEW t \in Threads, Placing(t)
  PROVE  pc[t] # "idle"
BY DEF Placing, OInv, LInv, Links, Going, Op, None

\* a step that puts a key is one of an insert that is placing it, or that has
\* come to the first of its levels
LEMMA PutsWay ==
  ASSUME OInv, NEW t \in Threads, Puts(t)
  PROVE  /\ \E r : Missing(t, r)
         /\ pc[t] = "visit" /\ curr[t] \in Nexts
         /\ Level(curr[t]) <= Promote(t)
         /\ ~Placing(t) => Level(curr[t]) = Promote(t)
<1>1. PICK r : Filling(t, r)
  BY DEF Puts
<1>2. Missing(t, r) /\ Level(curr[t]) <= Promote(t) /\ Level(curr[t]) \in Int /\ Promote(t) \in Int
  BY <1>1, FillLevel DEF Filling, InsertHere, InsertLeft, InsertRight, PromoteSplit
<1>3. pc[t] = "visit" /\ phase[t] = "search" /\ Op(t) = "insert"
  BY <1>2 DEF Missing, At
<1>4. curr[t] \in Nexts /\ curr[t] # Null
  BY <1>3, AtNodeFacts, NodeNames
<1> QED BY <1>2, <1>3, <1>4 DEF Placing

\* The first put of an insert finds its key nowhere, and nobody else placing it.
LEMMA FirstPut ==
  ASSUME TInv, NEW t \in Threads, Puts(t), ~Placing(t)
  PROVE  /\ \A u \in Threads : Placing(u) => K(u) # K(t)
         /\ \A l \in Levels : ~OnLevel(K(t), l)
<1>1. OInv /\ IInv /\ Apart /\ Growing /\ Whole
  BY DEF TInv, OInv, LInv, Towers
<1>2. pc[t] = "visit" /\ Level(curr[t]) = Promote(t) /\ \E r : Missing(t, r)
  BY <1>1, PutsWay
<1>3. K(t) \in 0 .. Inf - 1 /\ Promote(t) \in Levels /\ Promote(t) \in Int /\ Promote(t) = LevelOf[K(t)]
  BY <1>1, <1>2, PlacingLevels
<1>4. ~OnLevel(K(t), Promote(t))
  BY <1>1, <1>2, NotThere DEF Missing
<1>5. ASSUME NEW u \in Threads, Placing(u), K(u) = K(t) PROVE FALSE
  <2>1. Promote(u) = Promote(t)
    BY <1>5 DEF Promote
  <2>2. Level(curr[u]) < Promote(u)
    BY <1>5 DEF Placing
  <2>3. Promote(u) <= Promote(u)
    BY <1>3, <2>1
  <2>4. OnLevel(K(u), Promote(u)) <=> Level(curr[u]) < Promote(u)
    BY <1>1, <1>3, <1>5, <2>1, <2>3 DEF Growing
  <2> QED BY <1>4, <1>5, <2>1, <2>2, <2>4
<1>6. ASSUME NEW l \in Levels, OnLevel(K(t), l) PROVE FALSE
  <2>1. Promote(t) <= LevelOf[K(t)]
    BY <1>3
  <2>2. OnLevel(K(t), Promote(t))
    BY <1>1, <1>3, <1>5, <1>6, <2>1 DEF Whole
  <2> QED BY <1>4, <2>2
<1> QED BY <1>5, <1>6

\* nobody else is placing the key a step puts
LEMMA PutAlone ==
  ASSUME TInv, NEW t \in Threads, Puts(t), NEW u \in Threads, Placing(u), u # t
  PROVE  K(u) # K(t)
BY FirstPut DEF TInv, Towers, Single

\* an insert that has begun to place its key does not find it further down
LEMMA NotFound ==
  ASSUME TInv, NEW t \in Threads, Placing(t)
  PROVE  \A r : ~InsertFound(t, r)
<1>1. OInv /\ IInv /\ Growing
  BY DEF TInv, OInv, LInv, Towers
<1>2. pc[t] # "idle" /\ curr[t] # Null /\ Level(curr[t]) < Promote(t)
  BY <1>1, PlacingBusy DEF Placing
<1>3. Promote(t) \in Int /\ Level(curr[t]) \in Levels /\ Level(curr[t]) \in Int
  BY <1>1, <1>2, PlacingLevels
<1>4. Level(curr[t]) <= Promote(t) /\ ~(Level(curr[t]) < Level(curr[t]))
  BY <1>2, <1>3
<1>5. ~OnLevel(K(t), Level(curr[t]))
  BY <1>1, <1>3, <1>4 DEF Growing
<1> QED BY <1>1, <1>5, FoundThere

\* where a key is put, it was not and nobody else is at it; elsewhere the levels
\* of a key and its inserts stay
LEMMA SingleStep ==
  ASSUME TInv, NEW t \in Threads, Step(t)
  PROVE  Single'
<1>1. OInv /\ IInv /\ Single
  BY DEF TInv, OInv, LInv, Towers
<1>2. ASSUME NEW u \in Threads, u # t, Placing(u), Placing(t)' PROVE K(u) # K(t)'
  <2>1. CASE Between(t)
    BY <1>1, <1>2, <2>1 DEF Between, Single, K
  <2>2. CASE LevelDown(t)
    BY <1>2, <2>2, PutAlone DEF LevelDown, K
  <2> QED BY <1>1, <1>2, <2>1, <2>2, WayCases DEF OffWay, AtBottom, FindsKey
<1> SUFFICES ASSUME NEW u \in Threads, NEW v \in Threads, Placing(u)', Placing(v)', K(u)' = K(v)'
             PROVE  u = v
  BY DEF Single
<1>3. \A w \in Threads : w # t => (Placing(w)' <=> Placing(w)) /\ K(w)' = K(w)
  BY <1>1, OthersWay
<1> QED BY <1>1, <1>2, <1>3 DEF Single

\* a step keeps what the towers under construction have on their levels
LEMMA GrowingStep ==
  ASSUME TInv, NEW t \in Threads, Step(t), AimsWell(t)
  PROVE  Growing'
<1>1. OInv /\ IInv /\ Growing
  BY DEF TInv, OInv, LInv, Towers
<1> SUFFICES ASSUME NEW u \in Threads, Placing(u)', NEW l \in Levels, l <= Promote(u)',
                    NEW k, k = K(u)'
             PROVE  OnLevel(k, l)' <=> Level(curr'[u]) < l
  BY DEF Growing, OnLevel
<1>2. OnLevel(k, l)' <=> OnLevel(k, l) \/ (Puts(t) /\ k = K(t) /\ l = Level(curr[t]))
  BY <1>1, LevelsStep
<1>3. CASE u # t
  <2>1. Placing(u) /\ K(u)' = K(u) /\ Promote(u)' = Promote(u) /\ curr'[u] = curr[u]
    BY <1>1, <1>3, OthersWay
  <2>2. OnLevel(K(u), l) <=> Level(curr[u]) < l
    BY <1>1, <2>1 DEF Growing
  <2>3. Puts(t) => K(u) # K(t)
    BY <1>3, <2>1, PutAlone
  <2> QED BY <1>2, <2>1, <2>2, <2>3
<1>4. CASE u = t
  <2>1. call'[t] = call[t] => K(u)' = K(t) /\ Promote(u)' = Promote(t)
    BY <1>4 DEF K, Promote
  <2>2. CASE Between(t)
    <3>1. OnLevel(K(t), l) <=> Level(curr[t]) < l
      BY <1>1, <2>1, <2>2 DEF Growing, Between
    <3> QED BY <1>2, <1>4, <2>1, <2>2, <3>1 DEF Between
  <2>3. CASE LevelDown(t)
    <3>1. /\ Puts(t) /\ K(u)' = K(t) /\ l <= Promote(t) /\ Level(curr'[u]) = Level(curr[t]) - 1
          /\ Level(curr[t]) <= Promote(t)
      BY <1>4, <2>1, <2>3 DEF LevelDown
    <3>2. pc[t] = "visit" /\ curr[t] \in Nexts /\ (~Placing(t) => Level(curr[t]) = Promote(t))
      BY <1>1, <3>1, PutsWay
    <3>3. Level(curr[t]) \in Int /\ l \in Int /\ Promote(t) \in Int
      BY <1>1, <3>2, PlacingLevels, NodeNames, Constants DEF Nexts
    <3>4. CASE Placing(t)
      <4>1. OnLevel(K(t), l) <=> Level(curr[t]) < l
        BY <1>1, <3>1, <3>4 DEF Growing
      <4>2. Level(curr'[u]) < l <=> Level(curr[t]) < l \/ l = Level(curr[t])
        BY <3>1, <3>3
      <4> QED BY <1>2, <3>1, <4>1, <4>2
    <3>5. CASE ~Placing(t)
      <4>1. ~OnLevel(K(t), l)
        BY <3>1, <3>5, FirstPut
      <4>2. Level(curr'[u]) < l <=> l = Level(curr[t])
        BY <3>1, <3>2, <3>3, <3>5
      <4> QED BY <1>2, <3>1, <4>1, <4>2
    <3> QED BY <3>4, <3>5
  <2> QED BY <1>1, <1>4, <2>2, <2>3, WayCases DEF OffWay, AtBottom, FindsKey
<1> QED BY <1>3, <1>4

\* a step puts no key above the level it was drawn
LEMMA HighStep ==
  ASSUME TInv, NEW t \in Threads, Step(t), AimsWell(t)
  PROVE  High'
<1>1. OInv /\ IInv /\ High
  BY DEF TInv, OInv, LInv, Towers
<1> SUFFICES ASSUME NEW k \in 1 .. Inf - 1, NEW l \in Levels, OnLevel(k, l)'
             PROVE  l <= LevelOf[k]
  BY DEF High
<1>2. OnLevel(k, l) \/ (Puts(t) /\ k = K(t) /\ l = Level(curr[t]))
  BY <1>1, LevelsStep
<1>3. Puts(t) => Level(curr[t]) <= LevelOf[K(t)]
  BY <1>1, PutsWay DEF Promote
<1> QED BY <1>1, <1>2, <1>3 DEF High

\* a step keeps the towers nobody is building whole
LEMMA WholeStep ==
  ASSUME TInv, NEW t \in Threads, Step(t), AimsWell(t)
  PROVE  Whole'
<1>1. OInv /\ IInv /\ Growing /\ Whole
  BY DEF TInv, OInv, LInv, Towers
<1> SUFFICES ASSUME NEW k \in 0 .. Inf - 1, NEW h \in Levels, OnLevel(k, h)',
                    \A u \in Threads : Placing(u)' => K(u)' # k,
                    NEW l \in Levels, l <= LevelOf[k]
             PROVE  OnLevel(k, l)'
  BY DEF Whole
<1>2. \A j \in Levels : OnLevel(k, j)' <=> OnLevel(k, j) \/ (Puts(t) /\ k = K(t) /\ j = Level(curr[t]))
  BY <1>1, LevelsStep
<1>3. CASE Puts(t) /\ k = K(t)
  <2>1. AtBottom(t)
    BY <1>1, <1>3, WayCases DEF OffWay, Between, LevelDown, FindsKey, K
  <2>2. pc[t] = "visit" /\ Level(curr[t]) = 0 /\ (~Placing(t) => Level(curr[t]) = Promote(t))
    BY <1>1, <1>3, <2>1, PutsWay DEF AtBottom
  <2>3. l \in Int /\ 0 <= l /\ Promote(t) = LevelOf[k]
    BY <1>3, Constants DEF Promote
  <2>4. CASE Placing(t)
    <3>1. OnLevel(k, l) <=> Level(curr[t]) < l
      BY <1>1, <1>3, <2>3, <2>4 DEF Growing
    <3>2. 0 < l \/ l = 0
      BY <2>3
    <3> QED BY <1>2, <1>3, <2>2, <3>1, <3>2
  <2>5. CASE ~Placing(t)
    <3>1. l = 0
      BY <2>2, <2>3, <2>5
    <3> QED BY <1>2, <1>3, <2>2, <3>1
  <2> QED BY <2>4, <2>5
<1>4. CASE ~(Puts(t) /\ k = K(t))
  <2>1. OnLevel(k, h)
    BY <1>2, <1>4
  <2>2. ASSUME NEW u \in Threads, Placing(u), K(u) = k PROVE FALSE
    <3>1. CASE u # t
      BY <1>1, <2>2, <3>1, OthersWay
    <3>2. CASE u = t
      <4>1. ~FindsKey(t)
        BY <2>2, <3>2, NotFound DEF FindsKey
      <4>2. Between(t) => Placing(t)' /\ K(t)' = K(t)
        BY DEF Between, K
      <4> QED BY <1>1, <1>4, <2>2, <3>2, <4>1, <4>2, WayCases DEF OffWay, LevelDown, AtBottom
    <3> QED BY <3>1, <3>2
  <2>3. OnLevel(k, l)
    BY <1>1, <2>1, <2>2 DEF Whole
  <2> QED BY <1>2, <2>3
<1> QED BY <1>3, <1>4

\* the end sentinels are left alone
LEMMA TailsStep ==
  ASSUME TInv, NEW t \in Threads, Step(t), AimsWell(t)
  PROVE  Tails'
<1>1. OInv /\ Tails
  BY DEF TInv, Towers
<1> SUFFICES ASSUME NEW l \in Levels PROVE heap'[EndSentinel(l)].num = 1
  BY DEF Tails
<1> DEFINE n == EndSentinel(l)
<1>2. n \in Nodes /\ heap[n].num = 1 /\ n \notin Nexts
  <2>1. n \in Nodes /\ Level(n) = l
    BY DEF Nodes, EndSentinel, Level
  <2> QED BY <1>1, <2>1 DEF Tails, Nexts, IsTail
<1> HIDE DEF n
<1>3. heap'[n] = heap[n]
  BY <1>1, <1>2, OrderEffect DEF Wrote, Divided
<1> QED BY <1>2, <1>3 DEF n

\* the empty lists hold key 0, on every level
LEMMA EmptyLevels ==
  ASSUME Init
  PROVE  /\ \A l \in Levels : /\ Header(l) \in Nexts /\ Level(Header(l)) = l
                              /\ heap[EndSentinel(l)].num = 1
         /\ \A n \in Nexts : n = Header(Level(n)) /\ Keys(heap[n]) = {0}
<1>1. ASSUME NEW l \in Levels
      PROVE  /\ Header(l) \in Nodes /\ Level(Header(l)) = l /\ Header(l) # EndSentinel(l)
             /\ heap[Header(l)].num = 1 /\ heap[Header(l)].key[0] = 0
             /\ EndSentinel(l) \in Nodes /\ heap[EndSentinel(l)].num = 1
  <2>1. Header(l) \in Nodes /\ Level(Header(l)) = l /\ EndSentinel(l) \in Nodes
    BY DEF Nodes, Header, EndSentinel, Level
  <2>2. Header(l) # EndSentinel(l)
    BY DEF Header, EndSentinel
  <2>3. /\ heap[Header(l)] = EmptyList(Header(l))
        /\ heap[EndSentinel(l)] = EmptyList(EndSentinel(l))
    BY <2>1 DEF Init
  <2> QED BY <2>1, <2>2, <2>3, EmptyOrder
<1>2. ASSUME NEW n \in Nexts
      PROVE  n = Header(Level(n)) /\ Level(n) \in Levels /\ Keys(heap[n]) = {0}
  <2>1. n \in Nodes /\ heap[n].num > 0 /\ n # EndSentinel(Level(n)) /\ heap[n] = EmptyList(n)
    BY DEF Nexts, InList, IsTail, Init
  <2>2. n = Header(Level(n)) /\ Level(n) \in Levels
    <3>1. \/ n = Header(Level(n)) \/ n = EndSentinel(Level(n)) \/ heap[n].num = 0
      BY <2>1, EmptyLinks
    <3> QED BY <2>1, <3>1, NodeNames
  <2>3. heap[n].num = 1 /\ heap[n].key[0] = 0
    BY <1>1, <2>2
  <2>4. Live(heap[n]) = {0}
    <3>1. \A i \in Slot : i < 1 <=> i = 0
      BY Constants
    <3>2. 0 \in Slot
      BY Constants
    <3> QED BY <2>3, <3>1, <3>2 DEF Live
  <2> QED BY <2>2, <2>3, <2>4 DEF Keys
<1>3. \A l \in Levels : Header(l) \in Nexts
  BY <1>1 DEF Nexts, InList, IsTail
<1> QED BY <1>1, <1>2, <1>3

\* the towers of the empty lists
LEMMA TInvInit == Init => TInv
<1> SUFFICES ASSUME Init PROVE TInv
  OBVIOUS
<1>1. OInv
  BY OInvInit
<1>2. /\ \A l \in Levels : /\ Header(l) \in Nexts /\ Level(Header(l)) = l
                           /\ heap[EndSentinel(l)].num = 1
      /\ \A n \in Nexts : n = Header(Level(n)) /\ Keys(heap[n]) = {0}
  BY EmptyLevels
<1>3. \A t \in Threads : ~Placing(t)
  BY DEF Init, Placing, Op, None
<1>5. Apart
  <2> SUFFICES ASSUME NEW n \in Nexts, NEW m \in Nexts, Level(n) = Level(m), n # m PROVE FALSE
    BY DEF Apart
  <2>1. n = Header(Level(n)) /\ m = Header(Level(m))
    BY <1>2
  <2> QED BY <2>1
<1>6. \A k, l : OnLevel(k, l) => k = 0
  BY <1>2 DEF OnLevel
<1>7. \A l \in Levels : OnLevel(0, l)
  BY <1>2 DEF OnLevel
<1>8. High
  <2>1. \A k \in 1 .. Inf - 1 : k # 0
    OBVIOUS
  <2> QED BY <1>6, <2>1 DEF High
<1>9. Whole /\ Growing /\ Single /\ Tails
  BY <1>2, <1>3, <1>6, <1>7 DEF Whole, Growing, Single, Tails
<1> QED BY <1>1, <1>5, <1>8, <1>9 DEF TInv, Towers

\* the driver's steps do not touch them
LEMMA TInvStutter ==
  ASSUME TInv, OInv', UNCHANGED <<heap, call, phase, curr>>
  PROVE  TInv'
<1>1. Nexts' = Nexts
  BY DEF Nexts, InList
<1>2. \A k, l : OnLevel(k, l)' <=> OnLevel(k, l)
  BY <1>1 DEF OnLevel, Keys, Live
<1>3. \A t \in Threads : (Placing(t)' <=> Placing(t)) /\ K(t)' = K(t) /\ Promote(t)' = Promote(t)
  BY DEF Placing, Op, K, Promote
<1>4. Apart' /\ Tails'
  BY <1>1 DEF TInv, Towers, Apart, Tails, GetHeader
<1>5. High'
  BY <1>2 DEF TInv, Towers, High
<1>6. Whole'
  BY <1>2, <1>3 DEF TInv, Towers, Whole
<1>7. Growing'
  <2> SUFFICES ASSUME NEW u \in Threads, Placing(u)', NEW l \in Levels, l <= Promote(u)',
                      NEW k, k = K(u)'
               PROVE  OnLevel(k, l)' <=> Level(curr'[u]) < l
    BY DEF Growing, OnLevel
  <2> QED BY <1>2, <1>3 DEF TInv, Towers, Growing
<1>8. Single'
  BY <1>3 DEF TInv, Towers, Single
<1> QED BY <1>4, <1>5, <1>6, <1>7, <1>8 DEF TInv, Towers

\* every step keeps the towers
LEMMA TInvNext == TInv /\ [Next]_vars /\ [Aimed]_vars => TInv'
<1> SUFFICES ASSUME TInv, [Next]_vars, [Aimed]_vars PROVE TInv'
  OBVIOUS
<1>1. OInv'
  BY OInvNext DEF TInv
<1>2. ASSUME NEW t \in Threads, Step(t), Aimed PROVE TInv'
  <2>1. AimsWell(t)
    BY <1>2 DEF Aimed
  <2>2. Apart'
    BY <1>2, <2>1, ApartStep DEF TInv, Towers
  <2> QED BY <1>1, <1>2, <2>1, <2>2, HighStep, WholeStep, GrowingStep, SingleStep, TailsStep
          DEF TInv, Towers
<1>3. CASE NextRound
  <2>1. UNCHANGED <<heap, call, phase, curr>>
    BY <1>3 DEF NextRound, place
  <2> QED BY <1>1, <2>1, TInvStutter
<1>4. CASE UNCHANGED vars
  <2>1. UNCHANGED <<heap, call, phase, curr>>
    BY <1>4 DEF vars, place
  <2> QED BY <1>1, <2>1, TInvStutter
<1> QED BY <1>2, <1>3, <1>4 DEF Next, Finished

(* The invariant of the towers holds as long as overrides aim well.        *)
THEOREM TowersInductive == Spec /\ OverridesAim => []TInv
BY TInvInit, TInvNext, PTL DEF Spec, OverridesAim

\* the keys in the nodes of a level are those OnLevel speaks of
LEMMA LevelKeys ==
  ASSUME TInv, NEW n \in Nodes, NEW k \in Keys(heap[n]), k # Inf
  PROVE  n \in Nexts
<1>1. PICK i \in Live(heap[n]) : k = heap[n].key[i]
  BY DEF Keys
<1>2. i \in Int /\ 0 <= i /\ i < heap[n].num /\ heap[n].num \in Int
  BY <1>1, Constants DEF Live, TInv, OInv, LInv, IInv, TypeOK, NodeType
<1>3. InList(n)
  BY <1>2 DEF InList
<1>4. ~IsTail(n)
  <2> SUFFICES ASSUME IsTail(n) PROVE FALSE
    OBVIOUS
  <2>1. PICK l \in Levels : n = EndSentinel(l)
    BY NodeNames DEF IsTail
  <2>2. heap[n].num = 1 /\ GetHeader(heap[n]) = Inf
    BY <2>1 DEF TInv, Towers, Tails, OInv, Ordered, EndKeys
  <2>3. i = 0
    BY <1>2, <2>2
  <2> QED BY <1>1, <2>2, <2>3 DEF GetHeader
<1> QED BY <1>3, <1>4 DEF Nexts

(* A key of the leaves is on every level up to the one flip_coins gives it *)
(* and on none above, unless its insert has not ended: inserts of a key    *)
(* that overlap build one tower between them, through every split.         *)
THEOREM TowersComplete == Spec /\ OverridesAim => []TowersWhole
<1>1. TInv => TowersWhole
  <2> SUFFICES ASSUME TInv, NEW k \in 1 .. Inf - 1, Inserting(k) = {}, NEW l \in Levels
               PROVE  (\E n \in Nodes : Level(n) = l /\ k \in Keys(heap[n])) <=>
                        (k \in Contents /\ l <= LevelOf[k])
    BY DEF TowersWhole
  <2>1. k # Inf /\ k # 0 /\ k \in 0 .. Inf - 1 /\ 0 \in Levels
    BY Constants
  <2>2. \A j : (\E n \in Nodes : Level(n) = j /\ k \in Keys(heap[n])) <=> OnLevel(k, j)
    BY <2>1, LevelKeys DEF OnLevel, Nexts
  <2>3. k \in Contents <=> OnLevel(k, 0)
    <3>1. \A n \in Leaves : k \in Keys(heap[n]) => n \in Nodes /\ Level(n) = 0
      BY DEF Leaves
    <3>2. \A n \in Nexts : Level(n) = 0 => n \in Leaves
      BY DEF Nexts, Leaves, IsTail
    <3>3. k \in Contents <=> \E n \in Leaves : k \in Keys(heap[n])
      BY <2>1 DEF Contents
    <3> QED BY <2>2, <3>1, <3>2, <3>3 DEF OnLevel
  <2>4. \A t \in Threads : Placing(t) => K(t) # k
    BY DEF Inserting, Doing, Placing
  <2>5. OnLevel(k, l) => l <= LevelOf[k]
    BY DEF TInv, Towers, High
  <2>6. 0 <= LevelOf[k]
    BY <2>1, LevelAssumption, Constants
  <2>7. (\E j \in Levels : OnLevel(k, j)) => \A j \in Levels : j <= LevelOf[k] => OnLevel(k, j)
    BY <2>1, <2>4 DEF TInv, Towers, Whole
  <2> QED BY <2>1, <2>2, <2>3, <2>5, <2>6, <2>7
<1> QED BY <1>1, TowersInductive, PTL

-------------------------------------------------------------------------------
(* The nodes that are still to come                                        *)

\* c is the node that some insert will put its key into next
Awaited(c) == \E t \in Threads : Placing(t) /\ c = NewNode(t, Level(curr[t]))

\* a child that is in no list yet is on the way
Filled == \A n \in Nexts : Level(n) > 0 =>
            \A i \in Live(heap[n]) : ~InList(heap[n].child[i]) => Awaited(heap[n].child[i])

\* an insert keeps its names from node to node
LEMMA NamesKept ==
  ASSUME OInv, NEW t \in Threads, Step(t), Op(t) = "insert", call'[t] = call[t]
  PROVE  ins'[t] = ins[t]
<1>1. ~StartInsert(t)
  BY DEF StartInsert, Begin, OInv, LInv, Links, Going, Op, None
<1>2. call'[t].op = "insert"
  BY DEF Op
<1> QED BY <1>1, <1>2, InsertKept DEF OInv

\* a node that is on the way stays so until it is in its list
LEMMA AwaitedStays ==
  ASSUME TInv, NEW t \in Threads, Step(t), NEW c \in Nodes, Awaited(c), ~(heap'[c].num > 0)
  PROVE  Awaited(c)'
<1>1. OInv /\ IInv
  BY DEF TInv, OInv, LInv
<1>2. PICK u \in Threads : Placing(u) /\ c = NewNode(u, Level(curr[u]))
  BY DEF Awaited
<1>3. CASE u # t
  <2>1. Placing(u)' /\ curr'[u] = curr[u]
    BY <1>1, <1>2, <1>3, OthersWay
  <2>2. ins'[u] = ins[u]
    BY <1>1, <1>3, OthersKept DEF SameThread
  <2> QED BY <1>2, <2>1, <2>2 DEF Awaited, NewNode
<1>4. CASE u = t
  <2>1. ~FindsKey(t)
    BY <1>2, <1>4, NotFound DEF FindsKey
  <2>2. ~Puts(t)
    <3> SUFFICES ASSUME NEW r \in 0 .. MaxKeys, Filling(t, r) PROVE FALSE
      BY DEF Puts
    <3>1. PromoteSplit(t, r)
      <4>1. Level(curr[t]) < Promote(t)
        BY <1>2, <1>4 DEF Placing
      <4>2. Level(curr[t]) \in Int
        BY <1>1, FillLevel
      <4>3. Promote(t) # Level(curr[t])
        BY <4>1, <4>2
      <4> QED BY <4>3 DEF Filling, InsertHere, InsertLeft, InsertRight
    <3>2. r \in Nat
      BY Constants
    <3>3. Divided(t)
      BY <1>1, <3>1, <3>2, PromoteLinks
    <3> QED BY <1>2, <1>4, <3>3 DEF Divided
  <2>3. Between(t)
    BY <1>1, <1>2, <1>4, <2>1, <2>2, WayCases DEF OffWay, LevelDown, AtBottom
  <2>4. ins'[t] = ins[t]
    BY <1>1, <1>2, <1>4, <2>3, NamesKept DEF Between, Placing
  <2> QED BY <1>2, <1>4, <2>3, <2>4 DEF Between, Awaited, NewNode
<1> QED BY <1>3, <1>4

\* the child that an insert adds is on the way
LEMMA ChildAwaited ==
  ASSUME OInv, NEW t \in Threads, Step(t), NEW r \in Nat, Missing(t, r), Puts(t),
         Level(curr[t]) > 0, NEW c, c = NewNode(t, Level(curr[t]) - 1)
  PROVE  Awaited(c)'
<1>1. LevelDown(t)
  <2>1. Level(curr[t]) # 0
    BY NodeNames, Constants
  <2> QED BY <2>1, WayCases DEF OffWay, Between, AtBottom, FindsKey
<1>2. ins'[t] = ins[t]
  BY <1>1, NamesKept DEF LevelDown, Missing
<1> QED BY <1>1, <1>2 DEF LevelDown, Awaited, NewNode

\* every child that is in no list is on the way
LEMMA FilledStep ==
  ASSUME TInv, Filled, NEW t \in Threads, Step(t), AimsWell(t)
  PROVE  Filled'
<1>1. OInv /\ IInv /\ HeldIn
  BY DEF TInv, OInv, LInv, LocksHeld
<1> SUFFICES ASSUME NEW n \in Nexts', Level(n) > 0, NEW i \in Live(heap'[n]),
                    NEW c, c = heap'[n].child[i], ~(heap'[c].num > 0)
             PROVE  Awaited(c)'
  BY DEF Filled, Live, InList, Awaited, Placing, NewNode, Op, Promote, K
<1>2. n \in Nodes /\ (n \in Nexts \/ (Divided(t) /\ n = NewNode(t, Level(curr[t]))))
  BY <1>1, NextsStep
<1>3. ASSUME NEW m \in Nexts, Level(m) > 0, NEW j \in Live(heap[m]), c = heap[m].child[j]
      PROVE  Awaited(c)'
  <2>1. c \in Nodes
    BY <1>1, <1>3, ElementStays
  <2>2. ~InList(c)
    BY <1>1, <2>1, ListGrows DEF InList
  <2>3. Awaited(c)
    BY <1>3, <2>2 DEF Filled
  <2> QED BY <2>1, <2>3, AwaitedStays
<1>4. ASSUME n \in Nexts, heap'[n] = heap[n] PROVE Awaited(c)'
  BY <1>3, <1>4
<1>5. ASSUME curr[t] \in Nexts, Level(curr[t]) = Level(n), PartWith(t, heap'[n], heap[curr[t]], Level(n)),
             Puts(t) \/ Level(curr[t]) = 0
      PROVE  Awaited(c)'
  <2>1. CASE \E j \in Live(heap[curr[t]]) : c = heap[curr[t]].child[j]
    BY <1>3, <1>5, <2>1
  <2>2. CASE c = NewNode(t, Level(curr[t]) - 1)
    <3>1. Puts(t)
      <4>1. ~(0 > 0)
        OBVIOUS
      <4> QED BY <1>5, <4>1
    <3>2. PICK r \in 0 .. MaxKeys : Filling(t, r)
      BY <3>1 DEF Puts
    <3>3. r \in Nat
      BY Constants
    <3>4. Missing(t, r)
      BY <3>2 DEF Filling, InsertHere, InsertLeft, InsertRight, PromoteSplit
    <3> QED BY <1>1, <1>5, <2>2, <3>1, <3>3, <3>4, ChildAwaited
  <2> QED BY <1>5, <2>1, <2>2 DEF PartWith, Added
<1>6. CASE heap' = heap
  <2>1. n \in Nexts
    BY <1>6 DEF Nexts, InList
  <2> QED BY <1>4, <1>6, <2>1
<1>7. CASE curr[t] \in Nexts /\ Wrote(t) /\ OnePut(t) /\ (Puts(t) \/ Level(curr[t]) = 0)
  <2>1. n # curr[t] => n \in Nexts /\ heap'[n] = heap[n]
    BY <1>2, <1>7 DEF Wrote, Divided, Nexts, InList
  <2>2. n = curr[t] => PartWith(t, heap'[n], heap[curr[t]], Level(n))
    BY <1>7 DEF OnePut
  <2> QED BY <1>4, <1>5, <1>7, <2>1, <2>2
<1>8. CASE curr[t] \in Nexts /\ Divided(t) /\ TwoPut(t) /\ Puts(t)
  <2>1. PICK new \in Nodes : new = NewNode(t, Level(curr[t])) /\ Level(new) = Level(curr[t])
    BY <1>8 DEF Divided
  <2>2. /\ PartWith(t, heap'[curr[t]], heap[curr[t]], Level(curr[t]))
        /\ PartWith(t, heap'[new], heap[curr[t]], Level(curr[t]))
    BY <1>8, <2>1 DEF TwoPut
  <2>3. CASE n = curr[t] \/ n = new
    BY <1>5, <1>8, <2>1, <2>2, <2>3
  <2>4. CASE n # curr[t] /\ n # new
    BY <1>2, <1>4, <1>8, <2>1, <2>4 DEF Divided
  <2> QED BY <2>3, <2>4
<1>9. Wrote(t) /\ ~Puts(t) => Level(curr[t]) = 0 \/ heap' = heap
  <2>1. ~Divided(t) \/ ~Wrote(t)
    BY DEF Wrote, Divided
  <2>2. ASSUME NEW r \in Nat, InsertHere(t, r) PROVE Puts(t)
    <3>1. r \in Slot /\ Filling(t, r)
      BY <2>2, RankIsSlot DEF InsertHere, Missing, At, Filling
    <3>2. r \in 0 .. MaxKeys
      BY <3>1, Constants
    <3> QED BY <3>1, <3>2 DEF Puts
  <2> QED BY <1>1, <2>1, <2>2, HeapEffect DEF Overwrite
<1> QED BY <1>1, <1>6, <1>7, <1>8, <1>9, PutEffect

-------------------------------------------------------------------------------
(* The order in which locks are taken                                      *)

\* an insert into an array whose elements are not Null leaves no Null where there
\* was none
LEMMA ShiftKeeps ==
  ASSUME NEW a, NEW r \in Nat, NEW x, x # Null, NEW last \in Int,
         \A i \in Slot : i < last => a[i] # Null,
         NEW i \in Slot, a[i] # Null
  PROVE  ShiftIn(a, r, x, last)[i] # Null
<1>1. i \in Int /\ \A j \in Int : j \in Slot <=> 0 <= j /\ j < MaxKeys
  BY Constants
<1>2. ShiftIn(a, r, x, last)[i] = IF i = r THEN x ELSE IF i \in r + 1 .. last THEN a[i - 1] ELSE a[i]
  BY DEF ShiftIn
<1>3. i \in r + 1 .. last => i - 1 \in Slot /\ i - 1 < last
  <2>1. i < MaxKeys /\ MaxKeys \in Int
    BY <1>1, Constants
  <2> QED BY <1>1, <2>1
<1> QED BY <1>2, <1>3

\* so does placing a key, with its child
LEMMA PlaceKeeps ==
  ASSUME NEW t \in Threads, NEW l \in Levels, l > 0, NEW node \in NodeOf(l), NEW r \in Nat,
         NEW counted \in BOOLEAN, NewNode(t, l - 1) # Null,
         \A i \in Slot : i < node.num => node.child[i] # Null,
         NEW i \in Slot, node.child[i] # Null
  PROVE  Place(t, node, l, r, counted).child[i] # Null
<1>1. Place(t, node, l, r, counted).child = ShiftIn(node.child, r, NewNode(t, l - 1), node.num)
  BY PlaceArrays
<1>2. node.num \in Int
  BY LiveRanks
<1>3. ShiftIn(node.child, r, NewNode(t, l - 1), node.num)[i] # Null
  BY <1>2, ShiftKeeps
<1> QED BY <1>1, <1>3

\* a slot that has held a child goes on to hold one, live or not: a rank kept
\* across an unlock never leads to Null
LEMMA SlotsStay ==
  ASSUME OInv, NEW t \in Threads, Step(t), NEW n \in Nodes, InList(n), Level(n) > 0,
         NEW i \in Slot, heap[n].child[i] # Null
  PROVE  heap'[n].child[i] # Null
<1>1. IInv /\ HeldIn
  BY DEF OInv, LInv, LocksHeld
<1>2. CASE heap'[n] = heap[n]
  BY <1>2
<1>3. CASE n # curr[t]
  BY <1>1, <1>2, <1>3, HeapEffect DEF Wrote, Divided, InList
<1>4. CASE n = curr[t] /\ Overwrite(t)
  <2>1. Level(n) # 0
    BY NodeNames, Constants
  <2> QED BY <1>4, <2>1 DEF Overwrite
<1>5. ASSUME n = curr[t], NEW r \in Nat, Missing(t, r)
      PROVE  /\ n \in Nexts /\ Level(n) \in Levels /\ heap[n] \in NodeOf(Level(n))
             /\ NewNode(t, Level(n)) \in Nodes /\ NewNode(t, Level(n)) \in Peers(Level(n))
             /\ NewNode(t, Level(n)) # n
             /\ heap[NewNode(t, Level(n))] \in NodeOf(Level(n)) /\ heap[NewNode(t, Level(n))].num = 0
             /\ NewNode(t, Level(n) - 1) # Null
             /\ \A j \in Slot : j < heap[n].num => heap[n].child[j] # Null
  <2>1. /\ n \in Nexts /\ Level(n) \in Levels /\ heap[n] \in NodeOf(Level(n))
        /\ NewNode(t, Level(n)) \in Nodes /\ NewNode(t, Level(n)) \in Peers(Level(n))
        /\ NewNode(t, Level(n)) # n
        /\ heap[NewNode(t, Level(n))] \in NodeOf(Level(n)) /\ heap[NewNode(t, Level(n))].num = 0
    BY <1>1, <1>5, InsertFacts, MissingRank
  <2>2. \A j \in Slot : j < heap[n].num => heap[n].child[j] # Null
    BY <2>1 DEF OInv, Ordered, Aligned, Live
  <2>3. NewNode(t, Level(n) - 1) # Null
    <3>1. Level(n) - 1 \in Levels
      <4>1. \A l \in Levels : l > 0 => l - 1 \in Levels
        BY HeightAssumption DEF Levels
      <4> QED BY <2>1, <4>1
    <3>2. ins[t] \in 1 .. MaxInserts[t]
      BY <1>5, OwnNames DEF OInv, LInv, Missing
    <3>3. NewNode(t, Level(n) - 1) \in Nodes
      BY <3>1, <3>2 DEF Nodes, NewNode
    <3> QED BY <3>3, NodeNames
  <2> QED BY <2>1, <2>2, <2>3
<1>6. ASSUME n = curr[t], NEW r \in Nat, InsertHere(t, r) PROVE heap'[n].child[i] # Null
  <2>1. Missing(t, r)
    BY <1>6 DEF InsertHere
  <2>2. heap'[n] = Place(t, heap[n], Level(n), r + 1, FALSE)
    BY <1>1, <1>6 DEF InsertHere, IInv, TypeOK
  <2>3. /\ Level(n) \in Levels /\ heap[n] \in NodeOf(Level(n))
        /\ NewNode(t, Level(n) - 1) # Null
        /\ \A j \in Slot : j < heap[n].num => heap[n].child[j] # Null
    BY <1>5, <1>6, <2>1
  <2>4. r + 1 \in Nat /\ FALSE \in BOOLEAN
    OBVIOUS
  <2> QED BY <2>2, <2>3, <2>4, PlaceKeeps
<1>7. ASSUME n = curr[t], NEW r \in Nat, InsertLeft(t, r) \/ InsertRight(t, r)
      PROVE  heap'[n].child[i] # Null
  <2>1. Missing(t, r) /\ heap[n].num + 1 > MaxKeys
    BY <1>7 DEF InsertLeft, InsertRight
  <2>2. PICK l \in Levels : l = Level(n)
    BY NodeNames
  <2>3. PICK new \in Nodes : new = NewNode(t, l)
    BY <1>5, <1>7, <2>1, <2>2
  <2>4. /\ heap[n] \in NodeOf(l) /\ new \in Peers(l) /\ new # n /\ heap[new] \in NodeOf(l)
        /\ heap[new].num = 0 /\ NewNode(t, l - 1) # Null
        /\ \A j \in Slot : j < heap[n].num => heap[n].child[j] # Null
    BY <1>5, <1>7, <2>1, <2>2, <2>3
  <2>5. PICK node \in NodeOf(l) : node = heap[n]
    BY <2>4
  <2>6. PICK blank \in NodeOf(l) : blank = heap[new]
    BY <2>4
  <2>7. node.num >= MaxKeys /\ blank.num = 0 /\ node.num = MaxKeys
    BY <2>1, <2>4, <2>5, <2>6, LiveRanks, Constants, HalfOfFull
  <2>8. PICK h : h = Half(node) /\ h \in Int /\ h < MaxKeys
    BY <2>7, HalfOfFull, Constants
  <2>9. PICK half \in NodeOf(l) : half = LeftHalf(node, new)
    BY <2>4, <2>7, LeftHalfShape
  <2>10. half.child = node.child /\ half.num = h
    BY <2>4, <2>7, <2>8, <2>9, LeftHalfShape, HalfArrays
  <2>11. CASE InsertLeft(t, r)
    <3>1. PICK a : a = Place(t, half, l, r + 1, TRUE)
      OBVIOUS
    <3>2. heap'[n] = a
      <4>1. PICK c : heap' = [heap EXCEPT ![new] = c, ![n] = a]
        BY <1>7, <2>2, <2>3, <2>5, <2>9, <2>11, <3>1 DEF InsertLeft
      <4> QED BY <1>1, <2>4, <4>1 DEF IInv, TypeOK
    <3>3. \A j \in Slot : j < half.num => half.child[j] # Null
      <4>1. \A j \in Slot : j < h => j < node.num
        BY <2>7, <2>8, Constants
      <4> QED BY <2>4, <2>5, <2>10, <4>1
    <3>4. half.child[i] # Null /\ r + 1 \in Nat /\ TRUE \in BOOLEAN /\ l > 0
      BY <2>2, <2>5, <2>10
    <3> QED BY <2>4, <3>1, <3>2, <3>3, <3>4, PlaceKeeps
  <2>12. CASE InsertRight(t, r)
    <3>1. heap'[n] = half
      <4>1. PICK c : heap' = [heap EXCEPT ![new] = c, ![n] = half]
        BY <1>7, <2>2, <2>3, <2>5, <2>9, <2>12 DEF InsertRight
      <4> QED BY <1>1, <2>4, <4>1 DEF IInv, TypeOK
    <3> QED BY <2>5, <2>10, <3>1
  <2> QED BY <1>7, <2>11, <2>12
<1>8. ASSUME n = curr[t], NEW r \in Nat, PromoteSplit(t, r) PROVE heap'[n].child[i] # Null
  <2>1. Missing(t, r)
    BY <1>8 DEF PromoteSplit
  <2>2. PICK new : new = NewNode(t, Level(n)) /\ new # n
    BY <1>5, <1>8, <2>1
  <2>3. heap[n] \in NodeOf(Level(n))
    BY <1>5, <1>8, <2>1
  <2>4. PICK a : a = KeptPart(t, heap[n], new, r)
    OBVIOUS
  <2>5. heap'[n] = a
    <3>1. PICK c : heap' = [heap EXCEPT ![new] = c, ![n] = a]
      BY <1>8, <2>2, <2>4 DEF PromoteSplit, KeptPart
    <3> QED BY <1>1, <2>2, <3>1 DEF IInv, TypeOK
  <2>6. a.child = heap[n].child
    BY <2>3, <2>4 DEF KeptPart, SplitKeep, NodeOf
  <2> QED BY <2>5, <2>6
<1> QED BY <1>1, <1>2, <1>3, <1>4, <1>6, <1>7, <1>8, HeapEffect

\* an insert that has found its key on the way has locked, or waits for, a node of
\* a list, and the rank it kept leads down
Resumes(t) == pc[t] # "idle" /\ phase[t] = "again" =>
                /\ curr[t] \in Nodes /\ InList(curr[t]) /\ rank[t] \in Slot
                /\ Level(curr[t]) > 0 => heap[curr[t]].child[rank[t]] # Null
Resuming == \A t \in Threads : Resumes(t)

\* ranks change for the thread whose step it is
LEMMA OthersRank ==
  ASSUME IInv, NEW t \in Threads, Step(t), NEW u \in Threads, u # t
  PROVE  rank'[u] = rank[u]
<1>1. rank \in [Threads -> Slot]
  BY DEF IInv, TypeOK
<1>2. EndCall(t) => rank'[u] = rank[u]
  BY <1>1 DEF EndCall
<1>3. Idle(t) \/ Locking(t) \/ MoveRight(t) \/ Again(t) => rank' = rank
  BY DEF Idle, StartRead, StartInsert, InsertZero, Begin, Locking, ReadLock, WriteLock, Drain,
         Handover, MoveRight, Again, GoDown
<1>4. Overwrite(t) => EndCall(t)
  BY DEF Overwrite, Return
<1>5. \A r : Moving(t, r) => rank' = rank \/ rank' = [rank EXCEPT ![t] = r]
  BY DEF Moving, Descend, ReaderFound, Down, GoDown, InsertFound
<1>6. \A r : Ending(t, r) => EndCall(t)
  BY DEF Ending, ValueHit, ValueMiss, ExistsHit, ExistsMiss, Return
<1>7. \A r : Scanning(t, r) => rank' = rank \/ EndCall(t)
  BY DEF Scanning, ScanOn, ScanEnd
<1>8. \A r : Filling(t, r) => rank' = rank \/ EndCall(t)
  BY DEF Filling, InsertHere, InsertLeft, InsertRight, PromoteSplit, EndOrDescend, Return
<1> QED BY <1>1, <1>2, <1>3, <1>4, <1>5, <1>6, <1>7, <1>8, StepCases

\* how a thread comes to go on with a rank, and keeps it
LEMMA AgainCases ==
  ASSUME OInv, NEW t \in Threads, Step(t), phase'[t] = "again"
  PROVE  \/ \E r : InsertFound(t, r)
         \/ /\ pc[t] # "idle" /\ phase[t] = "again"
            /\ curr'[t] = curr[t] /\ rank'[t] = rank[t]
<1>1. phase \in [Threads -> Phases] /\ (pc[t] = "idle" => phase[t] = "search")
  BY DEF OInv, LInv, IInv, TypeOK, Phases, Ordered, Searching
<1>2. ~EndCall(t)
  BY <1>1 DEF EndCall
<1>3. ~Idle(t)
  BY <1>1 DEF Idle, StartRead, StartInsert, InsertZero, Begin
<1>4. Locking(t) => pc[t] # "idle" /\ phase' = phase /\ curr' = curr /\ rank' = rank
  BY DEF Locking, ReadLock, WriteLock, Drain, Handover, place
<1>5. ~MoveRight(t) /\ ~Again(t)
  BY <1>1 DEF MoveRight, Again, GoDown
<1>6. ~Overwrite(t)
  BY <1>2 DEF Overwrite, Return
<1>7. \A r : Moving(t, r) => InsertFound(t, r)
  BY <1>1 DEF Moving, Descend, ReaderFound, Down, GoDown, At
<1>8. \A r : ~Ending(t, r)
  BY <1>2 DEF Ending, ValueHit, ValueMiss, ExistsHit, ExistsMiss, Return
<1>9. \A r : ~Scanning(t, r)
  BY <1>1, <1>2 DEF Scanning, ScanOn, ScanEnd
<1>10. \A r : ~Filling(t, r)
  BY <1>1, <1>2 DEF Filling, InsertHere, InsertLeft, InsertRight, PromoteSplit, EndOrDescend,
                    Return, Missing, At
<1> QED BY <1>1, <1>3, <1>4, <1>5, <1>6, <1>7, <1>8, <1>9, <1>10, StepCases

\* a rank that leads down goes on to
LEMMA ResumingStep ==
  ASSUME OInv, Resuming, NEW t \in Threads, Step(t)
  PROVE  Resuming'
<1>1. IInv /\ HeldIn
  BY DEF OInv, LInv, LocksHeld
<1>2. ASSUME NEW n \in Nodes, InList(n), NEW i \in Slot,
             Level(n) > 0 => heap[n].child[i] # Null
      PROVE  heap'[n].num > 0 /\ (Level(n) > 0 => heap'[n].child[i] # Null)
  BY <1>1, <1>2, ListGrows, SlotsStay
<1>3. ASSUME NEW u \in Threads, pc[u] # "idle", phase[u] = "again",
             curr'[u] = curr[u], rank'[u] = rank[u]
      PROVE  Resumes(u)'
  <2>1. /\ curr[u] \in Nodes /\ InList(curr[u]) /\ rank[u] \in Slot
        /\ Level(curr[u]) > 0 => heap[curr[u]].child[rank[u]] # Null
    BY <1>3 DEF Resuming, Resumes
  <2>2. PICK n \in Nodes : n = curr[u]
    BY <2>1
  <2>3. PICK i \in Slot : i = rank[u]
    BY <2>1
  <2>4. heap'[n].num > 0 /\ (Level(n) > 0 => heap'[n].child[i] # Null)
    BY <1>2, <2>1, <2>2, <2>3
  <2> QED BY <1>3, <2>2, <2>3, <2>4 DEF Resumes, InList
<1> SUFFICES ASSUME NEW u \in Threads PROVE Resumes(u)'
  BY DEF Resuming, Resumes
<1>4. CASE u # t
  <2>1. phase'[u] = phase[u] /\ curr'[u] = curr[u] /\ rank'[u] = rank[u] /\ pc'[u] = pc[u]
    BY <1>1, <1>4, OthersKept, OthersRank, OthersStay DEF SameThread
  <2> QED BY <1>3, <2>1 DEF Resumes
<1>5. ASSUME u = t, NEW r, InsertFound(t, r) PROVE Resumes(u)'
  <2>1. At(t, r) /\ heap' = heap /\ curr' = curr /\ rank'[t] = r
    BY <1>1, <1>5 DEF InsertFound, place, IInv, TypeOK
  <2>2. PICK n \in Nexts : n = curr[t] /\ n \in Nodes /\ r \in Live(heap[n])
    BY <2>1, AtRank
  <2>3. Level(n) > 0 => heap[n].child[r] # Null
    BY <2>2 DEF OInv, Ordered, Aligned
  <2> QED BY <1>5, <2>1, <2>2, <2>3 DEF Resumes, Nexts, InList, Live
<1>6. CASE u = t /\ phase'[t] # "again"
  BY <1>6 DEF Resumes
<1> QED BY <1>3, <1>4, <1>5, <1>6, AgainCases

\* node x comes after node h in the order of locks
Behind(x, h) == /\ x # Null
                /\ \/ Level(x) < Level(h)
                   \/ /\ InList(x) /\ Level(x) = Level(h)
                      /\ GetHeader(heap[h]) < GetHeader(heap[x])

\* a thread waits only for a lock that comes after the one it holds
Waiting(t) == pc[t] \in {"lock", "drain"} /\ prev[t] # Null
GoesForward(t) == Waiting(t) => Behind(curr[t], prev[t])
Forward == \A t \in Threads : GoesForward(t)

\* nodes keep their places
LEMMA BehindStays ==
  ASSUME OInv, NEW t \in Threads, Step(t), AimsWell(t),
         NEW x \in Pointers, NEW h \in Nodes, InList(h), Behind(x, h)
  PROVE  Behind(x, h)'
<1>1. CASE Level(x) < Level(h)
  BY <1>1 DEF Behind
<1>2. CASE ~(Level(x) < Level(h))
  <2>1. x \in Nodes /\ InList(x)
    BY <1>2 DEF Behind, Pointers
  <2>2. /\ GetHeader(heap'[h]) = GetHeader(heap[h])
        /\ heap'[x].num > 0 /\ GetHeader(heap'[x]) = GetHeader(heap[x])
    BY <2>1, HeadersStay
  <2> QED BY <1>2, <2>2 DEF Behind, InList, GetHeader
<1> QED BY <1>1, <1>2

\* a thread that waits before and after a step of which it is not the subject
LEMMA StillAdvances ==
  ASSUME OInv, Forward, NEW t \in Threads, Step(t), AimsWell(t), NEW u \in Threads,
         Waiting(u), curr'[u] = curr[u], prev'[u] = prev[u]
  PROVE  GoesForward(u)'
<1>1. prev[u] \in Nodes /\ InList(prev[u])
  <2>1. prev[u] \in Holding(u)
    BY DEF Waiting, Holding
  <2>2. prev[u] \in Pointers
    BY DEF OInv, LInv, IInv, TypeOK
  <2> QED BY <2>1, <2>2 DEF Waiting, Pointers, Flagging, OInv, LInv, LocksHeld, HeldIn
<1>2. curr[u] \in Pointers /\ Behind(curr[u], prev[u])
  BY DEF OInv, LInv, IInv, TypeOK, Forward, GoesForward
<1>3. PICK x \in Pointers : x = curr[u]
  BY <1>2
<1>4. PICK h \in Nodes : h = prev[u]
  BY <1>1
<1>5. Behind(x, h)'
  BY <1>1, <1>2, <1>3, <1>4, BehindStays
<1> QED BY <1>3, <1>4, <1>5 DEF GoesForward, Behind

\* a thread that sets out for a lower node, or for the next
LEMMA SetsOut ==
  ASSUME IInv, NEW t \in Threads, NEW x, NEW h, Approach(t, x, h),
         x # Null, Level(x) < Level(h) \/ (heap' = heap /\ Behind(x, h))
  PROVE  GoesForward(t)'
<1>1. curr'[t] = x /\ prev'[t] = h
  BY DEF Approach, IInv, TypeOK
<1> QED BY <1>1 DEF GoesForward, Behind, InList, GetHeader

\* the next node comes after, and so does a child
LEMMA NextBehind ==
  ASSUME OInv, NEW n \in Nexts
  PROVE  Behind(heap[n].next, n)
<1>1. n \in Nodes /\ heap[n].next # Null /\ heap[n].next_header = GetHeader(heap[heap[n].next])
  BY DEF OInv, Ordered, Following, Nexts
<1>2. InList(heap[n].next) /\ Level(heap[n].next) = Level(n)
  <2>1. heap[n].next \in Peers(Level(n))
    BY <1>1 DEF OInv, LInv, IInv, Shaped, NodeOf
  <2> QED BY <1>1, <2>1 DEF OInv, LInv, Links, Linked, Peers
<1>3. GetHeader(heap[n]) < heap[n].next_header
  BY NodeSpan
<1> QED BY <1>1, <1>2, <1>3 DEF Behind

\* a child is one level lower than its node
LEMMA ChildBelow ==
  ASSUME OInv, NEW n \in Nodes, Level(n) > 0, NEW i \in Slot, heap[n].child[i] # Null
  PROVE  Level(heap[n].child[i]) < Level(n)
<1>1. heap[n].child[i] \in Peers(Level(n) - 1)
  BY DEF OInv, LInv, IInv, Shaped, NodeOf
<1>2. Level(heap[n].child[i]) = Level(n) - 1 /\ Level(n) \in Int
  BY <1>1, NodeNames, Constants DEF Peers
<1> QED BY <1>2

\* a search, and one that has found its key, goes down
LEMMA DownBelow ==
  ASSUME OInv, NEW t \in Threads, NEW n \in Nexts, n = curr[t], Level(n) > 0,
         NEW r \in Live(heap[n])
  PROVE  ChildAt(t, r) # Null /\ Level(ChildAt(t, r)) < Level(n)
<1>1. heap[n].child[r] # Null /\ r \in Slot /\ n \in Nodes
  BY DEF OInv, Ordered, Aligned, Live, Nexts
<1> QED BY <1>1, ChildBelow DEF ChildAt

\* a scan does not go on from an end sentinel
LEMMA ScanInside ==
  ASSUME OInv, NEW t \in Threads, NEW r, ScanOn(t, r)
  PROVE  curr[t] \in Nexts
<1>1. /\ From(t, r) /\ MovesOn(t, r, Taken(t, r)) /\ Op(t) \in {"range", "length"}
  BY DEF ScanOn
<1>2. pc[t] = "visit"
  BY <1>1 DEF From, At
<1>3. /\ curr[t] \in Nodes /\ InList(curr[t]) /\ 0 \in Live(heap[curr[t]])
      /\ phase[t] = "search" => curr[t] \in Nexts
      /\ phase[t] = "down" => curr[t] \in Nexts
  BY <1>1, <1>2, AtNodeFacts
<1>4. CASE phase[t] = "scan" /\ r = 0
  <2>1. ASSUME IsTail(curr[t]) PROVE FALSE
    <3>1. heap[curr[t]].key[0] = Inf
      <4>1. PICK l \in Levels : curr[t] = EndSentinel(l)
        BY <1>3, <2>1, NodeNames DEF IsTail
      <4> QED BY <4>1 DEF OInv, Ordered, EndKeys, GetHeader
    <3>2. Taken(t, r) = Cardinality({})
      <4>1. \A i \in Live(heap[curr[t]]) : i >= 0 => 0 \in 0 .. i
        BY Constants DEF Live
      <4> DEFINE wanted == {i \in Live(heap[curr[t]]) : i >= r /\ \A j \in r .. i :
                   /\ heap[curr[t]].key[j] # Inf
                   /\ IF Op(t) = "range" THEN heap[curr[t]].key[j] <= call[t].arg
                      ELSE j - r < left[t]}
      <4>2. wanted = {}
        BY <1>4, <3>1, <4>1
      <4>3. Taken(t, r) = Cardinality(wanted)
        BY DEF Taken
      <4> QED BY <4>2, <4>3
    <3>3. Taken(t, r) = 0
      BY <3>2, FS_EmptySet
    <3> QED BY <1>1, <1>3, <1>4, <3>3 DEF MovesOn, InList
  <2> QED BY <1>3, <2>1 DEF Nexts
<1>5. phase[t] \in {"search", "down"} \/ (phase[t] = "scan" /\ r = 0)
  BY <1>1 DEF From, At
<1> QED BY <1>3, <1>4, <1>5

\* every thread goes on forward
LEMMA ForwardStep ==
  ASSUME OInv, Resuming, Forward, NEW t \in Threads, Step(t), AimsWell(t)
  PROVE  Forward'
<1>1. /\ IInv /\ HeldIn /\ pc \in [Threads -> {"idle", "lock", "drain", "handover", "visit"}]
      /\ prev \in [Threads -> Pointers] /\ (pc[t] = "visit" => prev[t] = Null)
  BY DEF OInv, LInv, LocksHeld, IInv, TypeOK, Links, Going
<1> SUFFICES ASSUME NEW u \in Threads PROVE GoesForward(u)'
  BY DEF Forward, GoesForward, Waiting
<1>2. CASE u # t
  <2>1. pc'[u] = pc[u] /\ curr'[u] = curr[u] /\ prev'[u] = prev[u]
    BY <1>1, <1>2, OthersStay, OthersKept DEF SameThread
  <2>2. CASE Waiting(u)
    BY <2>1, <2>2, StillAdvances
  <2>3. CASE ~Waiting(u)
    BY <2>1, <2>3 DEF Waiting, GoesForward
  <2> QED BY <2>2, <2>3
<1>3. ASSUME u = t, EndCall(t) PROVE GoesForward(u)'
  <2>1. pc'[t] = "idle"
    BY <1>1, <1>3 DEF EndCall
  <2> QED BY <1>3, <2>1 DEF GoesForward, Waiting
<1>4. CASE u = t /\ Idle(t)
  <2>1. CASE InsertZero(t)
    <3>1. pc'[t] = "idle"
      BY <2>1 DEF InsertZero
    <3> QED BY <1>4, <3>1 DEF GoesForward, Waiting
  <2>2. ASSUME NEW c, Begin(t, c) PROVE GoesForward(u)'
    <3>1. prev'[t] = Null
      BY <1>1, <2>2 DEF Begin, Approach
    <3> QED BY <1>4, <3>1 DEF GoesForward, Waiting
  <2> QED BY <1>4, <2>1, <2>2 DEF Idle, StartRead, StartInsert
<1>5. CASE u = t /\ Locking(t)
  <2>1. CASE WriteLock(t)
    <3>1. curr'[t] = curr[t] /\ prev'[t] = prev[t] /\ pc[t] = "lock"
      BY <2>1 DEF WriteLock, place
    <3>2. CASE prev[t] # Null
      BY <1>5, <3>1, <3>2, StillAdvances DEF Waiting
    <3>3. CASE prev[t] = Null
      BY <1>5, <3>1, <3>3 DEF GoesForward, Waiting
    <3> QED BY <3>2, <3>3
  <2>2. CASE ReadLock(t) \/ Drain(t) \/ Handover(t)
    <3>1. pc'[t] \in {"visit", "handover"}
      BY <1>1, <2>2 DEF ReadLock, Drain, Handover, Inside
    <3> QED BY <1>5, <3>1 DEF GoesForward, Waiting
  <2> QED BY <1>5, <2>1, <2>2 DEF Locking
<1>6. CASE u = t /\ MoveRight(t)
  <2>1. /\ pc[t] = "visit" /\ phase[t] = "search" /\ heap' = heap
        /\ Approach(t, heap[curr[t]].next, curr[t])
    BY <1>6 DEF MoveRight
  <2>2. curr[t] \in Nexts
    BY <2>1, AtNodeFacts
  <2>3. Behind(heap[curr[t]].next, curr[t])
    BY <2>2, NextBehind
  <2>4. heap[curr[t]].next # Null
    BY <2>3 DEF Behind
  <2> QED BY <1>1, <1>6, <2>1, <2>3, <2>4, SetsOut
<1>7. ASSUME u = t, pc[t] = "visit", NEW x, Approach(t, x, curr[t]),
             x # Null, Level(x) < Level(curr[t])
      PROVE  GoesForward(u)'
  BY <1>1, <1>7, SetsOut
<1>8. CASE u = t /\ Again(t)
  <2>1. /\ pc[t] = "visit" /\ phase[t] = "again" /\ Level(curr[t]) > 0
        /\ Approach(t, ChildAt(t, rank[t]), curr[t])
    BY <1>8 DEF Again, GoDown
  <2>2. PICK n \in Nodes : n = curr[t] /\ heap[n].child[rank[t]] # Null /\ rank[t] \in Slot
    BY <2>1 DEF Resuming, Resumes
  <2>3. Level(heap[n].child[rank[t]]) < Level(n)
    BY <2>1, <2>2, ChildBelow
  <2> QED BY <1>7, <1>8, <2>1, <2>2, <2>3 DEF ChildAt
<1>9. ASSUME u = t, NEW r, Moving(t, r) PROVE GoesForward(u)'
  <2>1. ASSUME At(t, r), Level(curr[t]) > 0, Approach(t, ChildAt(t, r), curr[t])
        PROVE  GoesForward(u)'
    <3>1. PICK n \in Nexts : n = curr[t] /\ r \in Live(heap[n])
      BY <2>1, AtRank
    <3>2. ChildAt(t, r) # Null /\ Level(ChildAt(t, r)) < Level(n)
      BY <2>1, <3>1, DownBelow
    <3> QED BY <1>7, <1>9, <2>1, <3>1, <3>2 DEF At
  <2>2. CASE Descend(t, r) \/ ReaderFound(t, r)
    BY <2>1, <2>2 DEF Descend, ReaderFound, GoDown
  <2>3. CASE Down(t, r)
    <3>1. /\ pc[t] = "visit" /\ Level(curr[t]) > 0 /\ Approach(t, ChildAt(t, r), curr[t])
          /\ (Op(t) = "insert" => r = 0)
      BY <2>3 DEF Down, GoDown
    <3>2. curr[t] \in Nexts /\ r \in Live(heap[curr[t]])
      <4>1. CASE Op(t) = "insert"
        BY <3>1, <4>1, AtNodeFacts
      <4>2. CASE Op(t) # "insert"
        BY <2>3, <4>2, FirstRank
      <4> QED BY <4>1, <4>2
    <3>3. ChildAt(t, r) # Null /\ Level(ChildAt(t, r)) < Level(curr[t])
      BY <3>1, <3>2, DownBelow
    <3> QED BY <1>7, <1>9, <3>1, <3>3
  <2>4. CASE InsertFound(t, r)
    <3>1. prev'[t] = Null
      BY <1>1, <2>4 DEF InsertFound, At, place
    <3> QED BY <1>9, <3>1 DEF GoesForward, Waiting
  <2> QED BY <1>9, <2>2, <2>3, <2>4 DEF Moving
<1>10. ASSUME u = t, NEW r, Scanning(t, r) PROVE GoesForward(u)'
  <2>1. CASE ScanOn(t, r)
    <3>1. curr[t] \in Nexts
      BY <2>1, ScanInside
    <3>2. heap' = heap /\ Approach(t, heap[curr[t]].next, curr[t])
      BY <2>1 DEF ScanOn
    <3>3. Behind(heap[curr[t]].next, curr[t])
      BY <3>1, NextBehind
    <3>4. heap[curr[t]].next # Null
      BY <3>3 DEF Behind
    <3> QED BY <1>1, <1>10, <3>2, <3>3, <3>4, SetsOut
  <2>2. CASE ScanEnd(t, r)
    BY <1>3, <1>10, <2>2 DEF ScanEnd
  <2> QED BY <1>10, <2>1, <2>2 DEF Scanning
<1>11. ASSUME u = t, NEW r, Filling(t, r) PROVE GoesForward(u)'
  <2>1. /\ Missing(t, r) /\ At(t, r)
        /\ EndOrDescend(t, ChildAt(t, r), curr[t])
           \/ EndOrDescend(t, ChildAt(t, r), NewNode(t, Level(curr[t])))
    BY <1>11 DEF Filling, InsertHere, InsertLeft, InsertRight, PromoteSplit, Missing
  <2>2. CASE Level(curr[t]) = 0
    BY <1>3, <1>11, <2>1, <2>2 DEF EndOrDescend, Return
  <2>3. CASE Level(curr[t]) # 0
    <3>1. PICK n \in Nexts : n = curr[t] /\ r \in Live(heap[n]) /\ n \in Nodes
      BY <2>1, AtRank
    <3>2. Level(n) > 0
      <4>1. \A l \in Levels : l # 0 => l > 0
        BY Constants
      <4> QED BY <2>3, <3>1, <4>1, NodeNames
    <3>3. ChildAt(t, r) # Null /\ Level(ChildAt(t, r)) < Level(n)
      BY <3>1, <3>2, DownBelow
    <3>4. Level(NewNode(t, Level(n))) = Level(n)
      BY DEF Level, NewNode
    <3>5. PICK h : Approach(t, ChildAt(t, r), h) /\ Level(h) = Level(n)
      BY <2>1, <2>3, <3>1, <3>4 DEF EndOrDescend
    <3> QED BY <1>1, <1>11, <3>3, <3>5, SetsOut
  <2> QED BY <2>2, <2>3
<1>12. Overwrite(t) => EndCall(t)
  BY DEF Overwrite, Return
<1>13. \A r : Ending(t, r) => EndCall(t)
  BY DEF Ending, ValueHit, ValueMiss, ExistsHit, ExistsMiss, Return
<1> QED BY <1>2, <1>3, <1>4, <1>5, <1>6, <1>8, <1>9, <1>10, <1>11, <1>12, <1>13, StepCases

\* The invariant of the ways down: who has come to a node finds, at every rank
\* that it may use, a node below that is in its list or on the way to it.
WInv == TInv /\ Filled /\ Resuming /\ Forward

\* the ways down, initially
LEMMA WInvInit == Init => WInv
<1> SUFFICES ASSUME Init PROVE WInv
  OBVIOUS
<1>1. TInv
  BY TInvInit
<1>2. Filled
  <2> SUFFICES ASSUME NEW n \in Nexts, Level(n) > 0, NEW i \in Live(heap[n])
               PROVE  InList(heap[n].child[i])
    BY DEF Filled
  <2>1. heap[n].child[i] \in Pointers /\ heap[n].child[i] # Null /\ Ready(heap[n].child[i])
    BY <1>1, ChildHead DEF TInv
  <2>2. ~writer[heap[n].child[i]]
    BY <2>1 DEF Init, Pointers
  <2> QED BY <2>1, <2>2 DEF Ready
<1>3. Resuming /\ Forward
  BY DEF Init, Resuming, Resumes, Forward, GoesForward, Waiting
<1> QED BY <1>1, <1>2, <1>3 DEF WInv

\* the driver's steps
LEMMA WInvStutter ==
  ASSUME WInv, TInv', UNCHANGED <<heap, pc, call, phase, curr, prev, rank, ins>>
  PROVE  WInv'
<1>1. Nexts' = Nexts /\ \A n : InList(n)' <=> InList(n)
  BY DEF Nexts, InList
<1>2. ASSUME NEW c, Awaited(c) PROVE Awaited(c)'
  BY <1>2 DEF Awaited, Placing, NewNode, Op, Promote, K
<1>3. Filled'
  <2> SUFFICES ASSUME NEW n \in Nexts', Level(n) > 0, NEW i \in Live(heap'[n]),
                      NEW c, c = heap'[n].child[i], ~(heap'[c].num > 0)
               PROVE  Awaited(c)'
    BY DEF Filled, Live, InList, Awaited, Placing, NewNode, Op, Promote, K
  <2> QED BY <1>1, <1>2 DEF WInv, Filled, InList
<1>4. Resuming'
  BY DEF WInv, Resuming, Resumes, InList
<1>5. Forward'
  BY DEF WInv, Forward, GoesForward, Waiting, Behind, InList, GetHeader
<1> QED BY <1>3, <1>4, <1>5 DEF WInv

\* every step keeps the ways down
LEMMA WInvNext == WInv /\ [Next]_vars /\ [Aimed]_vars => WInv'
<1> SUFFICES ASSUME WInv, [Next]_vars, [Aimed]_vars PROVE WInv'
  OBVIOUS
<1>1. TInv'
  BY TInvNext DEF WInv
<1>2. ASSUME NEW t \in Threads, Step(t), Aimed PROVE WInv'
  <2>1. AimsWell(t)
    BY <1>2 DEF Aimed
  <2>2. TInv /\ OInv /\ Filled /\ Resuming /\ Forward
    BY DEF WInv, TInv
  <2> QED BY <1>1, <1>2, <2>1, <2>2, FilledStep, ResumingStep, ForwardStep DEF WInv
<1>3. CASE NextRound
  <2>1. UNCHANGED <<heap, pc, call, phase, curr, prev, rank, ins>>
    BY <1>3 DEF NextRound, place
  <2> QED BY <1>1, <2>1, WInvStutter
<1>4. CASE UNCHANGED vars
  <2>1. UNCHANGED <<heap, pc, call, phase, curr, prev, rank, ins>>
    BY <1>4 DEF vars, place, driver
  <2> QED BY <1>1, <2>1, WInvStutter
<1> QED BY <1>2, <1>3, <1>4 DEF Next, Finished

(* The invariant of the ways down holds as long as overrides aim well.     *)
THEOREM WaysInductive == Spec /\ OverridesAim => []WInv
BY WInvInit, WInvNext, PTL DEF Spec, OverridesAim

(* A down pointer leads to the node one level below with the same header   *)
(* (the tbassert on parent_rank in insert), or to the locked node the      *)
(* inserter of that key is about to fill - at every rank of every node,    *)
(* while towers are being built on it.                                     *)
THEOREM ChildrenAligned == Spec /\ OverridesAim => []ChildAligned
<1>1. WInv => ChildAligned
  <2> SUFFICES ASSUME WInv, NEW n \in Nexts, Level(n) > 0, NEW i \in Live(heap[n]),
                      NEW c, c = heap[n].child[i]
               PROVE  /\ c # Null /\ Level(c) = Level(n) - 1
                      /\ InList(c) => GetHeader(heap[c]) = heap[n].key[i]
                      /\ ~InList(c) => /\ writer[c]
                                       /\ \E t \in Inserting(heap[n].key[i]) : c = NewNode(t, Level(c))
    BY DEF ChildAligned
  <2>1. OInv /\ Filled
    BY DEF WInv, TInv
  <2>2. c # Null /\ Ready(c) /\ HeadIs(c, heap[n].key[i])
    BY <2>1, ChildHead
  <2>3. Level(c) = Level(n) - 1
    <3>1. n \in Nodes /\ i \in Slot
      BY DEF Nexts, Live
    <3>2. c \in Peers(Level(n) - 1)
      BY <2>1, <3>1 DEF OInv, LInv, IInv, Shaped, NodeOf
    <3> QED BY <2>2, <3>2 DEF Peers
  <2>4. ASSUME ~InList(c)
        PROVE  writer[c] /\ \E t \in Inserting(heap[n].key[i]) : c = NewNode(t, Level(c))
    <3>1. PICK t \in Threads : Placing(t) /\ c = NewNode(t, Level(curr[t]))
      BY <2>1, <2>4 DEF Filled, Awaited
    <3>2. Level(c) = Level(curr[t]) /\ Op(t) = "insert"
      BY <3>1 DEF Level, NewNode, Placing
    <3>3. K(t) = heap[n].key[i]
      BY <2>2, <2>4, <3>1, <3>2 DEF HeadIs
    <3> QED BY <2>2, <2>4, <3>1, <3>2, <3>3 DEF Ready, Inserting, Doing
  <2> QED BY <2>2, <2>3, <2>4 DEF HeadIs
<1> QED BY <1>1, WaysInductive, PTL

(* Nobody waits for a lock that comes before one it holds: from a node,    *)
(* threads lock only lower levels and, on a level, larger headers - also   *)
(* those that go on with a rank they kept, those that insert, and scans at *)
(* the end of the list.  With the new nodes locked by the thread that      *)
(* fills them, no cycle of waiting threads can form.                       *)
THEOREM LocksOrdered == Spec /\ OverridesAim => []LockOrder
<1>1. WInv => LockOrder
  BY DEF WInv, Forward, GoesForward, Waiting, Behind, LockOrder
<1> QED BY <1>1, WaysInductive, PTL

-------------------------------------------------------------------------------
(* Overrides on their way                                                  *)

\* an override that has its node again finds its key where it left it.  (What a
\* concurrent insert moves while the node is unlocked: see OverridesAim.)
RanksKept == \A t \in Threads : pc[t] = "visit" /\ phase[t] = "again" =>
               rank[t] \in Live(heap[curr[t]]) /\ heap[curr[t]].key[rank[t]] = K(t)

\* below the node where it found its key an override goes to nodes that begin with it
ComesDown(t) == pc[t] # "idle" /\ phase[t] = "down" /\ Op(t) = "insert" =>
                  curr[t] # Null /\ HeadIs(curr[t], K(t))
Arriving == \A t \in Threads : ComesDown(t)

DInv == WInv /\ Arriving

\* so it writes where its key is
LEMMA AimFollows ==
  ASSUME OInv, Arriving, RanksKept, NEW t \in Threads
  PROVE  AimsWell(t)
<1> SUFFICES ASSUME Overwrite(t) PROVE heap[curr[t]].key[Aim(t)] = K(t)
  BY DEF AimsWell
<1>1. pc[t] = "visit" /\ Op(t) = "insert" /\ phase[t] \in {"again", "down"}
  BY DEF Overwrite
<1>2. InList(curr[t])
  BY <1>1, AtNodeFacts
<1> QED BY <1>1, <1>2 DEF RanksKept, Arriving, ComesDown, HeadIs, GetHeader, Aim

\* how an insert comes to go down
LEMMA DownCases ==
  ASSUME OInv, NEW t \in Threads, Step(t), phase'[t] = "down", call'[t].op = "insert"
  PROVE  \/ Again(t)
         \/ Down(t, 0) /\ Op(t) = "insert"
         \/ /\ pc[t] # "idle" /\ phase[t] = "down" /\ Op(t) = "insert"
            /\ curr'[t] = curr[t] /\ call'[t] = call[t]
<1>1. /\ phase \in [Threads -> Phases] /\ call \in [Threads -> Calls \cup {None}]
      /\ (pc[t] = "idle" => phase[t] = "search")
  BY DEF OInv, LInv, IInv, TypeOK, Phases, Ordered, Searching
<1>2. ~EndCall(t)
  BY <1>1 DEF EndCall
<1>3. ~Idle(t)
  BY <1>1 DEF Idle, StartRead, StartInsert, InsertZero, Begin
<1>4. Locking(t) => /\ pc[t] # "idle" /\ phase' = phase /\ curr' = curr /\ call' = call
  BY DEF Locking, ReadLock, WriteLock, Drain, Handover, place
<1>5. ~MoveRight(t)
  BY <1>1 DEF MoveRight
<1>6. ~Overwrite(t)
  BY <1>2 DEF Overwrite, Return
<1>7. \A r : Moving(t, r) => Down(t, 0) /\ Op(t) = "insert"
  <2> SUFFICES ASSUME NEW r, Moving(t, r) PROVE Down(t, 0) /\ Op(t) = "insert"
    OBVIOUS
  <2>1. ~Descend(t, r) /\ ~InsertFound(t, r)
    BY <1>1 DEF Descend, InsertFound, At
  <2>2. call' = call
    BY <2>1 DEF Moving, ReaderFound, Down, GoDown
  <2>3. Op(t) = "insert"
    BY <2>2 DEF Op
  <2>4. ~ReaderFound(t, r)
    BY <2>3 DEF ReaderFound
  <2>5. Down(t, r)
    BY <2>1, <2>4 DEF Moving
  <2>6. r = 0
    BY <2>3, <2>5 DEF Down
  <2> QED BY <2>3, <2>5, <2>6
<1>8. \A r : ~Ending(t, r)
  BY <1>2 DEF Ending, ValueHit, ValueMiss, ExistsHit, ExistsMiss, Return
<1>9. \A r : ~Scanning(t, r)
  BY <1>1, <1>2 DEF Scanning, ScanOn, ScanEnd
<1>10. \A r : ~Filling(t, r)
  BY <1>1, <1>2 DEF Filling, InsertHere, InsertLeft, InsertRight, PromoteSplit, EndOrDescend,
                    Return, Missing, At
<1> QED BY <1>1, <1>3, <1>4, <1>5, <1>6, <1>7, <1>8, <1>9, <1>10, StepCases DEF Op

\* overrides come to nodes that begin with their key
LEMMA ArrivingStep ==
  ASSUME OInv, Arriving, RanksKept, NEW t \in Threads, Step(t)
  PROVE  Arriving'
<1>1. IInv /\ LInv /\ AimsWell(t)
  BY AimFollows DEF OInv, LInv
<1>2. ASSUME NEW u \in Threads, NEW x \in Pointers, x # Null, Ready(x), NEW k, HeadIs(x, k),
             curr'[u] = x, call'[u].key = k
      PROVE  ComesDown(u)'
  <2>1. x \in Nodes
    BY <1>2 DEF Pointers
  <2>2. HeadIs(x, k)'
    BY <1>1, <1>2, <2>1, HeadStays
  <2> QED BY <1>2, <2>2 DEF ComesDown, HeadIs, InList, GetHeader, K
<1>3. ASSUME NEW u \in Threads, pc[u] # "idle", phase[u] = "down", Op(u) = "insert",
             curr'[u] = curr[u], call'[u] = call[u]
      PROVE  ComesDown(u)'
  <2>1. curr[u] # Null /\ HeadIs(curr[u], K(u))
    BY <1>3 DEF Arriving, ComesDown
  <2>2. curr[u] \in Nodes /\ Ready(curr[u])
    BY <1>1, <1>3, <2>1, CurrReady
  <2>3. PICK x \in Pointers : x = curr[u]
    BY <2>2 DEF Pointers
  <2>4. PICK k : k = K(u)
    OBVIOUS
  <2> QED BY <1>2, <1>3, <2>1, <2>2, <2>3, <2>4 DEF K
<1>4. ASSUME pc[t] = "visit", NEW n \in Nexts, n = curr[t], Level(n) > 0,
             NEW i \in Live(heap[n]), heap[n].key[i] = K(t),
             Approach(t, ChildAt(t, i), curr[t]), call' = call
      PROVE  ComesDown(t)'
  <2>1. PICK x : x = heap[n].child[i]
    OBVIOUS
  <2>2. x \in Pointers /\ x # Null /\ Ready(x) /\ HeadIs(x, K(t))
    BY <1>1, <1>4, <2>1, ChildHead
  <2>3. curr'[t] = x
    BY <1>1, <1>4, <2>1 DEF Approach, ChildAt, IInv, TypeOK
  <2>4. PICK k : k = K(t)
    OBVIOUS
  <2> QED BY <1>2, <1>4, <2>2, <2>3, <2>4 DEF K
<1> SUFFICES ASSUME NEW u \in Threads, phase'[u] = "down", call'[u].op = "insert"
             PROVE  ComesDown(u)'
  BY DEF Arriving, ComesDown, Op
<1>5. CASE u # t
  <2>1. SameThread(u) /\ pc'[u] = pc[u]
    BY <1>1, <1>5, OthersKept, OthersStay
  <2>2. CASE pc[u] = "idle"
    BY <2>1, <2>2 DEF ComesDown
  <2> QED BY <1>3, <2>1, <2>2 DEF SameThread, Op
<1>6. CASE u = t /\ Again(t)
  <2>1. /\ pc[t] = "visit" /\ phase[t] = "again" /\ Level(curr[t]) > 0
        /\ Approach(t, ChildAt(t, rank[t]), curr[t]) /\ call' = call
    BY <1>6 DEF Again, GoDown
  <2>2. curr[t] \in Nexts
    BY <1>6, <2>1, AtNodeFacts DEF Op
  <2>3. rank[t] \in Live(heap[curr[t]]) /\ heap[curr[t]].key[rank[t]] = K(t)
    BY <2>1 DEF RanksKept
  <2> QED BY <1>4, <1>6, <2>1, <2>2, <2>3
<1>7. CASE u = t /\ Down(t, 0) /\ Op(t) = "insert"
  <2>1. /\ pc[t] = "visit" /\ phase[t] = "down" /\ Level(curr[t]) > 0
        /\ Approach(t, ChildAt(t, 0), curr[t]) /\ call' = call
    BY <1>7 DEF Down, GoDown
  <2>2. curr[t] \in Nexts /\ InList(curr[t]) /\ 0 \in Live(heap[curr[t]])
    BY <1>7, <2>1, AtNodeFacts
  <2>3. heap[curr[t]].key[0] = K(t)
    BY <1>7, <2>1, <2>2 DEF Arriving, ComesDown, HeadIs, GetHeader
  <2> QED BY <1>4, <1>7, <2>1, <2>2, <2>3
<1> QED BY <1>3, <1>5, <1>6, <1>7, DownCases

\* the driver's steps
LEMMA ArrivingStutter ==
  ASSUME Arriving, UNCHANGED <<heap, pc, call, phase, curr, ins>>
  PROVE  Arriving'
BY DEF Arriving, ComesDown, HeadIs, InList, GetHeader, Op, NewNode, K

\* a step of which the ranks are kept preserves the inductive invariant
LEMMA DInvNext == DInv /\ [Next]_vars /\ RanksKept => DInv'
<1> SUFFICES ASSUME DInv, [Next]_vars, RanksKept PROVE DInv'
  OBVIOUS
<1>1. OInv /\ Arriving /\ WInv
  BY DEF DInv, WInv, TInv
<1>2. WInv'
  <2>1. Aimed
    BY <1>1, AimFollows DEF Aimed
  <2> QED BY <1>1, <2>1, WInvNext
<1>3. ASSUME NEW t \in Threads, Step(t) PROVE Arriving'
  BY <1>1, <1>3, ArrivingStep
<1>4. NextRound \/ UNCHANGED vars => UNCHANGED <<heap, pc, call, phase, curr, ins>>
  BY DEF NextRound, vars, place, driver
<1> QED BY <1>1, <1>2, <1>3, <1>4, ArrivingStutter DEF DInv, Next, Finished

(* Overrides whose rank stays good until they have their node again aim    *)
(* well, and with them all that the theorems above say holds.              *)
THEOREM RanksAim == Spec /\ []RanksKept => []DInv /\ OverridesAim
<1>1. Init => DInv
  BY WInvInit DEF DInv, Arriving, ComesDown, Init
<1>2. DInv /\ RanksKept => Aimed
  BY AimFollows DEF DInv, WInv, TInv, Aimed
<1>3. Spec /\ []RanksKept => []DInv
  BY <1>1, DInvNext, PTL DEF Spec
<1> QED BY <1>2, <1>3, PTL DEF OverridesAim

(* A search never passes its key: at each node it has locked, the header   *)
(* is at most the key (the tbassert in insert, find and value), and below  *)
(* the node where the key was found it is the key.                         *)
THEOREM SearchesLeft == Spec /\ []RanksKept => []SearchesStayLeft
<1>1. DInv => SearchesStayLeft
  <2> SUFFICES ASSUME DInv, NEW t \in Threads, pc[t] = "visit"
               PROVE  /\ InList(curr[t])
                      /\ phase[t] = "search" => GetHeader(heap[curr[t]]) <= K(t)
                      /\ phase[t] = "down" => GetHeader(heap[curr[t]]) = K(t)
    BY DEF SearchesStayLeft
  <2>1. OInv /\ Arriving
    BY DEF DInv, WInv, TInv
  <2>2. /\ InList(curr[t])
        /\ phase[t] = "search" => GetHeader(heap[curr[t]]) <= K(t)
        /\ phase[t] = "down" /\ Op(t) # "insert" => GetHeader(heap[curr[t]]) = K(t)
    BY <2>1, AtNodeFacts
  <2> QED BY <2>1, <2>2 DEF Arriving, ComesDown, HeadIs
<1> QED BY <1>1, RanksAim, PTL

-------------------------------------------------------------------------------
(* Workloads without overrides                                             *)

\* no two inserts of the workload have the same key, but for key 0, which never
\* gets to the nodes
InsertsOnce ==
  \A i, j \in 1 .. Len(Work), t, u \in Threads :
    \A c \in Work[i][t], d \in Work[j][u] :
      c.op = "insert" /\ d.op = "insert" /\ c.key = d.key /\ c.key # 0 =>
        i = j /\ t = u /\ c = d

\* the calls of the threads are those of the round
Called(t) == /\ todo[t] \subseteq Work[round][t]
             /\ pc[t] # "idle" => call[t] \in Work[round][t] /\ call[t] \notin todo[t]
Came == \A t \in Threads : Called(t)

\* inserts search, and none is of key 0
SearchesOn(t) == pc[t] # "idle" /\ Op(t) = "insert" => phase[t] = "search" /\ K(t) # 0
Searches == \A t \in Threads : SearchesOn(t)

\* call c of thread u in round i has put its key, or is at it
PutBy(i, u, c) == i = round => c \notin todo[u] /\ (call[u] = c => Placing(u))
Inserts(i, u, c, k) == i \in 1 .. round /\ u \in Threads /\ c \in Work[i][u]
                       /\ c.op = "insert" /\ c.key = k
Origin == \A k \in 1 .. Inf - 1, l \in Levels : OnLevel(k, l) =>
            \E i, u, c : Inserts(i, u, c, k) /\ PutBy(i, u, c)

NInv == WInv /\ Came /\ Searches /\ Origin

\* the rounds
LEMMA RoundFacts ==
  ASSUME IInv
  PROVE  /\ round \in 1 .. Len(Work) /\ round \in Int /\ 1 <= round /\ Len(Work) \in Nat
         /\ todo \in [Threads -> SUBSET Calls]
         /\ \A i \in 1 .. Len(Work) : Work[i] \in [Threads -> SUBSET Calls]
BY WorkAssumption DEF IInv, TypeOK

\* what a step makes of the calls of its thread
LEMMA CallCases ==
  ASSUME IInv, NEW t \in Threads, Step(t)
  PROVE  /\ round' = round
         /\ \/ todo' = todo /\ call' = call /\ (pc'[t] # "idle" => pc[t] # "idle")
            \/ todo' = todo /\ call'[t] = None /\ pc'[t] = "idle"
            \/ InsertZero(t) /\ call' = call /\ pc' = pc /\ pc[t] = "idle"
               /\ \E c : todo' = [todo EXCEPT ![t] = @ \ {c}]
            \/ \E c \in todo[t] : /\ pc[t] = "idle" /\ call'[t] = c
                                  /\ todo' = [todo EXCEPT ![t] = @ \ {c}]
                                  /\ c.op = "insert" => c.key # 0
<1>1. call \in [Threads -> Calls \cup {None}]
      /\ pc \in [Threads -> {"idle", "lock", "drain", "handover", "visit"}]
  BY DEF IInv, TypeOK
<1>2. EndCall(t) => todo' = todo /\ round' = round /\ call'[t] = None /\ pc'[t] = "idle"
  BY <1>1 DEF EndCall, driver
<1> DEFINE Goes == todo' = todo /\ round' = round /\ call' = call /\ pc[t] # "idle"
<1>3. Locking(t) \/ MoveRight(t) \/ Again(t) => Goes
  BY DEF Locking, ReadLock, WriteLock, Drain, Handover, MoveRight, Again, GoDown, driver
<1>4. Overwrite(t) => EndCall(t)
  BY DEF Overwrite, Return
<1>5. \A r : Moving(t, r) => Goes
  BY DEF Moving, Descend, ReaderFound, Down, GoDown, InsertFound, At, driver
<1>6. \A r : Ending(t, r) => EndCall(t)
  BY DEF Ending, ValueHit, ValueMiss, ExistsHit, ExistsMiss, Return
<1>7. \A r : Scanning(t, r) => Goes \/ EndCall(t)
  BY DEF Scanning, ScanOn, ScanEnd, From, At, driver
<1>8. \A r : Filling(t, r) => Goes \/ EndCall(t)
  BY DEF Filling, InsertHere, InsertLeft, InsertRight, PromoteSplit, EndOrDescend, Return,
         Missing, At, driver
<1>9. ASSUME NEW c \in todo[t], Begin(t, c)
      PROVE  /\ round' = round /\ pc[t] = "idle" /\ call'[t] = c
             /\ todo' = [todo EXCEPT ![t] = @ \ {c}]
  BY <1>1, <1>9 DEF Begin
<1>10. CASE Idle(t)
  <2>1. CASE InsertZero(t)
    BY <2>1 DEF InsertZero
  <2>2. CASE StartRead(t)
    <3>1. PICK c \in todo[t] : c.op # "insert" /\ Begin(t, c)
      BY <2>2 DEF StartRead
    <3> QED BY <1>9, <3>1
  <2>3. CASE StartInsert(t)
    <3>1. PICK c \in todo[t] : c.key # 0 /\ Begin(t, c)
      BY <2>3 DEF StartInsert
    <3> QED BY <1>9, <3>1
  <2> QED BY <1>10, <2>1, <2>2, <2>3 DEF Idle
<1> QED BY <1>2, <1>3, <1>4, <1>5, <1>6, <1>7, <1>8, <1>10, StepCases

\* every call is one of the round, and is made once
LEMMA CameStep ==
  ASSUME LInv, Came, NEW t \in Threads, Step(t)
  PROVE  Came'
<1>1. IInv /\ todo \in [Threads -> SUBSET Calls]
  BY RoundFacts DEF LInv
<1> SUFFICES ASSUME NEW u \in Threads PROVE Called(u)'
  BY DEF Came, Called
<1>2. todo[u] \subseteq Work[round][u]
      /\ (pc[u] # "idle" => call[u] \in Work[round][u] /\ call[u] \notin todo[u])
  BY DEF Came, Called
<1>3. CASE u # t
  <2>1. pc'[u] = pc[u] /\ call'[u] = call[u]
    BY <1>1, <1>3, OthersStay, OthersKept DEF SameThread
  <2>2. round' = round /\ todo'[u] = todo[u]
    BY <1>1, <1>3, CallCases
  <2> QED BY <1>2, <2>1, <2>2 DEF Called
<1>4. CASE u = t
  BY <1>1, <1>2, <1>4, CallCases DEF Called
<1> QED BY <1>3, <1>4

\* the insert of a key that is on a level is this one
LEMMA SameInsert ==
  ASSUME InsertsOnce, IInv, NEW t \in Threads, NEW c \in Work[round][t],
         c.op = "insert", c.key # 0, NEW i, NEW u, NEW d, Inserts(i, u, d, c.key)
  PROVE  i = round /\ u = t /\ d = c
<1>1. round \in 1 .. Len(Work) /\ i \in 1 .. Len(Work)
  BY RoundFacts DEF Inserts
<1> QED BY <1>1 DEF InsertsOnce, Inserts

\* no insert finds its key
LEMMA FindsNone ==
  ASSUME InsertsOnce, NInv, NEW t \in Threads, NEW r, InsertFound(t, r)
  PROVE  FALSE
<1>1. TInv /\ OInv /\ IInv
  BY DEF NInv, WInv, TInv, OInv, LInv
<1>2. pc[t] = "visit" /\ Op(t) = "insert" /\ At(t, r)
  BY DEF InsertFound, At
<1>3. call[t] \in Work[round][t] /\ call[t].op = "insert" /\ K(t) # 0 /\ K(t) = call[t].key
  BY <1>2 DEF NInv, Came, Called, Searches, SearchesOn, Op, K
<1>4. OnLevel(K(t), Level(curr[t])) /\ Level(curr[t]) \in Levels
  BY <1>1, <1>2, FoundThere, AtNodeFacts, NodeNames
<1>5. K(t) \in 1 .. Inf - 1
  <2>1. K(t) \in 0 .. Inf - 1
    BY <1>1, <1>2, CallType DEF IInv
  <2> QED BY <1>3, <2>1, Constants
<1>6. PICK i, u, c : Inserts(i, u, c, K(t)) /\ PutBy(i, u, c)
  BY <1>4, <1>5 DEF NInv, Origin
<1>7. i = round /\ u = t /\ c = call[t]
  BY <1>1, <1>3, <1>6, SameInsert
<1>8. Placing(t)
  BY <1>6, <1>7 DEF PutBy
<1> QED BY <1>1, <1>8, NotFound

\* a scan is not an insert
LEMMA ScanCases ==
  ASSUME OInv, NEW t \in Threads, Step(t), phase'[t] = "scan"
  PROVE  call'[t] = call[t] /\ pc[t] # "idle" /\ (phase[t] = "scan" \/ Op(t) # "insert")
<1>1. /\ phase \in [Threads -> Phases] /\ (pc[t] = "idle" => phase[t] = "search")
  BY DEF OInv, LInv, IInv, TypeOK, Phases, Ordered, Searching
<1>2. ~EndCall(t)
  BY <1>1 DEF EndCall
<1>3. ~Idle(t)
  BY <1>1 DEF Idle, StartRead, StartInsert, InsertZero, Begin
<1>4. Locking(t) => pc[t] # "idle" /\ phase' = phase /\ call' = call
  BY DEF Locking, ReadLock, WriteLock, Drain, Handover
<1>5. ~MoveRight(t) /\ ~Again(t)
  BY <1>1 DEF MoveRight, Again, GoDown
<1>6. ~Overwrite(t)
  BY <1>2 DEF Overwrite, Return
<1>7. \A r : ~Moving(t, r)
  BY <1>1 DEF Moving, Descend, ReaderFound, Down, GoDown, InsertFound, At
<1>8. \A r : ~Ending(t, r)
  BY <1>2 DEF Ending, ValueHit, ValueMiss, ExistsHit, ExistsMiss, Return
<1>9. \A r : Scanning(t, r) => pc[t] # "idle" /\ call' = call /\ Op(t) # "insert"
  BY <1>2 DEF Scanning, ScanOn, ScanEnd, From, At
<1>10. \A r : ~Filling(t, r)
  BY <1>1, <1>2 DEF Filling, InsertHere, InsertLeft, InsertRight, PromoteSplit, EndOrDescend,
                    Return, Missing, At
<1> QED BY <1>1, <1>3, <1>4, <1>5, <1>6, <1>7, <1>8, <1>9, <1>10, StepCases

\* so inserts go on searching
LEMMA SearchesStep ==
  ASSUME InsertsOnce, NInv, NEW t \in Threads, Step(t)
  PROVE  Searches'
<1>1. OInv /\ IInv /\ Searches
  BY DEF NInv, WInv, TInv, OInv, LInv
<1>2. /\ phase \in [Threads -> Phases] /\ call \in [Threads -> Calls \cup {None}]
      /\ pc \in [Threads -> {"idle", "lock", "drain", "handover", "visit"}]
      /\ \A u \in Threads : pc[u] = "idle" => phase[u] = "search"
  BY <1>1 DEF OInv, IInv, TypeOK, Phases, Ordered, Searching
<1> SUFFICES ASSUME NEW u \in Threads, pc'[u] # "idle", call'[u].op = "insert"
             PROVE  phase'[u] = "search" /\ call'[u].key # 0
  BY DEF Searches, SearchesOn, Op, K
<1>3. CASE u # t
  <2>1. SameThread(u) /\ pc'[u] = pc[u]
    BY <1>1, <1>3, OthersKept, OthersStay
  <2> QED BY <1>1, <2>1 DEF SameThread, Searches, SearchesOn, Op, K
<1>4. CASE u = t
  <2>1. phase'[t] # "again"
    BY <1>1, <1>4, FindsNone, AgainCases DEF Searches, SearchesOn, Searching, OInv, Ordered
  <2>2. phase'[t] # "down"
    <3>1. ~Again(t)
      BY <1>1, <1>2 DEF Again, Searches, SearchesOn, OInv, Ordered, Searching
    <3>2. ~(Down(t, 0) /\ Op(t) = "insert")
      BY <1>1 DEF Down, Searches, SearchesOn
    <3> QED BY <1>1, <1>4, <3>1, <3>2, DownCases DEF Searches, SearchesOn
  <2>3. phase'[t] # "scan"
    BY <1>1, <1>4, ScanCases DEF Searches, SearchesOn, Op
  <2>4. call'[t].key # 0
    BY <1>1, <1>4, CallCases DEF Searches, SearchesOn, Op, K
  <2>5. phase'[t] \in Phases
    <3>1. LInv'
      BY <1>1, LInvStep DEF OInv
    <3>2. (phase \in [Threads -> Phases])'
      BY <3>1 DEF LInv, IInv, TypeOK, Phases
    <3> QED BY <3>2
  <2>6. phase'[t] = "search"
    BY <2>1, <2>2, <2>3, <2>5 DEF Phases
  <2> QED BY <1>4, <2>4, <2>6
<1> QED BY <1>3, <1>4

\* a call that has put its key, or is at it, has or is after any step
LEMMA PutByStays ==
  ASSUME NInv, NEW t \in Threads, Step(t), NEW i, NEW u \in Threads, NEW c, c.op = "insert",
         PutBy(i, u, c)
  PROVE  PutBy(i, u, c)'
<1>1. TInv /\ OInv /\ IInv
  BY DEF NInv, WInv, TInv, OInv, LInv
<1>2. /\ round' = round /\ todo \in [Threads -> SUBSET Calls]
      /\ \/ call'[t] = call[t] \/ call'[t] = None \/ call'[t] \in todo[t]
      /\ \/ todo' = todo
         \/ \E d : todo' = [todo EXCEPT ![t] = @ \ {d}]
  BY <1>1, CallCases, RoundFacts
<1>3. \A d : d \in todo'[u] => d \in todo[u]
  BY <1>2
<1> SUFFICES ASSUME i = round, call'[u] = c PROVE Placing(u)'
  BY <1>2, <1>3 DEF PutBy
<1>4. c \notin todo[u] /\ (call[u] = c => Placing(u))
  BY DEF PutBy
<1>5. c # None
  BY DEF None
<1>6. CASE u # t
  <2>1. call'[u] = call[u]
    BY <1>1, <1>6, OthersKept DEF SameThread
  <2>2. Placing(u)' <=> Placing(u)
    BY <1>1, <1>6, OthersWay
  <2> QED BY <1>4, <2>1, <2>2
<1>7. CASE u = t
  <2>1. Placing(t)
    BY <1>2, <1>4, <1>5, <1>7
  <2>2. ~AtBottom(t)
    BY <1>5, <1>7 DEF AtBottom
  <2>3. ~FindsKey(t)
    BY <1>1, <2>1, NotFound DEF FindsKey
  <2> QED BY <1>1, <1>7, <2>1, <2>2, <2>3, WayCases DEF OffWay, Between, LevelDown
<1> QED BY <1>6, <1>7

\* the insert that puts a key is at it afterwards, or ends
LEMMA PutByBegins ==
  ASSUME NInv, NEW t \in Threads, Step(t), Puts(t), NEW i, i = round, NEW c, c = call[t],
         NEW k, k = K(t)
  PROVE  Inserts(i, t, c, k)' /\ PutBy(i, t, c)'
<1>1. TInv /\ OInv /\ IInv
  BY DEF NInv, WInv, TInv, OInv, LInv
<1>2. pc[t] = "visit" /\ \E r : Missing(t, r)
  BY <1>1, PutsWay
<1>3. c.op = "insert" /\ c.key = k /\ c # None
  BY <1>2 DEF Missing, Op, K, None
<1>4. c \in Work[i][t] /\ c \notin todo[t]
  BY <1>2 DEF NInv, Came, Called
<1>5. /\ round' = round /\ todo \in [Threads -> SUBSET Calls]
      /\ \/ todo' = todo
         \/ \E d : todo' = [todo EXCEPT ![t] = @ \ {d}]
  BY <1>1, CallCases, RoundFacts
<1>6. c \notin todo'[t]
  BY <1>4, <1>5
<1>7. call'[t] = c => Placing(t)'
  BY <1>1, <1>3, WayCases DEF OffWay, Between, LevelDown, AtBottom, FindsKey
<1>8. i \in 1 .. round
  BY <1>1, RoundFacts
<1> QED BY <1>3, <1>4, <1>5, <1>6, <1>7, <1>8 DEF Inserts, PutBy

\* every key in a list has come from a call that will not come again
LEMMA OriginStep ==
  ASSUME NInv, NEW t \in Threads, Step(t), AimsWell(t)
  PROVE  Origin'
<1>1. OInv /\ IInv
  BY DEF NInv, WInv, TInv, OInv, LInv
<1>2. round' = round
  BY <1>1, CallCases
<1> SUFFICES ASSUME NEW k \in 1 .. Inf - 1, NEW l \in Levels, OnLevel(k, l)'
             PROVE  \E i, u, c : Inserts(i, u, c, k)' /\ PutBy(i, u, c)'
  BY DEF Origin, Inserts, PutBy, OnLevel
<1>3. CASE OnLevel(k, l)
  <2>1. PICK i, u, c : Inserts(i, u, c, k) /\ PutBy(i, u, c)
    BY <1>3 DEF NInv, Origin
  <2>2. u \in Threads /\ c.op = "insert"
    BY <2>1 DEF Inserts
  <2>3. PutBy(i, u, c)'
    BY <2>1, <2>2, PutByStays
  <2>4. Inserts(i, u, c, k)'
    BY <1>2, <2>1 DEF Inserts
  <2> QED BY <2>3, <2>4
<1>4. CASE Puts(t) /\ k = K(t)
  <2>1. PICK i, c : i = round /\ c = call[t]
    OBVIOUS
  <2> QED BY <1>4, <2>1, PutByBegins
<1> QED BY <1>1, <1>3, <1>4, LevelsStep

\* a new round
LEMMA NInvRound ==
  ASSUME NInv, WInv', NextRound
  PROVE  NInv'
<1>1. TInv /\ OInv /\ IInv
  BY DEF NInv, WInv, TInv, OInv, LInv
<1>2. /\ UNCHANGED <<heap, pc, call, phase, curr>> /\ round' = round + 1
      /\ todo' = Work[round + 1] /\ \A t \in Threads : pc[t] = "idle"
  BY DEF NextRound, AllIdle, place
<1>3. Came'
  BY <1>2 DEF Came, Called
<1>4. Searches'
  BY <1>2 DEF Searches, SearchesOn
<1>5. \A k, l : OnLevel(k, l)' <=> OnLevel(k, l)
  BY <1>2 DEF OnLevel, Keys, Live, Nexts, InList
<1>6. Origin'
  <2> SUFFICES ASSUME NEW k \in 1 .. Inf - 1, NEW l \in Levels, OnLevel(k, l)
               PROVE  \E i, u, c : Inserts(i, u, c, k)' /\ PutBy(i, u, c)'
    BY <1>5 DEF Origin, Inserts, PutBy, OnLevel
  <2>1. PICK i, u, c : Inserts(i, u, c, k)
    BY DEF NInv, Origin
  <2>2. i \in 1 .. round /\ round \in Int /\ i # round' /\ i \in 1 .. round'
    BY <1>1, <1>2, <2>1, RoundFacts DEF Inserts
  <2>3. Inserts(i, u, c, k)' /\ PutBy(i, u, c)'
    BY <2>1, <2>2 DEF Inserts, PutBy
  <2> QED BY <2>3
<1> QED BY <1>3, <1>4, <1>6 DEF NInv

\* nothing happens
LEMMA NInvStutter ==
  ASSUME NInv, WInv', UNCHANGED vars
  PROVE  NInv'
<1>1. UNCHANGED <<heap, pc, call, phase, curr, round, todo>>
  BY DEF vars, place, driver
<1>2. Came' /\ Searches'
  BY <1>1 DEF NInv, Came, Called, Searches, SearchesOn, Op, K
<1>3. \A k, l : OnLevel(k, l)' <=> OnLevel(k, l)
  BY <1>1 DEF OnLevel, Keys, Live, Nexts, InList
<1>4. \A i, u, c, k : /\ Inserts(i, u, c, k)' <=> Inserts(i, u, c, k)
                      /\ PutBy(i, u, c)' <=> PutBy(i, u, c)
  BY <1>1 DEF Inserts, PutBy, Placing, Op, Promote, K
<1>5. Origin'
  <2> SUFFICES ASSUME NEW k \in 1 .. Inf - 1, NEW l \in Levels, OnLevel(k, l)
               PROVE  \E i, u, c : Inserts(i, u, c, k)' /\ PutBy(i, u, c)'
    BY <1>3 DEF Origin, Inserts, PutBy, OnLevel
  <2> QED BY <1>4 DEF NInv, Origin
<1> QED BY <1>2, <1>5 DEF NInv

\* no override is on its way
LEMMA NoOverride ==
  ASSUME NInv
  PROVE  RanksKept /\ Aimed
<1>1. \A t \in Threads : phase[t] = "again" => Op(t) = "insert"
  BY DEF NInv, WInv, TInv, OInv, Ordered, Searching
<1>2. RanksKept
  BY <1>1 DEF RanksKept, NInv, Searches, SearchesOn
<1>3. \A t \in Threads : ~Overwrite(t)
  BY DEF Overwrite, NInv, Searches, SearchesOn
<1> QED BY <1>2, <1>3 DEF Aimed, AimsWell

\* every step keeps the calls apart
LEMMA NInvNext == InsertsOnce /\ NInv /\ [Next]_vars => NInv'
<1> SUFFICES ASSUME InsertsOnce, NInv, [Next]_vars PROVE NInv'
  OBVIOUS
<1>1. Aimed /\ WInv /\ LInv /\ Came
  BY NoOverride DEF NInv, WInv, TInv, OInv
<1>2. WInv'
  BY <1>1, WInvNext
<1>3. ASSUME NEW t \in Threads, Step(t) PROVE NInv'
  <2>1. Came'
    BY <1>1, <1>3, CameStep
  <2>2. Searches'
    BY <1>3, SearchesStep
  <2>3. AimsWell(t)
    BY <1>1 DEF Aimed
  <2>4. Origin'
    BY <1>3, <2>3, OriginStep
  <2> QED BY <1>2, <2>1, <2>2, <2>4 DEF NInv
<1> QED BY <1>2, <1>3, NInvRound, NInvStutter DEF Next, Finished

\* nothing has been inserted
LEMMA NInvInit == Init => NInv
<1> SUFFICES ASSUME Init PROVE NInv
  OBVIOUS
<1>1. WInv
  BY WInvInit
<1>2. round = 1 /\ todo = Work[1] /\ \A t \in Threads : pc[t] = "idle"
  BY DEF Init
<1>3. Came /\ Searches
  BY <1>2 DEF Came, Called, Searches, SearchesOn
<1>4. \A k, l : OnLevel(k, l) => k = 0
  BY EmptyLevels DEF OnLevel
<1>5. \A k \in 1 .. Inf - 1 : k # 0
  OBVIOUS
<1> QED BY <1>1, <1>3, <1>4, <1>5 DEF NInv, Origin

(* No insert of a workload that inserts every key once finds its key: no   *)
(* override is ever on its way, so ...                                     *)
THEOREM NothingOverridden == InsertsOnce /\ Spec => [](NInv /\ RanksKept) /\ OverridesAim
<1> SUFFICES ASSUME InsertsOnce PROVE Spec => [](NInv /\ RanksKept) /\ OverridesAim
  OBVIOUS
<1>1. NInv /\ [Next]_vars => NInv'
  BY NInvNext
<1>2. NInv => RanksKept /\ Aimed
  BY NoOverride
<1> QED BY <1>1, <1>2, NInvInit, PTL DEF Spec, OverridesAim

(* ... the lists, the towers, the way down and the order of the locks are  *)
(* whole in every state of every such workload, with no other hypothesis.  *)
THEOREM WholeWithoutOverrides ==
  InsertsOnce /\ Spec =>
    /\ [](KeysAscend /\ NextHeaderExact /\ TowersWhole)
    /\ [](ChildAligned /\ LockOrder /\ SearchesStayLeft)
    /\ HeadersFixed /\ KeysStay
BY NothingOverridden, KeysInOrder, NextHeadersExact, HeadersNeverChange, KeysRemain,
   TowersComplete, ChildrenAligned, LocksOrdered, SearchesLeft, PTL

-------------------------------------------------------------------------------
(* The map that the leaves hold: keys with their values                    *)

\* the elements of leaf a were in leaf b, but for the one the insert adds
Carries(t, a, b) == \A i \in Live(a) :
  \/ a.key[i] = K(t) /\ a.val[i] = call[t].arg
  \/ \E j \in Live(b) : a.key[i] = b.key[j] /\ a.val[i] = b.val[j]

\* ... over two moves
LEMMA CarriesOn ==
  ASSUME NEW t, NEW a, NEW b, NEW c, Carries(t, a, b), Carries(t, b, c)
  PROVE  Carries(t, a, c)
BY DEF Carries

\* placing a key with its value carries the others along
LEMMA PlaceCarries ==
  ASSUME NEW t \in Threads, NEW node \in NodeOf(0), NEW r \in Nat, r < node.num,
         node.num < MaxKeys, NEW counted \in BOOLEAN, K(t) \in AnyKey, call[t].arg \in Nat
  PROVE  Carries(t, Place(t, node, 0, r + 1, counted), node)
<1> DEFINE a == Place(t, node, 0, r + 1, counted)
           k == K(t)
           v == call[t].arg
<1>1. r + 1 \in Nat /\ r \in Int /\ 0 <= r /\ 0 \in Levels
  BY Constants
<1>2. a \in NodeOf(0) /\ a.num = node.num + 1
  BY <1>1, PlaceShape
<1>3. /\ a.key = ShiftIn(node.key, r + 1, k, node.num)
      /\ a.val = ShiftIn(node.val, r + 1, v, node.num)
  BY DEF Place, InsertEltAtRank, NodeOf
<1>4. /\ node.num \in Int /\ r < node.num
      /\ \A i \in Int : i \in Live(node) <=> 0 <= i /\ i < node.num
      /\ \A i \in Int : i \in Live(a) <=> 0 <= i /\ i < node.num + 1
      /\ Live(a) \subseteq Int /\ Live(a) \subseteq Slot
  BY <1>1, <1>2, LiveRanks
<1> HIDE DEF a, k, v
<1> SUFFICES ASSUME NEW i \in Live(a)
             PROVE  \/ a.key[i] = k /\ a.val[i] = v
                    \/ \E j \in Live(node) : a.key[i] = node.key[j] /\ a.val[i] = node.val[j]
  BY DEF Carries, a, k, v
<1>5. i \in Slot /\ i \in Int /\ 0 <= i /\ i < node.num + 1
  BY <1>4
<1>6. CASE i <= r
  <2>1. a.key[i] = node.key[i] /\ a.val[i] = node.val[i]
    BY <1>1, <1>3, <1>4, <1>5, <1>6 DEF ShiftIn
  <2>2. i \in Live(node)
    BY <1>1, <1>4, <1>5, <1>6
  <2> QED BY <2>1, <2>2
<1>7. CASE i = r + 1
  BY <1>3, <1>5, <1>7 DEF ShiftIn
<1>8. CASE i > r + 1
  <2>1. a.key[i] = node.key[i - 1] /\ a.val[i] = node.val[i - 1]
    BY <1>1, <1>3, <1>4, <1>5, <1>8 DEF ShiftIn
  <2>2. i - 1 \in Live(node)
    BY <1>1, <1>4, <1>5, <1>8
  <2> QED BY <2>1, <2>2
<1> QED BY <1>1, <1>5, <1>6, <1>7, <1>8

\* so does halving
LEMMA HalvesCarry ==
  ASSUME NEW t, NEW node \in NodeOf(0), node.num >= MaxKeys, NEW new \in Peers(0),
         NEW blank \in NodeOf(0), blank.num = 0
  PROVE  Carries(t, LeftHalf(node, new), node) /\ Carries(t, RightHalf(node, blank), node)
<1> DEFINE a == LeftHalf(node, new)
           b == RightHalf(node, blank)
<1>1. PICK h : h = Half(node)
  OBVIOUS
<1>2. /\ node.num = MaxKeys /\ h \in Int /\ h > 0 /\ h < MaxKeys /\ MaxKeys \in Int /\ 0 \in Levels
  BY <1>1, HalfOfFull, Constants
<1>3. /\ a \in NodeOf(0) /\ a.num = h /\ b \in NodeOf(0) /\ b.num = MaxKeys - h
  BY <1>1, <1>2, LeftHalfShape, RightHalfShape
<1>4. /\ a.key = node.key /\ a.val = node.val
      /\ \A i \in Slot : i < MaxKeys - h => b.key[i] = node.key[h + i]
  <2>1. LeftHalf(node, new).val = node.val
    BY DEF LeftHalf, SplitKeep, NodeOf
  <2> QED BY <1>1, <1>2, <2>1, HalfArrays
<1>5. /\ \A i \in Int : i \in Live(node) <=> 0 <= i /\ i < MaxKeys
      /\ \A i \in Int : i \in Live(a) <=> 0 <= i /\ i < h
      /\ \A i \in Int : i \in Live(b) <=> 0 <= i /\ i < MaxKeys - h
      /\ Live(a) \subseteq Int /\ Live(b) \subseteq Int /\ Live(b) \subseteq Slot
  BY <1>2, <1>3, LiveRanks
<1>6. \A i \in Slot : i < MaxKeys - h => b.val[i] = node.val[h + i]
  <2> DEFINE n == node.num - h
             given == SplitGive(node, blank, h, 0)
             moved == MoveChildren(node, given, h, n, 0)
  <2>1. /\ given.val = CopyTo(node.val, h, blank.val, 0, n)
        /\ given = [num |-> given.num, key |-> given.key, val |-> given.val,
                    child |-> given.child, next |-> given.next, next_header |-> given.next_header]
    <3>1. given = [blank EXCEPT !.num = blank.num + n,
                                !.key = CopyTo(node.key, h, blank.key, 0, n),
                                !.val = CopyTo(node.val, h, blank.val, 0, n)]
      BY DEF SplitGive
    <3> HIDE DEF given, n
    <3>2. blank = [num |-> blank.num, key |-> blank.key, val |-> blank.val, child |-> blank.child,
                   next |-> blank.next, next_header |-> blank.next_header]
      BY DEF NodeOf
    <3> QED BY <3>1, <3>2
  <2> HIDE DEF given
  <2>2. /\ moved.val = given.val
        /\ moved = [num |-> moved.num, key |-> moved.key, val |-> moved.val,
                    child |-> moved.child, next |-> moved.next, next_header |-> moved.next_header]
    BY <2>1 DEF MoveChildren
  <2>3. b = [moved EXCEPT !.next = node.next, !.next_header = node.next_header]
    BY <1>1 DEF RightHalf, given
  <2> HIDE DEF moved, b, n
  <2>4. b.val = moved.val
    BY <2>2, <2>3
  <2>5. n = MaxKeys - h
    BY <1>2 DEF n
  <2>6. ASSUME NEW i \in Slot, i < MaxKeys - h
        PROVE  CopyTo(node.val, h, blank.val, 0, n)[i] = node.val[h + i]
    <3>1. i \in 0 .. 0 + n - 1 /\ h + i - 0 = h + i
      BY <1>2, <2>5, <2>6, Constants
    <3> QED BY <3>1 DEF CopyTo
  <2> QED BY <2>1, <2>2, <2>4, <2>6
<1> HIDE DEF a, b
<1>7. Carries(t, a, node)
  <2>1. \A i \in Live(a) : i \in Live(node)
    BY <1>2, <1>5
  <2> QED BY <1>4, <2>1 DEF Carries
<1>8. Carries(t, b, node)
  <2> SUFFICES ASSUME NEW i \in Live(b)
               PROVE  \E j \in Live(node) : b.key[i] = node.key[j] /\ b.val[i] = node.val[j]
    BY DEF Carries
  <2>1. i \in Int /\ 0 <= i /\ i < MaxKeys - h /\ i \in Slot
    BY <1>5
  <2>2. h + i \in Live(node)
    BY <1>2, <1>5, <2>1
  <2> QED BY <1>4, <1>6, <2>1, <2>2
<1> QED BY <1>7, <1>8 DEF a, b

\* so does splitting at the key
LEMMA PromoteCarries ==
  ASSUME NEW t \in Threads, NEW node \in NodeOf(0), NEW r \in Nat, r < node.num,
         NEW blank \in NodeOf(0), blank.num = 0, NEW new,
         K(t) \in AnyKey, call[t].arg \in Nat
  PROVE  /\ Carries(t, KeptPart(t, node, new, r), node)
         /\ Carries(t, HeadedPart(t, node, blank, 0, r), node)
<1>1. 0 \in Levels /\ ~(0 > 0)
  BY Constants
<1> DEFINE first == Place(t, blank, 0, 0, TRUE)
           given == SplitGive(node, first, r + 1, 1)
           moved == node.num - (r + 1)
<1>2. PICK a : a = KeptPart(t, node, new, r)
  OBVIOUS
<1>3. PICK b : b = HeadedPart(t, node, blank, 0, r)
  OBVIOUS
<1>4. /\ a.num = r + 1 /\ a.key = node.key /\ b.num = node.num - r /\ b.key[0] = K(t)
      /\ \A i \in Slot : 0 < i /\ i < node.num - r => b.key[i] = node.key[r + i]
  <2> HIDE DEF first, given, moved
  <2> QED BY <1>1, <1>2, <1>3, PromoteArrays DEF Added
<1>5. a.val = node.val
  BY <1>2 DEF KeptPart, SplitKeep, NodeOf
<1>6. /\ node.num \in Int /\ node.num <= MaxKeys /\ moved \in Int /\ 1 + moved = node.num - r
      /\ r \in Int /\ 0 <= r /\ MaxKeys \in Int
      /\ \A i \in Int : i \in Slot <=> 0 <= i /\ i < MaxKeys
      /\ Slot \subseteq Int
      /\ \A i \in Int : i \in Live(node) <=> 0 <= i /\ i < node.num
  BY <1>1, LiveRanks, Constants
<1>7. first.val[0] = call[t].arg
  <2>1. blank.num \in Int /\ 0 \in Slot
    BY Constants
  <2>2. first.val = ShiftIn(blank.val, 0, call[t].arg, blank.num)
    BY DEF Place, InsertEltAtRank, NodeOf
  <2> HIDE DEF first
  <2> QED BY <2>1, <2>2 DEF ShiftIn
<1>8. b.val = CopyTo(node.val, r + 1, first.val, 1, moved)
  <2>1. /\ blank.num < MaxKeys /\ 0 \in Nat /\ TRUE \in BOOLEAN
    BY Constants
  <2>2. first \in NodeOf(0)
    <3> HIDE DEF given
    <3> QED BY <1>1, <2>1, PlaceShape
  <2> HIDE DEF first
  <2>3. given.val = CopyTo(node.val, r + 1, first.val, 1, moved)
        /\ given = [num |-> given.num, key |-> given.key, val |-> given.val,
                    child |-> given.child, next |-> given.next, next_header |-> given.next_header]
    <3>1. given = [first EXCEPT !.num = first.num + moved,
                                !.key = CopyTo(node.key, r + 1, first.key, 1, moved),
                                !.val = CopyTo(node.val, r + 1, first.val, 1, moved)]
      BY DEF SplitGive
    <3> HIDE DEF given, moved
    <3>2. first = [num |-> first.num, key |-> first.key, val |-> first.val,
                   child |-> first.child, next |-> first.next,
                   next_header |-> first.next_header]
      BY <2>2 DEF NodeOf
    <3> QED BY <3>1, <3>2
  <2> HIDE DEF given, moved
  <2>4. b = [given EXCEPT !.next = node.next, !.next_header = node.next_header]
    BY <1>3 DEF HeadedPart, given, first
  <2> QED BY <2>3, <2>4
<1> HIDE DEF first, given, moved
<1>9. ASSUME NEW i \in Int
      PROVE  /\ i \in Live(a) <=> 0 <= i /\ i <= r
             /\ i \in Live(b) <=> 0 <= i /\ i < node.num - r
  <2>1. i \in Slot <=> 0 <= i /\ i < MaxKeys
    BY <1>6
  <2> QED BY <1>4, <1>6, <2>1 DEF Live
<1>10. Live(a) \subseteq Int /\ Live(b) \subseteq Int /\ Live(b) \subseteq Slot
  BY <1>6 DEF Live
<1>11. Carries(t, a, node)
  <2>1. \A i \in Live(a) : i \in Live(node)
    BY <1>6, <1>9, <1>10
  <2> QED BY <1>4, <1>5, <2>1 DEF Carries
<1>12. b.val[0] = call[t].arg
  <2>1. 0 \notin 1 .. 1 + moved - 1 /\ 0 \in Slot
    BY <1>6, Constants
  <2> QED BY <1>7, <1>8, <2>1 DEF CopyTo
<1>13. ASSUME NEW i \in Live(b), i # 0
       PROVE  \E j \in Live(node) : b.key[i] = node.key[j] /\ b.val[i] = node.val[j]
  <2>1. i \in Int /\ 0 < i /\ i < node.num - r /\ i \in Slot
    BY <1>9, <1>10, <1>13
  <2>2. r + i \in Live(node)
    BY <1>6, <2>1
  <2>3. i \in 1 .. 1 + moved - 1 /\ r + 1 + i - 1 = r + i
    BY <1>6, <2>1
  <2>4. b.val[i] = node.val[r + i]
    BY <1>8, <2>1, <2>3 DEF CopyTo
  <2> QED BY <1>4, <2>1, <2>2, <2>4
<1>14. Carries(t, b, node)
  BY <1>4, <1>12, <1>13 DEF Carries
<1> QED BY <1>2, <1>3, <1>11, <1>14

\* what is in the node that an insert writes, and in the new node of a split
LeafPut(t) ==
  LET n == curr[t]
      new == NewNode(t, 0)
  IN /\ Carries(t, heap'[n], heap[n])
     /\ Divided(t) => Carries(t, heap'[new], heap[n])

\* a leaf with room takes the key with its value
LEMMA HereCarries ==
  ASSUME OInv, NEW t \in Threads, NEW r \in Nat, InsertHere(t, r), Level(curr[t]) = 0, ~Divided(t)
  PROVE  LeafPut(t)
<1>1. /\ Missing(t, r) /\ heap[curr[t]].num + 1 <= MaxKeys
      /\ heap' = [heap EXCEPT ![curr[t]] = Place(t, heap[curr[t]], 0, r + 1, FALSE)]
  BY DEF InsertHere
<1>2. /\ curr[t] \in Nodes /\ heap[curr[t]] \in NodeOf(0) /\ r < heap[curr[t]].num
      /\ K(t) \in AnyKey /\ call[t].arg \in Nat
  BY <1>1, InsertFacts DEF OInv, LInv
<1>3. PICK node \in NodeOf(0) : node = heap[curr[t]]
  BY <1>2
<1>4. node.num < MaxKeys /\ FALSE \in BOOLEAN /\ r < node.num
  BY <1>1, <1>2, <1>3, LiveRanks, Constants
<1>5. Carries(t, Place(t, node, 0, r + 1, FALSE), node)
  BY <1>2, <1>4, PlaceCarries
<1>6. heap'[curr[t]] = Place(t, node, 0, r + 1, FALSE)
  BY <1>1, <1>2, <1>3 DEF OInv, LInv, IInv, TypeOK
<1> QED BY <1>3, <1>5, <1>6 DEF LeafPut

\* the halves of a full leaf carry its elements and the key, whichever takes it
LEMMA LeftCarries ==
  ASSUME OInv, NEW t \in Threads, NEW r \in Nat, InsertLeft(t, r), Level(curr[t]) = 0
  PROVE  LeafPut(t)
<1>1. Missing(t, r) /\ heap[curr[t]].num + 1 > MaxKeys /\ r + 1 <= Half(heap[curr[t]])
  BY DEF InsertLeft
<1>2. PICK n : n = curr[t]
  OBVIOUS
<1>3. PICK new : new = NewNode(t, 0)
  OBVIOUS
<1>4. /\ n \in Nodes /\ heap[n] \in NodeOf(0) /\ 0 \in Levels
      /\ new \in Nodes /\ new \in Peers(0) /\ new # n
      /\ heap[new] \in NodeOf(0) /\ heap[new].num = 0
      /\ K(t) \in AnyKey /\ call[t].arg \in Nat
  BY <1>1, <1>2, <1>3, InsertFacts DEF OInv, LInv
<1>5. PICK node \in NodeOf(0) : node = heap[n]
  BY <1>4
<1>6. PICK blank \in NodeOf(0) : blank = heap[new]
  BY <1>4
<1>7. node.num >= MaxKeys /\ MaxKeys \in Int /\ blank.num = 0
  BY <1>1, <1>2, <1>4, <1>5, <1>6, LiveRanks, Constants
<1>8. PICK h : h = Half(node) /\ h \in Int /\ h < MaxKeys /\ r + 1 <= h
  BY <1>1, <1>2, <1>4, <1>5, <1>7, HalfOfFull, Constants
<1>9. PICK half \in NodeOf(0) : half = LeftHalf(node, new) /\ half.num = h
  BY <1>4, <1>7, <1>8, LeftHalfShape
<1>10. /\ Carries(t, half, node) /\ Carries(t, RightHalf(node, blank), node)
  BY <1>4, <1>7, <1>9, HalvesCarry
<1>11. r < half.num /\ half.num < MaxKeys /\ TRUE \in BOOLEAN
  BY <1>8, <1>9
<1>12. Carries(t, Place(t, half, 0, r + 1, TRUE), half)
  BY <1>4, <1>11, PlaceCarries
<1>13. Carries(t, Place(t, half, 0, r + 1, TRUE), node)
  BY <1>10, <1>12, CarriesOn
<1>14. heap'[n] = Place(t, half, 0, r + 1, TRUE) /\ heap'[new] = RightHalf(node, blank)
  <2>1. heap' = [heap EXCEPT ![new] = RightHalf(node, blank),
                             ![n] = Place(t, half, 0, r + 1, TRUE)]
    BY <1>2, <1>3, <1>4, <1>5, <1>6, <1>9 DEF InsertLeft
  <2> QED BY <1>4, <2>1 DEF OInv, LInv, IInv, TypeOK
<1> QED BY <1>2, <1>3, <1>5, <1>10, <1>13, <1>14 DEF LeafPut

\* an insert into the new node of a leaf puts one key and moves the others
LEMMA RightCarries ==
  ASSUME OInv, NEW t \in Threads, NEW r \in Nat, InsertRight(t, r), Level(curr[t]) = 0
  PROVE  LeafPut(t)
<1>1. Missing(t, r) /\ heap[curr[t]].num + 1 > MaxKeys /\ r + 1 > Half(heap[curr[t]])
  BY DEF InsertRight
<1>2. PICK n : n = curr[t]
  OBVIOUS
<1>3. PICK new : new = NewNode(t, 0)
  OBVIOUS
<1>4. /\ n \in Nodes /\ heap[n] \in NodeOf(0) /\ 0 \in Levels
      /\ new \in Nodes /\ new \in Peers(0) /\ new # n
      /\ heap[new] \in NodeOf(0) /\ heap[new].num = 0
      /\ K(t) \in AnyKey /\ call[t].arg \in Nat /\ r < heap[n].num
  BY <1>1, <1>2, <1>3, InsertFacts DEF OInv, LInv
<1>5. PICK node \in NodeOf(0) : node = heap[n]
  BY <1>4
<1>6. PICK blank \in NodeOf(0) : blank = heap[new]
  BY <1>4
<1>7. node.num >= MaxKeys /\ MaxKeys \in Int /\ blank.num = 0 /\ node.num = MaxKeys
  BY <1>1, <1>2, <1>4, <1>5, <1>6, LiveRanks, Constants, HalfOfFull
<1>8. PICK h : h = Half(node) /\ h \in Int /\ h > 0 /\ h < MaxKeys /\ r + 1 > h
  BY <1>1, <1>2, <1>4, <1>5, <1>7, HalfOfFull, Constants
<1>9. PICK half \in NodeOf(0) : half = RightHalf(node, blank) /\ half.num = MaxKeys - h
  BY <1>4, <1>7, <1>8, RightHalfShape
<1>10. Carries(t, LeftHalf(node, new), node) /\ Carries(t, half, node)
  BY <1>4, <1>7, <1>9, HalvesCarry
<1>11. PICK at \in Nat : at = r - h
  BY <1>8
<1>12. at < half.num /\ half.num < MaxKeys /\ TRUE \in BOOLEAN
  BY <1>4, <1>5, <1>7, <1>8, <1>9, <1>11
<1>13. Carries(t, Place(t, half, 0, at + 1, TRUE), half)
  BY <1>4, <1>12, PlaceCarries
<1>14. Carries(t, Place(t, half, 0, at + 1, TRUE), node)
  BY <1>10, <1>13, CarriesOn
<1>15. heap'[n] = LeftHalf(node, new) /\ heap'[new] = Place(t, half, 0, at + 1, TRUE)
  <2>1. heap' = [heap EXCEPT ![new] = Place(t, half, 0, at + 1, TRUE),
                             ![n] = LeftHalf(node, new)]
    BY <1>2, <1>3, <1>4, <1>5, <1>6, <1>8, <1>9, <1>11 DEF InsertRight
  <2> QED BY <1>4, <2>1 DEF OInv, LInv, IInv, TypeOK
<1> QED BY <1>2, <1>3, <1>5, <1>10, <1>14, <1>15 DEF LeafPut

\* so do the parts of a leaf that is split at the key
LEMMA PromotedCarries ==
  ASSUME OInv, NEW t \in Threads, NEW r \in Nat, PromoteSplit(t, r), Level(curr[t]) = 0
  PROVE  LeafPut(t)
<1>1. Missing(t, r)
  BY DEF PromoteSplit
<1>2. PICK n : n = curr[t]
  OBVIOUS
<1>3. PICK new : new = NewNode(t, 0)
  OBVIOUS
<1>4. /\ n \in Nodes /\ heap[n] \in NodeOf(0) /\ 0 \in Levels
      /\ new \in Nodes /\ new # n
      /\ heap[new] \in NodeOf(0) /\ heap[new].num = 0
      /\ K(t) \in AnyKey /\ call[t].arg \in Nat /\ r < heap[n].num
  BY <1>1, <1>2, <1>3, InsertFacts DEF OInv, LInv
<1>5. PICK node \in NodeOf(0) : node = heap[n]
  BY <1>4
<1>6. PICK blank \in NodeOf(0) : blank = heap[new]
  BY <1>4
<1>7. PICK a : a = KeptPart(t, node, new, r)
  OBVIOUS
<1>8. PICK c : c = HeadedPart(t, node, blank, 0, r)
  OBVIOUS
<1>9. heap'[n] = a /\ heap'[new] = c
  <2>1. heap' = [heap EXCEPT ![new] = c, ![n] = a]
    BY <1>2, <1>3, <1>4, <1>5, <1>6, <1>7, <1>8 DEF PromoteSplit, KeptPart, HeadedPart
  <2> QED BY <1>4, <2>1 DEF OInv, LInv, IInv, TypeOK
<1>10. Carries(t, a, node) /\ Carries(t, c, node)
  <2>1. r < node.num /\ blank.num = 0
    BY <1>4, <1>5, <1>6
  <2> QED BY <1>4, <1>7, <1>8, <2>1, PromoteCarries
<1> QED BY <1>2, <1>3, <1>5, <1>9, <1>10 DEF LeafPut

\* the leaves map key k to v
Maps(k, v) == \E n \in Nexts :
  Level(n) = 0 /\ \E i \in Live(heap[n]) : heap[n].key[i] = k /\ heap[n].val[i] = v

\* a step that sets the value of the key of t
Sets(t) == Overwrite(t) \/ (Puts(t) /\ Level(curr[t]) = 0)

\* a level holds a key once
LEMMA KeyOnce ==
  ASSUME OInv, Apart, NEW n \in Nexts, NEW m \in Nexts, Level(n) = Level(m),
         NEW i \in Live(heap[n]), NEW j \in Live(heap[m]), heap[n].key[i] = heap[m].key[j]
  PROVE  n = m /\ i = j
<1>1. PICK k : k = heap[n].key[i] /\ k = heap[m].key[j]
  OBVIOUS
<1>2. k \in Keys(heap[n]) /\ k \in Keys(heap[m])
  BY <1>1 DEF Keys
<1>3. /\ k \in Int /\ GetHeader(heap[n]) <= k /\ k < heap[n].next_header
      /\ GetHeader(heap[m]) <= k /\ k < heap[m].next_header
      /\ GetHeader(heap[n]) \in Int /\ heap[n].next_header \in Int
      /\ GetHeader(heap[m]) \in Int /\ heap[m].next_header \in Int
  BY <1>2, NodeSpan
<1>4. n = m
  <2>1. ~(heap[n].next_header <= GetHeader(heap[m])) /\ ~(heap[m].next_header <= GetHeader(heap[n]))
    BY <1>3
  <2> QED BY <2>1 DEF Apart
<1>5. Ascends(heap[n])
  BY DEF OInv, Ordered, Ascending
<1>6. i \in Int /\ j \in Int
  BY <1>4, Constants DEF Live
<1>7. ~(i < j) /\ ~(j < i)
  BY <1>1, <1>3, <1>4, <1>5 DEF Ascends
<1> QED BY <1>4, <1>6, <1>7

\* what a step makes of the nodes of the leaves, if it is not an override
LEMMA LeafEffect ==
  ASSUME OInv, NEW t \in Threads, Step(t), AimsWell(t), ~Overwrite(t)
  PROVE  \/ heap' = heap /\ ~Puts(t)
         \/ /\ curr[t] \in Nexts /\ Puts(t) /\ (Level(curr[t]) = 0 => LeafPut(t))
            /\ \/ Wrote(t) /\ Keys(heap'[curr[t]]) = Keys(heap[curr[t]]) \cup {K(t)}
               \/ Divided(t) /\ TwoPut(t)
<1>1. IInv /\ HeldIn
  BY DEF OInv, LInv, LocksHeld
<1>2. ASSUME NEW r, Missing(t, r) PROVE curr[t] \in Nexts /\ r \in 0 .. MaxKeys
  <2>1. r \in Slot /\ r \in Int
    BY <1>2, RankIsSlot, Constants DEF Missing, At
  <2> QED BY <1>2, <2>1, MissingRank, Constants
<1>3. ASSUME NEW r \in Nat, InsertHere(t, r), Wrote(t)
      PROVE  /\ curr[t] \in Nexts /\ Puts(t) /\ (Level(curr[t]) = 0 => LeafPut(t))
             /\ Keys(heap'[curr[t]]) = Keys(heap[curr[t]]) \cup {K(t)}
  <2>1. Missing(t, r)
    BY <1>3 DEF InsertHere
  <2>2. Puts(t)
    BY <1>2, <1>3, <2>1 DEF Puts, Filling
  <2>3. OnePut(t)
    BY <1>3, HereOrder
  <2>4. Keys(heap'[curr[t]]) = Keys(heap[curr[t]]) \cup {K(t)}
    BY <2>1, <2>3 DEF OnePut
  <2>5. ~Divided(t)
    BY <1>3 DEF Wrote, Divided
  <2>6. Level(curr[t]) = 0 => LeafPut(t)
    BY <1>3, <2>5, HereCarries
  <2> QED BY <1>2, <2>1, <2>2, <2>4, <2>6
<1>4. ASSUME NEW r \in Nat, InsertLeft(t, r) \/ InsertRight(t, r) \/ PromoteSplit(t, r)
      PROVE  curr[t] \in Nexts /\ TwoPut(t) /\ Puts(t) /\ (Level(curr[t]) = 0 => LeafPut(t))
  <2>1. Missing(t, r)
    BY <1>4 DEF InsertLeft, InsertRight, PromoteSplit
  <2>2. Puts(t)
    BY <1>2, <1>4, <2>1 DEF Puts, Filling
  <2>3. TwoPut(t)
    BY <1>4, LeftOrder, RightOrder, PromotedOrder
  <2>4. Level(curr[t]) = 0 => LeafPut(t)
    BY <1>4, LeftCarries, RightCarries, PromotedCarries
  <2> QED BY <1>2, <2>1, <2>2, <2>3, <2>4
<1> QED BY <1>1, <1>3, <1>4, HeapEffect DEF Puts

\* an override writes a slot in use
LEMMA AimIsLive ==
  ASSUME OInv, RanksKept, NEW t \in Threads, Overwrite(t)
  PROVE  curr[t] \in Nexts /\ Aim(t) \in Live(heap[curr[t]])
<1>1. pc[t] = "visit" /\ Op(t) = "insert" /\ phase[t] \in {"again", "down"}
  BY DEF Overwrite
<1>2. curr[t] \in Nexts /\ 0 \in Live(heap[curr[t]])
  BY <1>1, AtNodeFacts
<1> QED BY <1>1, <1>2 DEF RanksKept, Aim

\* what an override makes of the map
LEMMA MapsOverwrite ==
  ASSUME TInv, RanksKept, NEW t \in Threads, Overwrite(t), AimsWell(t), NEW k, NEW v
  PROVE  Maps(k, v)' <=> (k = K(t) /\ v = call[t].arg) \/ (k # K(t) /\ Maps(k, v))
<1>1. OInv /\ Apart
  BY DEF TInv, Towers
<1>2. PICK n \in Nexts : n = curr[t]
  BY <1>1, AimIsLive
<1>3. PICK r \in Live(heap[n]) : r = Aim(t)
  BY <1>1, <1>2, AimIsLive
<1>4. /\ heap' = [heap EXCEPT ![n] = BlindWrite(@, r, K(t), call[t].arg)]
      /\ Level(n) = 0 /\ heap[n].key[r] = K(t)
  BY <1>2, <1>3 DEF Overwrite, Aim, AimsWell
<1>5. n \in Nodes /\ heap \in [Nodes -> NodeType(Pointers)] /\ r \in Slot
  BY <1>1 DEF Nexts, OInv, LInv, IInv, TypeOK, Live
<1>6. PICK a : a = BlindWrite(heap[n], r, K(t), call[t].arg)
  OBVIOUS
<1>7. /\ a.num = heap[n].num /\ a.key = [heap[n].key EXCEPT ![r] = K(t)]
      /\ a.val = [heap[n].val EXCEPT ![r] = call[t].arg]
  BY <1>5, <1>6 DEF BlindWrite, NodeType
<1>8. /\ a.key = heap[n].key /\ a.val[r] = call[t].arg
      /\ \A i \in Slot : i # r => a.val[i] = heap[n].val[i]
  <2>1. heap[n].key \in [Slot -> AnyKey] /\ heap[n].val \in [Slot -> Nat]
    BY <1>5 DEF NodeType
  <2> QED BY <1>4, <1>5, <1>7, <2>1
<1>9. heap'[n] = a /\ \A m \in Nodes : m # n => heap'[m] = heap[m]
  BY <1>4, <1>5, <1>6
<1>10. Nexts' = Nexts
  <2>1. \A m \in Nodes : heap'[m].num = heap[m].num
    BY <1>7, <1>9
  <2> QED BY <2>1 DEF Nexts, InList
<1>11. \A m \in Nexts : m \in Nodes
  BY DEF Nexts
<1>12. \A m \in Nexts : \A i : i \in Live(heap'[m]) <=> i \in Live(heap[m])
  BY <1>7, <1>9, <1>11 DEF Live
<1>13. Live(heap[n]) \subseteq Slot
  BY DEF Live
<1>14. ASSUME Maps(k, v)'
       PROVE  (k = K(t) /\ v = call[t].arg) \/ (k # K(t) /\ Maps(k, v))
  <2>1. PICK m \in Nexts : Level(m) = 0 /\ \E i \in Live(heap'[m]) : heap'[m].key[i] = k /\ heap'[m].val[i] = v
    BY <1>10, <1>14 DEF Maps, Live
  <2>2. PICK i \in Live(heap[m]) : heap'[m].key[i] = k /\ heap'[m].val[i] = v
    BY <1>12, <2>1
  <2>3. heap[m].key[i] = k
    BY <1>8, <1>9, <1>11, <2>2
  <2>4. CASE m = n /\ i = r
    BY <1>4, <1>8, <1>9, <2>2, <2>3, <2>4
  <2>5. CASE ~(m = n /\ i = r)
    <3>1. k # K(t)
      BY <1>1, <1>4, <2>1, <2>3, <2>5, KeyOnce
    <3>2. heap[m].val[i] = v
      BY <1>8, <1>9, <1>11, <1>13, <2>2, <2>5
    <3> QED BY <2>1, <2>3, <3>1, <3>2 DEF Maps
  <2> QED BY <2>4, <2>5
<1>15. ASSUME NEW m \in Nexts, Level(m) = 0, NEW i \in Live(heap[m]),
              heap'[m].key[i] = k, heap'[m].val[i] = v
       PROVE  Maps(k, v)'
  <2>1. i \in Live(heap'[m])
    BY <1>12
  <2> QED BY <1>10, <1>15, <2>1 DEF Maps, Live
<1>16. k = K(t) /\ v = call[t].arg => Maps(k, v)'
  BY <1>4, <1>8, <1>9, <1>15
<1>17. ASSUME k # K(t), Maps(k, v) PROVE Maps(k, v)'
  <2>1. PICK m \in Nexts : Level(m) = 0 /\ \E i \in Live(heap[m]) : heap[m].key[i] = k /\ heap[m].val[i] = v
    BY <1>17 DEF Maps
  <2>2. PICK i \in Live(heap[m]) : heap[m].key[i] = k /\ heap[m].val[i] = v
    BY <2>1
  <2>3. heap'[m].key[i] = k /\ heap'[m].val[i] = v
    BY <1>4, <1>8, <1>9, <1>11, <1>13, <1>17, <2>2
  <2> QED BY <1>15, <2>1, <2>2, <2>3
<1> QED BY <1>14, <1>16, <1>17

\* what the insert of a key makes of the map
LEMMA MapsPut ==
  ASSUME TInv, NEW t \in Threads, Step(t), AimsWell(t), Puts(t), Level(curr[t]) = 0,
         NEW k, NEW v
  PROVE  Maps(k, v)' <=> (k = K(t) /\ v = call[t].arg) \/ (k # K(t) /\ Maps(k, v))
<1>1. OInv /\ Apart
  BY DEF TInv, Towers
<1>2. ~Overwrite(t)
  BY DEF Overwrite, Puts, Filling, InsertHere, InsertLeft, InsertRight, PromoteSplit, Missing, At
<1>3. ~OnLevel(K(t), 0)
  <2>1. PICK r : Missing(t, r)
    BY <1>1, PutsWay
  <2> QED BY <1>1, <2>1, NotThere DEF Missing
<1>4. PICK n \in Nexts : n = curr[t]
  BY <1>1, <1>2, LeafEffect
<1>5. PICK new : new = NewNode(t, 0)
  OBVIOUS
<1>6. /\ LeafPut(t)
      /\ \/ Wrote(t) /\ Keys(heap'[n]) = Keys(heap[n]) \cup {K(t)}
         \/ Divided(t) /\ TwoPut(t)
  BY <1>1, <1>2, <1>4, LeafEffect
<1>7. /\ Level(n) = 0 /\ Level(new) = 0
  BY <1>4, <1>5 DEF NewNode, Level
<1>8. \A m : m \in Nexts' <=> m \in Nexts \/ (Divided(t) /\ m = new)
  BY <1>1, <1>5, NextsGrow
<1>9. \A m \in Nexts : m # n => heap'[m] = heap[m]
  <2>1. CASE Wrote(t)
    BY <1>4, <2>1 DEF Wrote, Nexts
  <2>2. CASE Divided(t)
    BY <1>4, <2>2 DEF Divided, Nexts, InList
  <2> QED BY <1>6, <2>1, <2>2
<1>10. /\ Carries(t, heap'[n], heap[n])
       /\ Divided(t) => Carries(t, heap'[new], heap[n])
  BY <1>4, <1>5, <1>6 DEF LeafPut
<1>11. ASSUME NEW q, q \in Keys(heap[n]) \/ q = K(t)
       PROVE  q \in Keys(heap'[n]) \/ (Divided(t) /\ q \in Keys(heap'[new]))
  <2>1. CASE Keys(heap'[n]) = Keys(heap[n]) \cup {K(t)}
    BY <1>11, <2>1
  <2>2. CASE Divided(t) /\ TwoPut(t)
    <3>1. Keys(heap'[n]) \cup Keys(heap'[new]) = Keys(heap[n]) \cup {K(t)}
      BY <1>4, <1>5, <2>2 DEF TwoPut
    <3> QED BY <1>11, <2>2, <3>1
  <2> QED BY <1>6, <2>1, <2>2
<1>12. \A m \in Nexts : Level(m) = 0 => K(t) \notin Keys(heap[m])
  BY <1>3 DEF OnLevel
<1>13. ASSUME NEW m \in Nexts', Level(m) = 0, NEW i \in Live(heap'[m])
       PROVE  \/ heap'[m].key[i] = K(t) /\ heap'[m].val[i] = call[t].arg
              \/ /\ heap'[m].key[i] # K(t)
                 /\ Maps(heap'[m].key[i], heap'[m].val[i])
  <2>1. CASE m \in Nexts /\ m # n
    <3>1. heap'[m] = heap[m]
      BY <1>9, <2>1
    <3>2. heap[m].key[i] # K(t)
      BY <1>12, <1>13, <2>1, <3>1 DEF Keys
    <3> QED BY <1>13, <2>1, <3>1, <3>2 DEF Maps
  <2>2. CASE Carries(t, heap'[m], heap[n])
    <3>1. CASE \E j \in Live(heap[n]) : /\ heap'[m].key[i] = heap[n].key[j]
                                        /\ heap'[m].val[i] = heap[n].val[j]
      <4>1. PICK j \in Live(heap[n]) : /\ heap'[m].key[i] = heap[n].key[j]
                                       /\ heap'[m].val[i] = heap[n].val[j]
        BY <3>1
      <4>2. heap[n].key[j] # K(t)
        BY <1>7, <1>12 DEF Keys
      <4> QED BY <1>7, <4>1, <4>2 DEF Maps
    <3> QED BY <2>2, <3>1 DEF Carries
  <2> QED BY <1>8, <1>10, <2>1, <2>2
<1>14. ASSUME NEW w, w = n \/ (Divided(t) /\ w = new), NEW i \in Live(heap'[w]),
              heap'[w].key[i] = k, heap'[w].val[i] = v
       PROVE  Maps(k, v)'
  <2>1. w \in Nexts' /\ Level(w) = 0
    BY <1>7, <1>8, <1>14
  <2> QED BY <1>14, <2>1 DEF Maps, Live
<1>15. ASSUME NEW q, q \in Keys(heap[n]) \/ q = K(t)
       PROVE  \E w : /\ w = n \/ (Divided(t) /\ w = new)
                     /\ Carries(t, heap'[w], heap[n])
                     /\ \E i \in Live(heap'[w]) : heap'[w].key[i] = q
  BY <1>10, <1>11, <1>15 DEF Keys
<1>16. ASSUME k = K(t), v = call[t].arg PROVE Maps(k, v)'
  <2>1. PICK w : /\ w = n \/ (Divided(t) /\ w = new)
                 /\ Carries(t, heap'[w], heap[n])
                 /\ \E i \in Live(heap'[w]) : heap'[w].key[i] = k
    BY <1>15, <1>16
  <2>2. PICK i \in Live(heap'[w]) : heap'[w].key[i] = k
    BY <2>1
  <2>3. \A j \in Live(heap[n]) : heap[n].key[j] # k
    BY <1>7, <1>12, <1>16 DEF Keys
  <2>4. heap'[w].val[i] = v
    BY <1>16, <2>1, <2>2, <2>3 DEF Carries
  <2> QED BY <1>14, <2>1, <2>2, <2>4
<1>17. ASSUME k # K(t), Maps(k, v) PROVE Maps(k, v)'
  <2>1. PICK m \in Nexts : Level(m) = 0 /\ \E i \in Live(heap[m]) : heap[m].key[i] = k /\ heap[m].val[i] = v
    BY <1>17 DEF Maps
  <2>2. PICK i \in Live(heap[m]) : heap[m].key[i] = k /\ heap[m].val[i] = v
    BY <2>1
  <2>3. CASE m # n
    <3>1. m \in Nexts' /\ heap'[m] = heap[m]
      BY <1>8, <1>9, <2>3
    <3> QED BY <2>1, <2>2, <3>1 DEF Maps, Live
  <2>4. CASE m = n
    <3>1. k \in Keys(heap[n])
      BY <2>2, <2>4 DEF Keys
    <3>2. PICK w : /\ w = n \/ (Divided(t) /\ w = new)
                   /\ Carries(t, heap'[w], heap[n])
                   /\ \E j \in Live(heap'[w]) : heap'[w].key[j] = k
      BY <1>15, <3>1
    <3>3. PICK j \in Live(heap'[w]) : heap'[w].key[j] = k
      BY <3>2
    <3>4. PICK s \in Live(heap[n]) : k = heap[n].key[s] /\ heap'[w].val[j] = heap[n].val[s]
      BY <1>17, <3>2, <3>3 DEF Carries
    <3>5. s = i
      BY <1>1, <2>2, <2>4, <3>4, KeyOnce
    <3> QED BY <1>14, <2>2, <2>4, <3>2, <3>3, <3>4, <3>5
  <2> QED BY <2>3, <2>4
<1>18. ASSUME Maps(k, v)'
       PROVE  (k = K(t) /\ v = call[t].arg) \/ (k # K(t) /\ Maps(k, v))
  <2>1. PICK m \in Nexts' : Level(m) = 0 /\ \E i \in Live(heap'[m]) : heap'[m].key[i] = k /\ heap'[m].val[i] = v
    BY <1>18 DEF Maps, Live
  <2>2. PICK i \in Live(heap'[m]) : heap'[m].key[i] = k /\ heap'[m].val[i] = v
    BY <2>1
  <2> QED BY <1>13, <2>1, <2>2
<1> QED BY <1>16, <1>17, <1>18

\* the other steps leave the map as it is
LEMMA MapsSame ==
  ASSUME OInv, NEW t \in Threads, Step(t), AimsWell(t), ~Sets(t), NEW k, NEW v
  PROVE  Maps(k, v)' <=> Maps(k, v)
<1>1. /\ \/ heap' = heap
         \/ curr[t] \in Nexts /\ Level(curr[t]) # 0 /\ (Wrote(t) \/ Divided(t))
  BY LeafEffect DEF Sets
<1>2. CASE heap' = heap
  BY <1>2 DEF Maps, Nexts, InList, Live
<1>3. CASE curr[t] \in Nexts /\ Level(curr[t]) # 0 /\ (Wrote(t) \/ Divided(t))
  <2>1. \A m : m \in Nexts' <=> m \in Nexts \/ (Divided(t) /\ m = NewNode(t, Level(curr[t])))
    BY NextsGrow
  <2>2. Divided(t) => Level(NewNode(t, Level(curr[t]))) # 0
    BY <1>3 DEF NewNode, Level
  <2>3. \A m : Level(m) = 0 => (m \in Nexts' <=> m \in Nexts)
    BY <2>1, <2>2
  <2>4. \A m \in Nexts : Level(m) = 0 => heap'[m] = heap[m]
    <3>1. CASE Wrote(t)
      BY <1>3, <3>1 DEF Wrote, Nexts
    <3>2. CASE Divided(t)
      BY <1>3, <3>2 DEF Divided, Nexts, InList
    <3> QED BY <1>3, <3>1, <3>2
  <2> QED BY <2>3, <2>4 DEF Maps, Live
<1> QED BY <1>1, <1>2, <1>3

-------------------------------------------------------------------------------
(* The abstract map                                                        *)

Map == {p \in Pairs : p[1] # 0}
MapCall == [t \in Threads |-> IF t \in Doing({"range", "length"}) THEN None ELSE call[t]]

\* what the leaves map is what the map of BSkipMap holds
MapExact == /\ \A p \in Map : p = <<p[1], p[2]>>
            /\ \A k, v : <<k, v>> \in Map <=> k # 0 /\ Maps(k, v)

\* the map in terms of slots: a pair is in it exactly when a leaf holds it
LEMMA MapIsExact == TypeOK => MapExact
<1> SUFFICES ASSUME TypeOK PROVE MapExact
  OBVIOUS
<1>1. \A n \in Nodes : heap[n].num \in Nat
  BY DEF TypeOK, NodeType
<1>2. ASSUME NEW n, NEW i, i \in Live(heap[n])
      PROVE  n \in Leaves <=> n \in Nexts /\ Level(n) = 0
  <2>1. i \in Int /\ 0 <= i /\ i < heap[n].num
    BY <1>2, Constants DEF Live, Slot
  <2>2. n \in Nodes => InList(n)
    BY <1>1, <2>1 DEF InList
  <2> QED BY <2>2 DEF Leaves, Nexts, IsTail
<1>3. \A p \in Pairs : p = <<p[1], p[2]>>
  BY DEF Pairs
<1>4. \A k, v : <<k, v>> \in Pairs <=> Maps(k, v)
  <2>1. ASSUME NEW k, NEW v, <<k, v>> \in Pairs PROVE Maps(k, v)
    <3>1. PICK n \in Leaves : \E i \in Live(heap[n]) : <<k, v>> = <<heap[n].key[i], heap[n].val[i]>>
      BY <2>1 DEF Pairs
    <3>2. PICK i \in Live(heap[n]) : <<k, v>> = <<heap[n].key[i], heap[n].val[i]>>
      BY <3>1
    <3>3. n \in Nexts /\ Level(n) = 0
      BY <1>2, <3>1, <3>2
    <3>4. heap[n].key[i] = k /\ heap[n].val[i] = v
      BY <3>2
    <3> QED BY <3>2, <3>3, <3>4 DEF Maps
  <2>2. ASSUME NEW k, NEW v, Maps(k, v) PROVE <<k, v>> \in Pairs
    <3>1. PICK n \in Nexts : Level(n) = 0 /\ \E i \in Live(heap[n]) : heap[n].key[i] = k /\ heap[n].val[i] = v
      BY <2>2 DEF Maps
    <3>2. PICK i \in Live(heap[n]) : heap[n].key[i] = k /\ heap[n].val[i] = v
      BY <3>1
    <3>3. n \in Leaves
      BY <1>2, <3>1, <3>2
    <3> QED BY <3>2, <3>3 DEF Pairs
  <2> QED BY <2>1, <2>2
<1>5. \A k, v : <<k, v>>[1] = k
  OBVIOUS
<1> QED BY <1>3, <1>4, <1>5 DEF MapExact, Map

\* the calls that the map sees are those of the threads, but for the scans
LEMMA MapCalls ==
  ASSUME TypeOK, NEW t \in Threads, Op(t) \in {"insert", "value", "exists"}
  PROVE  MapCall[t] = call[t]
BY DEF MapCall, Doing

\* inserts of key 0 do not get to the nodes, and the front sentinel has no value
Keyed(t) == pc[t] # "idle" /\ Op(t) = "insert" => K(t) # 0
ZeroBlank == (\A t \in Threads : Keyed(t)) /\ \A v : Maps(0, v) => v = 0

\* The invariant of the map: lookups find what the lists and towers hold, and
\* calls are those of the workload.
MInv == DInv /\ Came /\ ZeroBlank

\* what the invariant says of the parts it rests on
LEMMA MInvParts ==
  ASSUME MInv
  PROVE  /\ TInv /\ Towers /\ OInv /\ Apart /\ LInv /\ IInv /\ TypeOK
         /\ DInv /\ Arriving /\ Going /\ Came /\ ZeroBlank
BY DEF MInv, DInv, WInv, TInv, Towers, OInv, LInv, IInv, Links

\* no exists of the workload asks for key 0, which find sees in the front sentinel
\* whether or not it has been inserted
ZeroUnasked ==
  \A i \in 1 .. Len(Work), t \in Threads : \A c \in Work[i][t] : c.op = "exists" => c.key # 0

-------------------------------------------------------------------------------
(* The invariant of the map                                                *)

\* inserts carry keys other than 0
LEMMA KeyedStep ==
  ASSUME IInv, NEW t \in Threads, Step(t), \A u \in Threads : Keyed(u)
  PROVE  \A u \in Threads : Keyed(u)'
<1> SUFFICES ASSUME NEW u \in Threads, pc'[u] # "idle", call'[u].op = "insert"
             PROVE  call'[u].key # 0
  BY DEF Keyed, Op, K
<1>1. CASE u # t
  <2>1. call'[u] = call[u] /\ pc'[u] = pc[u]
    BY <1>1, OthersKept, OthersStay DEF SameThread
  <2> QED BY <2>1 DEF Keyed, Op, K
<1>2. CASE u = t
  <2>1. CASE call' = call /\ (pc'[t] # "idle" => pc[t] # "idle")
    BY <1>2, <2>1 DEF Keyed, Op, K
  <2>2. CASE InsertZero(t) /\ pc' = pc /\ pc[t] = "idle"
    BY <1>2, <2>2
  <2>3. CASE \E c \in todo[t] : call'[t] = c /\ (c.op = "insert" => c.key # 0)
    BY <1>2, <2>3
  <2> QED BY <1>2, <2>1, <2>2, <2>3, CallCases
<1> QED BY <1>1, <1>2

\* a step that sets a value is one of an insert
LEMMA SetsInserts ==
  ASSUME NEW t, Sets(t)
  PROVE  pc[t] = "visit" /\ Op(t) = "insert"
BY DEF Sets, Overwrite, Puts, Filling, InsertHere, InsertLeft, InsertRight, PromoteSplit, Missing, At

\* what a step makes of the map
LEMMA MapsStep ==
  ASSUME MInv, RanksKept, NEW t \in Threads, Step(t), NEW k, NEW v
  PROVE  /\ ~Sets(t) => (Maps(k, v)' <=> Maps(k, v))
         /\ Sets(t) => (Maps(k, v)' <=> (k = K(t) /\ v = call[t].arg) \/ (k # K(t) /\ Maps(k, v)))
<1>1. TInv /\ OInv /\ AimsWell(t)
  BY MInvParts, AimFollows
<1>2. CASE ~Sets(t)
  BY <1>1, <1>2, MapsSame
<1>3. CASE Overwrite(t)
  <2>1. Sets(t)
    BY <1>3 DEF Sets
  <2> QED BY <1>1, <1>3, <2>1, MapsOverwrite
<1>4. CASE Puts(t) /\ Level(curr[t]) = 0
  <2>1. Sets(t)
    BY <1>4 DEF Sets
  <2> QED BY <1>1, <1>4, <2>1, MapsPut
<1> QED BY <1>2, <1>3, <1>4 DEF Sets

\* the front sentinel stays without a value
LEMMA ZeroBlankStep ==
  ASSUME MInv, RanksKept, NEW t \in Threads, Step(t)
  PROVE  ZeroBlank'
<1>1. (\A u \in Threads : Keyed(u)) /\ \A v : Maps(0, v) => v = 0
  BY MInvParts DEF ZeroBlank
<1>2. \A u \in Threads : Keyed(u)'
  BY <1>1, MInvParts, KeyedStep
<1>3. ASSUME NEW v, Maps(0, v)' PROVE v = 0
  <2>1. CASE ~Sets(t)
    <3>1. Maps(0, v)
      BY <1>3, <2>1, MapsStep
    <3> QED BY <1>1, <3>1
  <2>2. CASE Sets(t)
    <3>1. K(t) # 0
      BY <1>1, <2>2, SetsInserts DEF Keyed
    <3>2. Maps(0, v)
      BY <1>3, <2>2, <3>1, MapsStep
    <3> QED BY <1>1, <3>2
  <2> QED BY <2>1, <2>2
<1> QED BY <1>2, <1>3 DEF ZeroBlank

\* the driver's steps
LEMMA MInvQuiet ==
  ASSUME MInv, DInv', NextRound \/ UNCHANGED vars
  PROVE  MInv'
<1>1. UNCHANGED <<heap, pc, call>>
  BY DEF NextRound, vars
<1>2. ZeroBlank'
  <2>1. \A v : Maps(0, v)' <=> Maps(0, v)
    BY <1>1 DEF Maps, Nexts, InList, Live
  <2>2. \A t \in Threads : Keyed(t)'
    BY <1>1, MInvParts DEF ZeroBlank, Keyed, Op, K
  <2>3. \A v : Maps(0, v) => v = 0
    BY MInvParts DEF ZeroBlank
  <2> QED BY <2>1, <2>2, <2>3 DEF ZeroBlank
<1>3. Came'
  <2>1. CASE NextRound
    BY <2>1 DEF NextRound, AllIdle, Came, Called
  <2>2. CASE UNCHANGED vars
    BY <2>2, MInvParts DEF vars, driver, Came, Called
  <2> QED BY <2>1, <2>2
<1> QED BY <1>2, <1>3 DEF MInv

\* nothing is mapped at first
LEMMA MInvInit == Init => MInv
<1> SUFFICES ASSUME Init PROVE MInv
  OBVIOUS
<1>1. DInv
  BY WInvInit DEF DInv, Arriving, ComesDown, Init
<1>2. Came
  BY NInvInit DEF NInv
<1>3. \A t \in Threads : Keyed(t)
  BY DEF Init, Keyed
<1>4. \A v : Maps(0, v) => v = 0
  <2> SUFFICES ASSUME NEW v, Maps(0, v) PROVE v = 0
    OBVIOUS
  <2>1. PICK n \in Nexts : Level(n) = 0 /\ \E i \in Live(heap[n]) : heap[n].val[i] = v
    BY DEF Maps
  <2>2. PICK i \in Live(heap[n]) : heap[n].val[i] = v
    BY <2>1
  <2>3. n = Header(0) /\ n \in Nodes
    BY <2>1, EmptyLevels DEF Nexts
  <2>4. heap[n] = EmptyList(Header(0)) /\ Header(0) # EndSentinel(0) /\ Level(Header(0)) = 0
    BY <2>1, <2>3, Sentinels, Constants DEF Init, Header, EndSentinel
  <2>5. PICK down : down = IF 0 > 0 THEN Header(0 - 1) ELSE Null
    OBVIOUS
  <2>6. heap[n].val = [j \in Slot |-> 0]
    <3>1. heap[n] = [Blank EXCEPT !.num = 1, !.next = EndSentinel(0), !.child[0] = down]
      BY <2>4, <2>5, Zenon DEF EmptyList
    <3> QED BY <3>1 DEF Blank
  <2>7. i \in Slot
    BY DEF Live
  <2> QED BY <2>2, <2>6, <2>7
<1> QED BY <1>1, <1>2, <1>3, <1>4 DEF MInv, ZeroBlank

\* every step keeps the invariant
LEMMA MInvNext == MInv /\ [Next]_vars /\ RanksKept => MInv'
<1> SUFFICES ASSUME MInv, [Next]_vars, RanksKept PROVE MInv'
  OBVIOUS
<1>1. DInv'
  BY MInvParts, DInvNext
<1>2. ASSUME NEW t \in Threads, Step(t) PROVE MInv'
  BY <1>1, <1>2, MInvParts, CameStep, ZeroBlankStep DEF MInv
<1> QED BY <1>1, <1>2, MInvQuiet DEF Next, Finished

-------------------------------------------------------------------------------
(* The steps that the map sees                                             *)

\* the map after a step that sets nothing
LEMMA MapStays ==
  ASSUME MInv, RanksKept, NEW t \in Threads, Step(t), ~Sets(t), MapExact, MapExact'
  PROVE  Map' = Map
<1>1. \A k, v : Maps(k, v)' <=> Maps(k, v)
  BY MapsStep
<1>2. \A k, v : <<k, v>> \in Map' <=> <<k, v>> \in Map
  BY <1>1 DEF MapExact
<1>3. \A p \in Map : p = <<p[1], p[2]>>
  BY DEF MapExact
<1>4. \A p \in Map' : p = <<p[1], p[2]>>
  BY DEF MapExact
<1>5. ASSUME NEW p, p \in Map' PROVE p \in Map
  BY <1>2, <1>4, <1>5
<1>6. ASSUME NEW p, p \in Map PROVE p \in Map'
  BY <1>2, <1>3, <1>6
<1> QED BY <1>5, <1>6

\* ... and after one that sets a value
LEMMA MapSets ==
  ASSUME MInv, RanksKept, NEW t \in Threads, Step(t), Sets(t), MapExact, MapExact',
         NEW k, k = K(t), NEW a, a = call[t].arg
  PROVE  Map' = (Map \ {p \in Map : p[1] = k}) \cup {<<k, a>>}
<1>1. \A q, v : Maps(q, v)' <=> (q = k /\ v = a) \/ (q # k /\ Maps(q, v))
  BY MapsStep
<1>2. k # 0
  BY SetsInserts, MInvParts DEF ZeroBlank, Keyed
<1>3. \A q, v : <<q, v>> \in Map' <=> (q = k /\ v = a) \/ (q # k /\ <<q, v>> \in Map)
  BY <1>1, <1>2 DEF MapExact
<1>4. \A p \in Map : p = <<p[1], p[2]>>
  BY DEF MapExact
<1>5. \A p \in Map' : p = <<p[1], p[2]>>
  BY DEF MapExact
<1>6. ASSUME NEW p, p \in Map' PROVE p = <<k, a>> \/ (p[1] # k /\ p \in Map)
  BY <1>3, <1>5, <1>6
<1>7. ASSUME NEW p, p \in Map, p[1] # k PROVE p \in Map'
  BY <1>3, <1>4, <1>7
<1>8. <<k, a>> \in Map'
  BY <1>3
<1> QED BY <1>6, <1>7, <1>8

\* a step in which the call of t returns r
LEMMA MapAnswers ==
  ASSUME TypeOK, NEW t \in Threads, EndCall(t), NEW r, ret' = [ret EXCEPT ![t] = r]
  PROVE  Abstract!Answer(t, r)
<1>1. call' = [call EXCEPT ![t] = None] /\ call \in [Threads -> Calls \cup {None}]
  BY DEF EndCall, TypeOK
<1>2. \A u \in Threads : u # t => MapCall'[u] = MapCall[u]
  BY <1>1 DEF MapCall, Doing, Op
<1>3. MapCall'[t] = None
  BY <1>1 DEF MapCall
<1>4. MapCall' = [MapCall EXCEPT ![t] = None]
  BY <1>2, <1>3 DEF MapCall
<1> QED BY <1>4 DEF Abstract!Answer, MapCall

\* a call begins: that of a scan is not seen
LEMMA MapBegins ==
  ASSUME MInv, RanksKept, MapExact, MapExact', NEW t \in Threads, Step(t),
         StartRead(t) \/ StartInsert(t)
  PROVE  Abstract!Next \/ UNCHANGED Abstract!vars
<1>1. /\ TypeOK /\ Came /\ Going /\ call \in [Threads -> Calls \cup {None}]
      /\ round \in 1 .. Len(Work)
  BY MInvParts DEF TypeOK
<1>2. PICK c \in todo[t] : Begin(t, c)
  BY DEF StartRead, StartInsert
<1>3. pc[t] = "idle" /\ call' = [call EXCEPT ![t] = c] /\ heap' = heap /\ ret' = ret
  BY <1>2 DEF Begin
<1>4. call[t] = None
  BY <1>1, <1>3 DEF Going
<1>5. c \in PlannedCalls
  BY <1>1 DEF Came, Called, PlannedCalls
<1>6. ~Sets(t)
  BY <1>3, SetsInserts
<1>7. Map' = Map
  BY <1>6, MapStays
<1>8. \A u \in Threads : u # t => MapCall'[u] = MapCall[u]
  BY <1>1, <1>3 DEF MapCall, Doing, Op
<1>9. MapCall[t] = None
  BY <1>4 DEF MapCall
<1>10. CASE c.op \in {"range", "length"}
  <2>1. MapCall'[t] = None
    BY <1>1, <1>3, <1>10 DEF MapCall, Doing, Op
  <2>2. MapCall' = MapCall
    BY <1>8, <1>9, <2>1 DEF MapCall
  <2> QED BY <1>3, <1>7, <2>2 DEF Abstract!vars, Map, MapCall
<1>11. CASE c.op \notin {"range", "length"}
  <2>1. MapCall'[t] = c
    BY <1>1, <1>3, <1>11 DEF MapCall, Doing, Op
  <2>2. MapCall' = [MapCall EXCEPT ![t] = c]
    BY <1>8, <2>1 DEF MapCall
  <2>3. Abstract!Invoke(t)
    BY <1>3, <1>5, <1>7, <1>9, <2>2 DEF Abstract!Invoke, Map, MapCall
  <2> QED BY <2>3 DEF Abstract!Next
<1> QED BY <1>10, <1>11

\* key 0 is inserted: nothing is mapped
LEMMA MapInsertsZero ==
  ASSUME MInv, RanksKept, MapExact, MapExact', NEW t \in Threads, Step(t), InsertZero(t)
  PROVE  Abstract!Next
<1>1. pc[t] = "idle" /\ call' = call /\ ret' = [ret EXCEPT ![t] = 1]
  BY DEF InsertZero
<1>2. Map' = Map
  BY <1>1, SetsInserts, MapStays
<1>3. MapCall[t] = None /\ MapCall' = MapCall
  BY <1>1, MInvParts DEF Going, MapCall, Doing, Op
<1>4. Abstract!InsertZero(t)
  BY <1>1, <1>2, <1>3 DEF Abstract!InsertZero, Map, MapCall
<1> QED BY <1>4 DEF Abstract!Next

\* an insert puts its key in a leaf, or overwrites its value
LEMMA MapInserts ==
  ASSUME MInv, RanksKept, MapExact, MapExact', NEW t \in Threads, Step(t), Sets(t)
  PROVE  Abstract!Next
<1>1. pc[t] = "visit" /\ Op(t) = "insert"
  BY SetsInserts
<1>2. Return(t, 1)
  <2>1. CASE Overwrite(t)
    BY <2>1 DEF Overwrite
  <2>2. CASE Puts(t) /\ Level(curr[t]) = 0
    BY <2>2 DEF Puts, Filling, InsertHere, InsertLeft, InsertRight, PromoteSplit, EndOrDescend
  <2> QED BY <2>1, <2>2 DEF Sets
<1>3. Abstract!Answer(t, 1)
  BY <1>2, MInvParts, MapAnswers DEF Return
<1>4. MapCall[t] = call[t]
  BY <1>1, MInvParts, MapCalls
<1>5. PICK k : k = call[t].key
  OBVIOUS
<1>6. PICK a : a = call[t].arg
  OBVIOUS
<1>7. Map' = (Map \ {p \in Map : p[1] = k}) \cup {<<k, a>>}
  BY <1>5, <1>6, MapSets DEF K
<1>8. MapCall[t].op = "insert" /\ MapCall[t].key = k /\ MapCall[t].arg = a
  BY <1>1, <1>4, <1>5, <1>6 DEF Op
<1>9. Abstract!Insert(t)
  BY <1>3, <1>7, <1>8 DEF Abstract!Insert, Abstract!Of, Map, MapCall
<1> QED BY <1>9 DEF Abstract!Next

-------------------------------------------------------------------------------
(* The lookups                                                             *)

\* what a lookup finds at a leaf is what its key maps to ...
LEMMA HitMaps ==
  ASSUME OInv, NEW t \in Threads, NEW r, Level(curr[t]) = 0, Op(t) = "value",
         (At(t, r) /\ Hit(t, r)) \/ (pc[t] = "visit" /\ phase[t] = "down" /\ r = 0)
  PROVE  Maps(K(t), heap[curr[t]].val[r])
<1>1. CASE At(t, r) /\ Hit(t, r)
  <2>1. curr[t] \in Nexts /\ r \in Live(heap[curr[t]])
    BY <1>1, AtRank
  <2> QED BY <1>1, <2>1 DEF Maps, Hit
<1>2. CASE pc[t] = "visit" /\ phase[t] = "down" /\ r = 0
  <2>1. curr[t] \in Nexts /\ 0 \in Live(heap[curr[t]]) /\ GetHeader(heap[curr[t]]) = K(t)
    BY <1>2, AtNodeFacts
  <2> QED BY <1>2, <2>1 DEF Maps, GetHeader
<1> QED BY <1>1, <1>2

\* ... and what it misses there is not mapped
LEMMA MissMaps ==
  ASSUME OInv, Apart, NEW t \in Threads, NEW r, At(t, r), ~Hit(t, r), Level(curr[t]) = 0, NEW v
  PROVE  ~Maps(K(t), v)
<1>1. ~OnLevel(K(t), 0)
  BY NotThere
<1> QED BY <1>1 DEF Maps, OnLevel, Keys

\* value answers
LEMMA MapValue ==
  ASSUME MInv, RanksKept, MapExact, MapExact', NEW t \in Threads, Step(t), NEW r,
         ValueHit(t, r) \/ ValueMiss(t, r)
  PROVE  Abstract!Next
<1>1. /\ OInv /\ Apart /\ TypeOK /\ ZeroBlank /\ Op(t) = "value" /\ Level(curr[t]) = 0
  BY MInvParts DEF ValueHit, ValueMiss
<1>2. Map' = Map
  BY <1>1, SetsInserts, MapStays
<1>3. MapCall[t] = call[t]
  BY <1>1, MapCalls
<1>4. PICK k : k = call[t].key
  OBVIOUS
<1>5. MapCall[t].op = "value" /\ MapCall[t].key = k
  BY <1>1, <1>3, <1>4 DEF Op
<1>6. \A x : Return(t, x) => Abstract!Answer(t, x)
  BY <1>1, MapAnswers DEF Return
<1>7. \/ \E p \in {p \in Map : p[1] = k} : Abstract!Answer(t, p[2])
      \/ {p \in Map : p[1] = k} = {} /\ Abstract!Answer(t, 0)
  <2>1. CASE ValueHit(t, r)
    <3>1. PICK v : v = heap[curr[t]].val[r]
      OBVIOUS
    <3>2. Maps(k, v)
      BY <1>1, <1>4, <2>1, <3>1, HitMaps DEF ValueHit, K
    <3>3. Abstract!Answer(t, v)
      BY <1>6, <2>1, <3>1 DEF ValueHit
    <3>4. CASE k # 0
      <4>1. <<k, v>> \in Map
        BY <3>2, <3>4 DEF MapExact
      <4> QED BY <3>3, <4>1
    <3>5. CASE k = 0
      <4>1. v = 0
        BY <1>1, <3>2, <3>5 DEF ZeroBlank
      <4>2. {p \in Map : p[1] = k} = {}
        BY <3>5 DEF Map
      <4> QED BY <3>3, <4>1, <4>2
    <3> QED BY <3>4, <3>5
  <2>2. CASE ValueMiss(t, r)
    <3>1. \A v : ~Maps(k, v)
      BY <1>1, <1>4, <2>2, MissMaps DEF ValueMiss, K
    <3>2. {p \in Map : p[1] = k} = {}
      BY <3>1 DEF MapExact
    <3> QED BY <1>6, <2>2, <3>2 DEF ValueMiss
  <2> QED BY <2>1, <2>2
<1>8. Abstract!Value(t)
  BY <1>2, <1>5, <1>7 DEF Abstract!Value, Abstract!Of, Map, MapCall
<1> QED BY <1>8 DEF Abstract!Next

\* a key found on some level is in the leaves, or an insert is placing it
LEMMA FoundMaps ==
  ASSUME TInv, NEW k \in 0 .. Inf - 1, NEW l \in Levels, OnLevel(k, l)
  PROVE  (\E v : Maps(k, v)) \/ \E u \in Threads : Placing(u) /\ K(u) = k
<1>1. CASE \A u \in Threads : Placing(u) => K(u) # k
  <2>1. 0 \in Levels /\ LevelOf[k] \in Levels /\ \A m \in Levels : 0 <= m
    BY LevelAssumption, Constants
  <2>2. OnLevel(k, 0)
    BY <1>1, <2>1 DEF TInv, Towers, Whole
  <2>3. \E v : Maps(k, v)
    BY <2>2 DEF OnLevel, Keys, Maps
  <2> QED BY <2>3
<1> QED BY <1>1

\* the keys that exists is asked for
LEMMA AskedKey ==
  ASSUME ZeroUnasked, MInv, NEW t \in Threads, pc[t] # "idle", Op(t) = "exists"
  PROVE  K(t) \in 1 .. Inf - 1
<1>1. Came /\ TypeOK
  BY MInvParts
<1>2. call[t] \in Work[round][t] /\ round \in 1 .. Len(Work)
  BY <1>1 DEF Came, Called, TypeOK
<1>3. K(t) \in 0 .. Inf - 1 /\ Inf \in Int
  BY <1>1, CallType, Constants
<1>4. K(t) # 0
  BY <1>2 DEF ZeroUnasked, Op, K
<1> HIDE DEF K
<1> QED BY <1>3, <1>4

\* exists answers
LEMMA MapExists ==
  ASSUME ZeroUnasked, MInv, RanksKept, MapExact, MapExact', NEW t \in Threads, Step(t), NEW r,
         ExistsHit(t, r) \/ ExistsMiss(t, r)
  PROVE  Abstract!Next
<1>1. /\ TInv /\ OInv /\ Apart /\ TypeOK /\ IInv /\ Came
      /\ Op(t) = "exists" /\ At(t, r)
  BY MInvParts DEF ExistsHit, ExistsMiss
<1>2. Map' = Map
  BY <1>1, SetsInserts, MapStays
<1>3. MapCall[t] = call[t]
  BY <1>1, MapCalls
<1>4. PICK k : k = call[t].key
  OBVIOUS
<1>5. MapCall[t].op = "exists" /\ MapCall[t].key = k
  BY <1>1, <1>3, <1>4 DEF Op
<1>6. \A x : Return(t, x) => Abstract!Answer(t, x)
  BY <1>1, MapAnswers DEF Return
<1>7. pc[t] # "idle"
  BY <1>1 DEF At
<1>8. k # 0 /\ k \in 0 .. Inf - 1
  <2>1. k \in 1 .. Inf - 1
    BY <1>1, <1>4, <1>7, AskedKey DEF K
  <2> QED BY <2>1, Constants
<1>9. CASE ExistsHit(t, r)
  <2>1. (\E v : Maps(k, v)) \/ \E u \in Threads : Placing(u) /\ K(u) = k
    <3>1. /\ curr[t] \in Nexts /\ r \in Live(heap[curr[t]]) /\ heap[curr[t]].key[r] = k
          /\ Level(curr[t]) \in Levels
      <4>1. curr[t] \in Nexts /\ r \in Live(heap[curr[t]]) /\ curr[t] \in Nodes
        BY <1>1, AtRank
      <4>2. Level(curr[t]) \in Levels
        BY <4>1, NodeNames
      <4> QED BY <1>4, <1>9, <4>1, <4>2 DEF ExistsHit, Hit, K
    <3>2. OnLevel(k, Level(curr[t]))
      BY <3>1 DEF OnLevel, Keys
    <3> QED BY <1>1, <1>8, <3>1, <3>2, FoundMaps
  <2>2. CASE \E v : Maps(k, v)
    <3>1. {p \in Map : p[1] = k} # {}
      <4>1. PICK v : Maps(k, v)
        BY <2>2
      <4>2. <<k, v>> \in Map
        BY <1>8, <4>1 DEF MapExact
      <4>3. <<k, v>>[1] = k
        OBVIOUS
      <4> QED BY <4>2, <4>3
    <3>2. Abstract!Exists(t)
      BY <1>2, <1>5, <1>6, <1>9, <3>1 DEF ExistsHit, Abstract!Exists, Abstract!Of, Map, MapCall
    <3> QED BY <3>2 DEF Abstract!Next
  <2>3. CASE \E u \in Threads : Placing(u) /\ K(u) = k
    <3>1. PICK u \in Threads : Op(u) = "insert" /\ K(u) = k
      BY <2>3 DEF Placing
    <3>2. MapCall[u] = call[u]
      BY <1>1, <3>1, MapCalls
    <3>3. MapCall[u].op = "insert" /\ MapCall[u].key = k
      BY <3>1, <3>2 DEF Op, K
    <3>4. Abstract!Inserting(k)
      BY <3>3 DEF Abstract!Inserting, MapCall
    <3>5. Abstract!Exists(t)
      BY <1>2, <1>5, <1>6, <1>9, <3>4 DEF ExistsHit, Abstract!Exists, Map, MapCall
    <3> QED BY <3>5 DEF Abstract!Next
  <2> QED BY <2>1, <2>2, <2>3
<1>10. CASE ExistsMiss(t, r)
  <2>1. \A v : ~Maps(k, v)
    BY <1>1, <1>4, <1>10, MissMaps DEF ExistsMiss, K
  <2>2. {p \in Map : p[1] = k} = {}
    BY <2>1 DEF MapExact
  <2>3. Abstract!Exists(t)
    BY <1>2, <1>5, <1>6, <1>10, <2>2 DEF ExistsMiss, Abstract!Exists, Abstract!Of, Map, MapCall
  <2> QED BY <2>3 DEF Abstract!Next
<1> QED BY <1>9, <1>10

\* the steps that no call of the map can see
LEMMA MapUnseen ==
  ASSUME MInv, RanksKept, MapExact, MapExact', NEW t \in Threads, Step(t),
         ~Idle(t), ~Sets(t), \A r \in 0 .. MaxKeys : ~Ending(t, r)
  PROVE  UNCHANGED Abstract!vars
<1>1. Map' = Map
  BY MapStays
<1>2. call \in [Threads -> Calls \cup {None}]
  BY MInvParts DEF TypeOK
<1> DEFINE Goes == call' = call /\ ret' = ret
<1>3. Goes \/ (EndCall(t) /\ ret' = ret /\ Op(t) \in {"range", "length"})
  <2>1. CASE Locking(t) \/ MoveRight(t) \/ Again(t)
    BY <2>1 DEF Locking, ReadLock, WriteLock, Drain, Handover, MoveRight, Again, GoDown
  <2>2. CASE Overwrite(t)
    BY <2>2 DEF Sets
  <2>3. ASSUME NEW r \in 0 .. MaxKeys, Moving(t, r) PROVE Goes
    BY <2>3 DEF Moving, Descend, ReaderFound, Down, GoDown, InsertFound
  <2>4. ASSUME NEW r \in 0 .. MaxKeys, Scanning(t, r)
        PROVE  Goes \/ (EndCall(t) /\ ret' = ret /\ Op(t) \in {"range", "length"})
    BY <2>4 DEF Scanning, ScanOn, ScanEnd
  <2>5. ASSUME NEW r \in 0 .. MaxKeys, Filling(t, r) PROVE Goes
    <3>1. Level(curr[t]) # 0
      BY <2>5 DEF Sets, Puts
    <3> QED BY <2>5, <3>1 DEF Filling, InsertHere, InsertLeft, InsertRight, PromoteSplit,
          EndOrDescend
  <2> QED BY <2>1, <2>2, <2>3, <2>4, <2>5, StepCases
<1>4. ret' = ret /\ MapCall' = MapCall
  <2>1. CASE Goes
    BY <2>1 DEF MapCall, Doing, Op
  <2>2. CASE EndCall(t) /\ ret' = ret /\ Op(t) \in {"range", "length"}
    <3>1. call' = [call EXCEPT ![t] = None]
      BY <2>2 DEF EndCall
    <3>2. MapCall[t] = None /\ MapCall'[t] = None
      BY <1>2, <2>2, <3>1 DEF MapCall, Doing
    <3>3. \A u \in Threads : u # t => MapCall'[u] = MapCall[u]
      BY <1>2, <3>1 DEF MapCall, Doing, Op
    <3>4. MapCall' = MapCall
      BY <3>2, <3>3 DEF MapCall
    <3> QED BY <2>2, <3>4
  <2> QED BY <1>3, <2>1, <2>2
<1> QED BY <1>1, <1>4 DEF Abstract!vars, Map, MapCall

\* the steps of the driver
LEMMA MapQuiet ==
  ASSUME NextRound \/ UNCHANGED vars
  PROVE  UNCHANGED Abstract!vars
<1>1. UNCHANGED <<heap, call, ret>>
  BY DEF NextRound, vars
<1>2. Map' = Map /\ MapCall' = MapCall
  BY <1>1 DEF Map, Pairs, Live, MapCall, Doing, Op
<1> QED BY <1>1, <1>2 DEF Abstract!vars, Map, MapCall

\* every step is a step of BSkipMap or stutters
LEMMA MapNext ==
  ASSUME ZeroUnasked, MInv, RanksKept, MapExact, MapExact', [Next]_vars
  PROVE  Abstract!Next \/ UNCHANGED Abstract!vars
<1>1. ASSUME NEW t \in Threads, Step(t) PROVE Abstract!Next \/ UNCHANGED Abstract!vars
  <2>1. CASE Idle(t)
    BY <1>1, <2>1, MapBegins, MapInsertsZero DEF Idle
  <2>2. CASE Sets(t)
    BY <1>1, <2>2, MapInserts
  <2>3. ASSUME NEW r \in 0 .. MaxKeys, Ending(t, r) PROVE Abstract!Next
    BY <1>1, <2>3, MapValue, MapExists DEF Ending
  <2> QED BY <1>1, <2>1, <2>2, <2>3, MapUnseen
<1> QED BY <1>1, MapQuiet DEF Next, Finished

\* the empty list is the empty map
LEMMA MapInit == Init => Abstract!Init
<1> SUFFICES ASSUME Init PROVE Abstract!Init
  OBVIOUS
<1>1. TypeOK /\ MapExact
  BY MInvInit, MInvParts, MapIsExact
<1>2. Map = {}
  <2>1. \A k, v : Maps(k, v) => k = 0
    BY EmptyLevels DEF Maps, Keys
  <2> QED BY <1>1, <2>1 DEF MapExact
<1>3. \A t \in Threads : MapCall[t] = None
  BY DEF Init, MapCall
<1>4. MapCall = [t \in Threads |-> None] /\ ret = [t \in Threads |-> 0]
  BY <1>3 DEF Init, MapCall
<1> QED BY <1>2, <1>4 DEF Abstract!Init, Map, MapCall

(* The B-skiplist is a map, for any threads and calls: insert, value and   *)
(* exists take effect at one moment each, through the splits and towers    *)
(* other inserts build meanwhile, as long as overrides come back to the    *)
(* slot they left and nobody asks exists for key 0 (each of the two is a   *)
(* finding of its own).                                                    *)
THEOREM MapRefined == ZeroUnasked /\ Spec /\ []RanksKept => ImplementsMap
<1> SUFFICES ASSUME ZeroUnasked PROVE Spec /\ []RanksKept => ImplementsMap
  OBVIOUS
<1>1. Spec /\ []RanksKept => []MInv
  BY MInvInit, MInvNext, PTL DEF Spec
<1>2. MInv => TypeOK
  BY MInvParts
<1>3. Spec /\ []RanksKept => []MapExact
  BY <1>1, <1>2, MapIsExact, PTL
<1>4. MInv /\ RanksKept /\ MapExact /\ MapExact' /\ [Next]_vars => [Abstract!Next]_(Abstract!vars)
  BY MapNext
<1> QED BY <1>1, <1>3, <1>4, MapInit, PTL DEF Spec, ImplementsMap, Abstract!Spec

(* ... and with no hypothesis on its behaviour, when every key is inserted *)
(* once.                                                                   *)
THEOREM MapOfOneInsert == InsertsOnce /\ ZeroUnasked /\ Spec => ImplementsMap
BY MapRefined, NothingOverridden, PTL

-------------------------------------------------------------------------------
(* What lookups are bound to find                                          *)

\* 0 stands for NULL: nobody inserts it
ValuesGiven ==
  \A i \in 1 .. Len(Work), t \in Threads : \A c \in Work[i][t] : c.op = "insert" => c.arg # 0

\* key k is on the topmost level of its own
Topped(k) == k \in 1 .. Inf - 1 /\ OnLevel(k, LevelOf[k])

\* a lookup of a key that it is bound to find has not come below that level
Leads(t) == Op(t) \in {"value", "exists"} /\ K(t) \in must[t] =>
              /\ Topped(K(t))
              /\ phase[t] = "search" /\ curr[t] # Null => Level(curr[t]) >= LevelOf[K(t)]
Reported == \A k \in known : Topped(k)
Valued == \A k, v : k # 0 /\ Maps(k, v) => v # 0

\* The invariant of lookups.  exists may have seen a key that is not in the leaves
\* yet; but the key is put on its topmost level first, and no search misses it there.
SInv == MInv /\ (\A t \in Threads : Leads(t)) /\ Reported /\ Valued

\* a key that is on a level is on its topmost
LEMMA TopLevel ==
  ASSUME TInv, NEW k \in 1 .. Inf - 1, NEW l \in Levels, OnLevel(k, l)
  PROVE  Topped(k)
<1>1. k \in 0 .. Inf - 1 /\ LevelOf[k] \in Levels /\ LevelOf[k] \in Int
  <2>1. k \in 0 .. Inf - 1
    BY Constants
  <2> QED BY <2>1, LevelAssumption, Constants
<1>2. CASE \A u \in Threads : Placing(u) => K(u) # k
  BY <1>1, <1>2 DEF TInv, Towers, Whole, Topped
<1>3. CASE \E u \in Threads : Placing(u) /\ K(u) = k
  <2>1. PICK u \in Threads : Placing(u) /\ K(u) = k
    BY <1>3
  <2>2. Promote(u) = LevelOf[k] /\ Level(curr[u]) < Promote(u)
    BY <2>1 DEF Promote, Placing
  <2>3. OnLevel(k, LevelOf[k])
    BY <1>1, <2>1, <2>2 DEF TInv, Towers, Growing
  <2> QED BY <2>3 DEF Topped
<1> QED BY <1>2, <1>3

\* and stays there
LEMMA ToppedStays ==
  ASSUME MInv, RanksKept, NEW t \in Threads, Step(t), NEW k, Topped(k)
  PROVE  Topped(k)'
<1>1. OInv /\ AimsWell(t)
  BY MInvParts, AimFollows
<1> QED BY <1>1, LevelsStep DEF Topped

\* a search that misses its key is not on the topmost level of the key
LEMMA MissIsAbove ==
  ASSUME MInv, NEW t \in Threads, NEW r, At(t, r), ~Hit(t, r), Topped(K(t)),
         Level(curr[t]) >= LevelOf[K(t)]
  PROVE  /\ Level(curr[t]) \in Int /\ LevelOf[K(t)] \in Int
         /\ Level(curr[t]) > LevelOf[K(t)] /\ Level(curr[t]) > 0
<1>1. OInv /\ Apart
  BY MInvParts
<1>2. curr[t] \in Nodes
  BY <1>1, AtRank
<1>3. Level(curr[t]) \in Levels /\ LevelOf[K(t)] \in Levels
  BY <1>2, NodeNames, LevelAssumption, Constants DEF Topped
<1>4. \A l \in Levels : l \in Int /\ l >= 0
  BY Constants
<1>5. Level(curr[t]) # LevelOf[K(t)]
  BY <1>1, NotThere DEF Topped
<1> QED BY <1>3, <1>4, <1>5

\* the keys in the leaves are on some level
LEMMA ContentsTopped ==
  ASSUME TInv, NEW k \in Contents
  PROVE  Topped(k)
<1>1. PICK n \in Leaves : k \in Keys(heap[n])
  BY DEF Contents
<1>2. n \in Nodes /\ Level(n) = 0 /\ k # 0 /\ 0 \in Levels
  BY <1>1, Constants DEF Leaves, Contents
<1>3. n \in Nexts
  <2>1. PICK i \in Live(heap[n]) : TRUE
    BY <1>1 DEF Keys
  <2>2. i \in Int /\ 0 <= i /\ i < heap[n].num
    BY <2>1, Constants DEF Live
  <2>3. heap[n].num \in Int
    BY <1>2 DEF TInv, OInv, LInv, IInv, TypeOK, NodeType
  <2> QED BY <1>1, <1>2, <2>2, <2>3 DEF Nexts, InList, IsTail, Leaves
<1>4. k \in 1 .. Inf - 1
  <2>1. /\ k \in Int /\ GetHeader(heap[n]) <= k /\ k < heap[n].next_header
        /\ GetHeader(heap[n]) \in Int /\ heap[n].next_header \in Int
    BY <1>1, <1>3, NodeSpan DEF TInv
  <2>2. GetHeader(heap[n]) \in AnyKey /\ heap[n].next_header \in AnyKey
    <3>1. heap[n] \in NodeType(Pointers) /\ 0 \in Slot
      BY <1>2, Constants DEF TInv, OInv, LInv, IInv, TypeOK
    <3> QED BY <3>1 DEF NodeType, GetHeader
  <2> QED BY <1>2, <2>1, <2>2, Constants DEF AnyKey
<1>5. OnLevel(k, 0)
  BY <1>1, <1>2, <1>3 DEF OnLevel
<1> QED BY <1>2, <1>4, <1>5, TopLevel

\* what a step makes of the keys that a lookup is bound to find
LEMMA MustStep ==
  ASSUME IInv, NEW t \in Threads, Step(t)
  PROVE  /\ \A u \in Threads : u # t => must'[u] = must[u]
         /\ \/ must'[t] = must[t] /\ call'[t] = call[t]
            \/ call'[t] = None
            \/ \E c \in todo[t] : Begin(t, c)
<1>1. /\ call \in [Threads -> Calls \cup {None}] /\ must \in [Threads -> SUBSET AnyKey]
  BY DEF IInv, TypeOK
<1> DEFINE Goes == must' = must /\ call' = call
<1>2. EndCall(t) => call'[t] = None /\ \A u \in Threads : u # t => must'[u] = must[u]
  BY <1>1 DEF EndCall
<1>3. Locking(t) \/ MoveRight(t) \/ Again(t) \/ InsertZero(t) => Goes
  BY DEF Locking, ReadLock, WriteLock, Drain, Handover, MoveRight, Again, GoDown, InsertZero, history
<1>4. Overwrite(t) => EndCall(t)
  BY DEF Overwrite, Return
<1>5. \A r : Moving(t, r) => Goes
  BY DEF Moving, Descend, ReaderFound, Down, GoDown, InsertFound, history
<1>6. \A r : Ending(t, r) => EndCall(t)
  BY DEF Ending, ValueHit, ValueMiss, ExistsHit, ExistsMiss, Return
<1>7. \A r : Scanning(t, r) => Goes \/ EndCall(t)
  BY DEF Scanning, ScanOn, ScanEnd, history
<1>8. \A r : Filling(t, r) => Goes \/ EndCall(t)
  BY DEF Filling, InsertHere, InsertLeft, InsertRight, PromoteSplit, EndOrDescend, Return, history
<1>9. ASSUME StartRead(t) \/ StartInsert(t)
      PROVE  /\ \E c \in todo[t] : Begin(t, c)
             /\ \A u \in Threads : u # t => must'[u] = must[u]
  <2>1. PICK c \in todo[t] : Begin(t, c)
    BY <1>9 DEF StartRead, StartInsert
  <2> QED BY <1>1, <2>1 DEF Begin
<1> QED BY <1>2, <1>3, <1>4, <1>5, <1>6, <1>7, <1>8, <1>9, StepCases DEF Idle

\* a lookup that begins
LEMMA BeginLeads ==
  ASSUME SInv, RanksKept, NEW t \in Threads, Step(t), NEW c \in todo[t], Begin(t, c)
  PROVE  Leads(t)'
<1>1. TInv /\ TypeOK
  BY MInvParts DEF SInv
<1>2. /\ call'[t] = c /\ must'[t] = Promised(c) /\ curr'[t] = Header(Height - 1)
  BY <1>1 DEF Begin, Approach, TypeOK
<1>3. \A k \in Contents \cup known : Topped(k)
  BY <1>1, ContentsTopped DEF SInv, Reported
<1>4. ASSUME c.op \in {"value", "exists"}, c.key \in Promised(c)
      PROVE  Topped(c.key)
  BY <1>3, <1>4 DEF Promised
<1>5. ASSUME NEW k, Topped(k) PROVE Level(Header(Height - 1)) >= LevelOf[k]
  <2>1. Height - 1 \in Int /\ Level(Header(Height - 1)) = Height - 1
    BY Constants DEF Level, Header
  <2>2. LevelOf[k] \in 0 .. Height - 1
    BY <1>5, LevelAssumption, Constants DEF Topped, Levels
  <2> QED BY <2>1, <2>2
<1>6. PICK k : k = c.key
  OBVIOUS
<1>7. Topped(k) => Topped(k)'
  BY ToppedStays DEF SInv
<1>8. ASSUME c.op \in {"value", "exists"}, k \in Promised(c)
      PROVE  /\ Topped(k)'
             /\ Level(curr'[t]) >= LevelOf[k]
  BY <1>2, <1>4, <1>5, <1>6, <1>7, <1>8
<1>9. Op(t)' = c.op /\ K(t)' = k
  BY <1>2, <1>6 DEF Op, K
<1>10. Topped(K(t))' <=> Topped(k)'
  BY <1>9 DEF Topped, OnLevel, Keys, Live
<1> QED BY <1>2, <1>8, <1>9, <1>10 DEF Leads

\* where a lookup comes to that goes on with its search
LEMMA SearchLevel ==
  ASSUME MInv, NEW t \in Threads, Step(t), Op(t) \in {"value", "exists"},
         call'[t] = call[t], phase'[t] = "search"
  PROVE  /\ phase[t] = "search"
         /\ \/ curr'[t] = curr[t]
            \/ MoveRight(t)
            \/ \E r : Descend(t, r)
<1>1. /\ phase \in [Threads -> Phases] /\ call \in [Threads -> Calls \cup {None}]
      /\ pc[t] = "idle" => call[t] = None
  BY MInvParts DEF TypeOK, Phases, Going
<1>2. CASE Idle(t)
  <2>1. call[t] = None
    BY <1>1, <1>2 DEF Idle, StartRead, StartInsert, InsertZero, Begin
  <2> QED BY <2>1 DEF Op, None
<1>3. CASE Locking(t)
  BY <1>3 DEF Locking, ReadLock, WriteLock, Drain, Handover, place
<1>4. CASE MoveRight(t)
  BY <1>4 DEF MoveRight
<1>5. CASE Again(t) \/ Overwrite(t)
  BY <1>1, <1>5 DEF Again, GoDown, Overwrite
<1>6. ASSUME NEW r \in 0 .. MaxKeys, Moving(t, r)
      PROVE  phase[t] = "search" /\ Descend(t, r)
  BY <1>1, <1>6 DEF Moving, Descend, At, ReaderFound, Down, GoDown, InsertFound
<1>7. ASSUME NEW r \in 0 .. MaxKeys, Ending(t, r) PROVE FALSE
  <2>1. call'[t] = None
    BY <1>1, <1>7 DEF Ending, ValueHit, ValueMiss, ExistsHit, ExistsMiss, Return, EndCall
  <2> QED BY <2>1 DEF Op, None
<1>8. ASSUME NEW r \in 0 .. MaxKeys, Scanning(t, r) \/ Filling(t, r) PROVE FALSE
  BY <1>8 DEF Scanning, ScanOn, ScanEnd, Filling, InsertHere, InsertLeft, InsertRight,
     PromoteSplit, Missing
<1> QED BY <1>2, <1>3, <1>4, <1>5, <1>6, <1>7, <1>8, StepCases

\* a lookup that goes on with its search stays above the topmost level of its key
LEMMA SearchLeads ==
  ASSUME SInv, NEW t \in Threads, Step(t), Op(t) \in {"value", "exists"}, K(t) \in must[t],
         call'[t] = call[t], phase'[t] = "search", curr'[t] # Null, NEW k, k = K(t)
  PROVE  Level(curr'[t]) >= LevelOf[k]
<1>1. MInv /\ Leads(t) /\ IInv /\ OInv /\ TypeOK
  BY MInvParts DEF SInv
<1>2. phase[t] = "search"
  BY <1>1, SearchLevel
<1>3. CASE curr'[t] = curr[t]
  BY <1>1, <1>2, <1>3 DEF Leads
<1>4. CASE MoveRight(t)
  <2>1. pc[t] = "visit" /\ curr'[t] = heap[curr[t]].next
    BY <1>1, <1>4 DEF MoveRight, Approach, TypeOK
  <2>2. curr[t] \in Nodes /\ heap[curr[t]] \in NodeOf(Level(curr[t])) /\ curr[t] # Null
    BY <1>1, <2>1, AtNodeFacts, NodeNames
  <2>3. Level(curr'[t]) = Level(curr[t])
    <3>1. heap[curr[t]].next \in Peers(Level(curr[t]))
      BY <2>2 DEF NodeOf
    <3> QED BY <2>1, <3>1, PeerLevel
  <2> QED BY <1>1, <1>2, <2>2, <2>3 DEF Leads
<1>5. CASE \E r : Descend(t, r)
  <2>1. PICK r : Descend(t, r)
    BY <1>5
  <2>2. At(t, r) /\ ~Hit(t, r) /\ curr'[t] = heap[curr[t]].child[r]
    BY <1>1, <2>1 DEF Descend, Approach, ChildAt, TypeOK
  <2>3. /\ curr[t] \in Nodes /\ curr[t] # Null /\ heap[curr[t]] \in NodeOf(Level(curr[t]))
        /\ r \in Slot
    BY <1>1, <2>2, AtNodeFacts, AtRank, NodeNames DEF At, Live
  <2>4. Topped(K(t)) /\ Level(curr[t]) >= LevelOf[K(t)]
    BY <1>1, <1>2, <2>3 DEF Leads
  <2>5. Level(curr[t]) \in Int /\ LevelOf[k] \in Int /\ Level(curr[t]) > LevelOf[k]
    BY <1>1, <2>2, <2>4, MissIsAbove
  <2>6. Level(curr'[t]) = Level(curr[t]) - 1
    <3>1. heap[curr[t]].child[r] \in Peers(Level(curr[t]) - 1)
      BY <2>3 DEF NodeOf
    <3> QED BY <2>2, <3>1, PeerLevel
  <2> QED BY <2>5, <2>6
<1> QED BY <1>1, <1>3, <1>4, <1>5, SearchLevel

\* every lookup stays on its way
LEMMA LeadsStep ==
  ASSUME SInv, RanksKept, NEW t \in Threads, Step(t), NEW u \in Threads
  PROVE  Leads(u)'
<1>1. MInv /\ IInv /\ Leads(u)
  BY MInvParts DEF SInv
<1>2. ASSUME call'[u] = call[u], must'[u] = must[u],
             Op(u) \in {"value", "exists"} /\ K(u) \in must[u] /\ phase'[u] = "search"
               /\ curr'[u] # Null => Level(curr'[u]) >= LevelOf[K(u)]
      PROVE  Leads(u)'
  <2>1. PICK k : k = K(u)
    OBVIOUS
  <2>2. Topped(k) => Topped(k)'
    BY <1>1, ToppedStays
  <2>3. Op(u)' = Op(u) /\ K(u)' = k
    BY <1>2, <2>1 DEF Op, K
  <2>4. Topped(K(u))' <=> Topped(k)'
    BY <2>3 DEF Topped, OnLevel, Keys, Live
  <2> QED BY <1>1, <1>2, <2>1, <2>2, <2>3, <2>4 DEF Leads
<1>3. CASE u # t
  <2>1. call'[u] = call[u] /\ phase'[u] = phase[u] /\ curr'[u] = curr[u] /\ must'[u] = must[u]
    BY <1>1, <1>3, OthersKept, MustStep DEF SameThread
  <2> QED BY <1>1, <1>2, <2>1 DEF Leads
<1>4. CASE u = t
  <2>1. CASE must'[t] = must[t] /\ call'[t] = call[t]
    BY <1>2, <1>4, <2>1, SearchLeads
  <2>2. CASE call'[t] = None
    BY <1>4, <2>2 DEF Leads, Op, None
  <2>3. CASE \E c \in todo[t] : Begin(t, c)
    BY <1>4, <2>3, BeginLeads
  <2> QED BY <1>1, <2>1, <2>2, <2>3, MustStep
<1> QED BY <1>3, <1>4

\* exists reports keys that are on their topmost level
LEMMA ReportedStep ==
  ASSUME ZeroUnasked, SInv, RanksKept, NEW t \in Threads, Step(t)
  PROVE  Reported'
<1>1. MInv /\ OInv /\ TInv /\ TypeOK
  BY MInvParts DEF SInv
<1>2. \/ known' = known
      \/ \E r : ExistsHit(t, r) /\ known' = known \cup {K(t)}
  <2>1. \A x : Return(t, x) /\ ~(Op(t) = "exists" /\ x = 1) => known' = known
    BY DEF Return
  <2>2. CASE Idle(t) \/ Locking(t) \/ MoveRight(t) \/ Again(t)
    BY <2>2 DEF Idle, StartRead, StartInsert, InsertZero, Begin, Locking, ReadLock, WriteLock,
       Drain, Handover, MoveRight, Again, GoDown, history
  <2>3. CASE Overwrite(t)
    BY <2>1, <2>3 DEF Overwrite
  <2>4. ASSUME NEW r \in 0 .. MaxKeys, Moving(t, r) \/ Scanning(t, r) PROVE known' = known
    BY <2>4 DEF Moving, Descend, ReaderFound, Down, GoDown, InsertFound, Scanning, ScanOn,
       ScanEnd, history
  <2>5. ASSUME NEW r \in 0 .. MaxKeys, Filling(t, r) PROVE known' = known
    BY <2>1, <2>5 DEF Filling, InsertHere, InsertLeft, InsertRight, PromoteSplit, EndOrDescend,
       Missing, history
  <2>6. ASSUME NEW r \in 0 .. MaxKeys, ValueHit(t, r) \/ ValueMiss(t, r) \/ ExistsMiss(t, r)
        PROVE  known' = known
    BY <2>1, <2>6 DEF ValueHit, ValueMiss, ExistsMiss
  <2>7. ASSUME NEW r \in 0 .. MaxKeys, ExistsHit(t, r) PROVE known' = known \cup {K(t)}
    BY <2>7 DEF ExistsHit, Return
  <2> QED BY <2>2, <2>3, <2>4, <2>5, <2>6, <2>7, StepCases DEF Ending
<1>3. \A k : Topped(k) => Topped(k)'
  BY <1>1, ToppedStays
<1>4. ASSUME NEW r, ExistsHit(t, r) PROVE Topped(K(t))
  <2>1. Op(t) = "exists" /\ At(t, r) /\ Hit(t, r) /\ pc[t] # "idle"
    BY <1>4 DEF ExistsHit, At
  <2>2. K(t) \in 1 .. Inf - 1
    BY <1>1, <2>1, AskedKey
  <2>3. curr[t] \in Nexts /\ r \in Live(heap[curr[t]]) /\ Level(curr[t]) \in Levels
    BY <1>1, <2>1, AtRank, NodeNames
  <2>4. OnLevel(K(t), Level(curr[t]))
    BY <2>1, <2>3 DEF OnLevel, Keys, Hit
  <2> QED BY <1>1, <2>2, <2>3, <2>4, TopLevel
<1>5. \A k \in known : Topped(k)
  BY DEF SInv, Reported
<1>6. PICK q : q = K(t)
  OBVIOUS
<1>7. ASSUME NEW k \in known' PROVE Topped(k)'
  <2>1. k \in known \/ (k = q /\ Topped(q))
    BY <1>2, <1>4, <1>6, <1>7
  <2> QED BY <1>3, <1>5, <2>1
<1> QED BY <1>7 DEF Reported, Topped, OnLevel

\* every value in the leaves was given by an insert
LEMMA ValuedStep ==
  ASSUME ValuesGiven, SInv, RanksKept, NEW t \in Threads, Step(t)
  PROVE  Valued'
<1>1. MInv /\ Came /\ TypeOK
  BY MInvParts DEF SInv
<1>2. \A k, v : k # 0 /\ Maps(k, v) => v # 0
  BY DEF SInv, Valued
<1>3. ASSUME Sets(t) PROVE call[t].arg # 0
  <2>1. pc[t] # "idle" /\ Op(t) = "insert"
    BY <1>3, SetsInserts
  <2>2. call[t] \in Work[round][t] /\ round \in 1 .. Len(Work)
    BY <1>1, <2>1 DEF Came, Called, TypeOK
  <2> QED BY <2>1, <2>2 DEF ValuesGiven, Op
<1>4. ASSUME NEW k, NEW v, k # 0, Maps(k, v)' PROVE v # 0
  BY <1>1, <1>2, <1>3, <1>4, MapsStep
<1> QED BY <1>4 DEF Valued

\* no lookup has begun
LEMMA SInvInit == Init => SInv
<1> SUFFICES ASSUME Init PROVE SInv
  OBVIOUS
<1>1. MInv
  BY MInvInit
<1>2. \A t \in Threads : Leads(t)
  BY DEF Init, Leads
<1>3. Reported
  BY DEF Init, Reported
<1>4. \A k, v : Maps(k, v) => k = 0
  BY EmptyLevels DEF Maps, Keys
<1> QED BY <1>1, <1>2, <1>3, <1>4 DEF SInv, Valued

\* every step keeps lookups on their way
LEMMA SInvNext == ZeroUnasked /\ ValuesGiven /\ SInv /\ [Next]_vars /\ RanksKept => SInv'
<1> SUFFICES ASSUME ZeroUnasked, ValuesGiven, SInv, [Next]_vars, RanksKept PROVE SInv'
  OBVIOUS
<1>1. MInv'
  BY MInvNext DEF SInv
<1>2. ASSUME NEW t \in Threads, Step(t) PROVE SInv'
  BY <1>1, <1>2, LeadsStep, ReportedStep, ValuedStep DEF SInv
<1>3. CASE NextRound \/ UNCHANGED vars
  <2>1. UNCHANGED <<heap, call, phase, curr, must, known>>
    BY <1>3 DEF NextRound, vars, place, history
  <2>2. \A k : Topped(k)' <=> Topped(k)
    BY <2>1 DEF Topped, OnLevel, Keys, Live, Nexts, InList
  <2>3. \A k, v : Maps(k, v)' <=> Maps(k, v)
    BY <2>1 DEF Maps, Nexts, InList, Live
  <2>4. \A t \in Threads : Leads(t)'
    BY <2>1, <2>2 DEF SInv, Leads, Op, K, Topped, OnLevel, Keys, Live, Nexts, InList
  <2>5. Reported'
    BY <2>1, <2>2 DEF SInv, Reported
  <2>6. Valued'
    BY <2>3 DEF SInv, Valued
  <2> QED BY <1>1, <2>4, <2>5, <2>6 DEF SInv
<1> QED BY <1>2, <1>3 DEF Next, Finished

\* a lookup that ends has found its key, if it was bound to
LEMMA LookupFinds ==
  ASSUME SInv, NEW t \in Threads, Step(t), Op(t) \in {"value", "exists"}, call'[t] = None,
         K(t) \in must[t]
  PROVE  ret'[t] # 0
<1>1. /\ MInv /\ OInv /\ TypeOK /\ Leads(t) /\ call \in [Threads -> Calls \cup {None}]
      /\ ret \in [Threads -> Nat]
  BY MInvParts DEF SInv, TypeOK
<1>2. Topped(K(t))
  BY <1>1 DEF Leads
<1>3. call[t] # None
  BY DEF Op, None
<1>4. PICK r : Ending(t, r)
  <2>1. \A u \in Threads : call'[u] = call[u] => u # t
    BY <1>3
  <2>2. ~Idle(t)
    <3>1. ASSUME Idle(t) PROVE pc[t] = "idle"
      BY <3>1 DEF Idle, StartRead, StartInsert, InsertZero, Begin
    <3> QED BY <1>1, <1>3, <3>1, MInvParts DEF Going
  <2>3. ~Locking(t) /\ ~MoveRight(t) /\ ~Again(t)
    BY <2>1 DEF Locking, ReadLock, WriteLock, Drain, Handover, MoveRight, Again, GoDown
  <2>4. ~Overwrite(t)
    BY DEF Overwrite
  <2>5. \A r : ~Moving(t, r)
    BY <2>1 DEF Moving, Descend, ReaderFound, Down, GoDown, InsertFound
  <2>6. \A r : ~Scanning(t, r) /\ ~Filling(t, r)
    BY DEF Scanning, ScanOn, ScanEnd, Filling, InsertHere, InsertLeft, InsertRight,
       PromoteSplit, Missing
  <2> QED BY <2>2, <2>3, <2>4, <2>5, <2>6, StepCases
<1>5. ASSUME At(t, r), ~Hit(t, r), Level(curr[t]) = 0 PROVE FALSE
  <2>1. phase[t] = "search" /\ curr[t] # Null
    BY <1>1, <1>5, AtRank, NodeNames DEF At
  <2>2. Level(curr[t]) >= LevelOf[K(t)]
    BY <1>1, <2>1 DEF Leads
  <2>3. Level(curr[t]) > 0
    BY <1>1, <1>2, <1>5, <2>2, MissIsAbove
  <2> QED BY <1>5, <2>3
<1>6. \A x : Return(t, x) => ret'[t] = x
  BY <1>1 DEF Return
<1>7. CASE ExistsHit(t, r)
  BY <1>6, <1>7 DEF ExistsHit
<1>8. CASE ValueHit(t, r)
  <2>1. Maps(K(t), heap[curr[t]].val[r])
    BY <1>1, <1>8, HitMaps DEF ValueHit
  <2>2. K(t) # 0
    BY <1>2 DEF Topped
  <2>3. heap[curr[t]].val[r] # 0
    BY <2>1, <2>2 DEF SInv, Valued
  <2> QED BY <1>6, <1>8, <2>3 DEF ValueHit
<1> QED BY <1>4, <1>5, <1>7, <1>8 DEF Ending, ValueMiss, ExistsMiss

(* A lookup finds its key if the key was in a leaf, or exists had reported *)
(* it, when the lookup started - whatever splits it meets on the way, and  *)
(* whether or not the insert that exists saw has come to the leaves.       *)
THEOREM NoLookupMisses == ZeroUnasked /\ ValuesGiven /\ Spec /\ []RanksKept => NoStaleMiss
<1> SUFFICES ASSUME ZeroUnasked, ValuesGiven PROVE Spec /\ []RanksKept => NoStaleMiss
  OBVIOUS
<1>1. SInv /\ [Next]_vars /\ RanksKept => SInv'
  BY SInvNext
<1>2. Spec /\ []RanksKept => []SInv
  BY <1>1, SInvInit, PTL DEF Spec
<1> DEFINE Finds == \A t \in Threads :
             Ends(t, {"value", "exists"}) /\ K(t) \in must[t] => ret'[t] # 0
<1>3. SInv /\ [Next]_vars => [Finds]_vars
  <2> SUFFICES ASSUME SInv, Next, NEW t \in Threads,
                      Ends(t, {"value", "exists"}), K(t) \in must[t]
               PROVE  ret'[t] # 0
    BY DEF Finds
  <2>1. Op(t) \in {"value", "exists"} /\ call'[t] = None /\ call'[t] # call[t]
    BY DEF Ends, Doing, Op, None
  <2>2. PICK u \in Threads : Step(u)
    BY <2>1 DEF Next, NextRound, Finished, vars
  <2>3. u = t
    BY <2>1, <2>2, OthersKept, MInvParts DEF SInv, SameThread
  <2> QED BY <2>1, <2>2, <2>3, LookupFinds
<1>4. [][Finds]_vars => NoStaleMiss
  BY PTL DEF NoStaleMiss, Finds
<1> QED BY <1>2, <1>3, <1>4, PTL DEF Spec

(* ... and with no hypothesis on its behaviour, when every key is inserted *)
(* once.                                                                   *)
THEOREM NoLookupMissesOneInsert == InsertsOnce /\ ZeroUnasked /\ ValuesGiven /\ Spec => NoStaleMiss
BY NoLookupMisses, NothingOverridden, PTL
=============================================================================
