---------------------------- MODULE BSkip_proofs ----------------------------
(***************************************************************************)
(* Proofs about the B-skiplist of BSkip, for any threads, workload, height *)
(* and node size.                                                          *)
(***************************************************************************)
EXTENDS BSkip, FiniteSetTheorems, SequenceTheorems, TLAPS

\* the pointers of a node of level l: along its level, and down
Peers(l) == {Null} \cup {n \in Nodes : Level(n) = l}

\* a node of level l that does not outgrow its arrays
NodeOf(l) == [num : 0 .. MaxKeys, key : [Slot -> AnyKey], val : [Slot -> Nat],
              child : [Slot -> Peers(l - 1)], next : Peers(l), next_header : AnyKey]

Shaped == \A n \in Nodes : heap[n] \in NodeOf(Level(n))

\* an insert has drawn the names of its new nodes
Started == \A t \in Threads : Op(t) = "insert" => ins[t] > 0

\* nodes that no insert has drawn are empty, and so are those of an insert on
\* the levels it has yet to come to
Fresh ==
  \A t \in Threads :
    /\ \A i \in 1 .. MaxInserts[t], l \in Levels : i > ins[t] => heap[<<t, i, l>>].num = 0
    /\ Op(t) = "insert" /\ phase[t] = "search" /\ curr[t] # Null =>
         \A l \in Levels : l <= Level(curr[t]) => heap[NewNode(t, l)].num = 0

\* The inductive invariant.  TypeOK alone is not inductive: a split fills a new
\* node beyond its arrays unless it is empty (Fresh), and pointers that left
\* their level (Shaped) would lead an insert to a level it has done already.
IInv == TypeOK /\ Shaped /\ Started /\ Fresh

-------------------------------------------------------------------------------
(* Node names                                                              *)

\* the constants and the sets built from them, as the provers need them
LEMMA Constants == /\ MaxKeys \in Nat /\ MaxKeys >= 2 /\ Inf \in Nat /\ Inf > 0
                   /\ Height \in Nat /\ Height > 1
                   /\ \A i \in Int : i \in Slot <=> 0 <= i /\ i < MaxKeys
                   /\ \A i \in Int : i \in Levels <=> 0 <= i /\ i < Height
                   /\ \A i \in Int : i \in AnyKey <=> 0 <= i /\ i <= Inf
                   /\ Slot \subseteq Int /\ Levels \subseteq Int /\ AnyKey \subseteq Int
BY MaxKeysAssumption, InfAssumption, HeightAssumption DEF Slot, Levels, AnyKey

\* every node has a level, and is not Null
LEMMA NodeNames ==
  \A n \in Nodes : /\ Level(n) \in Levels
                   /\ n # Null
<1> SUFFICES ASSUME NEW n \in Nodes PROVE Level(n) \in Levels /\ n # Null
  OBVIOUS
<1>1. CASE n \in {"head", "tail"} \X {0} \X Levels
  BY <1>1 DEF Level, Null
<1>2. CASE n \in UNION {{t} \X (1 .. MaxInserts[t]) \X Levels : t \in Threads}
  <2>1. PICK t \in Threads : n \in {t} \X (1 .. MaxInserts[t]) \X Levels
    BY <1>2
  <2>2. MaxInserts[t] \in Nat
    BY MaxInsertsAssumption
  <2>3. n = <<n[1], n[2], n[3]>> /\ n[2] \in 1 .. MaxInserts[t] /\ n[3] \in Levels
    BY <2>1
  <2> QED BY <2>2, <2>3 DEF Level, Null
<1> QED BY <1>1, <1>2 DEF Nodes

\* the names an insert may draw are nodes of their level
LEMMA OwnNodes ==
  \A t \in Threads : \A i \in 1 .. MaxInserts[t] : \A l \in Levels :
    <<t, i, l>> \in Nodes /\ Level(<<t, i, l>>) = l
<1> SUFFICES ASSUME NEW t \in Threads, NEW i \in 1 .. MaxInserts[t], NEW l \in Levels
             PROVE <<t, i, l>> \in Nodes /\ Level(<<t, i, l>>) = l
  OBVIOUS
<1>1. <<t, i, l>> \in {t} \X (1 .. MaxInserts[t]) \X Levels
  OBVIOUS
<1>2. <<t, i, l>> \in UNION {{u} \X (1 .. MaxInserts[u]) \X Levels : u \in Threads}
  BY <1>1
<1> QED BY <1>2 DEF Nodes, Level

\* so are the sentinels
LEMMA Sentinels ==
  \A l \in Levels : /\ Header(l) \in Nodes /\ Level(Header(l)) = l
                    /\ EndSentinel(l) \in Nodes /\ Level(EndSentinel(l)) = l
BY DEF Header, EndSentinel, Nodes, Level

-------------------------------------------------------------------------------
(* The array operations keep a node a node                                 *)

\* shifting an element in stays within the array
LEMMA ShiftInType ==
  ASSUME NEW S, NEW a \in [Slot -> S], NEW r \in Nat, NEW x \in S, NEW last \in Int
  PROVE  ShiftIn(a, r, x, last) \in [Slot -> S]
<1> SUFFICES ASSUME NEW i \in Slot, i # r, i \in r + 1 .. last PROVE a[i - 1] \in S
  BY DEF ShiftIn
<1>1. i \in Int /\ i - 1 \in Slot
  BY Constants
<1> QED BY <1>1

\* and so does copying a tail
LEMMA CopyToType ==
  ASSUME NEW S, NEW src \in [Slot -> S], NEW dest \in [Slot -> S],
         NEW from \in Nat, NEW at \in Nat, NEW n \in Int, from + n <= MaxKeys
  PROVE  CopyTo(src, from, dest, at, n) \in [Slot -> S]
<1> SUFFICES ASSUME NEW i \in Slot, i \in at .. at + n - 1 PROVE src[from + i - at] \in S
  BY DEF CopyTo
<1>1. i \in Int /\ from + i - at \in Slot
  BY Constants
<1> QED BY <1>1

\* Each operation turns a node of level l into one: of the same number of
\* elements, or with one more where num_elts is incremented.
LEMMA KeyShape ==
  ASSUME NEW l \in Levels, NEW node \in NodeOf(l), NEW r \in Nat, NEW k \in AnyKey
  PROVE  /\ InsertKeyAtRank(node, r, k) \in NodeOf(l)
         /\ InsertKeyAtRank(node, r, k).num = node.num
<1>1. node.num \in Int /\ node.key \in [Slot -> AnyKey]
  BY DEF NodeOf
<1>2. ShiftIn(node.key, r, k, node.num) \in [Slot -> AnyKey]
  BY <1>1, ShiftInType
<1> QED BY <1>2 DEF InsertKeyAtRank, NodeOf

\* insert_elt_at_rank leaves num_elts alone
LEMMA EltShape ==
  ASSUME NEW l \in Levels, NEW node \in NodeOf(l), NEW r \in Nat,
         NEW k \in AnyKey, NEW v \in Nat
  PROVE  /\ InsertEltAtRank(node, r, k, v) \in NodeOf(l)
         /\ InsertEltAtRank(node, r, k, v).num = node.num
<1>1. node.num \in Int /\ node.key \in [Slot -> AnyKey] /\ node.val \in [Slot -> Nat]
  BY DEF NodeOf
<1>2. ShiftIn(node.key, r, k, node.num) \in [Slot -> AnyKey]
  BY <1>1, ShiftInType
<1>3. ShiftIn(node.val, r, v, node.num) \in [Slot -> Nat]
  BY <1>1, ShiftInType
<1> QED BY <1>2, <1>3 DEF InsertEltAtRank, NodeOf

\* insert_child_at_rank: the child is of the level below
LEMMA ChildShape ==
  ASSUME NEW l \in Levels, NEW node \in NodeOf(l), NEW r \in Nat,
         NEW c \in Peers(l - 1), NEW flag \in BOOLEAN
  PROVE  /\ InsertChildAtRank(node, r, c, flag) \in NodeOf(l)
         /\ InsertChildAtRank(node, r, c, flag).num = node.num
<1> DEFINE last == IF flag THEN node.num - 1 ELSE node.num
<1>1. last \in Int /\ node.child \in [Slot -> Peers(l - 1)]
  BY DEF NodeOf
<1> HIDE DEF last
<1>2. ShiftIn(node.child, r, c, last) \in [Slot -> Peers(l - 1)]
  BY <1>1, ShiftInType
<1>3. InsertChildAtRank(node, r, c, flag) = [node EXCEPT !.child = ShiftIn(node.child, r, c, last)]
  BY DEF InsertChildAtRank, last
<1> QED BY <1>2, <1>3 DEF NodeOf

\* num_elts++ needs room for it
LEMMA CountShape ==
  ASSUME NEW l \in Levels, NEW node \in NodeOf(l), node.num < MaxKeys
  PROVE  /\ [node EXCEPT !.num = @ + 1] \in NodeOf(l)
         /\ [node EXCEPT !.num = @ + 1].num = node.num + 1
<1>1. node.num + 1 \in 0 .. MaxKeys
  BY Constants DEF NodeOf
<1> QED BY <1>1 DEF NodeOf

\* placing the key of an insert adds one element
LEMMA PlaceShape ==
  ASSUME NEW t \in Threads, NEW l \in Levels, NEW node \in NodeOf(l), NEW r \in Nat,
         node.num < MaxKeys, NEW counted \in BOOLEAN,
         K(t) \in AnyKey, call[t].arg \in Nat,
         l > 0 => NewNode(t, l - 1) \in Peers(l - 1)
  PROVE  /\ Place(t, node, l, r, counted) \in NodeOf(l)
         /\ Place(t, node, l, r, counted).num = node.num + 1
<1>1. CASE l = 0
  BY <1>1, EltShape, CountShape DEF Place
<1>2. CASE l # 0
  <2> DEFINE keyed == InsertKeyAtRank(node, r, K(t))
  <2>1. NewNode(t, l - 1) \in Peers(l - 1)
    BY <1>2, Constants
  <2>2. keyed \in NodeOf(l) /\ keyed.num = node.num
    BY KeyShape
  <2>3. CASE counted
    <3> DEFINE more == [keyed EXCEPT !.num = @ + 1]
    <3>1. Place(t, node, l, r, counted) = InsertChildAtRank(more, r, NewNode(t, l - 1), TRUE)
      BY <1>2, <2>3 DEF Place
    <3> HIDE DEF keyed
    <3>2. more \in NodeOf(l) /\ more.num = node.num + 1
      BY <2>2, CountShape
    <3> HIDE DEF more
    <3>3. /\ InsertChildAtRank(more, r, NewNode(t, l - 1), TRUE) \in NodeOf(l)
          /\ InsertChildAtRank(more, r, NewNode(t, l - 1), TRUE).num = more.num
      BY <2>1, <3>2, ChildShape
    <3> QED BY <3>1, <3>2, <3>3
  <2>4. CASE ~counted
    <3> DEFINE parent == InsertChildAtRank(keyed, r, NewNode(t, l - 1), FALSE)
    <3>1. Place(t, node, l, r, counted) = [parent EXCEPT !.num = @ + 1]
      BY <1>2, <2>4 DEF Place
    <3> HIDE DEF keyed
    <3>2. parent \in NodeOf(l) /\ parent.num = node.num
      BY <2>1, <2>2, ChildShape
    <3> HIDE DEF parent
    <3> QED BY <3>1, <3>2, CountShape
  <2> QED BY <2>3, <2>4
<1> QED BY <1>1, <1>2

\* split_keys, the node that takes the tail: it must have room
LEMMA GiveShape ==
  ASSUME NEW l \in Levels, NEW node \in NodeOf(l), NEW dest \in NodeOf(l),
         NEW from \in Nat, NEW at \in Nat, from <= node.num,
         dest.num + (node.num - from) <= MaxKeys
  PROVE  /\ SplitGive(node, dest, from, at) \in NodeOf(l)
         /\ SplitGive(node, dest, from, at).num = dest.num + (node.num - from)
<1> DEFINE n == node.num - from
<1>1. /\ n \in Int /\ from + n <= MaxKeys /\ dest.num + n \in 0 .. MaxKeys
      /\ node.key \in [Slot -> AnyKey] /\ dest.key \in [Slot -> AnyKey]
      /\ node.val \in [Slot -> Nat] /\ dest.val \in [Slot -> Nat]
  BY Constants DEF NodeOf
<1> HIDE DEF n
<1>2. CopyTo(node.key, from, dest.key, at, n) \in [Slot -> AnyKey]
  BY <1>1, CopyToType
<1>3. CopyTo(node.val, from, dest.val, at, n) \in [Slot -> Nat]
  BY <1>1, CopyToType
<1>4. SplitGive(node, dest, from, at) =
        [dest EXCEPT !.num = dest.num + n,
                     !.key = CopyTo(node.key, from, dest.key, at, n),
                     !.val = CopyTo(node.val, from, dest.val, at, n)]
  BY DEF SplitGive, n
<1>5. SplitGive(node, dest, from, at).num = dest.num + n
  BY <1>4 DEF NodeOf
<1> QED BY <1>1, <1>2, <1>3, <1>4, <1>5 DEF NodeOf, n

\* move_children moves pointers of one level
LEMMA MoveShape ==
  ASSUME NEW l \in Levels, NEW node \in NodeOf(l), NEW dest \in NodeOf(l),
         NEW from \in Nat, NEW at \in Nat, NEW n \in Int, from + n <= MaxKeys
  PROVE  /\ MoveChildren(node, dest, from, n, at) \in NodeOf(l)
         /\ MoveChildren(node, dest, from, n, at).num = dest.num
<1>1. node.child \in [Slot -> Peers(l - 1)] /\ dest.child \in [Slot -> Peers(l - 1)]
  BY DEF NodeOf
<1>2. CopyTo(node.child, from, dest.child, at, n) \in [Slot -> Peers(l - 1)]
  BY <1>1, CopyToType
<1> QED BY <1>2 DEF MoveChildren, NodeOf

\* split_keys, the node that keeps the rest
LEMMA KeepShape ==
  ASSUME NEW l \in Levels, NEW node \in NodeOf(l), NEW from \in 0 .. MaxKeys
  PROVE  /\ SplitKeep(node, from) \in NodeOf(l)
         /\ SplitKeep(node, from).num = from
BY DEF SplitKeep, NodeOf

\* the halves of a full node
LEMMA HalfOfFull ==
  ASSUME NEW l \in Levels, NEW node \in NodeOf(l), node.num >= MaxKeys
  PROVE  /\ node.num = MaxKeys
         /\ Half(node) \in Slot /\ Half(node) \in Nat /\ Half(node) > 0
         /\ Half(node) < MaxKeys /\ Half(node) \in 0 .. MaxKeys
<1>1. node.num = MaxKeys
  BY Constants DEF NodeOf
<1> QED BY <1>1, Constants DEF Half

\* the left half of a full node has room for one more
LEMMA LeftHalfShape ==
  ASSUME NEW l \in Levels, NEW node \in NodeOf(l), node.num >= MaxKeys, NEW new \in Peers(l)
  PROVE  /\ LeftHalf(node, new) \in NodeOf(l)
         /\ LeftHalf(node, new).num = Half(node)
<1>1. node.key[Half(node)] \in AnyKey
  BY HalfOfFull DEF NodeOf
<1> DEFINE kept == SplitKeep(node, Half(node))
<1>2. kept \in NodeOf(l) /\ kept.num = Half(node)
  BY HalfOfFull, KeepShape
<1>3. LeftHalf(node, new) = [kept EXCEPT !.next = new, !.next_header = node.key[Half(node)]]
  BY DEF LeftHalf
<1> HIDE DEF kept
<1> QED BY <1>1, <1>2, <1>3 DEF NodeOf

\* and so has the right half, if the new node was empty
LEMMA RightHalfShape ==
  ASSUME NEW l \in Levels, NEW node \in NodeOf(l), node.num >= MaxKeys,
         NEW blank \in NodeOf(l), blank.num = 0
  PROVE  /\ RightHalf(node, blank) \in NodeOf(l)
         /\ RightHalf(node, blank).num = MaxKeys - Half(node)
<1> DEFINE h == Half(node)
           given == SplitGive(node, blank, h, 0)
           moved == MoveChildren(node, given, h, node.num - h, 0)
<1>1. /\ node.num = MaxKeys /\ MaxKeys \in Nat
      /\ h \in Nat /\ h < MaxKeys /\ h <= node.num
      /\ node.num - h \in Int /\ h + (node.num - h) <= MaxKeys
      /\ blank.num + (node.num - h) <= MaxKeys
      /\ blank.num + (node.num - h) = MaxKeys - h
  BY HalfOfFull, Constants
<1>2. node.next \in Peers(l) /\ node.next_header \in AnyKey
  BY DEF NodeOf
<1>3. RightHalf(node, blank) = [moved EXCEPT !.next = node.next, !.next_header = node.next_header]
  BY DEF RightHalf
<1> HIDE DEF h
<1>4. given \in NodeOf(l) /\ given.num = MaxKeys - h
  BY <1>1, GiveShape
<1> HIDE DEF given
<1>5. moved \in NodeOf(l) /\ moved.num = given.num
  <2> DEFINE n == node.num - h
  <2>1. n \in Int /\ h + n <= MaxKeys /\ h \in Nat /\ 0 \in Nat
    BY <1>1
  <2> HIDE DEF n
  <2>2. /\ MoveChildren(node, given, h, n, 0) \in NodeOf(l)
        /\ MoveChildren(node, given, h, n, 0).num = given.num
    BY <1>4, <2>1, MoveShape
  <2> QED BY <2>2 DEF n
<1> HIDE DEF moved
<1> QED BY <1>1, <1>2, <1>3, <1>4, <1>5 DEF NodeOf, h

-------------------------------------------------------------------------------
(* Where a thread is                                                       *)

\* find_key answers an element of the node
LEMMA RankType ==
  ASSUME TypeOK, Shaped, NEW t \in Threads, NEW r, At(t, r)
  PROVE  /\ curr[t] \in Nodes
         /\ r \in Slot /\ r \in Nat /\ r < heap[curr[t]].num /\ heap[curr[t]].num > 0
         /\ heap[curr[t]] \in NodeOf(Level(curr[t]))
<1>1. curr[t] \in Nodes
  BY DEF At, TypeOK
<1>2. heap[curr[t]] \in NodeOf(Level(curr[t])) /\ heap[curr[t]].num \in 0 .. MaxKeys
  BY <1>1 DEF Shaped, NodeOf
<1>3. IsRank(heap[curr[t]], K(t), r)
  BY DEF At
<1>4. r \in Slot /\ r < heap[curr[t]].num
  BY <1>2, <1>3, Constants DEF IsRank, Leading, Live
<1> QED BY <1>1, <1>2, <1>4, Constants

\* an insert that did not find its key: where it is, and the node it may fill
LEMMA InsertFacts ==
  ASSUME IInv, NEW t \in Threads, NEW r, Missing(t, r)
  PROVE  LET n == curr[t]
             l == Level(n)
             new == NewNode(t, l)
         IN /\ n \in Nodes /\ l \in Levels /\ heap[n] \in NodeOf(l)
            /\ r \in Slot /\ r \in Nat /\ r < heap[n].num
            /\ new \in Nodes /\ Level(new) = l /\ new \in Peers(l) /\ new # n
            /\ heap[new] \in NodeOf(l) /\ heap[new].num = 0
            /\ K(t) \in AnyKey /\ call[t].arg \in Nat
            /\ l > 0 => NewNode(t, l - 1) \in Peers(l - 1)
            /\ ChildAt(t, r) \in Peers(l - 1)
            /\ Op(t) = "insert" /\ phase[t] = "search"
<1> DEFINE n == curr[t]
           l == Level(n)
           new == NewNode(t, l)
<1>1. Op(t) = "insert" /\ phase[t] = "search" /\ pc[t] = "visit" /\ At(t, r)
  BY DEF Missing, At
<1>2. n \in Nodes /\ heap[n] \in NodeOf(l) /\ r \in Slot /\ r \in Nat /\ r < heap[n].num
      /\ heap[n].num > 0
  BY <1>1, RankType DEF IInv
<1>3. l \in Levels /\ n # Null
  BY <1>2, NodeNames
<1>4. ins[t] \in 1 .. MaxInserts[t]
  BY <1>1, MaxInsertsAssumption DEF IInv, Started, TypeOK
<1>5. \A j \in Levels : NewNode(t, j) \in Nodes /\ Level(NewNode(t, j)) = j
  BY <1>4, OwnNodes DEF NewNode
<1>6. new \in Nodes /\ Level(new) = l /\ new \in Peers(l)
  BY <1>3, <1>5 DEF Peers
<1>7. heap[new] \in NodeOf(l)
  BY <1>6 DEF IInv, Shaped
<1>8. heap[new].num = 0
  <2>1. l <= Level(curr[t]) /\ curr[t] # Null
    BY <1>3, HeightAssumption DEF Levels
  <2> QED BY <1>1, <1>3, <2>1 DEF IInv, Fresh
<1>9. K(t) \in AnyKey /\ call[t].arg \in Nat
  <2>1. call[t] \in Calls
    BY <1>1 DEF IInv, TypeOK
  <2> QED BY <2>1, Constants DEF Calls, K
<1>10. l > 0 => NewNode(t, l - 1) \in Peers(l - 1)
  <2> SUFFICES ASSUME l > 0 PROVE NewNode(t, l - 1) \in Peers(l - 1)
    OBVIOUS
  <2>1. l - 1 \in Levels
    BY <1>3, HeightAssumption DEF Levels
  <2> QED BY <1>5, <2>1 DEF Peers
<1>11. ChildAt(t, r) \in Peers(l - 1)
  BY <1>2 DEF ChildAt, NodeOf
<1>12. new # n
  BY <1>2, <1>8
<1> QED BY <1>1, <1>2, <1>3, <1>6, <1>7, <1>8, <1>9, <1>10, <1>11, <1>12

-------------------------------------------------------------------------------
(* The nodes                                                               *)

\* a step of t that fills an empty node fills its own node of the level it is on
OnlyOwn(t) ==
  \A n \in Nodes : heap[n].num = 0 /\ heap'[n].num # 0 =>
    Op(t) = "insert" /\ phase[t] = "search" /\ n = NewNode(t, Level(curr[t]))

HeapIs == heap \in [Nodes -> NodeType(Pointers)]

\* a node of some level is a node of TypeOK
LEMMA NodeIsNode == \A l : NodeOf(l) \subseteq NodeType(Pointers)
<1> SUFFICES ASSUME NEW l, NEW a \in NodeOf(l) PROVE a \in NodeType(Pointers)
  OBVIOUS
<1>1. 0 .. MaxKeys \subseteq Nat
  BY Constants
<1>2. Peers(l) \subseteq Pointers /\ Peers(l - 1) \subseteq Pointers
  BY DEF Peers, Pointers
<1> QED BY <1>1, <1>2 DEF NodeOf, NodeType

\* steps that write one node, or two
LEMMA WriteOne ==
  ASSUME IInv, NEW t \in Threads, NEW n \in Nodes, NEW a \in NodeOf(Level(n)),
         heap[n].num > 0 \/ a.num = heap[n].num, heap' = [heap EXCEPT ![n] = a]
  PROVE  HeapIs' /\ Shaped' /\ OnlyOwn(t)
<1>1. Shaped'
  BY DEF IInv, TypeOK, Shaped
<1>2. a \in NodeType(Pointers)
  BY NodeIsNode
<1>3. HeapIs'
  BY <1>2 DEF IInv, TypeOK, HeapIs
<1> QED BY <1>1, <1>3 DEF OnlyOwn, IInv, TypeOK

\* writing a node with elements, and the insert's new one beside it
LEMMA WriteTwo ==
  ASSUME IInv, NEW t \in Threads, NEW n \in Nodes, NEW new \in Nodes, heap[n].num > 0,
         Op(t) = "insert", phase[t] = "search", n = curr[t], new = NewNode(t, Level(n)),
         NEW a \in NodeOf(Level(n)), NEW b \in NodeOf(Level(new)),
         heap' = [heap EXCEPT ![new] = b, ![n] = a]
  PROVE  HeapIs' /\ Shaped' /\ OnlyOwn(t)
<1>1. Shaped'
  BY DEF IInv, TypeOK, Shaped
<1>2. a \in NodeType(Pointers) /\ b \in NodeType(Pointers)
  BY NodeIsNode
<1>3. HeapIs'
  BY <1>2 DEF IInv, TypeOK, HeapIs
<1> QED BY <1>1, <1>3 DEF OnlyOwn, IInv, TypeOK

\* the four ways insert adds a key
LEMMA HeapInsertHere ==
  ASSUME IInv, NEW t \in Threads, NEW r \in Nat, InsertHere(t, r)
  PROVE  HeapIs' /\ Shaped' /\ OnlyOwn(t)
<1> DEFINE n == curr[t]
           a == Place(t, heap[n], Level(n), r + 1, FALSE)
<1>1. Missing(t, r) /\ heap[n].num + 1 <= MaxKeys /\ heap' = [heap EXCEPT ![n] = a]
  BY DEF InsertHere
<1>2. /\ n \in Nodes /\ Level(n) \in Levels /\ heap[n] \in NodeOf(Level(n))
      /\ K(t) \in AnyKey /\ call[t].arg \in Nat
      /\ Level(n) > 0 => NewNode(t, Level(n) - 1) \in Peers(Level(n) - 1)
      /\ r < heap[n].num
  BY <1>1, InsertFacts
<1>3. heap[n].num < MaxKeys /\ heap[n].num > 0 /\ r + 1 \in Nat
  BY <1>1, <1>2, Constants DEF NodeOf
<1>4. a \in NodeOf(Level(n))
  BY <1>2, <1>3, PlaceShape
<1> HIDE DEF a, n
<1> QED BY <1>1, <1>2, <1>3, <1>4, WriteOne

\* the node splits and the left half takes the key
LEMMA HeapInsertLeft ==
  ASSUME IInv, NEW t \in Threads, NEW r \in Nat, InsertLeft(t, r)
  PROVE  HeapIs' /\ Shaped' /\ OnlyOwn(t)
<1> DEFINE n == curr[t]
           l == Level(n)
           new == NewNode(t, l)
           a == Place(t, LeftHalf(heap[n], new), l, r + 1, TRUE)
           b == RightHalf(heap[n], heap[new])
<1>1. Missing(t, r) /\ heap[n].num + 1 > MaxKeys
  BY DEF InsertLeft
<1>2. /\ n \in Nodes /\ l \in Levels /\ heap[n] \in NodeOf(l)
      /\ new \in Nodes /\ Level(new) = l /\ new \in Peers(l) /\ new # n
      /\ heap[new] \in NodeOf(l) /\ heap[new].num = 0
      /\ K(t) \in AnyKey /\ call[t].arg \in Nat
      /\ l > 0 => NewNode(t, l - 1) \in Peers(l - 1)
      /\ r < heap[n].num /\ Op(t) = "insert" /\ phase[t] = "search"
  BY <1>1, InsertFacts
<1>3. heap[n].num >= MaxKeys /\ heap[n].num > 0 /\ r + 1 \in Nat
  BY <1>1, <1>2, Constants DEF NodeOf
<1>4. b \in NodeOf(l)
  BY <1>2, <1>3, RightHalfShape
<1>5. /\ LeftHalf(heap[n], new) \in NodeOf(l)
      /\ LeftHalf(heap[n], new).num < MaxKeys
  BY <1>2, <1>3, LeftHalfShape, HalfOfFull
<1>6. a \in NodeOf(l)
  BY <1>2, <1>3, <1>5, PlaceShape
<1>7. heap' = [heap EXCEPT ![new] = b, ![n] = a]
  BY DEF InsertLeft
<1> HIDE DEF a, b, n, new
<1> QED BY <1>2, <1>3, <1>4, <1>6, <1>7, WriteTwo DEF n, new

\* the right half takes it
LEMMA HeapInsertRight ==
  ASSUME IInv, NEW t \in Threads, NEW r \in Nat, InsertRight(t, r)
  PROVE  HeapIs' /\ Shaped' /\ OnlyOwn(t)
<1> DEFINE n == curr[t]
           l == Level(n)
           new == NewNode(t, l)
           at == r - Half(heap[n])
           a == LeftHalf(heap[n], new)
           b == Place(t, RightHalf(heap[n], heap[new]), l, at + 1, TRUE)
<1>1. Missing(t, r) /\ heap[n].num + 1 > MaxKeys /\ r + 1 > Half(heap[n])
  BY DEF InsertRight
<1>2. /\ n \in Nodes /\ l \in Levels /\ heap[n] \in NodeOf(l)
      /\ new \in Nodes /\ Level(new) = l /\ new \in Peers(l) /\ new # n
      /\ heap[new] \in NodeOf(l) /\ heap[new].num = 0
      /\ K(t) \in AnyKey /\ call[t].arg \in Nat
      /\ l > 0 => NewNode(t, l - 1) \in Peers(l - 1)
      /\ r < heap[n].num /\ Op(t) = "insert" /\ phase[t] = "search"
  BY <1>1, InsertFacts
<1>3. heap[n].num >= MaxKeys /\ heap[n].num > 0
  BY <1>1, <1>2, Constants DEF NodeOf
<1>4. at + 1 \in Nat
  BY <1>1, <1>2, <1>3, HalfOfFull
<1>5. a \in NodeOf(l)
  BY <1>2, <1>3, LeftHalfShape
<1>6. /\ RightHalf(heap[n], heap[new]) \in NodeOf(l)
      /\ RightHalf(heap[n], heap[new]).num < MaxKeys
  <2>1. Half(heap[n]) \in Nat /\ Half(heap[n]) > 0
    BY <1>2, <1>3, HalfOfFull
  <2>2. /\ RightHalf(heap[n], heap[new]) \in NodeOf(l)
        /\ RightHalf(heap[n], heap[new]).num = MaxKeys - Half(heap[n])
    BY <1>2, <1>3, RightHalfShape
  <2> QED BY <2>1, <2>2, Constants
<1> HIDE DEF at
<1>7. b \in NodeOf(l)
  BY <1>2, <1>4, <1>6, PlaceShape
<1>8. heap' = [heap EXCEPT ![new] = b, ![n] = a]
  BY DEF InsertRight, at
<1> HIDE DEF a, b, n, new
<1> QED BY <1>2, <1>3, <1>5, <1>7, <1>8, WriteTwo DEF n, new

\* the key goes up, and the new node starts with it
LEMMA HeapPromoteSplit ==
  ASSUME IInv, NEW t \in Threads, NEW r \in Nat, PromoteSplit(t, r)
  PROVE  HeapIs' /\ Shaped' /\ OnlyOwn(t)
<1> DEFINE n == curr[t]
           l == Level(n)
           new == NewNode(t, l)
           moved == heap[n].num - (r + 1)
           first == Place(t, heap[new], l, 0, TRUE)
           given == SplitGive(heap[n], first, r + 1, 1)
           whole == IF l = 0 THEN given ELSE MoveChildren(heap[n], given, r + 1, moved, 1)
           a == [SplitKeep(heap[n], r + 1) EXCEPT !.next = new, !.next_header = K(t)]
           b == [whole EXCEPT !.next = heap[n].next, !.next_header = heap[n].next_header]
<1>1. Missing(t, r)
  BY DEF PromoteSplit
<1>2. /\ n \in Nodes /\ l \in Levels /\ heap[n] \in NodeOf(l)
      /\ new \in Nodes /\ Level(new) = l /\ new \in Peers(l) /\ new # n
      /\ heap[new] \in NodeOf(l) /\ heap[new].num = 0
      /\ K(t) \in AnyKey /\ call[t].arg \in Nat
      /\ l > 0 => NewNode(t, l - 1) \in Peers(l - 1)
      /\ r < heap[n].num /\ Op(t) = "insert" /\ phase[t] = "search"
  BY <1>1, InsertFacts
<1>3. /\ heap[n].num > 0 /\ heap[n].num \in 0 .. MaxKeys /\ heap[n].num <= MaxKeys
      /\ r + 1 \in Nat /\ r + 1 \in 0 .. MaxKeys /\ r + 1 <= heap[n].num
      /\ moved \in Int /\ 1 + moved <= MaxKeys /\ r + 1 + moved <= MaxKeys
      /\ 0 < MaxKeys /\ 0 + 1 = 1 /\ 0 \in Nat /\ 1 \in Nat
  BY <1>2, Constants DEF NodeOf
<1>4. first \in NodeOf(l) /\ first.num = 1
  BY <1>2, <1>3, PlaceShape
<1> HIDE DEF first
<1>5. given \in NodeOf(l)
  BY <1>2, <1>3, <1>4, GiveShape
<1> HIDE DEF given, moved
<1>6. MoveChildren(heap[n], given, r + 1, moved, 1) \in NodeOf(l)
  BY <1>2, <1>3, <1>5, MoveShape
<1>7. whole \in NodeOf(l)
  BY <1>5, <1>6
<1> HIDE DEF whole
<1>8. heap[n].next \in Peers(l) /\ heap[n].next_header \in AnyKey
  BY <1>2 DEF NodeOf
<1>9. a \in NodeOf(l)
  <2>1. SplitKeep(heap[n], r + 1) \in NodeOf(l)
    BY <1>2, <1>3, KeepShape
  <2> QED BY <1>2, <2>1 DEF NodeOf
<1>10. b \in NodeOf(l)
  BY <1>7, <1>8 DEF NodeOf
<1>11. heap' = [heap EXCEPT ![new] = b, ![n] = a]
  BY DEF PromoteSplit, whole, given, first, moved
<1> HIDE DEF a, b, n, new
<1> QED BY <1>2, <1>3, <1>9, <1>10, <1>11, WriteTwo DEF n, new

\* a thread that is not idle has a call
LEMMA CallType ==
  ASSUME TypeOK, NEW t \in Threads, pc[t] # "idle"
  PROVE  /\ call[t] \in Calls /\ Op(t) \in Ops
         /\ K(t) \in 0 .. Inf - 1 /\ K(t) \in AnyKey /\ call[t].arg \in Nat
<1>1. call[t] \in Calls
  BY DEF TypeOK
<1>2. 0 .. Inf - 1 \subseteq AnyKey
  BY InfAssumption DEF AnyKey
<1> QED BY <1>1, <1>2 DEF Calls, Op, K

\* an override writes one element that is there
LEMMA HeapOverwrite ==
  ASSUME IInv, NEW t \in Threads, Overwrite(t)
  PROVE  HeapIs' /\ Shaped' /\ OnlyOwn(t)
<1> DEFINE n == curr[t]
           at == IF phase[t] = "again" THEN rank[t] ELSE 0
           a == BlindWrite(heap[n], at, K(t), call[t].arg)
<1>1. pc[t] = "visit" /\ heap' = [heap EXCEPT ![n] = a]
  BY DEF Overwrite
<1>2. n \in Nodes /\ at \in Slot
  BY <1>1, Constants DEF IInv, TypeOK
<1>3. heap[n] \in NodeOf(Level(n))
  BY <1>2 DEF IInv, Shaped
<1>4. K(t) \in AnyKey /\ call[t].arg \in Nat
  BY <1>1, CallType DEF IInv
<1> HIDE DEF at, n
<1>5. a \in NodeOf(Level(n)) /\ a.num = heap[n].num
  BY <1>2, <1>3, <1>4 DEF BlindWrite, NodeOf
<1> QED BY <1>1, <1>2, <1>5, WriteOne

\* steps that write no node
LEMMA HeapKept ==
  ASSUME IInv, NEW t \in Threads, heap' = heap
  PROVE  HeapIs' /\ Shaped' /\ OnlyOwn(t)
BY DEF IInv, TypeOK, HeapIs, Shaped, OnlyOwn

\* the steps that write no node
Idle(t) == StartRead(t) \/ StartInsert(t) \/ InsertZero(t)
Locking(t) == ReadLock(t) \/ WriteLock(t) \/ Drain(t) \/ Handover(t)
Moving(t, r) == Descend(t, r) \/ ReaderFound(t, r) \/ Down(t, r) \/ InsertFound(t, r)
Ending(t, r) == ValueHit(t, r) \/ ValueMiss(t, r) \/ ExistsHit(t, r) \/ ExistsMiss(t, r)
Scanning(t, r) == ScanOn(t, r) \/ ScanEnd(t, r)
Filling(t, r) == InsertHere(t, r) \/ InsertLeft(t, r) \/ InsertRight(t, r) \/ PromoteSplit(t, r)

\* the steps of a thread, in the groups the proofs treat alike
LEMMA StepCases ==
  ASSUME NEW t \in Threads, Step(t)
  PROVE  \/ Idle(t) \/ Locking(t) \/ MoveRight(t) \/ Again(t) \/ Overwrite(t)
         \/ \E r \in 0 .. MaxKeys :
              Moving(t, r) \/ Ending(t, r) \/ Scanning(t, r) \/ Filling(t, r)
BY DEF Step, AtNode, Idle, Locking, Moving, Ending, Scanning, Filling

\* every step keeps the nodes within their arrays and their pointers on their levels
LEMMA HeapStep ==
  ASSUME IInv, NEW t \in Threads, Step(t)
  PROVE  HeapIs' /\ Shaped' /\ OnlyOwn(t)
<1>1. CASE Idle(t)
  <2>1. heap' = heap
    BY <1>1 DEF Idle, StartRead, StartInsert, InsertZero, Begin
  <2> QED BY <2>1, HeapKept
<1>2. CASE Locking(t)
  <2>1. heap' = heap
    BY <1>2 DEF Locking, ReadLock, WriteLock, Drain, Handover
  <2> QED BY <2>1, HeapKept
<1>3. CASE MoveRight(t) \/ Again(t)
  <2>1. heap' = heap
    BY <1>3 DEF MoveRight, Again, GoDown
  <2> QED BY <2>1, HeapKept
<1>4. CASE Overwrite(t)
  BY <1>4, HeapOverwrite
<1>5. ASSUME NEW r \in 0 .. MaxKeys, Moving(t, r) PROVE HeapIs' /\ Shaped' /\ OnlyOwn(t)
  <2>1. heap' = heap
    BY <1>5 DEF Moving, Descend, ReaderFound, Down, InsertFound, GoDown
  <2> QED BY <2>1, HeapKept
<1>6. ASSUME NEW r \in 0 .. MaxKeys, Ending(t, r) PROVE HeapIs' /\ Shaped' /\ OnlyOwn(t)
  <2>1. heap' = heap
    BY <1>6 DEF Ending, ValueHit, ValueMiss, ExistsHit, ExistsMiss
  <2> QED BY <2>1, HeapKept
<1>7. ASSUME NEW r \in 0 .. MaxKeys, Scanning(t, r) PROVE HeapIs' /\ Shaped' /\ OnlyOwn(t)
  <2>1. heap' = heap
    BY <1>7 DEF Scanning, ScanOn, ScanEnd
  <2> QED BY <2>1, HeapKept
<1>8. ASSUME NEW r \in 0 .. MaxKeys, Filling(t, r) PROVE HeapIs' /\ Shaped' /\ OnlyOwn(t)
  <2>1. r \in Nat
    BY Constants
  <2> QED BY <1>8, <2>1, HeapInsertHere, HeapInsertLeft, HeapInsertRight, HeapPromoteSplit
          DEF Filling
<1> QED BY <1>1, <1>2, <1>3, <1>4, <1>5, <1>6, <1>7, <1>8, StepCases

-------------------------------------------------------------------------------
(* Control                                                                 *)

Phases == {"search", "again", "down", "scan"}

ControlIs == /\ pc \in [Threads -> {"idle", "lock", "drain", "handover", "visit"}]
             /\ call \in [Threads -> Calls \cup {None}]
             /\ \A t \in Threads : pc[t] # "idle" => call[t] \in Calls
             /\ phase \in [Threads -> Phases]
             /\ curr \in [Threads -> Pointers]
             /\ \A t \in Threads : pc[t] \in {"drain", "handover", "visit"} => curr[t] \in Nodes
             /\ prev \in [Threads -> Pointers]
             /\ \A t \in Threads : pc[t] = "handover" => prev[t] \in Nodes
             /\ rank \in [Threads -> Slot]

\* where the threads are, as TypeOK has it
LEMMA ControlFromType == TypeOK => ControlIs
BY DEF TypeOK, ControlIs, Phases

\* steps that move no thread
LEMMA ControlKept ==
  ASSUME ControlIs, UNCHANGED <<pc, call, phase, curr, prev, rank>>
  PROVE  ControlIs'
BY DEF ControlIs

\* a thread sets out to lock n
LEMMA ApproachControl ==
  ASSUME ControlIs, NEW t \in Threads, NEW n \in Pointers, NEW held \in Pointers,
         Approach(t, n, held), NEW c \in Calls, call' = [call EXCEPT ![t] = c],
         NEW ph \in Phases, phase' = [phase EXCEPT ![t] = ph], rank' = rank
  PROVE  ControlIs'
BY DEF ControlIs, Approach

\* a call returns
LEMMA EndControl ==
  ASSUME ControlIs, NEW t \in Threads, EndCall(t)
  PROVE  ControlIs'
<1>1. 0 \in Slot /\ Null \in Pointers /\ "search" \in Phases
  BY Constants DEF Pointers, Phases
<1> QED BY <1>1 DEF ControlIs, EndCall

\* a thread has got its lock
LEMMA InsideControl ==
  ASSUME ControlIs, NEW t \in Threads, pc[t] # "idle", curr[t] \in Nodes, Inside(t),
         UNCHANGED <<call, phase, curr, prev, rank>>
  PROVE  ControlIs'
<1>1. prev[t] # Null => prev[t] \in Nodes
  BY DEF ControlIs, Pointers
<1> QED BY <1>1 DEF ControlIs, Inside

\* calls start
LEMMA IdleControl ==
  ASSUME ControlIs, TypeOK, NEW t \in Threads, Idle(t)
  PROVE  ControlIs'
<1>1. Height - 1 \in Levels
  BY HeightAssumption DEF Levels
<1>2. Header(Height - 1) \in Pointers /\ Null \in Pointers
  BY <1>1, Sentinels DEF Pointers
<1>3. ASSUME NEW c \in todo[t], Begin(t, c) PROVE ControlIs'
  <2>1. c \in Calls
    BY DEF TypeOK
  <2>2. phase' = [phase EXCEPT ![t] = phase[t]] /\ phase[t] \in Phases
    BY <1>3 DEF Begin, ControlIs
  <2>3. /\ Approach(t, Header(Height - 1), Null) /\ call' = [call EXCEPT ![t] = c]
        /\ rank' = rank
    BY <1>3 DEF Begin
  <2> QED BY <1>2, <2>1, <2>2, <2>3, ApproachControl
<1>4. CASE InsertZero(t)
  BY <1>4, ControlKept DEF InsertZero, place
<1> QED BY <1>3, <1>4 DEF Idle, StartRead, StartInsert

\* the steps of the hand-over-hand walk
LEMMA LockingControl ==
  ASSUME ControlIs, NEW t \in Threads, Locking(t)
  PROVE  ControlIs'
<1>1. CASE ReadLock(t)
  <2>1. curr[t] \in Nodes
    BY <1>1 DEF ReadLock, ControlIs, Pointers
  <2> QED BY <1>1, <2>1, InsideControl DEF ReadLock, place
<1>2. CASE WriteLock(t)
  <2>1. curr[t] \in Nodes
    BY <1>2 DEF WriteLock, ControlIs, Pointers
  <2> QED BY <1>2, <2>1 DEF WriteLock, ControlIs, place
<1>3. CASE Drain(t)
  <2>1. curr[t] \in Nodes
    BY <1>3 DEF Drain, ControlIs
  <2> QED BY <1>3, <2>1, InsideControl DEF Drain, place
<1>4. CASE Handover(t)
  <2>1. curr[t] \in Nodes /\ Null \in Pointers
    BY <1>4 DEF Handover, ControlIs, Pointers
  <2> QED BY <1>4, <2>1 DEF Handover, ControlIs
<1> QED BY <1>1, <1>2, <1>3, <1>4 DEF Locking

\* a thread that visits a node goes on to one of its pointers
LEMMA VisitControl ==
  ASSUME TypeOK, ControlIs, NEW t \in Threads, pc[t] = "visit", NEW n \in Pointers,
         NEW held \in Pointers, Approach(t, n, held), UNCHANGED <<call, rank>>,
         NEW ph \in Phases, phase' = [phase EXCEPT ![t] = ph] \/ phase' = phase
  PROVE  ControlIs'
<1>1. call[t] \in Calls /\ call' = [call EXCEPT ![t] = call[t]]
  BY DEF ControlIs
<1>2. phase' = [phase EXCEPT ![t] = phase[t]] \/ phase' = [phase EXCEPT ![t] = ph]
  BY DEF ControlIs
<1>3. phase[t] \in Phases
  BY DEF ControlIs
<1> QED BY <1>1, <1>2, <1>3, ApproachControl

\* a rank is an index of the arrays
LEMMA RankIsSlot == \A node, k, r : IsRank(node, k, r) => r \in Slot
BY Constants DEF IsRank, Leading, Live

\* what a visited node points to
LEMMA PointersOfCurr ==
  ASSUME IInv, NEW t \in Threads, pc[t] = "visit"
  PROVE  /\ curr[t] \in Nodes /\ curr[t] \in Pointers /\ Null \in Pointers
         /\ heap[curr[t]].next \in Pointers
         /\ \A r \in Slot : ChildAt(t, r) \in Pointers
<1>1. curr[t] \in Nodes
  BY DEF IInv, TypeOK
<1>2. heap[curr[t]] \in NodeType(Pointers)
  BY <1>1 DEF IInv, TypeOK
<1> QED BY <1>1, <1>2 DEF NodeType, ChildAt, Pointers

\* going down
LEMMA DownControl ==
  ASSUME IInv, NEW t \in Threads, pc[t] = "visit", NEW r \in Slot, GoDown(t, r)
  PROVE  ControlIs'
<1>1. "down" \in Phases /\ phase' = [phase EXCEPT ![t] = "down"]
  BY DEF GoDown, Phases
<1>2. ChildAt(t, r) \in Pointers /\ curr[t] \in Pointers
  BY PointersOfCurr
<1>3. Approach(t, ChildAt(t, r), curr[t]) /\ UNCHANGED <<call, rank>>
  BY DEF GoDown
<1> QED BY <1>1, <1>2, <1>3, VisitControl, ControlFromType DEF IInv

\* the steps from node to node
LEMMA MovingControl ==
  ASSUME IInv, NEW t \in Threads, NEW r, Moving(t, r)
  PROVE  ControlIs'
<1>1. CASE Descend(t, r)
  <2>1. pc[t] = "visit" /\ r \in Slot
    BY <1>1, RankIsSlot DEF Descend, At
  <2>2. ChildAt(t, r) \in Pointers /\ curr[t] \in Pointers /\ "search" \in Phases
    BY <2>1, PointersOfCurr DEF Phases
  <2>3. Approach(t, ChildAt(t, r), curr[t]) /\ UNCHANGED <<call, rank, phase>>
    BY <1>1 DEF Descend
  <2> QED BY <2>1, <2>2, <2>3, VisitControl, ControlFromType DEF IInv
<1>2. CASE ReaderFound(t, r)
  <2>1. pc[t] = "visit" /\ r \in Slot
    BY <1>2, RankIsSlot DEF ReaderFound, At
  <2> QED BY <1>2, <2>1, DownControl DEF ReaderFound
<1>3. CASE Down(t, r)
  <2>1. pc[t] = "visit" /\ r \in Slot
    BY <1>3, RankIsSlot, Constants DEF Down
  <2> QED BY <1>3, <2>1, DownControl DEF Down
<1>4. CASE InsertFound(t, r)
  <2>1. pc[t] = "visit" /\ r \in Slot
    BY <1>4, RankIsSlot DEF InsertFound, At
  <2>2. call[t] \in Calls
    BY <2>1 DEF IInv, TypeOK
  <2> QED BY <1>4, <2>1, <2>2, ControlFromType DEF InsertFound, IInv, ControlIs, Phases, place
<1> QED BY <1>1, <1>2, <1>3, <1>4 DEF Moving

\* an insert ends on level 0 and goes down elsewhere
LEMMA EndOrDescendControl ==
  ASSUME IInv, NEW t \in Threads, pc[t] = "visit", NEW n \in Pointers, NEW held \in Pointers,
         EndOrDescend(t, n, held)
  PROVE  ControlIs'
<1>1. CASE Return(t, 1)
  BY <1>1, EndControl, ControlFromType DEF Return, IInv
<1>2. CASE Approach(t, n, held) /\ UNCHANGED <<call, phase, rank>>
  <2>1. "search" \in Phases
    BY DEF Phases
  <2> QED BY <1>2, <2>1, VisitControl, ControlFromType DEF IInv
<1> QED BY <1>1, <1>2 DEF EndOrDescend

\* the steps that add a key
LEMMA FillingControl ==
  ASSUME IInv, NEW t \in Threads, NEW r, Filling(t, r)
  PROVE  ControlIs'
<1>1. Missing(t, r)
  BY DEF Filling, InsertHere, InsertLeft, InsertRight, PromoteSplit
<1>2. pc[t] = "visit" /\ r \in Slot
  BY <1>1, RankIsSlot DEF Missing, At
<1>3. ChildAt(t, r) \in Pointers /\ curr[t] \in Pointers
  BY <1>2, PointersOfCurr
<1>4. NewNode(t, Level(curr[t])) \in Pointers
  BY <1>1, InsertFacts DEF Pointers
<1>5. \E held \in Pointers : EndOrDescend(t, ChildAt(t, r), held)
  BY <1>3, <1>4 DEF Filling, InsertHere, InsertLeft, InsertRight, PromoteSplit
<1> QED BY <1>2, <1>3, <1>5, EndOrDescendControl

\* the steps of the scans
LEMMA ScanningControl ==
  ASSUME IInv, NEW t \in Threads, NEW r, Scanning(t, r)
  PROVE  ControlIs'
<1>1. pc[t] = "visit"
  BY DEF Scanning, ScanOn, ScanEnd, From, At
<1>2. CASE ScanOn(t, r)
  <2>1. heap[curr[t]].next \in Pointers /\ curr[t] \in Pointers /\ "scan" \in Phases
    BY <1>1, PointersOfCurr DEF Phases
  <2>2. /\ Approach(t, heap[curr[t]].next, curr[t]) /\ UNCHANGED <<call, rank>>
        /\ phase' = [phase EXCEPT ![t] = "scan"]
    BY <1>2 DEF ScanOn
  <2> QED BY <1>1, <2>1, <2>2, VisitControl, ControlFromType DEF IInv
<1>3. CASE ScanEnd(t, r)
  BY <1>3, EndControl, ControlFromType DEF ScanEnd, IInv
<1> QED BY <1>2, <1>3 DEF Scanning

\* every step leaves the threads at nodes, in a phase and with a rank
LEMMA ControlStep ==
  ASSUME IInv, NEW t \in Threads, Step(t)
  PROVE  ControlIs'
<1>1. ControlIs /\ TypeOK
  BY ControlFromType DEF IInv
<1>2. CASE MoveRight(t)
  <2>1. pc[t] = "visit" /\ "search" \in Phases
    BY <1>2 DEF MoveRight, Phases
  <2>2. heap[curr[t]].next \in Pointers /\ curr[t] \in Pointers
    BY <2>1, PointersOfCurr
  <2>3. Approach(t, heap[curr[t]].next, curr[t]) /\ UNCHANGED <<call, rank, phase>>
    BY <1>2 DEF MoveRight
  <2> QED BY <1>1, <2>1, <2>2, <2>3, VisitControl
<1>3. CASE Again(t)
  <2>1. pc[t] = "visit" /\ rank[t] \in Slot
    BY <1>1, <1>3 DEF Again, TypeOK
  <2> QED BY <1>3, <2>1, DownControl DEF Again
<1>4. CASE Overwrite(t)
  BY <1>1, <1>4, EndControl DEF Overwrite, Return
<1>5. ASSUME NEW r, Ending(t, r) PROVE ControlIs'
  BY <1>1, <1>5, EndControl DEF Ending, ValueHit, ValueMiss, ExistsHit, ExistsMiss, Return
<1> QED BY <1>1, <1>2, <1>3, <1>4, <1>5, StepCases, IdleControl, LockingControl, MovingControl,
           ScanningControl, FillingControl

-------------------------------------------------------------------------------
(* Locks and results                                                       *)

LocksIs == writer \in [Nodes -> BOOLEAN] /\ readers \in [Nodes -> Int]

\* an unlock keeps the types of the locks
LEMMA UnlockLocks == ASSUME LocksIs, NEW t, NEW n, Unlock(t, n) PROVE LocksIs'
<1>1. CASE ForWriting(t, n)
  BY <1>1 DEF Unlock, LocksIs
<1>2. CASE ~ForWriting(t, n)
  BY <1>2 DEF Unlock, LocksIs
<1> QED BY <1>1, <1>2

\* and so does every step
LEMMA LocksStep ==
  ASSUME IInv, NEW t \in Threads, Step(t)
  PROVE  LocksIs'
<1>1. LocksIs
  BY DEF IInv, TypeOK, LocksIs
<1>2. CASE Idle(t)
  BY <1>1, <1>2 DEF Idle, StartRead, StartInsert, InsertZero, Begin, LocksIs, locks
<1>3. CASE Locking(t)
  <2>1. CASE Handover(t)
    BY <1>1, <2>1, UnlockLocks DEF Handover
  <2>2. CASE WriteLock(t) \/ Drain(t)
    BY <1>1, <2>2 DEF WriteLock, Drain, LocksIs, locks
  <2>3. CASE ReadLock(t)
    <3>1. curr[t] \in Nodes
      BY <2>3 DEF ReadLock, IInv, TypeOK, Pointers
    <3>2. readers' = [readers EXCEPT ![curr[t]] = @ + 1] /\ writer' = writer
      BY <2>3 DEF ReadLock
    <3> QED BY <1>1, <3>1, <3>2 DEF LocksIs
  <2> QED BY <1>3, <2>1, <2>2, <2>3 DEF Locking
<1>4. CASE MoveRight(t) \/ Again(t)
  BY <1>1, <1>4 DEF MoveRight, Again, GoDown, LocksIs, locks
<1>5. CASE Overwrite(t)
  BY <1>1, <1>5, UnlockLocks DEF Overwrite
<1>6. ASSUME NEW r, Moving(t, r) PROVE LocksIs'
  <2>1. CASE InsertFound(t, r)
    BY <1>1, <2>1, UnlockLocks DEF InsertFound
  <2> QED BY <1>1, <1>6, <2>1 DEF Moving, Descend, ReaderFound, Down, GoDown, LocksIs, locks
<1>7. ASSUME NEW r, Ending(t, r) PROVE LocksIs'
  BY <1>1, <1>7, UnlockLocks DEF Ending, ValueHit, ValueMiss, ExistsHit, ExistsMiss, LocksIs, locks
<1>8. ASSUME NEW r, Scanning(t, r) PROVE LocksIs'
  BY <1>1, <1>8, UnlockLocks DEF Scanning, ScanOn, ScanEnd, LocksIs, locks
<1>9. ASSUME NEW r, Filling(t, r) PROVE LocksIs'
  <2>1. CASE InsertHere(t, r) \/ InsertLeft(t, r)
    BY <1>1, <2>1, UnlockLocks DEF InsertHere, InsertLeft, LocksIs, locks
  <2> DEFINE n == curr[t]
             new == NewNode(t, Level(n))
             above == Level(n) > 0
  <2>2. above \in BOOLEAN
    OBVIOUS
  <2>3. CASE InsertRight(t, r)
    <3>1. writer' = [writer EXCEPT ![n] = FALSE, ![new] = above] /\ readers' = readers
      BY <2>3 DEF InsertRight
    <3> HIDE DEF n, new, above
    <3> QED BY <1>1, <2>2, <3>1 DEF LocksIs
  <2>4. CASE PromoteSplit(t, r)
    <3>1. writer' = [writer EXCEPT ![new] = FALSE, ![n] = above] /\ readers' = readers
      BY <2>4 DEF PromoteSplit
    <3> HIDE DEF n, new, above
    <3> QED BY <1>1, <2>2, <3>1 DEF LocksIs
  <2> QED BY <1>9, <2>1, <2>3, <2>4 DEF Filling
<1> QED BY <1>2, <1>3, <1>4, <1>5, <1>6, <1>7, <1>8, <1>9, StepCases

ResultsAre == /\ has_zero \in BOOLEAN
              /\ seen \in [Threads -> Seq(AnyKey \X Nat)]
              /\ left \in [Threads -> Int]
              /\ ins \in [Threads -> Nat]
              /\ \A t \in Threads : ins[t] <= MaxInserts[t]
              /\ ret \in [Threads -> Nat]
              /\ round \in 1 .. Len(Work)
              /\ todo \in [Threads -> SUBSET Calls]
              /\ must \in [Threads -> SUBSET AnyKey]
              /\ known \in SUBSET AnyKey

\* a scan takes what is left of the node at most
LEMMA TakenType ==
  ASSUME NEW t, NEW r \in Nat
  PROVE  Taken(t, r) \in Nat /\ (Taken(t, r) > 0 => r + Taken(t, r) <= MaxKeys)
<1> DEFINE node == heap[curr[t]]
           wanted == {i \in Live(node) : i >= r /\ \A j \in r .. i :
                        /\ node.key[j] # Inf
                        /\ IF Op(t) = "range" THEN node.key[j] <= call[t].arg ELSE j - r < left[t]}
<1>1. wanted \subseteq r .. MaxKeys - 1
  BY Constants DEF Live, Slot
<1>2. Taken(t, r) = Cardinality(wanted)
  BY DEF Taken
<1> HIDE DEF wanted
<1>3. IsFiniteSet(r .. MaxKeys - 1)
      /\ Cardinality(r .. MaxKeys - 1) = IF r > MaxKeys - 1 THEN 0 ELSE MaxKeys - 1 - r + 1
  BY Constants, FS_Interval
<1>4. IsFiniteSet(wanted) /\ Cardinality(wanted) <= Cardinality(r .. MaxKeys - 1)
  BY <1>1, <1>3, FS_Subset
<1>5. Cardinality(wanted) \in Nat
  BY <1>4, FS_CardinalityType
<1> QED BY <1>2, <1>3, <1>4, <1>5, Constants

\* a scan appends pairs of a key and a value
LEMMA ApplyType ==
  ASSUME IInv, NEW t \in Threads, pc[t] = "visit", NEW r \in Nat, NEW n \in Nat,
         n > 0 => r + n <= MaxKeys, Apply(t, r, n)
  PROVE  seen' \in [Threads -> Seq(AnyKey \X Nat)]
<1> DEFINE node == heap[curr[t]]
           visited == [i \in 1 .. n |-> <<node.key[r + i - 1], node.val[r + i - 1]>>]
<1>1. curr[t] \in Nodes /\ seen \in [Threads -> Seq(AnyKey \X Nat)]
  BY DEF IInv, TypeOK
<1>2. node.key \in [Slot -> AnyKey] /\ node.val \in [Slot -> Nat]
  BY <1>1 DEF IInv, TypeOK, NodeType
<1>3. \A i \in 1 .. n : r + i - 1 \in Slot
  BY Constants DEF Slot
<1>4. visited \in [1 .. n -> AnyKey \X Nat]
  BY <1>2, <1>3
<1>5. visited \in Seq(AnyKey \X Nat)
  <2> HIDE DEF visited
  <2>1. visited \in UNION {[1 .. m -> AnyKey \X Nat] : m \in Nat}
    BY <1>4
  <2> QED BY <2>1, SeqDef
<1>6. seen[t] \o visited \in Seq(AnyKey \X Nat)
  BY <1>1, <1>5, ConcatProperties
<1>7. seen' = [seen EXCEPT ![t] = seen[t] \o visited]
  BY DEF Apply
<1> HIDE DEF visited
<1> QED BY <1>1, <1>6, <1>7

\* what a step of t leaves alone, or changes at t only, with one value
LEMMA ResultsKept ==
  ASSUME ResultsAre, UNCHANGED <<has_zero, seen, left, ins, ret, round, todo, must, known>>
  PROVE  ResultsAre'
BY DEF ResultsAre

\* a call returns
LEMMA EndResults ==
  ASSUME ResultsAre, NEW t \in Threads, EndCall(t), seen' \in [Threads -> Seq(AnyKey \X Nat)],
         left' = left, ret' \in [Threads -> Nat], known' \in SUBSET AnyKey
  PROVE  ResultsAre'
BY DEF ResultsAre, EndCall, driver

\* with a value
LEMMA ReturnResults ==
  ASSUME ResultsAre, NEW t \in Threads, K(t) \in AnyKey, NEW v \in Nat, Return(t, v)
  PROVE  ResultsAre'
<1>1. EndCall(t) /\ seen' = seen /\ left' = left /\ ret' = [ret EXCEPT ![t] = v]
  BY DEF Return, scans
<1>2. known' \in SUBSET AnyKey
  BY DEF Return, ResultsAre
<1> QED BY <1>1, <1>2, EndResults DEF ResultsAre

\* a call starts: what the history notes of it are keys
LEMMA BeginResults ==
  ASSUME IInv, NEW t \in Threads, NEW c \in todo[t], Begin(t, c)
  PROVE  /\ must' \in [Threads -> SUBSET AnyKey]
         /\ todo' \in [Threads -> SUBSET Calls]
         /\ c.arg \in Nat
         /\ UNCHANGED <<has_zero, ret, round, known>>
<1>1. \A n \in Nodes : Keys(heap[n]) \subseteq AnyKey
  <2> SUFFICES ASSUME NEW n \in Nodes PROVE Keys(heap[n]) \subseteq AnyKey
    OBVIOUS
  <2>1. heap[n].key \in [Slot -> AnyKey]
    BY DEF IInv, TypeOK, NodeType
  <2> QED BY <2>1 DEF Keys, Live
<1>2. Contents \subseteq AnyKey
  BY <1>1 DEF Contents, Leaves
<1>3. Promised(c) \subseteq AnyKey
  BY <1>2 DEF Promised, IInv, TypeOK
<1>4. c \in Calls /\ must \in [Threads -> SUBSET AnyKey] /\ todo \in [Threads -> SUBSET Calls]
  BY DEF IInv, TypeOK
<1>5. must' = [must EXCEPT ![t] = Promised(c)] /\ todo' = [todo EXCEPT ![t] = @ \ {c}]
  BY DEF Begin
<1>6. UNCHANGED <<has_zero, ret, round, known>>
  BY DEF Begin
<1>7. c.arg \in Nat
  BY <1>4 DEF Calls
<1> QED BY <1>3, <1>4, <1>5, <1>6, <1>7

\* the steps that start a call
LEMMA IdleResults ==
  ASSUME IInv, NEW t \in Threads, Idle(t)
  PROVE  ResultsAre'
<1>1. ResultsAre
  BY DEF IInv, TypeOK, ResultsAre
<1>2. CASE StartRead(t)
  <2>1. PICK c \in todo[t] :
          /\ Begin(t, c) /\ seen' = [seen EXCEPT ![t] = <<>>] /\ ins' = ins
          /\ left' = [left EXCEPT ![t] = IF c.op = "length" THEN c.arg ELSE 0]
    BY <1>2 DEF StartRead
  <2>2. <<>> \in Seq(AnyKey \X Nat)
    OBVIOUS
  <2>3. (IF c.op = "length" THEN c.arg ELSE 0) \in Int
    BY <2>1, BeginResults
  <2>4. /\ must' \in [Threads -> SUBSET AnyKey] /\ todo' \in [Threads -> SUBSET Calls]
        /\ UNCHANGED <<has_zero, ret, round, known>>
    BY <2>1, BeginResults
  <2> QED BY <1>1, <2>1, <2>2, <2>3, <2>4 DEF ResultsAre
<1>3. CASE StartInsert(t)
  <2>1. PICK c \in todo[t] :
          /\ Begin(t, c) /\ ins[t] < MaxInserts[t] /\ ins' = [ins EXCEPT ![t] = @ + 1]
          /\ seen' = seen /\ left' = left
    BY <1>3 DEF StartInsert, scans
  <2>2. /\ must' \in [Threads -> SUBSET AnyKey] /\ todo' \in [Threads -> SUBSET Calls]
        /\ UNCHANGED <<has_zero, ret, round, known>>
    BY <2>1, BeginResults
  <2>3. ins[t] + 1 <= MaxInserts[t] /\ ins[t] + 1 \in Nat
    <3>1. ins[t] \in Nat /\ MaxInserts[t] \in Nat
      BY <1>1, MaxInsertsAssumption DEF ResultsAre
    <3> QED BY <2>1, <3>1
  <2> QED BY <1>1, <2>1, <2>2, <2>3 DEF ResultsAre
<1>4. CASE InsertZero(t)
  BY <1>1, <1>4 DEF InsertZero, ResultsAre, scans, history
<1> QED BY <1>2, <1>3, <1>4 DEF Idle

\* the steps that end a lookup
LEMMA EndingResults ==
  ASSUME IInv, NEW t \in Threads, NEW r, Ending(t, r)
  PROVE  ResultsAre'
<1>1. ResultsAre
  BY DEF IInv, TypeOK, ResultsAre
<1>2. pc[t] = "visit"
  BY DEF Ending, ValueHit, ValueMiss, ExistsHit, ExistsMiss, At
<1>3. K(t) \in AnyKey
  BY <1>2, CallType DEF IInv
<1>4. CASE ValueHit(t, r)
  <2>1. r \in Slot
    BY <1>4, RankIsSlot, Constants DEF ValueHit, At
  <2>2. heap[curr[t]].val[r] \in Nat
    BY <1>2, <2>1 DEF IInv, TypeOK, NodeType
  <2>3. Return(t, heap[curr[t]].val[r])
    BY <1>4 DEF ValueHit
  <2> QED BY <1>1, <1>3, <2>2, <2>3, ReturnResults
<1>5. CASE ValueMiss(t, r) \/ ExistsMiss(t, r)
  <2>1. Return(t, 0)
    BY <1>5 DEF ValueMiss, ExistsMiss
  <2> QED BY <1>1, <1>3, <2>1, ReturnResults
<1>6. CASE ExistsHit(t, r)
  <2>1. Return(t, 1)
    BY <1>6 DEF ExistsHit
  <2> QED BY <1>1, <1>3, <2>1, ReturnResults
<1> QED BY <1>4, <1>5, <1>6 DEF Ending

\* the steps of the scans
LEMMA ScanningResults ==
  ASSUME IInv, NEW t \in Threads, NEW r \in Nat, Scanning(t, r)
  PROVE  ResultsAre'
<1>1. ResultsAre
  BY DEF IInv, TypeOK, ResultsAre
<1> DEFINE n == Taken(t, r)
<1>2. pc[t] = "visit" /\ Apply(t, r, n)
  BY DEF Scanning, ScanOn, ScanEnd, From, At
<1>3. n \in Nat /\ (n > 0 => r + n <= MaxKeys)
  BY TakenType
<1> HIDE DEF n
<1>4. seen' \in [Threads -> Seq(AnyKey \X Nat)]
  BY <1>2, <1>3, ApplyType
<1>5. CASE ScanOn(t, r)
  <2>1. /\ left' = [left EXCEPT ![t] = IF Op(t) = "length" THEN @ - n ELSE @]
        /\ UNCHANGED <<has_zero, ins, ret, round, todo, must, known>>
    BY <1>5 DEF ScanOn, driver, history, n
  <2>2. left' \in [Threads -> Int]
    BY <1>1, <1>3, <2>1 DEF ResultsAre
  <2> QED BY <1>1, <1>4, <2>1, <2>2 DEF ResultsAre
<1>6. CASE ScanEnd(t, r)
  <2>1. EndCall(t) /\ UNCHANGED <<left, ret, known>>
    BY <1>6 DEF ScanEnd
  <2> QED BY <1>1, <1>4, <2>1, EndResults DEF ResultsAre
<1> QED BY <1>5, <1>6 DEF Scanning

\* the steps that add a key
LEMMA FillingResults ==
  ASSUME IInv, NEW t \in Threads, NEW r, Filling(t, r)
  PROVE  ResultsAre'
<1>1. ResultsAre
  BY DEF IInv, TypeOK, ResultsAre
<1>2. pc[t] = "visit"
  BY DEF Filling, InsertHere, InsertLeft, InsertRight, PromoteSplit, Missing, At
<1>3. K(t) \in AnyKey
  BY <1>2, CallType DEF IInv
<1>4. \E c, held : EndOrDescend(t, c, held)
  BY DEF Filling, InsertHere, InsertLeft, InsertRight, PromoteSplit
<1>5. Return(t, 1) \/ UNCHANGED <<has_zero, seen, left, ins, ret, round, todo, must, known>>
  BY <1>4 DEF EndOrDescend, scans, driver, history
<1> QED BY <1>1, <1>3, <1>5, ReturnResults, ResultsKept

\* every step keeps the types of results, driver and history
LEMMA ResultsStep ==
  ASSUME IInv, NEW t \in Threads, Step(t)
  PROVE  ResultsAre'
<1>1. ResultsAre
  BY DEF IInv, TypeOK, ResultsAre
<1>2. CASE Locking(t)
  BY <1>1, <1>2, ResultsKept
     DEF Locking, ReadLock, WriteLock, Drain, Handover, scans, driver, history
<1>3. CASE MoveRight(t) \/ Again(t)
  BY <1>1, <1>3, ResultsKept DEF MoveRight, Again, GoDown, scans, driver, history
<1>4. CASE Overwrite(t)
  <2>1. pc[t] = "visit" /\ Return(t, 1)
    BY <1>4 DEF Overwrite
  <2>2. K(t) \in AnyKey
    BY <2>1, CallType DEF IInv
  <2> QED BY <1>1, <2>1, <2>2, ReturnResults
<1>5. ASSUME NEW r, Moving(t, r) PROVE ResultsAre'
  BY <1>1, <1>5, ResultsKept
     DEF Moving, Descend, ReaderFound, Down, InsertFound, GoDown, scans, driver, history
<1>6. \A r \in 0 .. MaxKeys : r \in Nat
  BY Constants
<1> QED BY <1>2, <1>3, <1>4, <1>5, <1>6, StepCases, IdleResults, EndingResults, ScanningResults,
           FillingResults

-------------------------------------------------------------------------------
(* New nodes                                                               *)

SameThread(u) == /\ call'[u] = call[u] /\ phase'[u] = phase[u]
                 /\ curr'[u] = curr[u] /\ ins'[u] = ins[u]

\* a step of t is not seen in the control of the others
LEMMA OthersKept ==
  ASSUME IInv, NEW t \in Threads, Step(t), NEW u \in Threads, u # t
  PROVE  SameThread(u)
<1>1. /\ call \in [Threads -> Calls \cup {None}] /\ phase \in [Threads -> Phases]
      /\ curr \in [Threads -> Pointers] /\ ins \in [Threads -> Nat]
  BY DEF IInv, TypeOK, Phases
<1>2. ASSUME NEW n, NEW held, Approach(t, n, held) PROVE curr'[u] = curr[u]
  BY <1>1, <1>2 DEF Approach
<1>3. ASSUME EndCall(t) PROVE SameThread(u)
  BY <1>1, <1>3 DEF EndCall, SameThread, driver
<1>4. ASSUME NEW n, GoDown(t, n) PROVE SameThread(u)
  BY <1>1, <1>2, <1>4 DEF GoDown, SameThread, driver
<1>5. CASE Idle(t)
  <2>1. ASSUME NEW c \in todo[t], Begin(t, c) PROVE call'[u] = call[u] /\ phase'[u] = phase[u]
                                                    /\ curr'[u] = curr[u]
    BY <1>1, <1>2, <2>1 DEF Begin
  <2> QED BY <1>1, <1>5, <2>1 DEF Idle, StartRead, StartInsert, InsertZero, SameThread, place
<1>6. CASE Locking(t)
  BY <1>6 DEF Locking, ReadLock, WriteLock, Drain, Handover, SameThread, place, driver
<1>7. CASE MoveRight(t) \/ Again(t)
  BY <1>2, <1>4, <1>7 DEF MoveRight, Again, SameThread, driver
<1>8. CASE Overwrite(t)
  BY <1>3, <1>8 DEF Overwrite, Return
<1>9. ASSUME NEW r, Moving(t, r) PROVE SameThread(u)
  <2>1. CASE Descend(t, r)
    BY <1>2, <2>1 DEF Descend, SameThread, driver
  <2>2. CASE InsertFound(t, r)
    BY <1>1, <2>2 DEF InsertFound, SameThread, driver, place
  <2> QED BY <1>4, <1>9, <2>1, <2>2 DEF Moving, ReaderFound, Down
<1>10. ASSUME NEW r, Ending(t, r) PROVE SameThread(u)
  BY <1>3, <1>10 DEF Ending, ValueHit, ValueMiss, ExistsHit, ExistsMiss, Return
<1>11. ASSUME NEW r, Scanning(t, r) PROVE SameThread(u)
  BY <1>1, <1>2, <1>3, <1>11 DEF Scanning, ScanOn, ScanEnd, SameThread, driver
<1>12. ASSUME NEW r, Filling(t, r) PROVE SameThread(u)
  <2>1. \E c, held : EndOrDescend(t, c, held)
    BY <1>12 DEF Filling, InsertHere, InsertLeft, InsertRight, PromoteSplit
  <2> QED BY <1>2, <1>3, <2>1 DEF EndOrDescend, Return, SameThread, driver
<1> QED BY <1>5, <1>6, <1>7, <1>8, <1>9, <1>10, <1>11, <1>12, StepCases

\* an insert that still searches has moved right or down, and if it has filled
\* a node it has moved down
Advances(t) == /\ call'[t] = call[t] /\ ins'[t] = ins[t] /\ phase[t] = "search"
               /\ curr[t] \in Nodes
               /\ \/ heap' = heap /\ Level(curr'[t]) <= Level(curr[t])
                  \/ Level(curr'[t]) < Level(curr[t])

\* a pointer of a level leads to that level
LEMMA PeerLevel == \A l : \A p \in Peers(l) : p # Null => Level(p) = l
BY DEF Peers

\* an insert that is still searching has just started, or has moved right, or down with its node done
LEMMA OwnStep ==
  ASSUME IInv, NEW t \in Threads, Step(t),
         call'[t].op = "insert", phase'[t] = "search", curr'[t] # Null
  PROVE  StartInsert(t) \/ Advances(t)
<1>1. /\ call \in [Threads -> Calls \cup {None}] /\ phase \in [Threads -> Phases]
      /\ curr \in [Threads -> Pointers] /\ ins \in [Threads -> Nat]
  BY DEF IInv, TypeOK, Phases
<1>2. \A n \in Nodes : Level(n) \in Int /\ Level(n) <= Level(n) /\ Level(n) - 1 < Level(n)
  <2>1. \A n \in Nodes : Level(n) \in Int
    BY NodeNames, Constants
  <2>2. \A i \in Int : i <= i /\ i - 1 < i
    OBVIOUS
  <2> QED BY <2>1, <2>2
<1>3. ~EndCall(t)
  BY <1>1 DEF EndCall, None
<1>4. \A r : ~GoDown(t, r)
  BY <1>1 DEF GoDown
<1>5. ASSUME heap' = heap, call'[t] = call[t], ins' = ins, phase'[t] = phase[t],
             curr'[t] = curr[t]
      PROVE  Advances(t)
  <2>1. curr[t] \in Nodes
    BY <1>1, <1>5 DEF Pointers
  <2> QED BY <1>2, <1>5, <2>1 DEF Advances
<1>6. CASE Idle(t)
  <2>1. ~StartRead(t)
    BY <1>1 DEF StartRead, Begin
  <2>2. InsertZero(t) => Advances(t)
    BY <1>5 DEF InsertZero, place
  <2> QED BY <1>6, <2>1, <2>2 DEF Idle
<1>7. CASE Locking(t)
  BY <1>5, <1>7 DEF Locking, ReadLock, WriteLock, Drain, Handover, place, driver
<1>8. CASE MoveRight(t)
  <2>1. curr[t] \in Nodes
    BY <1>8 DEF MoveRight, IInv, TypeOK
  <2>2. heap[curr[t]].next \in Peers(Level(curr[t]))
    BY <2>1 DEF IInv, Shaped, NodeOf
  <2>3. curr'[t] = heap[curr[t]].next
    BY <1>1, <1>8 DEF MoveRight, Approach
  <2> QED BY <1>2, <1>8, <2>1, <2>2, <2>3, PeerLevel DEF MoveRight, Advances, driver
<1>9. ASSUME NEW r, Descend(t, r) PROVE Advances(t)
  <2>1. curr[t] \in Nodes /\ heap[curr[t]] \in NodeOf(Level(curr[t])) /\ r \in Slot
    BY <1>9, RankType DEF Descend, IInv
  <2>2. ChildAt(t, r) \in Peers(Level(curr[t]) - 1)
    BY <2>1 DEF ChildAt, NodeOf
  <2>3. curr'[t] = ChildAt(t, r)
    BY <1>1, <1>9 DEF Descend, Approach
  <2> QED BY <1>2, <1>9, <2>1, <2>2, <2>3, PeerLevel DEF Descend, At, Advances, driver
<1>10. ASSUME NEW r, Filling(t, r) PROVE Advances(t)
  <2>1. Missing(t, r) /\ \E held : EndOrDescend(t, ChildAt(t, r), held)
    BY <1>10 DEF Filling, InsertHere, InsertLeft, InsertRight, PromoteSplit
  <2>2. /\ curr[t] \in Nodes /\ ChildAt(t, r) \in Peers(Level(curr[t]) - 1)
        /\ phase[t] = "search"
    BY <2>1, InsertFacts
  <2>3. PICK held : Approach(t, ChildAt(t, r), held) /\ call' = call /\ ins' = ins
    BY <1>3, <2>1 DEF EndOrDescend, Return, driver
  <2>4. curr'[t] = ChildAt(t, r)
    BY <1>1, <2>3 DEF Approach
  <2> QED BY <1>2, <2>2, <2>3, <2>4, PeerLevel DEF Advances
<1>11. ASSUME NEW r, Moving(t, r) PROVE Advances(t)
  <2>1. ~InsertFound(t, r)
    BY <1>1 DEF InsertFound
  <2> QED BY <1>4, <1>9, <1>11, <2>1 DEF Moving, ReaderFound, Down
<1>12. \A r : ~Ending(t, r)
  BY <1>3 DEF Ending, ValueHit, ValueMiss, ExistsHit, ExistsMiss, Return
<1>13. \A r : ~Scanning(t, r)
  BY <1>1, <1>3 DEF Scanning, ScanOn, ScanEnd
<1>14. ~Overwrite(t) /\ ~Again(t)
  BY <1>3, <1>4 DEF Overwrite, Return, Again
<1> QED BY <1>6, <1>7, <1>8, <1>10, <1>11, <1>12, <1>13, <1>14, StepCases

\* only StartInsert draws names; any other step of an insert keeps its call
LEMMA InsStep ==
  ASSUME IInv, NEW t \in Threads, Step(t)
  PROVE  \/ StartInsert(t)
         \/ ins' = ins /\ (call'[t].op = "insert" => call'[t] = call[t])
<1>1. call \in [Threads -> Calls \cup {None}]
  BY DEF IInv, TypeOK
<1>2. ASSUME EndCall(t) PROVE ins' = ins /\ call'[t].op # "insert"
  BY <1>1, <1>2 DEF EndCall, None, driver
<1>3. ASSUME NEW r, GoDown(t, r) PROVE ins' = ins /\ call' = call
  BY <1>3 DEF GoDown, driver
<1>4. CASE StartRead(t)
  BY <1>1, <1>4 DEF StartRead, Begin
<1>5. CASE InsertZero(t) \/ Locking(t)
  BY <1>5 DEF InsertZero, Locking, ReadLock, WriteLock, Drain, Handover, driver
<1>6. CASE MoveRight(t) \/ Again(t) \/ Overwrite(t)
  BY <1>2, <1>3, <1>6 DEF MoveRight, Again, Overwrite, Return, driver
<1>7. ASSUME NEW r, Moving(t, r) PROVE ins' = ins /\ call' = call
  BY <1>3, <1>7 DEF Moving, Descend, ReaderFound, Down, InsertFound, driver
<1>8. ASSUME NEW r, Ending(t, r) PROVE ins' = ins /\ call'[t].op # "insert"
  BY <1>2, <1>8 DEF Ending, ValueHit, ValueMiss, ExistsHit, ExistsMiss, Return
<1>9. ASSUME NEW r, Scanning(t, r)
      PROVE  ins' = ins /\ (call'[t].op = "insert" => call'[t] = call[t])
  BY <1>2, <1>9 DEF Scanning, ScanOn, ScanEnd, driver
<1>10. ASSUME NEW r, Filling(t, r)
       PROVE  ins' = ins /\ (call'[t].op = "insert" => call'[t] = call[t])
  <2>1. \E c, held : EndOrDescend(t, c, held)
    BY <1>10 DEF Filling, InsertHere, InsertLeft, InsertRight, PromoteSplit
  <2> QED BY <1>2, <2>1 DEF EndOrDescend, Return, driver
<1> QED BY <1>4, <1>5, <1>6, <1>7, <1>8, <1>9, <1>10, StepCases DEF Idle

\* a thread draws names in order
LEMMA InsGrows ==
  ASSUME IInv, NEW t \in Threads, Step(t)
  PROVE  /\ \A u \in Threads : ins[u] \in Nat /\ ins'[u] \in Nat /\ ins[u] <= ins'[u]
         /\ StartInsert(t) => ins'[t] = ins[t] + 1 /\ ins'[t] \in 1 .. MaxInserts[t]
<1>1. ins \in [Threads -> Nat] /\ MaxInserts[t] \in Nat
  BY MaxInsertsAssumption DEF IInv, TypeOK
<1>2. CASE StartInsert(t)
  <2>1. ins' = [ins EXCEPT ![t] = @ + 1] /\ ins[t] < MaxInserts[t]
    BY <1>2 DEF StartInsert
  <2> QED BY <1>1, <2>1
<1>3. CASE ~StartInsert(t)
  <2>1. ins' = ins
    BY <1>3, InsStep
  <2> QED BY <1>1, <1>3, <2>1
<1> QED BY <1>2, <1>3

\* every step keeps Started
LEMMA StartedStep ==
  ASSUME IInv, NEW t \in Threads, Step(t)
  PROVE  Started'
<1> SUFFICES ASSUME NEW u \in Threads, call'[u].op = "insert" PROVE ins'[u] > 0
  BY DEF Started, Op
<1>1. ins[u] \in Nat /\ ins'[u] \in Nat /\ ins[u] <= ins'[u]
  BY InsGrows
<1>2. CASE u = t /\ StartInsert(t)
  BY <1>1, <1>2, InsGrows
<1>3. CASE call'[u] = call[u]
  BY <1>1, <1>3 DEF IInv, Started, Op
<1> QED BY <1>2, <1>3, InsStep, OthersKept DEF SameThread

\* every step keeps Fresh: an insert fills a new node when it leaves its level
LEMMA FreshStep ==
  ASSUME IInv, NEW t \in Threads, Step(t)
  PROVE  Fresh'
<1>1. ASSUME NEW u \in Threads, NEW i \in 1 .. MaxInserts[u], NEW l \in Levels,
             heap[<<u, i, l>>].num = 0, u # t \/ i # ins[t] \/ l # Level(curr[t])
      PROVE  heap'[<<u, i, l>>].num = 0
  <2>1. <<u, i, l>> \in Nodes
    BY OwnNodes
  <2>2. <<u, i, l>> # NewNode(t, Level(curr[t]))
    BY <1>1 DEF NewNode
  <2> QED BY <1>1, <2>1, <2>2, HeapStep DEF OnlyOwn
<1>2. ASSUME NEW u \in Threads, NEW i \in 1 .. MaxInserts[u], NEW l \in Levels, i > ins'[u]
      PROVE  heap'[<<u, i, l>>].num = 0
  <2>1. ins[u] \in Nat /\ ins'[u] \in Nat /\ ins[u] <= ins'[u] /\ MaxInserts[u] \in Nat
    BY InsGrows, MaxInsertsAssumption
  <2>2. i > ins[u] /\ i # ins[u]
    BY <1>2, <2>1
  <2>3. heap[<<u, i, l>>].num = 0
    BY <2>2 DEF IInv, Fresh
  <2>4. u # t \/ i # ins[t]
    BY <2>2
  <2> QED BY <1>1, <2>3, <2>4
<1>3. ASSUME NEW u \in Threads, call'[u].op = "insert", phase'[u] = "search", curr'[u] # Null,
             NEW l \in Levels, l <= Level(curr'[u])
      PROVE  heap'[<<u, ins'[u], l>>].num = 0
  <2>1. CASE u = t /\ StartInsert(t)
    <3>1. ins'[t] \in 1 .. MaxInserts[t] /\ ins'[t] > ins[t] /\ ins'[t] # ins[t]
      BY <2>1, InsGrows
    <3>2. heap[<<t, ins'[t], l>>].num = 0
      BY <3>1 DEF IInv, Fresh
    <3> QED BY <1>1, <2>1, <3>1, <3>2
  <2>2. ASSUME call'[u] = call[u], ins'[u] = ins[u], phase[u] = "search", curr[u] # Null,
               l <= Level(curr[u])
        PROVE  heap[<<u, ins'[u], l>>].num = 0 /\ ins'[u] \in 1 .. MaxInserts[u]
    <3>1. Op(u) = "insert"
      BY <1>3, <2>2 DEF Op
    <3>2. heap[NewNode(u, l)].num = 0
      BY <2>2, <3>1 DEF IInv, Fresh
    <3>3. ins[u] \in 1 .. MaxInserts[u]
      <4>1. ins[u] \in Nat /\ MaxInserts[u] \in Nat /\ ins[u] <= MaxInserts[u] /\ ins[u] > 0
        BY <3>1, MaxInsertsAssumption DEF IInv, Started, TypeOK
      <4> QED BY <4>1
    <3> QED BY <2>2, <3>2, <3>3 DEF NewNode
  <2>3. CASE u # t
    <3>1. SameThread(u)
      BY <2>3, OthersKept
    <3> QED BY <1>1, <1>3, <2>2, <2>3, <3>1 DEF SameThread
  <2>4. CASE u = t /\ ~StartInsert(t)
    <3>1. Advances(t)
      BY <1>3, <2>4, OwnStep
    <3>2. curr[t] \in Nodes /\ curr'[t] \in Nodes
      <4>1. curr'[t] \in Pointers
        BY ControlStep DEF ControlIs
      <4> QED BY <1>3, <2>4, <3>1, <4>1 DEF Advances, Pointers
    <3>3. /\ l \in Int /\ Level(curr[t]) \in Int /\ Level(curr'[t]) \in Int /\ curr[t] # Null
      BY <3>2, NodeNames, Constants
    <3>4. l <= Level(curr[t]) /\ (heap' = heap \/ l # Level(curr[t]))
      BY <1>3, <2>4, <3>1, <3>3 DEF Advances
    <3>5. heap[<<t, ins'[t], l>>].num = 0 /\ ins'[t] \in 1 .. MaxInserts[t]
      BY <2>2, <2>4, <3>1, <3>3, <3>4 DEF Advances
    <3> QED BY <1>1, <2>4, <3>4, <3>5
  <2> QED BY <2>1, <2>3, <2>4
<1> QED BY <1>2, <1>3 DEF Fresh, Op, NewNode

-------------------------------------------------------------------------------
(* The theorems                                                            *)

\* the nodes of the empty list; only the sentinels hold a key
LEMMA EmptyListShape ==
  ASSUME NEW n \in Nodes
  PROVE  /\ EmptyList(n) \in NodeOf(Level(n))
         /\ n # Header(Level(n)) /\ n # EndSentinel(Level(n)) => EmptyList(n).num = 0
<1> DEFINE l == Level(n)
           down == IF l > 0 THEN Header(l - 1) ELSE Null
<1>1. l \in Levels /\ Null \in Peers(l) /\ Null \in Peers(l - 1)
  BY NodeNames DEF Peers
<1>2. EndSentinel(l) \in Peers(l)
  BY <1>1, Sentinels DEF Peers
<1>3. down \in Peers(l - 1)
  <2>1. CASE l > 0
    <3>1. l - 1 \in Levels
      BY <1>1, <2>1, HeightAssumption DEF Levels
    <3> QED BY <2>1, <3>1, Sentinels DEF Peers
  <2> QED BY <1>1, <2>1
<1>4. 0 \in AnyKey /\ Inf \in AnyKey /\ 0 \in Slot /\ 0 \in 0 .. MaxKeys /\ 1 \in 0 .. MaxKeys
  BY Constants
<1>5. Blank \in NodeOf(l) /\ Blank.num = 0
  BY <1>1, <1>4 DEF Blank, NodeOf
<1> HIDE DEF l, down
<1>6. CASE n = Header(l)
  <2>1. EmptyList(n) = [Blank EXCEPT !.num = 1, !.next = EndSentinel(l), !.child[0] = down]
    <3>1. n = Header(Level(n)) /\ n # EndSentinel(Level(n))
      BY <1>6 DEF l, Header, EndSentinel
    <3> QED BY <3>1, Zenon DEF EmptyList, l, down
  <2>2. [Blank EXCEPT !.num = 1, !.next = EndSentinel(l), !.child[0] = down] \in NodeOf(l)
    BY <1>2, <1>3, <1>4, <1>5 DEF NodeOf
  <2> QED BY <1>6, <2>1, <2>2 DEF l
<1>7. CASE n # Header(l) /\ n = EndSentinel(l)
  <2>1. EmptyList(n) = [Blank EXCEPT !.num = 1, !.key[0] = Inf]
    BY <1>7 DEF EmptyList, l
  <2>2. [Blank EXCEPT !.num = 1, !.key[0] = Inf] \in NodeOf(l)
    BY <1>4, <1>5 DEF NodeOf
  <2> QED BY <1>7, <2>1, <2>2 DEF l
<1>8. CASE n # Header(l) /\ n # EndSentinel(l)
  <2>1. EmptyList(n) = Blank
    BY <1>8 DEF EmptyList, l
  <2> QED BY <1>5, <2>1 DEF l
<1> QED BY <1>6, <1>7, <1>8

\* the invariant holds in the empty list
LEMMA InvInit == Init => IInv
<1> SUFFICES ASSUME Init PROVE IInv
  OBVIOUS
<1>1. \A n \in Nodes : heap[n] = EmptyList(n)
  BY DEF Init
<1>2. Shaped
  BY <1>1, EmptyListShape DEF Shaped
<1>3. HeapIs
  BY <1>2, NodeIsNode DEF Init, HeapIs, Shaped
<1>4. ControlIs
  <2>1. 0 \in Slot /\ Null \in Pointers /\ "search" \in Phases
    BY Constants DEF Pointers, Phases
  <2> QED BY <2>1 DEF Init, ControlIs
<1>5. LocksIs
  BY DEF Init, LocksIs
<1>6. ResultsAre
  <2>1. round \in 1 .. Len(Work) /\ todo \in [Threads -> SUBSET Calls]
    <3>1. 1 \in 1 .. Len(Work) /\ Work[1] \in [Threads -> SUBSET Calls]
      BY WorkAssumption
    <3> QED BY <3>1 DEF Init
  <2>2. seen \in [Threads -> Seq(AnyKey \X Nat)]
    <3>1. <<>> \in Seq(AnyKey \X Nat)
      OBVIOUS
    <3> QED BY <3>1 DEF Init
  <2>3. ins \in [Threads -> Nat] /\ \A t \in Threads : ins[t] <= MaxInserts[t]
    <3>1. ins = [t \in Threads |-> 0] /\ \A t \in Threads : MaxInserts[t] \in Nat
      BY MaxInsertsAssumption DEF Init
    <3> QED BY <3>1
  <2>4. must \in [Threads -> SUBSET AnyKey] /\ known \in SUBSET AnyKey
    BY DEF Init
  <2>5. left \in [Threads -> Int] /\ ret \in [Threads -> Nat]
    BY DEF Init
  <2>6. has_zero \in BOOLEAN
    <3>1. has_zero = FALSE
      BY Zenon DEF Init
    <3> QED BY <3>1, Zenon
  <2> QED BY <2>1, <2>2, <2>3, <2>4, <2>5, <2>6 DEF ResultsAre
<1>7. TypeOK
  BY <1>3, <1>4, <1>5, <1>6 DEF TypeOK, HeapIs, ControlIs, Phases, LocksIs, ResultsAre
<1>8. Started
  BY DEF Init, Started, Op, None
<1>9. Fresh
  <2>1. ASSUME NEW t \in Threads, NEW i \in 1 .. MaxInserts[t], NEW l \in Levels
        PROVE  heap[<<t, i, l>>].num = 0
    <3>1. <<t, i, l>> \in Nodes /\ Level(<<t, i, l>>) = l
      BY OwnNodes
    <3>2. i # 0
      BY MaxInsertsAssumption
    <3>3. <<t, i, l>> # Header(l) /\ <<t, i, l>> # EndSentinel(l)
      BY <3>2 DEF Header, EndSentinel
    <3> QED BY <1>1, <3>1, <3>3, EmptyListShape
  <2>2. \A t \in Threads : Op(t) # "insert"
    BY DEF Init, Op, None
  <2> QED BY <2>1, <2>2 DEF Fresh
<1> QED BY <1>2, <1>7, <1>8, <1>9 DEF IInv

\* and every step of a thread or of the driver keeps it
LEMMA InvNext == IInv /\ [Next]_vars => IInv'
<1> SUFFICES ASSUME IInv, [Next]_vars PROVE IInv'
  OBVIOUS
<1>1. ASSUME NEW t \in Threads, Step(t) PROVE IInv'
  <2>1. HeapIs' /\ Shaped'
    BY <1>1, HeapStep
  <2>2. ControlIs'
    BY <1>1, ControlStep
  <2>3. LocksIs'
    BY <1>1, LocksStep
  <2>4. ResultsAre'
    BY <1>1, ResultsStep
  <2>5. TypeOK'
    BY <2>1, <2>2, <2>3, <2>4 DEF TypeOK, HeapIs, ControlIs, Phases, LocksIs, ResultsAre
  <2> QED BY <1>1, <2>1, <2>5, StartedStep, FreshStep DEF IInv
<1>2. CASE NextRound
  <2>1. UNCHANGED <<heap, writer, readers, has_zero, pc, call, phase, curr, prev, rank, seen,
                    left, ret, ins, must, known>>
    BY <1>2 DEF NextRound, locks, place, scans, history
  <2>2. round' \in 1 .. Len(Work) /\ todo' \in [Threads -> SUBSET Calls]
    BY <1>2, WorkAssumption DEF NextRound, IInv, TypeOK
  <2>3. TypeOK'
    BY <2>1, <2>2 DEF IInv, TypeOK
  <2>4. Shaped' /\ Started'
    BY <2>1 DEF IInv, Shaped, Started, Op
  <2>5. Fresh'
    BY <2>1 DEF IInv, Fresh, Op, NewNode
  <2> QED BY <2>3, <2>4, <2>5 DEF IInv
<1>3. CASE UNCHANGED vars
  <2>1. UNCHANGED <<heap, writer, readers, has_zero, pc, call, phase, curr, prev, rank, seen,
                    left, ret, ins, round, todo, must, known>>
    BY <1>3 DEF vars, locks, place, scans, driver, history
  <2>2. TypeOK'
    BY <2>1 DEF IInv, TypeOK
  <2>3. Shaped' /\ Started'
    BY <2>1 DEF IInv, Shaped, Started, Op
  <2>4. Fresh'
    BY <2>1 DEF IInv, Fresh, Op, NewNode
  <2> QED BY <2>2, <2>3, <2>4 DEF IInv
<1> QED BY <1>1, <1>2, <1>3 DEF Next, Finished

(* The inductive invariant holds in every state of the B-skiplist.         *)
THEOREM Inductive == Spec => []IInv
BY InvInit, InvNext, PTL DEF Spec

(* The variables of the B-skiplist keep their types: no thread visits Null, *)
(* no rank is outside the arrays, no insert runs out of its new nodes.      *)
THEOREM TypeCorrect == Spec => []TypeOK
<1>1. IInv => TypeOK
  BY DEF IInv
<1> QED BY <1>1, Inductive, PTL

(* No node outgrows its arrays (the asserts on MAX_KEYS in insert and in    *)
(* the nodes), whatever the threads insert and however they interleave.     *)
THEOREM Fits == Spec => []NodesFit
<1>1. IInv => NodesFit
  <2> SUFFICES ASSUME IInv, NEW n \in Nodes PROVE heap[n].num <= MaxKeys
    BY DEF NodesFit
  <2>1. heap[n].num \in 0 .. MaxKeys
    BY DEF IInv, Shaped, NodeOf
  <2> QED BY <2>1, Constants
<1> QED BY <1>1, Inductive, PTL
=============================================================================
