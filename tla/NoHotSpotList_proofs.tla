------------------------- MODULE NoHotSpotList_proofs -------------------------
(***************************************************************************)
(* The list of NoHotSpot, apart from who changes it: the six effects a     *)
(* step can have on the nodes (Effect), and what each of them keeps - the  *)
(* order of keys, the way back, every unmarked node on the list (NodesOK), *)
(* and what is removed (StaysRemoved).  NoHotSpot_proofs shows that every  *)
(* step has one of these effects.                                          *)
(***************************************************************************)
EXTENDS NoHotSpot, TLAPS, SequenceTheorems, FiniteSetTheorems

\* the names of the nodes
LEMMA NodeNames ==
  /\ MaxNodes \in Nat
  /\ Names \subseteq Int /\ Null \in Int /\ Null \notin Names /\ 0 \in Names
  /\ \A n \in Int : n \in Names <=> -MaxNodes <= n /\ n <= MaxNodes
  /\ \A n \in Int : n \in Inserted <=> 1 <= n /\ n <= MaxNodes
  /\ \A n \in Names : -n \in Names
BY BoundsAssumption DEF Names, Null, Inserted

\* there are finitely many names
LEMMA NamesFinite == IsFiniteSet(Names)
BY NodeNames, FS_Interval DEF Names

\* one of any names weighs most
LEMMA Heaviest ==
  ASSUME NEW w \in [Names -> Nat], NEW T \in SUBSET Names, T # {}
  PROVE  \E x \in T : \A y \in T : w[y] <= w[x]
<1> DEFINE Above(x) == {y \in Names : w[y] > w[x]}
           R == StrictSubsetOrdering(Names)
           Sets == {Above(x) : x \in T}
<1>1. IsWellFoundedOn(R, SUBSET Names)
  BY NamesFinite, FS_StrictSubsetOrderingWellFounded, FS_FiniteSubsetsOfFinite
<1>2. Sets \subseteq SUBSET Names /\ Sets # {}
  OBVIOUS
<1>3. \E A \in Sets : \A B \in Sets : ~(<<B, A>> \in R)
  <2> HIDE DEF R, Sets
  <2> QED BY <1>1, <1>2, WFMin
<1>4. PICK x \in T : \A y \in T : ~(<<Above(y), Above(x)>> \in R)
  BY <1>3
<1>5. ASSUME NEW y \in T, w[y] > w[x] PROVE FALSE
  <2>0. \A z \in Names : w[z] \in Nat
    OBVIOUS
  <2>1. Above(y) \subseteq Above(x)
    BY <1>5, <2>0
  <2>2. y \in Above(x) /\ y \notin Above(y)
    BY <1>5
  <2>3. <<Above(y), Above(x)>> \in R
    <3> HIDE DEF Above
    <3>1. Above(y) \in SUBSET Names /\ Above(x) \in SUBSET Names
      BY DEF Above
    <3> QED BY <2>1, <2>2, <3>1 DEF StrictSubsetOrdering
  <2> QED BY <1>4, <2>3
<1> QED BY <1>5

-------------------------------------------------------------------------------
\* Chain is the function its recursive definition says
LEMMA ChainIs ==
  TypeOK => \A n \in Names \cup {Null} :
              Chain[n] = IF n = Null THEN {} ELSE {n} \cup Chain[heap[n].next]
<1> SUFFICES ASSUME TypeOK
             PROVE  \A n \in Names \cup {Null} :
                      Chain[n] = IF n = Null THEN {} ELSE {n} \cup Chain[heap[n].next]
  OBVIOUS
<1> DEFINE Dom == Names \cup {Null}
           Nx(n) == heap[n].next
           Closed(C) == \A n \in C : Nx(n) # Null => Nx(n) \in C
           Reach(n) == {m \in Names : \A C \in SUBSET Names : n \in C /\ Closed(C) => m \in C}
           F == [n \in Dom |-> IF n = Null THEN {} ELSE Reach(n)]
           Rec(f) == [n \in Dom |-> IF n = Null THEN {} ELSE {n} \cup f[Nx(n)]]
<1>1. \A n \in Names : Nx(n) \in Dom
  BY DEF TypeOK, NodeType
<1>2. Null \notin Names
  BY NodeNames
<1>3. ASSUME NEW n \in Names, Nx(n) = Null PROVE Reach(n) = {n}
  <2>1. Closed({n})
    BY <1>3
  <2>2. \A m \in Reach(n) : m \in {n}
    <3> HIDE DEF Closed
    <3> QED BY <2>1
  <2>3. n \in Reach(n)
    OBVIOUS
  <2> HIDE DEF Reach
  <2> QED BY <2>2, <2>3
<1>4. ASSUME NEW n \in Names, Nx(n) # Null PROVE Reach(n) = {n} \cup Reach(Nx(n))
  <2>0. Nx(n) \in Names
    BY <1>1, <1>4
  <2>1. n \in Reach(n)
    OBVIOUS
  <2>2. ASSUME NEW m \in Reach(Nx(n)) PROVE m \in Reach(n)
    <3>1. ASSUME NEW C \in SUBSET Names, n \in C, Closed(C) PROVE Nx(n) \in C
      BY <1>4, <3>1
    <3> HIDE DEF Closed
    <3> QED BY <2>2, <3>1
  <2>3. ASSUME NEW m \in Reach(n) PROVE m \in {n} \cup Reach(Nx(n))
    <3> SUFFICES ASSUME m # n, NEW C \in SUBSET Names, Nx(n) \in C, Closed(C) PROVE m \in C
      BY <2>3
    <3>1. Closed(C \cup {n})
      OBVIOUS
    <3>2. C \cup {n} \in SUBSET Names /\ n \in C \cup {n}
      OBVIOUS
    <3>3. m \in C \cup {n}
      <4> HIDE DEF Closed
      <4> QED BY <2>3, <3>1, <3>2
    <3> QED BY <3>3
  <2> HIDE DEF Reach
  <2> QED BY <2>1, <2>2, <2>3
<1>5. F = Rec(F)
  <2> SUFFICES ASSUME NEW n \in Dom PROVE F[n] = Rec(F)[n]
    OBVIOUS
  <2> HIDE DEF Reach, Nx
  <2> QED BY <1>1, <1>2, <1>3, <1>4
<1>6. Chain = CHOOSE f : f = Rec(f)
  BY DEF Chain
<1>7. Chain = Rec(Chain)
  <2> HIDE DEF F, Rec
  <2> QED BY <1>5, <1>6
<1> QED BY <1>7

\* the order of keys, with a marker right behind its node
Weight(n) == 2 * heap[Owner(n)].key + (IF IsMarker(n) THEN 1 ELSE 0)

\* next leads up in that order
LEMMA Heavier ==
  TypeOK /\ Ordered =>
    \A n \in Names : /\ Weight(n) \in Nat
                     /\ heap[n].next # Null =>
                          heap[n].next \in Names /\ Weight(heap[n].next) > Weight(n)
<1> SUFFICES ASSUME TypeOK, Ordered, NEW n \in Names
             PROVE  /\ Weight(n) \in Nat
                    /\ heap[n].next # Null =>
                          heap[n].next \in Names /\ Weight(heap[n].next) > Weight(n)
  OBVIOUS
<1>1. \A m \in Names : heap[m].key \in Nat /\ heap[m].next \in Names \cup {Null} /\ Owner(m) \in Names
  BY NodeNames DEF TypeOK, NodeType, Owner
<1>2. ASSUME heap[n].next # Null PROVE heap[n].next \in Names /\ Weight(heap[n].next) > Weight(n)
  <2> DEFINE m == heap[n].next
  <2>1. m \in Names
    BY <1>1, <1>2
  <2>2. CASE IsMarker(m)
    <3>1. n \in 1 .. used /\ m = Marker(n)
      BY <1>2, <2>2 DEF Ordered
    <3>2. ~IsMarker(n) /\ Owner(m) = n /\ Owner(n) = n
      BY <2>2, <3>1, NodeNames DEF IsMarker, Owner, Marker
    <3> QED BY <1>1, <2>1, <2>2, <3>2 DEF Weight
  <2>3. CASE ~IsMarker(m)
    <3>1. heap[m].key > heap[Owner(n)].key /\ Owner(m) = m
      BY <1>2, <2>3 DEF Ordered, Owner
    <3> QED BY <1>1, <2>1, <2>3, <3>1 DEF Weight
  <2> QED BY <2>1, <2>2, <2>3
<1>3. Weight(n) \in Nat
  BY <1>1 DEF Weight
<1> QED BY <1>2, <1>3

\* Linked is the least set of names that holds the head and is closed under next
Closed(C) == \A n \in C : heap[n].next # Null => heap[n].next \in C

\* Linked is the least set of names that holds the head and is closed under next
LEMMA LinkedIs ==
  TypeOK /\ Ordered =>
    /\ HeadNode \in Linked /\ Linked \subseteq Names /\ Closed(Linked)
    /\ \A C \in SUBSET Names : HeadNode \in C /\ Closed(C) => Linked \subseteq C
<1> SUFFICES ASSUME TypeOK, Ordered
             PROVE  /\ HeadNode \in Linked /\ Linked \subseteq Names /\ Closed(Linked)
                    /\ \A C \in SUBSET Names : HeadNode \in C /\ Closed(C) => Linked \subseteq C
  OBVIOUS
<1> DEFINE w == [n \in Names |-> Weight(n)]
<1>1. /\ w \in [Names -> Nat]
      /\ \A n \in Names : heap[n].next # Null =>
           heap[n].next \in Names /\ w[heap[n].next] > w[n]
  BY Heavier
<1>2. \A n \in Names : /\ Chain[n] = {n} \cup Chain[heap[n].next]
                       /\ heap[n].next = Null => Chain[heap[n].next] = {}
  BY ChainIs, NodeNames
<1> HIDE DEF w
\* no chain goes on for ever
<1>3. ASSUME NEW T \in SUBSET Names,
             \A n \in T : heap[n].next # Null /\ heap[n].next \in T
      PROVE  T = {}
  <2> SUFFICES ASSUME T # {} PROVE FALSE
    OBVIOUS
  <2>1. PICK n \in T : \A m \in T : w[m] <= w[n]
    BY <1>1, Heaviest
  <2>2. heap[n].next \in T /\ w[heap[n].next] > w[n]
    BY <1>1, <1>3
  <2> QED BY <1>1, <2>1, <2>2
<1>4. \A n \in Names : Chain[n] \subseteq Names
  <2> DEFINE T == {n \in Names : ~(Chain[n] \subseteq Names)}
  <2>1. ASSUME NEW n \in T PROVE heap[n].next # Null /\ heap[n].next \in T
    <3>1. heap[n].next # Null
      BY <1>2, <2>1
    <3>2. heap[n].next \in Names
      BY <1>1, <3>1
    <3>3. CASE Chain[heap[n].next] \subseteq Names
      BY <1>2, <3>3
    <3> QED BY <3>1, <3>2, <3>3
  <2>2. T = {}
    <3> HIDE DEF T
    <3> QED BY <1>3, <2>1 DEF T
  <2> QED BY <2>2
<1>5. \A n \in Names : Closed(Chain[n])
  <2> DEFINE T == {n \in Names : ~Closed(Chain[n])}
  <2>1. ASSUME NEW n \in T PROVE heap[n].next # Null /\ heap[n].next \in T
    <3>1. heap[n].next # Null
      BY <1>2, <2>1 DEF Closed
    <3>2. heap[n].next \in Names /\ heap[n].next \in Chain[heap[n].next]
      BY <1>1, <1>2, <3>1
    <3>3. CASE Closed(Chain[heap[n].next])
      BY <1>2, <2>1, <3>2, <3>3 DEF Closed
    <3> QED BY <3>1, <3>2, <3>3
  <2>2. T = {}
    <3> HIDE DEF T
    <3> QED BY <1>3, <2>1 DEF T
  <2> QED BY <2>2
<1>6. ASSUME NEW C \in SUBSET Names, Closed(C) PROVE \A n \in C : Chain[n] \subseteq C
  <2> DEFINE T == {n \in C : ~(Chain[n] \subseteq C)}
  <2>1. ASSUME NEW n \in T PROVE heap[n].next # Null /\ heap[n].next \in T
    <3>1. heap[n].next # Null
      BY <1>2, <2>1
    <3>2. heap[n].next \in C
      BY <1>6, <2>1, <3>1 DEF Closed
    <3> QED BY <1>2, <2>1, <3>1, <3>2
  <2>2. T = {}
    <3> HIDE DEF T
    <3> QED BY <1>3, <2>1 DEF T
  <2> QED BY <2>2
<1>7. HeadNode \in Names
  BY NodeNames DEF HeadNode
<1> QED BY <1>2, <1>4, <1>5, <1>6, <1>7 DEF Linked

\* the list is a line: of two nodes on it one is not behind the other's next
Apart(l, a) ==
  \/ /\ Weight(a) < Weight(l)
     /\ heap[a].next # Null
     /\ heap[a].next = l \/ Weight(heap[a].next) < Weight(l)
  \/ a = l
  \/ heap[l].next # Null /\ Weight(a) >= Weight(heap[l].next)

\* the list is a line: of two linked nodes one leads to the other, with a smaller key or
\* as its marker
LEMMA LinkedLine ==
  TypeOK /\ Ordered /\ heap[HeadNode].key = 0 => \A l, a \in Linked : Apart(l, a)
<1> SUFFICES ASSUME TypeOK, Ordered, heap[HeadNode].key = 0
             PROVE  \A l, a \in Linked : Apart(l, a)
  OBVIOUS
<1> DEFINE C(l) == {a \in Linked : Apart(l, a)}
           G == {l \in Linked : \A a \in Linked : Apart(l, a)}
<1>1. /\ HeadNode \in Linked /\ Linked \subseteq Names /\ Closed(Linked)
      /\ \A D \in SUBSET Names : HeadNode \in D /\ Closed(D) => Linked \subseteq D
  BY LinkedIs
<1>2. \A n \in Linked : /\ Weight(n) \in Nat
                        /\ heap[n].next # Null =>
                             /\ heap[n].next \in Linked
                             /\ Weight(heap[n].next) \in Nat
                             /\ Weight(heap[n].next) > Weight(n)
  BY <1>1, Heavier DEF Closed
<1>3. Weight(HeadNode) = 0
  BY DEF Weight, Owner, IsMarker, HeadNode
<1>4. ASSUME NEW l \in Linked, HeadNode \in C(l), Closed(C(l)) PROVE l \in G
  <2>1. Linked \subseteq C(l)
    <3> HIDE DEF C
    <3>1. C(l) \in SUBSET Names
      BY <1>1 DEF C
    <3> QED BY <1>1, <1>4, <3>1
  <2> QED BY <2>1
<1>5. HeadNode \in G
  <2>1. HeadNode \in C(HeadNode)
    BY <1>1 DEF Apart
  <2>2. ASSUME NEW a \in C(HeadNode), heap[a].next # Null PROVE heap[a].next \in C(HeadNode)
    BY <1>1, <1>2, <1>3, <2>2 DEF Apart
  <2>3. Closed(C(HeadNode))
    BY <2>2 DEF Closed
  <2> QED BY <1>1, <1>4, <2>1, <2>3
<1>6. ASSUME NEW l \in G, heap[l].next # Null PROVE heap[l].next \in G
  <2> DEFINE r == heap[l].next
  <2>0. r \in Linked /\ l \in Linked
    BY <1>2, <1>6
  <2>1. \A a \in Linked : \/ Weight(a) < Weight(r) /\ heap[a].next # Null
                               /\ (heap[a].next = r \/ Weight(heap[a].next) < Weight(r))
                          \/ Weight(a) >= Weight(r)
    <3> SUFFICES ASSUME NEW a \in Linked
                 PROVE  \/ Weight(a) < Weight(r) /\ heap[a].next # Null
                            /\ (heap[a].next = r \/ Weight(heap[a].next) < Weight(r))
                        \/ Weight(a) >= Weight(r)
      OBVIOUS
    <3>1. Apart(l, a)
      BY <1>6
    <3> QED BY <1>2, <1>6, <3>1 DEF Apart
  <2> DEFINE D == {a \in Linked : \/ Weight(a) < Weight(r)
                                  \/ a = r
                                  \/ heap[r].next # Null /\ Weight(a) >= Weight(heap[r].next)}
  <2>2. HeadNode \in D
    BY <1>1, <1>2, <1>3, <1>6
  <2>3. ASSUME NEW a \in D, heap[a].next # Null PROVE heap[a].next \in D
    <3> DEFINE b == heap[a].next
    <3>1. b \in Linked /\ Weight(b) \in Nat /\ Weight(b) > Weight(a) /\ Weight(a) \in Nat
      BY <1>2, <2>3
    <3>2. CASE Weight(a) < Weight(r)
      BY <1>2, <2>0, <2>1, <2>3, <3>1, <3>2
    <3>3. CASE a = r
      BY <3>1, <3>3, <2>3
    <3>4. CASE heap[r].next # Null /\ Weight(a) >= Weight(heap[r].next)
      BY <1>2, <2>0, <3>1, <3>4
    <3> QED BY <2>3, <3>2, <3>3, <3>4
  <2>4. Linked \subseteq D
    <3>1. D \in SUBSET Names
      BY <1>1
    <3>2. Closed(D)
      BY <2>3 DEF Closed
    <3> HIDE DEF D
    <3> QED BY <1>1, <2>2, <3>1, <3>2
  <2>5. \A a \in Linked : Apart(r, a)
    BY <1>2, <2>0, <2>1, <2>4 DEF Apart
  <2> QED BY <2>0, <2>5
<1>7. Linked \subseteq G
  <2>1. Closed(G)
    BY <1>6 DEF Closed
  <2>2. G \in SUBSET Names
    BY <1>1
  <2> HIDE DEF G
  <2> QED BY <1>1, <1>5, <2>1, <2>2
<1> QED BY <1>7

-------------------------------------------------------------------------------
(* The invariant about the nodes                                           *)

Used == 0 .. used
Unmarked(n) == ~IsMarker(heap[n].next)

\* what never changes about the head, the markers and the names not yet used
Fixtures == /\ heap[HeadNode].val # Self
            /\ heap[HeadNode].key = 0
            /\ \A n \in 1 .. used : heap[n].key > 0
            /\ \A n \in Names : IsMarker(n) => heap[n].val = Self
            /\ \A n \in Inserted : n > used => heap[n].val = Self /\ heap[n].next = Null
            /\ \A n \in Inserted : Unmarked(n) => heap[Marker(n)].next = Null

\* a node leaves the list only when it has its marker
StillLinked == \A n \in 1 .. used : Unmarked(n) => n \in Linked

NodesOK == Ordered /\ WayBack /\ Fixtures /\ StillLinked

\* a removed node, and what a step may never do to it (RemovedStays)
StaysRemoved(n) == /\ heap'[n].val = Self
                   /\ Sealed(n)
                   /\ OffTheList(n) => \A m \in Linked : heap'[m].next # n

-------------------------------------------------------------------------------
(* What a step does to the nodes                                           *)

SameKey(n) == heap'[n].key = heap[n].key
SameVal(n) == heap'[n].val = heap[n].val
SameNext(n) == heap'[n].next = heap[n].next
SamePrev(n) == heap'[n].prev = heap[n].prev

\* only levels change
Quiet == /\ used' = used
         /\ \A n \in Names : SameKey(n) /\ SameVal(n) /\ SameNext(n) /\ SamePrev(n)

\* the value of v changes, which is not removed
Valued(v) == /\ used' = used
             /\ v \in Used
             /\ heap[v].val # Self
             /\ v = HeadNode => heap'[v].val # Self
             /\ \A n \in Names : /\ SameKey(n) /\ SameNext(n) /\ SamePrev(n)
                                 /\ n # v => SameVal(n)

\* a new node w gets in between l and r
Published(l, r, w) ==
  /\ l \in Used /\ r \in (1 .. used) \cup {Null}
  /\ used < MaxNodes /\ w = used + 1 /\ used' = w
  /\ heap[l].next = r
  /\ heap'[w].key > heap[l].key
  /\ r # Null => heap'[w].key < heap[r].key
  /\ heap'[w].next = r /\ heap'[w].prev = l
  /\ heap'[l].next = w
  /\ \A n \in Names : n # w => /\ SameKey(n) /\ SameVal(n) /\ SamePrev(n)
                               /\ n # l => SameNext(n)

\* the way back from r leads to l
BackLinked(l, r) == /\ used' = used
                    /\ l \in 1 .. used /\ r \in 1 .. used
                    /\ heap[l].key < heap[r].key
                    /\ heap'[r].prev = l
                    /\ \A n \in Names : /\ SameKey(n) /\ SameVal(n) /\ SameNext(n)
                                        /\ n # r => SamePrev(n)

\* the dead node d gets its marker
Marked(d) == /\ used' = used
             /\ d \in 1 .. used /\ Dead(d) /\ Unmarked(d)
             /\ heap'[d].next = Marker(d)
             /\ heap'[Marker(d)].next = heap[d].next
             /\ \A n \in Names : /\ SameKey(n) /\ SameVal(n)
                                 /\ n # Marker(d) => SamePrev(n)
                                 /\ n \notin {d, Marker(d)} => SameNext(n)

\* l, in front of the marked node d, is linked past it
Unlinked(l, d) == /\ used' = used
                  /\ l \in Names /\ ~IsMarker(l)
                  /\ d \in 1 .. used /\ Dead(d) /\ ~Unmarked(d)
                  /\ heap[l].next = d
                  /\ heap'[l].next = heap[Marker(d)].next
                  /\ \A n \in Names : /\ SameKey(n) /\ SameVal(n) /\ SamePrev(n)
                                      /\ n # l => SameNext(n)

Effect == \/ Quiet
          \/ \E v \in Used : Valued(v)
          \/ \E l \in Used, r \in (1 .. used) \cup {Null} : Published(l, r, used + 1)
          \/ \E l, r \in 1 .. used : BackLinked(l, r)
          \/ \E d \in 1 .. used : Marked(d)
          \/ \E l \in Names, d \in 1 .. used : Unlinked(l, d)

\* the facts about names the provers need below
LEMMA NameFacts ==
  TypeOK => /\ used \in Nat /\ used <= MaxNodes /\ MaxNodes \in Nat
            /\ \A n \in Used : n \in Names
            /\ \A n \in 1 .. used : n \in Inserted /\ n \in Used
            /\ \A n \in Inserted : n \in Names /\ ~IsMarker(n)
            /\ \A n \in Inserted : Marker(n) \in Names /\ IsMarker(Marker(n)) /\ Owner(Marker(n)) = n
            /\ \A n \in Names : ~IsMarker(n) => Owner(n) = n
            /\ \A n \in Used : ~IsMarker(n)
            /\ Null \notin Names /\ ~IsMarker(Null)
            /\ \A n \in Names : heap[n].next \in Names \cup {Null} /\ heap[n].key \in Nat
BY NodeNames DEF TypeOK, NodeType, Used, Inserted, Marker, IsMarker, Owner, Names, Null

\* next of a marked node is its marker, and only of that
LEMMA MarkerOf ==
  TypeOK /\ Ordered =>
    /\ \A n \in Names : ~Unmarked(n) => n \in 1 .. used /\ Dead(n) /\ heap[n].next = Marker(n)
    /\ \A n \in Names : IsMarker(n) => Unmarked(n)
BY NameFacts DEF Ordered, Unmarked, Used, IsMarker

\* after a step: what is closed under the next fields then and holds the head
LEMMA LinkedAfter ==
  ASSUME TypeOK', Ordered'
  PROVE  /\ HeadNode \in Linked' /\ Linked' \subseteq Names
         /\ \A n \in Linked' : heap'[n].next # Null => heap'[n].next \in Linked'
<1>1. (TypeOK /\ Ordered =>
         /\ HeadNode \in Linked /\ Linked \subseteq Names /\ Closed(Linked)
         /\ \A C \in SUBSET Names : HeadNode \in C /\ Closed(C) => Linked \subseteq C)'
  BY LinkedIs, PTL
<1> QED BY <1>1 DEF Closed

\* the nodes linked before are linked after, if the nodes still linked are
\* closed under the next fields of before
LEMMA LinkedStill ==
  ASSUME TypeOK, Ordered, TypeOK', Ordered', NEW X \in SUBSET Names,
         \A n \in Linked' \cup X : heap[n].next # Null => heap[n].next \in Linked' \cup X
  PROVE  Linked \subseteq Linked' \cup X
<1> DEFINE C == Linked' \cup X
<1>1. HeadNode \in C /\ C \in SUBSET Names
  BY LinkedAfter
<1>2. Closed(C)
  BY DEF Closed
<1> HIDE DEF C
<1> QED BY <1>1, <1>2, LinkedIs DEF C

\* a step that cuts nothing off the list leaves every linked node linked
LEMMA LinkedGrows ==
  ASSUME TypeOK, Ordered, TypeOK', Ordered',
         \A n \in Linked' : heap[n].next # Null => heap[n].next \in Linked'
  PROVE  Linked \subseteq Linked'
<1>1. Linked' \cup {} = Linked'
  OBVIOUS
<1> QED BY <1>1, LinkedStill

-------------------------------------------------------------------------------
(* Every effect keeps the invariant                                        *)

\* what Ordered says of one node
InOrder(n) ==
  heap[n].next # Null =>
    IF IsMarker(heap[n].next) THEN n \in 1 .. used /\ Dead(n) /\ heap[n].next = Marker(n)
    ELSE heap[n].next \in 1 .. used /\ heap[heap[n].next].key > heap[Owner(n)].key

\* Ordered, node by node, before and after a step
LEMMA OrderedIs == /\ Ordered <=> \A n \in Names : InOrder(n)
                   /\ Ordered' <=> \A n \in Names : InOrder(n)'
BY DEF Ordered, InOrder

\* it still holds of a node whose next has not changed
LEMMA InOrderKept ==
  ASSUME TypeOK, TypeOK', NEW n \in Names, InOrder(n), SameNext(n), used' >= used,
         \A m \in Used : SameKey(m), heap[n].next # Null => SameKey(Owner(n)),
         \A m \in 1 .. used : Dead(m) => SameVal(m)
  PROVE  InOrder(n)'
<1>1. used \in Nat /\ used' \in Nat
  BY DEF TypeOK
<1>2. CASE heap[n].next = Null
  BY <1>2 DEF InOrder, SameNext
<1>3. CASE heap[n].next # Null /\ IsMarker(heap[n].next)
  BY <1>1, <1>3 DEF InOrder, SameNext, SameVal, Dead
<1>4. CASE heap[n].next # Null /\ ~IsMarker(heap[n].next)
  BY <1>1, <1>4 DEF InOrder, SameNext, SameKey, Used
<1> QED BY <1>2, <1>3, <1>4

\* a step that changes no next keeps the list
LEMMA NextsKept ==
  ASSUME TypeOK, TypeOK', NodesOK, used' = used,
         \A n \in Names : SameKey(n) /\ SameNext(n),
         \A n \in 1 .. used : Dead(n) => SameVal(n)
  PROVE  Ordered' /\ StillLinked'
<1>1. Ordered'
  <2> SUFFICES ASSUME NEW n \in Names PROVE InOrder(n)'
    BY OrderedIs
  <2>1. InOrder(n) /\ Owner(n) \in Names
    BY OrderedIs, NodeNames DEF NodesOK, Owner
  <2>2. /\ SameNext(n) /\ SameKey(Owner(n)) /\ used' >= used
        /\ \A m \in Used : SameKey(m)
    BY <2>1, NameFacts
  <2> QED BY <2>1, <2>2, InOrderKept
<1>2. Linked \subseteq Linked'
  BY <1>1, LinkedAfter, LinkedGrows DEF NodesOK, SameNext
<1>3. StillLinked'
  BY <1>2, NameFacts DEF NodesOK, StillLinked, Unmarked, SameNext
<1> QED BY <1>1, <1>3

\* a step that changes no key, value or next leaves the nodes as they should be
LEMMA QuietNodes ==
  ASSUME TypeOK, TypeOK', NodesOK, Quiet PROVE NodesOK'
<1>1. Ordered' /\ StillLinked'
  BY NextsKept, NameFacts DEF Quiet
<1> USE NameFacts, NodeNames DEF Quiet, SameKey, SameVal, SameNext, SamePrev, Used
<1>2. WayBack'
  BY DEF NodesOK, WayBack
<1>3. Fixtures'
  BY DEF NodesOK, Fixtures, Unmarked, HeadNode
<1> QED BY <1>1, <1>2, <1>3 DEF NodesOK

\* so does the compare-and-swap of a value
LEMMA ValuedNodes ==
  ASSUME TypeOK, TypeOK', NodesOK, NEW v \in Used, Valued(v) PROVE NodesOK'
<1>1. Ordered' /\ StillLinked'
  BY NextsKept, NameFacts DEF Valued, Dead
<1> USE NameFacts, NodeNames DEF Valued, SameKey, SameVal, SameNext, SamePrev, Used
<1>2. WayBack'
  BY DEF NodesOK, WayBack
<1>3. Fixtures'
  BY DEF NodesOK, Fixtures, Unmarked, HeadNode
<1> QED BY <1>1, <1>2, <1>3 DEF NodesOK

\* so does the store of a prev field
LEMMA BackLinkedNodes ==
  ASSUME TypeOK, TypeOK', NodesOK, NEW l \in 1 .. used, NEW r \in 1 .. used, BackLinked(l, r)
  PROVE  NodesOK'
<1>1. Ordered' /\ StillLinked'
  BY NextsKept, NameFacts DEF BackLinked
<1> USE NameFacts, NodeNames DEF BackLinked, SameKey, SameVal, SameNext, SamePrev, Used
<1>2. WayBack'
  BY DEF NodesOK, WayBack
<1>3. Fixtures'
  BY DEF NodesOK, Fixtures, Unmarked, HeadNode
<1> QED BY <1>1, <1>2, <1>3 DEF NodesOK

\* so does the compare-and-swap that links a new node
LEMMA PublishedNodes ==
  ASSUME TypeOK, TypeOK', NodesOK, NEW l \in Used, NEW r \in (1 .. used) \cup {Null},
         NEW w, Published(l, r, w)
  PROVE  NodesOK'
<1>0. /\ used \in Nat /\ w = used + 1 /\ used' = w /\ w \in Inserted /\ w \in 1 .. used'
      /\ l \in Names /\ l # w /\ Owner(l) = l /\ ~IsMarker(l) /\ ~IsMarker(r) /\ ~IsMarker(w)
      /\ w # Null /\ w \in Names /\ Owner(w) = w
      /\ heap[w].next = Null /\ heap[Marker(w)].next = Null
      /\ heap[l].next = r
  BY NameFacts, NodeNames DEF NodesOK, Fixtures, Unmarked, Published, Used, IsMarker, Owner
<1>1. Ordered'
  <2> SUFFICES ASSUME NEW n \in Names PROVE InOrder(n)'
    BY OrderedIs
  <2>1. CASE n = l
    BY <1>0, <2>1 DEF Published, InOrder, SameKey
  <2>2. CASE n = w
    BY <1>0, <2>2, NameFacts DEF Published, InOrder, SameKey
  <2>3. CASE n # l /\ n # w
    <3>1. InOrder(n) /\ Owner(n) \in Names
      BY OrderedIs, NodeNames DEF NodesOK, Owner
    <3>2. Owner(n) = w => n = Marker(w)
      BY <1>0, <2>3, NodeNames DEF Owner, Marker
    <3>3. heap[n].next # Null => SameKey(Owner(n))
      BY <1>0, <3>1, <3>2 DEF Published
    <3>4. SameNext(n) /\ used' >= used
      BY <1>0, <2>3 DEF Published
    <3>5. \A m \in Used : SameKey(m) /\ SameVal(m)
      BY <1>0, NameFacts DEF Published, Used
    <3> QED BY <3>1, <3>3, <3>4, <3>5, InOrderKept, NameFacts DEF Used
  <2> QED BY <2>1, <2>2, <2>3
<1>2. Linked \subseteq Linked'
  <2> SUFFICES ASSUME NEW n \in Linked', heap[n].next # Null PROVE heap[n].next \in Linked'
    BY <1>1, LinkedGrows DEF NodesOK
  <2>1. CASE n = l
    <3>1. w \in Linked'
      BY <1>0, <1>1, <2>1, LinkedAfter DEF Published
    <3> QED BY <1>0, <1>1, <2>1, <3>1, LinkedAfter DEF Published
  <2>2. CASE n # l
    BY <1>0, <1>1, <2>2, LinkedAfter DEF Published, SameNext
  <2> QED BY <2>1, <2>2
<1>3. StillLinked'
  <2>1. l \in Linked
    BY <1>0, LinkedIs DEF NodesOK, StillLinked, Unmarked, Used, HeadNode
  <2>2. w \in Linked'
    BY <1>0, <1>1, <1>2, <2>1, LinkedAfter DEF Published
  <2>3. ASSUME NEW n \in 1 .. used, Unmarked(n)' PROVE n \in Linked'
    <3>1. Unmarked(n)
      BY <1>0, <2>3, NameFacts DEF Published, SameNext, Unmarked
    <3> QED BY <1>2, <3>1 DEF NodesOK, StillLinked
  <2>4. \A n \in 1 .. used' : n = w \/ n \in 1 .. used
    BY <1>0
  <2> QED BY <2>2, <2>3, <2>4 DEF StillLinked
<1>4. WayBack'
  <2> SUFFICES ASSUME NEW n \in 1 .. used'
               PROVE  heap'[n].prev \in 0 .. used' /\ heap'[heap'[n].prev].key < heap'[n].key
    BY DEF WayBack
  <2>1. CASE n = w
    BY <1>0, <2>1 DEF Published, SameKey, Used
  <2>2. CASE n # w
    <3>1. n \in 1 .. used /\ n \in Names /\ heap[n].prev \in Used /\ heap[n].prev \in Names
      BY <1>0, <2>2, NameFacts DEF NodesOK, WayBack, Used
    <3>2. heap[n].prev # w
      BY <1>0, <3>1 DEF Used
    <3> QED BY <1>0, <2>2, <3>1, <3>2 DEF NodesOK, WayBack, Published, SameKey, SamePrev, Used
  <2> QED BY <2>1, <2>2
<1>5. Fixtures'
  <2> USE DEF NodesOK, Fixtures
  <2>1. heap'[HeadNode].val # Self /\ heap'[HeadNode].key = 0
    BY <1>0, NodeNames DEF Published, SameVal, SameKey, HeadNode
  <2>2. ASSUME NEW n \in 1 .. used' PROVE heap'[n].key > 0
    <3>1. heap'[w].key > heap[l].key /\ heap'[w].key \in Nat /\ heap[l].key \in Nat
      BY <1>0 DEF Published, TypeOK, NodeType
    <3>2. CASE n = w
      BY <3>1, <3>2
    <3>3. CASE n # w
      BY <1>0, <3>3, NameFacts DEF Published, SameKey
    <3> QED BY <3>2, <3>3
  <2>3. \A n \in Names : IsMarker(n) => heap'[n].val = Self
    BY <1>0 DEF Published, SameVal
  <2>4. ASSUME NEW n \in Inserted, n > used' PROVE heap'[n].val = Self /\ heap'[n].next = Null
    <3>1. n # l /\ n # w /\ n \in Names /\ n > used
      BY <1>0, <2>4, NameFacts DEF Used, Inserted
    <3> QED BY <3>1 DEF Published, SameVal, SameNext
  <2>5. ASSUME NEW n \in Inserted, Unmarked(n)' PROVE heap'[Marker(n)].next = Null
    <3>1. Marker(n) # l /\ Marker(n) # w /\ Marker(n) \in Names /\ n \in Names
      BY <1>0, NameFacts
    <3>2. Unmarked(n)
      <4>1. CASE n = l \/ n = w
        BY <1>0, <4>1, NameFacts DEF Unmarked
      <4>2. CASE n # l /\ n # w
        BY <2>5, <3>1, <4>2 DEF Published, SameNext, Unmarked
      <4> QED BY <4>1, <4>2
    <3> QED BY <3>1, <3>2 DEF Published, SameNext
  <2> QED BY <2>1, <2>2, <2>3, <2>4, <2>5
<1> QED BY <1>1, <1>3, <1>4, <1>5 DEF NodesOK

\* so does the compare-and-swap that links a marker behind a removed node
LEMMA MarkedNodes ==
  ASSUME TypeOK, TypeOK', NodesOK, NEW d \in 1 .. used, Marked(d) PROVE NodesOK'
<1> DEFINE m == Marker(d)
<1>0. /\ used \in Nat /\ used' = used /\ d \in Names /\ m \in Names /\ d # m
      /\ IsMarker(m) /\ ~IsMarker(d) /\ Owner(m) = d /\ Owner(d) = d /\ d \in Inserted
      /\ ~IsMarker(heap[d].next) /\ heap[m].next = Null
      /\ heap'[d].next = m /\ heap'[m].next = heap[d].next
  BY NameFacts DEF NodesOK, Fixtures, Unmarked, Marked, Used
<1>k. /\ \A n \in Names : SameKey(n) /\ SameVal(n)
      /\ \A n \in Names : n # m => SamePrev(n)
      /\ \A n \in Names : n # d /\ n # m => SameNext(n)
      /\ Dead(d)
  BY DEF Marked
<1> HIDE DEF m
<1>1. Ordered'
  <2> SUFFICES ASSUME NEW n \in Names PROVE InOrder(n)'
    BY OrderedIs
  <2>1. CASE n = d
    BY <1>0, <1>k, <2>1 DEF InOrder, SameVal, Dead, m
  <2>2. CASE n = m
    <3>1. InOrder(d)
      BY <1>0, OrderedIs DEF NodesOK
    <3> QED BY <1>0, <1>k, <2>2, <3>1, NameFacts DEF InOrder, SameKey
  <2>3. CASE n # d /\ n # m
    <3>1. InOrder(n) /\ Owner(n) \in Names
      BY OrderedIs, NodeNames DEF NodesOK, Owner
    <3>2. SameNext(n) /\ SameKey(Owner(n))
      BY <1>k, <2>3, <3>1
    <3>u. used' >= used
      BY <1>0
    <3>3. \A i \in Used : SameKey(i) /\ SameVal(i)
      BY <1>k, NameFacts
    <3>4. \A i \in 1 .. used : Dead(i) => SameVal(i)
      BY <1>k, NameFacts
    <3> QED BY <3>1, <3>2, <3>u, <3>3, <3>4, InOrderKept
  <2> QED BY <2>1, <2>2, <2>3
<1>2. Linked \subseteq Linked'
  <2> SUFFICES ASSUME NEW n \in Linked', heap[n].next # Null PROVE heap[n].next \in Linked'
    BY <1>1, LinkedGrows DEF NodesOK
  <2>1. CASE n = d
    <3>1. m \in Linked'
      BY <1>0, <1>1, <2>1, LinkedAfter, NodeNames
    <3> QED BY <1>0, <1>1, <2>1, <3>1, LinkedAfter
  <2>2. CASE n # d
    <3>1. n # m /\ n \in Names
      BY <1>0, <1>1, LinkedAfter
    <3> QED BY <1>1, <1>k, <2>2, <3>1, LinkedAfter DEF SameNext
  <2> QED BY <2>1, <2>2
<1>3. StillLinked'
  <2> SUFFICES ASSUME NEW n \in 1 .. used, Unmarked(n)' PROVE n \in Linked'
    BY <1>0 DEF StillLinked
  <2>1. n # d /\ n # m /\ n \in Names
    BY <1>0, NameFacts DEF Unmarked
  <2>2. Unmarked(n)
    BY <1>k, <2>1 DEF Unmarked, SameNext
  <2> QED BY <1>2, <2>2 DEF NodesOK, StillLinked
<1>4. WayBack'
  <2> SUFFICES ASSUME NEW n \in 1 .. used
               PROVE  heap'[n].prev \in 0 .. used /\ heap'[heap'[n].prev].key < heap'[n].key
    BY <1>0 DEF WayBack
  <2>1. n \in Names /\ n # m /\ heap[n].prev \in Names
    BY <1>0, NameFacts DEF NodesOK, WayBack, Used
  <2> QED BY <1>k, <2>1 DEF NodesOK, WayBack, SameKey, SamePrev
<1>5. Fixtures'
  <2> USE DEF NodesOK, Fixtures
  <2>1. heap'[HeadNode].val # Self /\ heap'[HeadNode].key = 0
    BY <1>k, NodeNames DEF SameVal, SameKey, HeadNode
  <2>2. \A n \in 1 .. used' : heap'[n].key > 0
    BY <1>0, <1>k, NameFacts DEF SameKey, Used
  <2>3. \A n \in Names : IsMarker(n) => heap'[n].val = Self
    BY <1>k DEF SameVal
  <2>4. ASSUME NEW n \in Inserted, n > used' PROVE heap'[n].val = Self /\ heap'[n].next = Null
    <3>1. n # d /\ n # m /\ n \in Names
      BY <1>0, <2>4, NameFacts DEF Inserted, IsMarker
    <3> QED BY <1>0, <1>k, <2>4, <3>1 DEF SameVal, SameNext
  <2>5. ASSUME NEW n \in Inserted, Unmarked(n)' PROVE heap'[Marker(n)].next = Null
    <3>1. n # d /\ n # m /\ n \in Names /\ Marker(n) \in Names
      <4>1. n # d
        BY <1>0, <2>5 DEF Unmarked
      <4> QED BY <1>0, <4>1, NameFacts
    <3>2. Marker(n) # d /\ Marker(n) # m
      BY <1>0, <3>1, NameFacts
    <3> QED BY <1>k, <2>5, <3>1, <3>2 DEF SameNext, Unmarked
  <2> QED BY <2>1, <2>2, <2>3, <2>4, <2>5
<1> QED BY <1>1, <1>3, <1>4, <1>5 DEF NodesOK

\* so does the compare-and-swap that takes a marked node and its marker off the list
LEMMA UnlinkedNodes ==
  ASSUME TypeOK, TypeOK', NodesOK, NEW l \in Names, NEW d \in 1 .. used, Unlinked(l, d)
  PROVE  NodesOK'
<1> DEFINE m == Marker(d)
           b == heap[m].next
<1>0. /\ used \in Nat /\ used' = used /\ d \in Names /\ m \in Names /\ l # m
      /\ IsMarker(m) /\ Owner(m) = d /\ Owner(l) = l /\ Owner(d) = d /\ ~IsMarker(d)
      /\ heap[d].next = m /\ heap[l].next = d /\ heap'[l].next = b /\ d # Null
  BY NameFacts, MarkerOf DEF NodesOK, Unlinked, Used
<1>k. /\ \A n \in Names : SameKey(n) /\ SameVal(n) /\ SamePrev(n)
      /\ \A n \in Names : n # l => SameNext(n)
  BY DEF Unlinked
<1>b. ~IsMarker(b) /\ (b # Null => b \in 1 .. used /\ heap[b].key > heap[d].key)
  <2>1. InOrder(m)
    BY <1>0, OrderedIs DEF NodesOK
  <2> QED BY <1>0, <2>1, NameFacts DEF InOrder, Used
<1>l. heap[l].key < heap[d].key /\ heap[l].key \in Nat /\ heap[d].key \in Nat
  <2>1. InOrder(l)
    BY OrderedIs DEF NodesOK
  <2> QED BY <1>0, <2>1, NameFacts DEF InOrder
<1>n. l \in Used
  <2>1. l < 0 \/ l = 0 \/ l \in 1 .. used \/ (l \in Inserted /\ l > used)
    BY <1>0, NodeNames DEF Names, Inserted
  <2> QED BY <1>0, <2>1 DEF NodesOK, Fixtures, Used, Unlinked, IsMarker
<1> HIDE DEF m, b
<1>1. Ordered'
  <2> SUFFICES ASSUME NEW n \in Names PROVE InOrder(n)'
    BY OrderedIs
  <2>1. CASE n = l
    <3>1. CASE b = Null
      BY <1>0, <2>1, <3>1 DEF InOrder
    <3>2. CASE b # Null
      <4>1. b \in 1 .. used' /\ b \in Names
        BY <1>0, <1>b, <3>2, NameFacts DEF Used
      <4>2. heap'[b].key = heap[b].key /\ heap'[l].key = heap[l].key /\ heap[b].key \in Nat
        BY <1>k, <4>1, NameFacts DEF SameKey
      <4>3. heap'[b].key > heap'[l].key
        BY <1>b, <1>l, <3>2, <4>2
      <4> QED BY <1>0, <1>b, <2>1, <4>1, <4>3 DEF InOrder
    <3> QED BY <3>1, <3>2
  <2>2. CASE n # l
    <3>1. InOrder(n) /\ Owner(n) \in Names
      BY OrderedIs, NodeNames DEF NodesOK, Owner
    <3>2. SameNext(n) /\ SameKey(Owner(n))
      BY <1>k, <2>2, <3>1
    <3>u. used' >= used
      BY <1>0
    <3>3. \A i \in Used : SameKey(i) /\ SameVal(i)
      BY <1>k, NameFacts
    <3>4. \A i \in 1 .. used : Dead(i) => SameVal(i)
      BY <1>k, NameFacts
    <3> QED BY <3>1, <3>2, <3>u, <3>3, <3>4, InOrderKept
  <2> QED BY <2>1, <2>2
\* only the node and its marker go
<1>2. Linked \subseteq Linked' \cup {d, m}
  <2> DEFINE X == IF l \in Linked' THEN {d, m} ELSE {}
  <2>1. X \in SUBSET Names
    BY <1>0
  <2>2. ASSUME NEW n \in Linked' \cup X, heap[n].next # Null
        PROVE  heap[n].next \in Linked' \cup X
    <3>1. CASE n = l
      BY <1>0, <2>2, <3>1
    <3>2. CASE n = d /\ l \in Linked'
      BY <1>0, <3>2
    <3>3. CASE n = m /\ l \in Linked'
      BY <1>0, <1>1, <2>2, <3>3, LinkedAfter DEF b
    <3>4. CASE n \in Linked' /\ n # l
      BY <1>k, <1>1, <2>2, <3>4, LinkedAfter DEF SameNext
    <3> QED BY <2>2, <3>1, <3>2, <3>3, <3>4
  <2>3. Linked \subseteq Linked' \cup X
    <3> HIDE DEF X
    <3> QED BY <1>1, <2>1, <2>2, LinkedStill DEF NodesOK
  <2> QED BY <2>3
<1>3. StillLinked'
  <2> SUFFICES ASSUME NEW n \in 1 .. used, Unmarked(n)' PROVE n \in Linked'
    BY <1>0 DEF StillLinked
  <2>1. n \in Names /\ ~IsMarker(n) /\ n # m
    BY <1>0, NameFacts
  <2>2. Unmarked(n)
    <3>1. CASE n = l
      BY <1>0, <3>1 DEF Unmarked
    <3>2. CASE n # l
      BY <1>k, <2>1, <3>2 DEF Unmarked, SameNext
    <3> QED BY <3>1, <3>2
  <2>3. n # d
    BY <1>0, <2>2 DEF Unmarked
  <2> QED BY <1>2, <2>1, <2>2, <2>3 DEF NodesOK, StillLinked
<1>4. WayBack'
  <2> SUFFICES ASSUME NEW n \in 1 .. used
               PROVE  heap'[n].prev \in 0 .. used /\ heap'[heap'[n].prev].key < heap'[n].key
    BY <1>0 DEF WayBack
  <2>1. n \in Names /\ heap[n].prev \in Names
    BY <1>0, NameFacts DEF NodesOK, WayBack, Used
  <2> QED BY <1>k, <2>1 DEF NodesOK, WayBack, SameKey, SamePrev
<1>5. Fixtures'
  <2> USE DEF NodesOK, Fixtures
  <2>1. heap'[HeadNode].val # Self /\ heap'[HeadNode].key = 0
    BY <1>k, NodeNames DEF SameVal, SameKey, HeadNode
  <2>2. \A n \in 1 .. used' : heap'[n].key > 0
    BY <1>0, <1>k, NameFacts DEF SameKey, Used
  <2>3. \A n \in Names : IsMarker(n) => heap'[n].val = Self
    BY <1>k DEF SameVal
  <2>4. ASSUME NEW n \in Inserted, n > used' PROVE heap'[n].val = Self /\ heap'[n].next = Null
    <3>1. n # l /\ n \in Names
      BY <1>0, <1>n, <2>4, NameFacts DEF Inserted, Used
    <3> QED BY <1>0, <1>k, <2>4, <3>1 DEF SameVal, SameNext
  <2>5. ASSUME NEW n \in Inserted, Unmarked(n)' PROVE heap'[Marker(n)].next = Null
    <3>1. n \in Names /\ Marker(n) \in Names /\ Marker(n) # l
      BY <1>0, NameFacts DEF Unlinked
    <3>2. Unmarked(n)
      <4>1. CASE n = l
        BY <1>0, <4>1 DEF Unmarked
      <4>2. CASE n # l
        BY <1>k, <2>5, <3>1, <4>2 DEF Unmarked, SameNext
      <4> QED BY <4>1, <4>2
    <3> QED BY <1>k, <3>1, <3>2 DEF SameNext
  <2> QED BY <2>1, <2>2, <2>3, <2>4, <2>5
<1> QED BY <1>1, <1>3, <1>4, <1>5 DEF NodesOK

\* every effect leaves the nodes as they should be
LEMMA EffectNodes ==
  ASSUME TypeOK, TypeOK', NodesOK, Effect PROVE NodesOK'
BY QuietNodes, ValuedNodes, PublishedNodes, BackLinkedNodes, MarkedNodes, UnlinkedNodes DEF Effect

-------------------------------------------------------------------------------
(* Every effect leaves removed nodes removed                               *)

\* no effect changes the key of a node, or the value of a removed one
LEMMA EffectValues ==
  ASSUME TypeOK, NodesOK, Effect
  PROVE  /\ used' \in Nat /\ used' >= used
         /\ \A n \in Used : SameKey(n)
         /\ \A n \in 1 .. used : Dead(n) => SameVal(n)
<1> USE NameFacts DEF Dead
<1>1. CASE Quiet
  BY <1>1 DEF Quiet
<1>2. CASE \E v \in Used : Valued(v)
  BY <1>2 DEF Valued
<1>3. CASE \E l \in Used, r \in (1 .. used) \cup {Null} : Published(l, r, used + 1)
  BY <1>3 DEF Published, Used
<1>4. CASE \E l, r \in 1 .. used : BackLinked(l, r)
  BY <1>4 DEF BackLinked
<1>5. CASE \E d \in 1 .. used : Marked(d)
  BY <1>5 DEF Marked
<1>6. CASE \E l \in Names, d \in 1 .. used : Unlinked(l, d)
  BY <1>6 DEF Unlinked
<1> QED BY <1>1, <1>2, <1>3, <1>4, <1>5, <1>6 DEF Effect

\* the next fields of a removed node and of its marker stay once the marker is there
LEMMA EffectSeals ==
  ASSUME TypeOK, NodesOK, Effect, NEW n \in 1 .. used, Dead(n)
  PROVE  Sealed(n)
<1> SUFFICES ASSUME IsMarker(heap[n].next) PROVE SameNext(n) /\ SameNext(Marker(n))
  BY DEF Sealed, SameNext
<1>0. /\ n \in Names /\ Marker(n) \in Names /\ n \in Inserted
      /\ ~IsMarker(n) /\ IsMarker(Marker(n)) /\ Owner(Marker(n)) = n /\ used \in Nat
  BY NameFacts
<1>1. CASE Quiet
  BY <1>0, <1>1 DEF Quiet
<1>2. CASE \E v \in Used : Valued(v)
  BY <1>0, <1>2 DEF Valued
<1>3. CASE \E l \in Used, r \in (1 .. used) \cup {Null} : Published(l, r, used + 1)
  <2>1. PICK l \in Used, r \in (1 .. used) \cup {Null} : Published(l, r, used + 1)
    BY <1>3
  <2>2. ~IsMarker(r) /\ ~IsMarker(l) /\ ~IsMarker(used + 1) /\ n # used + 1
    BY <1>0, NameFacts DEF Used, IsMarker
  <2>3. n # l
    BY <2>1, <2>2 DEF Published
  <2> QED BY <1>0, <2>1, <2>2, <2>3 DEF Published
<1>4. CASE \E l, r \in 1 .. used : BackLinked(l, r)
  BY <1>0, <1>4 DEF BackLinked
<1>5. CASE \E d \in 1 .. used : Marked(d)
  <2>1. PICK d \in 1 .. used : Marked(d)
    BY <1>5
  <2>2. n # d
    BY <2>1 DEF Marked, Unmarked
  <2>3. n # Marker(d) /\ Marker(n) # d /\ Marker(n) # Marker(d)
    BY <1>0, <2>2, NameFacts
  <2> QED BY <1>0, <2>1, <2>2, <2>3 DEF Marked
<1>6. CASE \E l \in Names, d \in 1 .. used : Unlinked(l, d)
  <2>1. PICK l \in Names, d \in 1 .. used : Unlinked(l, d)
    BY <1>6
  <2>2. n # l /\ Marker(n) # l
    BY <1>0, <2>1, NameFacts DEF Unlinked
  <2> QED BY <1>0, <2>1, <2>2 DEF Unlinked
<1> QED BY <1>1, <1>2, <1>3, <1>4, <1>5, <1>6 DEF Effect

\* no effect makes a linked node lead to one that is off the list
LEMMA EffectOffTheList ==
  ASSUME TypeOK, NodesOK, Effect, NEW n \in 1 .. used, OffTheList(n), NEW m \in Linked
  PROVE  heap'[m].next # n
<1>0. /\ n \in Names /\ ~IsMarker(n) /\ n \in Inserted /\ m \in Names /\ used \in Nat
      /\ Closed(Linked) /\ \A i \in Linked : heap[i].next # n
  BY NameFacts, LinkedIs DEF NodesOK, OffTheList
<1>1. CASE Quiet
  BY <1>0, <1>1 DEF Quiet, SameNext
<1>2. CASE \E v \in Used : Valued(v)
  BY <1>0, <1>2 DEF Valued, SameNext
<1>3. CASE \E l \in Used, r \in (1 .. used) \cup {Null} : Published(l, r, used + 1)
  <2>1. PICK l \in Used, r \in (1 .. used) \cup {Null} : Published(l, r, used + 1)
    BY <1>3
  <2>2. l \in Linked
    <3>1. Unmarked(l)
      BY <2>1, NameFacts DEF Published, Unmarked, Used, IsMarker
    <3> QED BY <3>1, LinkedIs DEF NodesOK, StillLinked, Used, HeadNode
  <2>3. r # n
    BY <1>0, <2>1, <2>2 DEF Published
  <2>4. used + 1 # n
    BY <1>0
  <2> QED BY <1>0, <2>1, <2>3, <2>4 DEF Published, SameNext
<1>4. CASE \E l, r \in 1 .. used : BackLinked(l, r)
  BY <1>0, <1>4 DEF BackLinked, SameNext
<1>5. CASE \E d \in 1 .. used : Marked(d)
  <2>1. PICK d \in 1 .. used : Marked(d)
    BY <1>5
  <2>2. heap[d].next # n
    BY <1>0, <2>1 DEF Marked, NodesOK, StillLinked
  <2>3. Marker(d) # n
    BY <1>0, NameFacts
  <2> QED BY <1>0, <2>1, <2>2, <2>3 DEF Marked, SameNext
<1>6. CASE \E l \in Names, d \in 1 .. used : Unlinked(l, d)
  <2>1. PICK l \in Names, d \in 1 .. used : Unlinked(l, d)
    BY <1>6
  <2>2. CASE m = l
    <3>1. d \in Linked
      BY <1>0, <2>1, <2>2, NameFacts DEF Unlinked, Closed, Used
    <3>2. heap[d].next = Marker(d) /\ Marker(d) # Null
      BY <2>1, MarkerOf, NameFacts DEF Unlinked, NodesOK, Used
    <3>3. Marker(d) \in Linked
      BY <1>0, <3>1, <3>2 DEF Closed
    <3> QED BY <1>0, <2>1, <2>2, <3>3 DEF Unlinked
  <2>3. CASE m # l
    BY <1>0, <2>1, <2>3 DEF Unlinked, SameNext
  <2> QED BY <2>2, <2>3
<1> QED BY <1>1, <1>2, <1>3, <1>4, <1>5, <1>6 DEF Effect

\* a removed node stays removed under every effect
LEMMA EffectRemoved ==
  ASSUME TypeOK, NodesOK, Effect, NEW n \in 1 .. used, Dead(n)
  PROVE  StaysRemoved(n)
BY EffectValues, EffectSeals, EffectOffTheList DEF StaysRemoved, Dead, SameVal

===============================================================================
