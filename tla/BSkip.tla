-------------------------------- MODULE BSkip --------------------------------
(***************************************************************************)
(* The concurrent B-skiplist of bskiplist/bskip.h as a map: insert, value, *)
(* exists, map_range and map_range_length called by several threads.       *)
(*                                                                         *)
(* Height linked lists of nodes, each node sorted and below its right      *)
(* neighbour's header; a node of level l > 0 points down to nodes of level *)
(* l - 1 with the same headers.  A key is on the levels 0 .. LevelOf[key]. *)
(* Threads move right and down hand over hand: they lock the next node     *)
(* before they let the last one go.                                        *)
(*                                                                         *)
(* A node lock is the reader-writer lock of RWLockSpec, without the names  *)
(* of its holders (the code keeps none): writer[n] is its flag, readers[n] *)
(* the number inside for reading.  A step of a thread is a lock operation, *)
(* or all it does on the nodes it has locked up to the next lock           *)
(* operation that can block.                                               *)
(***************************************************************************)
EXTENDS BSkipNode, FiniteSets, Sequences

CONSTANTS Threads,
          Height,       \* MAX_HEIGHT
          LevelOf,      \* flip_coins: a hash of the key, so a function of it
          Work,         \* the rounds: the calls each thread makes in a round
          MaxInserts    \* bound on the inserts of each thread

ASSUME HeightAssumption == Height \in Nat /\ Height > 1

Levels == 0 .. Height - 1
Ops == {"insert", "value", "exists", "range", "length"}
\* arg is the value to insert, the max of map_range, the length of map_range_length
Calls == [op : Ops, key : 0 .. Inf - 1, arg : Nat]
None == [op |-> "none", key |-> 0, arg |-> 0]

ASSUME LevelAssumption == LevelOf \in [0 .. Inf - 1 -> Levels]
ASSUME WorkAssumption == /\ Work \in Seq([Threads -> SUBSET Calls])
                         /\ Len(Work) > 0
ASSUME MaxInsertsAssumption == MaxInserts \in [Threads -> Nat]

\* Node names: the sentinels of each level, and the node of each level that a
\* thread's i-th insert may allocate
Header(l) == <<"head", 0, l>>
EndSentinel(l) == <<"tail", 0, l>>
Nodes == ({"head", "tail"} \X {0} \X Levels) \cup
         UNION {{t} \X (1 .. MaxInserts[t]) \X Levels : t \in Threads}
Level(n) == n[3]
Pointers == Nodes \cup {Null}

VARIABLES heap,      \* the nodes
          writer,    \* the writer flag of each node's lock
          readers,   \* the readers inside each node's lock
          has_zero,
          pc,        \* idle, lock, drain, handover or visit
          call,      \* the call a thread is in
          phase,     \* search, again, down or scan
          curr,      \* curr_node
          prev,      \* parent_node or prev_node while it is still locked
          rank,      \* the rank found, kept across an unlock
          seen,      \* what f was applied to, in order
          left,      \* num_remaining of map_range_length
          ins,       \* inserts started
          ret,       \* the last result: 0 for NULL and false
          round, todo,
          must,      \* history: keys in the map when the call started
          known      \* history: keys exists has reported

locks == <<writer, readers>>
place == <<curr, prev>>
scans == <<seen, left>>
driver == <<ins, round, todo>>
history == <<must, known>>
vars == <<heap, locks, has_zero, pc, call, phase, place, rank, scans, ret, driver, history>>

Op(t) == call[t].op
K(t) == call[t].key
Promote(t) == LevelOf[K(t)]          \* level_to_promote
NewNode(t, l) == <<t, ins[t], l>>    \* new_nodes, and new_node of an overfull node

Leaves == {n \in Nodes : Level(n) = 0 /\ n # EndSentinel(0)}
Contents == (UNION {Keys(heap[n]) : n \in Leaves}) \ {0}

-------------------------------------------------------------------------------
(* The constructor                                                         *)

EmptyList(n) ==
  LET l == Level(n) IN
    CASE n = Header(l) -> [Blank EXCEPT !.num = 1, !.next = EndSentinel(l),
                            !.child[0] = IF l > 0 THEN Header(l - 1) ELSE Null]
      [] n = EndSentinel(l) -> [Blank EXCEPT !.num = 1, !.key[0] = Inf]
      [] OTHER -> Blank

Init == /\ heap = [n \in Nodes |-> EmptyList(n)]
        /\ writer = [n \in Nodes |-> FALSE]
        /\ readers = [n \in Nodes |-> 0]
        /\ has_zero = FALSE
        /\ pc = [t \in Threads |-> "idle"]
        /\ call = [t \in Threads |-> None]
        /\ phase = [t \in Threads |-> "search"]
        /\ curr = [t \in Threads |-> Null]
        /\ prev = [t \in Threads |-> Null]
        /\ rank = [t \in Threads |-> 0]
        /\ seen = [t \in Threads |-> <<>>]
        /\ left = [t \in Threads |-> 0]
        /\ ins = [t \in Threads |-> 0]
        /\ ret = [t \in Threads |-> 0]
        /\ round = 1
        /\ todo = Work[1]
        /\ must = [t \in Threads |-> {}]
        /\ known = {}

-------------------------------------------------------------------------------
(* Locks                                                                   *)

\* An insert locks for writing the nodes it may change: leaves, and on its way
\* down the levels it promotes the key to.  Everyone else locks for reading.
ForWriting(t, n) ==
  Op(t) = "insert" /\ (Level(n) = 0 \/ (phase[t] = "search" /\ Level(n) <= Promote(t)))

\* (faulty variant: always read_unlock)
UnlockAsReader(t, n) == readers' = [readers EXCEPT ![n] = @ - 1] /\ UNCHANGED writer

\* read_unlock and write_unlock
Unlock(t, n) ==
  IF ForWriting(t, n)
  THEN writer' = [writer EXCEPT ![n] = FALSE] /\ UNCHANGED readers
  ELSE readers' = [readers EXCEPT ![n] = @ - 1] /\ UNCHANGED writer

\* go and lock n while holding held
Approach(t, n, held) == /\ pc' = [pc EXCEPT ![t] = "lock"]
                        /\ curr' = [curr EXCEPT ![t] = n]
                        /\ prev' = [prev EXCEPT ![t] = held]

\* (faulty variant: releases a parent it does not have)
InsideWithParent(t) == pc' = [pc EXCEPT ![t] = "handover"]

Inside(t) == pc' = [pc EXCEPT ![t] = IF prev[t] = Null THEN "visit" ELSE "handover"]

ReadLock(t) == /\ pc[t] = "lock"
               /\ curr[t] # Null
               /\ ~ForWriting(t, curr[t])
               /\ ~writer[curr[t]]
               /\ readers' = [readers EXCEPT ![curr[t]] = @ + 1]
               /\ Inside(t)
               /\ UNCHANGED <<heap, writer, has_zero, call, phase, place, rank, scans,
                              ret, driver, history>>

\* write_lock: take the flag ...
WriteLock(t) == /\ pc[t] = "lock"
                /\ curr[t] # Null
                /\ ForWriting(t, curr[t])
                /\ ~writer[curr[t]]
                /\ writer' = [writer EXCEPT ![curr[t]] = TRUE]
                /\ pc' = [pc EXCEPT ![t] = "drain"]
                /\ UNCHANGED <<heap, readers, has_zero, call, phase, place, rank, scans,
                               ret, driver, history>>

\* (faulty variant: does not wait)
DrainIgnoringReaders(t) ==
  /\ pc[t] = "drain"
  /\ Inside(t)
  /\ UNCHANGED <<heap, locks, has_zero, call, phase, place, rank, scans, ret, driver, history>>

\* ... and wait for the readers that are inside
Drain(t) == /\ pc[t] = "drain"
            /\ readers[curr[t]] = 0
            /\ Inside(t)
            /\ UNCHANGED <<heap, locks, has_zero, call, phase, place, rank, scans, ret,
                           driver, history>>

\* (faulty variant: forgets to)
HandoverWithoutUnlock(t) ==
  /\ pc[t] = "handover"
  /\ prev' = [prev EXCEPT ![t] = Null]
  /\ pc' = [pc EXCEPT ![t] = "visit"]
  /\ UNCHANGED <<heap, locks, has_zero, call, phase, curr, rank, scans, ret, driver, history>>

\* release the parent or the left neighbour
Handover(t) == /\ pc[t] = "handover"
               /\ Unlock(t, prev[t])
               /\ prev' = [prev EXCEPT ![t] = Null]
               /\ pc' = [pc EXCEPT ![t] = "visit"]
               /\ UNCHANGED <<heap, has_zero, call, phase, curr, rank, scans, ret, driver,
                              history>>

-------------------------------------------------------------------------------
(* Calls                                                                   *)

EndCall(t) == /\ pc' = [pc EXCEPT ![t] = "idle"]
              /\ call' = [call EXCEPT ![t] = None]
              /\ phase' = [phase EXCEPT ![t] = "search"]
              /\ curr' = [curr EXCEPT ![t] = Null]
              /\ prev' = [prev EXCEPT ![t] = Null]
              /\ rank' = [rank EXCEPT ![t] = 0]
              /\ must' = [must EXCEPT ![t] = {}]
              /\ UNCHANGED <<has_zero, driver>>

Return(t, r) == /\ EndCall(t)
                /\ ret' = [ret EXCEPT ![t] = r]
                /\ known' = IF Op(t) = "exists" /\ r = 1 THEN known \cup {K(t)} ELSE known
                /\ UNCHANGED scans

\* what a call is bound to find: the keys in the leaves, and for a lookup those
\* that exists has reported
Promised(c) == Contents \cup (IF c.op \in {"value", "exists"} THEN known ELSE {})

Begin(t, c) == /\ pc[t] = "idle"
               /\ c \in todo[t]
               /\ todo' = [todo EXCEPT ![t] = @ \ {c}]
               /\ call' = [call EXCEPT ![t] = c]
               /\ must' = [must EXCEPT ![t] = Promised(c)]
               /\ Approach(t, Header(Height - 1), Null)
               /\ UNCHANGED <<heap, readers, has_zero, phase, rank, ret, round, known>>

StartRead(t) == \E c \in todo[t] :
  /\ c.op # "insert"
  /\ Begin(t, c)
  /\ seen' = [seen EXCEPT ![t] = <<>>]
  /\ left' = [left EXCEPT ![t] = IF c.op = "length" THEN c.arg ELSE 0]
  /\ UNCHANGED <<writer, ins>>

\* (faulty variant: the new nodes are not locked)
StartInsertUnlocked(t) == \E c \in todo[t] :
  /\ c.op = "insert"
  /\ c.key # 0
  /\ Begin(t, c)
  /\ ins[t] < MaxInserts[t]
  /\ ins' = [ins EXCEPT ![t] = @ + 1]
  /\ UNCHANGED <<writer, scans>>

\* allocate the nodes of the levels below the one the key is promoted to, and
\* lock them while nobody knows of them
StartInsert(t) == \E c \in todo[t] :
  /\ c.op = "insert"
  /\ c.key # 0
  /\ Begin(t, c)
  /\ ins[t] < MaxInserts[t]
  /\ ins' = [ins EXCEPT ![t] = @ + 1]
  /\ writer' = [n \in Nodes |->
       writer[n] \/ \E l \in 0 .. LevelOf[c.key] - 1 : n = <<t, ins[t] + 1, l>>]
  /\ UNCHANGED scans

\* insert of key 0, which stands for the front sentinel: the value is dropped
InsertZero(t) ==
  /\ pc[t] = "idle"
  /\ \E c \in todo[t] : /\ c.op = "insert"
                        /\ c.key = 0
                        /\ todo' = [todo EXCEPT ![t] = @ \ {c}]
  /\ has_zero' = TRUE
  /\ ret' = [ret EXCEPT ![t] = 1]
  /\ UNCHANGED <<heap, locks, pc, call, phase, place, rank, scans, ins, round, history>>

-------------------------------------------------------------------------------
(* The search                                                              *)

\* (faulty variant: starts again from the left, holding its node)
MoveRightFromHeader(t) ==
  /\ pc[t] = "visit"
  /\ phase[t] = "search"
  /\ heap[curr[t]].next_header <= K(t)
  /\ Approach(t, Header(Level(curr[t])), curr[t])
  /\ UNCHANGED <<heap, locks, has_zero, call, phase, rank, scans, ret, driver, history>>

MoveRight(t) == /\ pc[t] = "visit"
                /\ phase[t] = "search"
                /\ heap[curr[t]].next_header <= K(t)
                /\ Approach(t, heap[curr[t]].next, curr[t])
                /\ UNCHANGED <<heap, locks, has_zero, call, phase, rank, scans, ret, driver,
                               history>>

\* find_key_and_check returned r at the right node of a level
At(t, r) == /\ pc[t] = "visit"
            /\ phase[t] = "search"
            /\ heap[curr[t]].next_header > K(t)
            /\ IsRank(heap[curr[t]], K(t), r)

Hit(t, r) == heap[curr[t]].key[r] = K(t)

ChildAt(t, r) == heap[curr[t]].child[r]

\* drop down a level, holding the parent.  map_range goes on down even when it
\* has found its key.
Descend(t, r) == /\ At(t, r)
                 /\ Level(curr[t]) > 0
                 /\ ~Hit(t, r) \/ Op(t) = "range"
                 /\ Op(t) = "insert" => Promote(t) < Level(curr[t])
                 /\ Approach(t, ChildAt(t, r), curr[t])
                 /\ UNCHANGED <<heap, locks, has_zero, call, phase, rank, scans, ret, driver,
                                history>>

\* the key was found above the leaves: down to its leaf, through the first
\* child of every lower node
GoDown(t, r) == /\ Level(curr[t]) > 0
                /\ phase' = [phase EXCEPT ![t] = "down"]
                /\ Approach(t, ChildAt(t, r), curr[t])
                /\ UNCHANGED <<heap, locks, has_zero, call, rank, scans, ret, driver, history>>

\* value and map_range_length keep their lock on the node that has the key
ReaderFound(t, r) == /\ At(t, r)
                     /\ Hit(t, r)
                     /\ Op(t) \in {"value", "length"}
                     /\ GoDown(t, r)

\* map_range_length searches each node it comes down to; the others take rank 0
Down(t, r) == /\ pc[t] = "visit"
              /\ phase[t] = "down"
              /\ IF Op(t) = "length" THEN IsRank(heap[curr[t]], K(t), r) ELSE r = 0
              /\ GoDown(t, r)

-------------------------------------------------------------------------------
(* insert                                                                  *)

\* the new key, with its value or its child, at rank r of node; counted is
\* whether num_elts was incremented before the child was inserted
Place(t, node, l, r, counted) ==
  IF l = 0
  THEN [InsertEltAtRank(node, r, K(t), call[t].arg) EXCEPT !.num = @ + 1]
  ELSE IF counted
  THEN InsertChildAtRank([InsertKeyAtRank(node, r, K(t)) EXCEPT !.num = @ + 1],
                         r, NewNode(t, l - 1), TRUE)
  ELSE [InsertChildAtRank(InsertKeyAtRank(node, r, K(t)), r, NewNode(t, l - 1), FALSE)
          EXCEPT !.num = @ + 1]

\* insert ends at a leaf; above, it goes down holding the node held
EndOrDescend(t, child, held) ==
  IF Level(curr[t]) = 0
  THEN Return(t, 1)
  ELSE /\ Approach(t, child, held)
       /\ UNCHANGED <<has_zero, call, phase, rank, scans, ret, driver, history>>

Missing(t, r) == At(t, r) /\ Op(t) = "insert" /\ ~Hit(t, r)

\* (faulty variant: in front of the key found instead of behind it)
InsertHereBefore(t, r) ==
  LET n == curr[t] IN
  /\ Missing(t, r)
  /\ Promote(t) = Level(n)
  /\ heap[n].num + 1 <= MaxKeys
  /\ heap' = [heap EXCEPT ![n] = Place(t, @, Level(n), r, FALSE)]
  /\ IF Level(n) = 0 THEN Unlock(t, n) ELSE UNCHANGED locks
  /\ EndOrDescend(t, ChildAt(t, r), n)

\* (faulty variant: takes a full node for one with room)
InsertHereOverfull(t, r) ==
  LET n == curr[t] IN
  /\ Missing(t, r)
  /\ Promote(t) = Level(n)
  /\ heap[n].num <= MaxKeys
  /\ heap' = [heap EXCEPT ![n] = Place(t, @, Level(n), r + 1, FALSE)]
  /\ IF Level(n) = 0 THEN Unlock(t, n) ELSE UNCHANGED locks
  /\ EndOrDescend(t, ChildAt(t, r), n)

\* case 2 of insert, and the node has room
InsertHere(t, r) ==
  LET n == curr[t] IN
  /\ Missing(t, r)
  /\ Promote(t) = Level(n)
  /\ heap[n].num + 1 <= MaxKeys
  /\ heap' = [heap EXCEPT ![n] = Place(t, @, Level(n), r + 1, FALSE)]
  /\ IF Level(n) = 0 THEN Unlock(t, n) ELSE UNCHANGED locks
  /\ EndOrDescend(t, ChildAt(t, r), n)

\* the halves of a full node: the right one goes to a new node
Half(node) == node.num \div 2

\* (faulty variant: next_header is not updated)
LeftHalfOldNextHeader(node, new) == [SplitKeep(node, Half(node)) EXCEPT !.next = new]

LeftHalf(node, new) == [SplitKeep(node, Half(node)) EXCEPT
                          !.next = new, !.next_header = node.key[Half(node)]]

\* (faulty variants: the rest of the list is not linked; the children stay)
RightHalfUnlinked(node, blank) ==
  [MoveChildren(node, SplitGive(node, blank, Half(node), 0),
                Half(node), node.num - Half(node), 0)
     EXCEPT !.next_header = node.next_header]
RightHalfChildless(node, blank) ==
  [SplitGive(node, blank, Half(node), 0)
     EXCEPT !.next = node.next, !.next_header = node.next_header]

RightHalf(node, blank) ==
  [MoveChildren(node, SplitGive(node, blank, Half(node), 0),
                Half(node), node.num - Half(node), 0)
     EXCEPT !.next = node.next, !.next_header = node.next_header]

\* case 2, the node is full and the key belongs to the half that stays
InsertLeft(t, r) ==
  LET n == curr[t]
      new == NewNode(t, Level(n))
  IN /\ Missing(t, r)
     /\ Promote(t) = Level(n)
     /\ heap[n].num + 1 > MaxKeys
     /\ r + 1 <= Half(heap[n])
     /\ heap' = [heap EXCEPT ![new] = RightHalf(heap[n], @),
                             ![n] = Place(t, LeftHalf(@, new), Level(n), r + 1, TRUE)]
     /\ IF Level(n) = 0 THEN Unlock(t, n) ELSE UNCHANGED locks
     /\ EndOrDescend(t, ChildAt(t, r), n)

\* ... or to the half that moved: the insert goes on from the new node, locked
InsertRight(t, r) ==
  LET n == curr[t]
      new == NewNode(t, Level(n))
      at == r - Half(heap[n])
  IN /\ Missing(t, r)
     /\ Promote(t) = Level(n)
     /\ heap[n].num + 1 > MaxKeys
     /\ r + 1 > Half(heap[n])
     /\ heap' = [heap EXCEPT ![new] = Place(t, RightHalf(heap[n], @), Level(n), at + 1, TRUE),
                             ![n] = LeftHalf(@, new)]
     /\ writer' = [writer EXCEPT ![n] = FALSE, ![new] = Level(n) > 0]
     /\ UNCHANGED readers
     /\ EndOrDescend(t, ChildAt(t, r), new)

\* case 3: the key heads a new node that takes what is right of it
PromoteSplit(t, r) ==
  LET n == curr[t]
      l == Level(n)
      new == NewNode(t, l)
      moved == heap[n].num - (r + 1)
      first == Place(t, heap[new], l, 0, TRUE)
      given == SplitGive(heap[n], first, r + 1, 1)
      whole == IF l = 0 THEN given ELSE MoveChildren(heap[n], given, r + 1, moved, 1)
  IN /\ Missing(t, r)
     /\ Promote(t) > l
     /\ heap' = [heap EXCEPT
          ![new] = [whole EXCEPT !.next = heap[n].next, !.next_header = heap[n].next_header],
          ![n] = [SplitKeep(@, r + 1) EXCEPT !.next = new, !.next_header = K(t)]]
     /\ writer' = [writer EXCEPT ![new] = FALSE, ![n] = l > 0]
     /\ UNCHANGED readers
     /\ EndOrDescend(t, ChildAt(t, r), n)

\* The key is there already.  Its node is unlocked, and locked again to go on
\* with the rank found before.
InsertFound(t, r) == /\ At(t, r)
                     /\ Op(t) = "insert"
                     /\ Hit(t, r)
                     /\ Unlock(t, curr[t])
                     /\ phase' = [phase EXCEPT ![t] = "again"]
                     /\ rank' = [rank EXCEPT ![t] = r]
                     /\ pc' = [pc EXCEPT ![t] = "lock"]
                     /\ UNCHANGED <<heap, has_zero, call, place, scans, ret, driver, history>>

\* (faulty variant: through the first child)
AgainFirst(t) == /\ pc[t] = "visit"
                 /\ phase[t] = "again"
                 /\ GoDown(t, 0)

Again(t) == /\ pc[t] = "visit"
            /\ phase[t] = "again"
            /\ GoDown(t, rank[t])

\* change leaf value: blind_write at the rank kept, or at 0 after coming down
Overwrite(t) ==
  LET n == curr[t] IN
  /\ pc[t] = "visit"
  /\ Op(t) = "insert"
  /\ phase[t] \in {"again", "down"}
  /\ Level(n) = 0
  /\ heap' = [heap EXCEPT ![n] =
       BlindWrite(@, IF phase[t] = "again" THEN rank[t] ELSE 0, K(t), call[t].arg)]
  /\ Unlock(t, n)
  /\ Return(t, 1)

-------------------------------------------------------------------------------
(* value and exists                                                        *)

\* (faulty variant: the first value, wherever the key is)
ValueHitFirst(t, r) == /\ Op(t) = "value"
                       /\ Level(curr[t]) = 0
                       /\ \/ At(t, r) /\ Hit(t, r)
                          \/ pc[t] = "visit" /\ phase[t] = "down" /\ r = 0
                       /\ Return(t, heap[curr[t]].val[0])
                       /\ Unlock(t, curr[t])
                       /\ UNCHANGED heap

\* value at the leaf, with the key found there or on the way
ValueHit(t, r) == /\ Op(t) = "value"
                  /\ Level(curr[t]) = 0
                  /\ \/ At(t, r) /\ Hit(t, r)
                     \/ pc[t] = "visit" /\ phase[t] = "down" /\ r = 0
                  /\ Return(t, heap[curr[t]].val[r])
                  /\ Unlock(t, curr[t])
                  /\ UNCHANGED heap

ValueMiss(t, r) == /\ Op(t) = "value"
                   /\ At(t, r)
                   /\ ~Hit(t, r)
                   /\ Level(curr[t]) = 0
                   /\ Return(t, 0)
                   /\ Unlock(t, curr[t])
                   /\ UNCHANGED heap

\* (faulty variant: does not unlock)
ExistsHitKeepingLock(t, r) == /\ Op(t) = "exists"
                              /\ At(t, r)
                              /\ Hit(t, r)
                              /\ Return(t, 1)
                              /\ UNCHANGED <<heap, locks>>

\* find answers from the topmost node that has the key
ExistsHit(t, r) == /\ Op(t) = "exists"
                   /\ At(t, r)
                   /\ Hit(t, r)
                   /\ Return(t, 1)
                   /\ Unlock(t, curr[t])
                   /\ UNCHANGED heap

\* find returns NULL without unlocking the leaf
ExistsMiss(t, r) == /\ Op(t) = "exists"
                    /\ At(t, r)
                    /\ ~Hit(t, r)
                    /\ Level(curr[t]) = 0
                    /\ Return(t, 0)
                    /\ UNCHANGED <<heap, locks>>

-------------------------------------------------------------------------------
(* map_range and map_range_length, at the leaves                           *)

\* the rank a scan starts from.  map_range never notices that it found its key.
From(t, r) == \/ At(t, r) /\ Hit(t, r) /\ Op(t) = "length"
              \/ At(t, r - 1) /\ ~(Hit(t, r - 1) /\ Op(t) = "length")
              \/ pc[t] = "visit" /\ phase[t] = "down" /\ IsRank(heap[curr[t]], K(t), r)
              \/ pc[t] = "visit" /\ phase[t] = "scan" /\ r = 0

\* (faulty variant: up to the end of the node)
TakenToTheEnd(t, r) ==
  Cardinality({i \in Live(heap[curr[t]]) : i >= r /\ heap[curr[t]].key[i] # Inf})

\* how many elements of the node the scan takes from rank r on
Taken(t, r) ==
  LET node == heap[curr[t]]
      wanted == {i \in Live(node) : i >= r /\ \A j \in r .. i :
                   /\ node.key[j] # Inf
                   /\ IF Op(t) = "range" THEN node.key[j] <= call[t].arg ELSE j - r < left[t]}
  IN Cardinality(wanted)

Apply(t, r, n) ==
  seen' = [seen EXCEPT ![t] = @ \o [i \in 1 .. n |->
             <<heap[curr[t]].key[r + i - 1], heap[curr[t]].val[r + i - 1]>>]]

\* (faulty variant: the end of the node ends the scan)
MovesOnIfEmpty(t, r, n) == n = 0 /\ r = heap[curr[t]].num

\* map_range moves on when it has used up the node, map_range_length when it
\* wants more after that
MovesOn(t, r, n) == /\ r + n = heap[curr[t]].num
                    /\ Op(t) = "length" => (n = 0 \/ left[t] > n)

ScanOn(t, r) ==
  LET n == Taken(t, r) IN
  /\ Op(t) \in {"range", "length"}
  /\ Level(curr[t]) = 0
  /\ From(t, r)
  /\ MovesOn(t, r, n)
  /\ Apply(t, r, n)
  /\ left' = [left EXCEPT ![t] = IF Op(t) = "length" THEN @ - n ELSE @]
  /\ phase' = [phase EXCEPT ![t] = "scan"]
  /\ Approach(t, heap[curr[t]].next, curr[t])
  /\ UNCHANGED <<heap, locks, has_zero, call, rank, ret, driver, history>>

ScanEnd(t, r) ==
  LET n == Taken(t, r) IN
  /\ Op(t) \in {"range", "length"}
  /\ Level(curr[t]) = 0
  /\ From(t, r)
  /\ ~MovesOn(t, r, n)
  /\ Apply(t, r, n)
  /\ Unlock(t, curr[t])
  /\ EndCall(t)
  /\ UNCHANGED <<heap, left, ret, known>>

-------------------------------------------------------------------------------
(* Threads and rounds                                                      *)

AtNode(t, r) == \/ Descend(t, r) \/ ReaderFound(t, r) \/ Down(t, r)
                \/ InsertHere(t, r) \/ InsertLeft(t, r) \/ InsertRight(t, r)
                \/ PromoteSplit(t, r) \/ InsertFound(t, r)
                \/ ValueHit(t, r) \/ ValueMiss(t, r)
                \/ ExistsHit(t, r) \/ ExistsMiss(t, r)
                \/ ScanOn(t, r) \/ ScanEnd(t, r)

Step(t) == \/ StartRead(t) \/ StartInsert(t) \/ InsertZero(t)
           \/ ReadLock(t) \/ WriteLock(t) \/ Drain(t) \/ Handover(t)
           \/ MoveRight(t) \/ Again(t) \/ Overwrite(t)
           \/ \E r \in 0 .. MaxKeys : AtNode(t, r)

AllIdle == \A t \in Threads : pc[t] = "idle" /\ todo[t] = {}

\* parallel_for of the drivers joins its threads before the next one starts
NextRound == /\ AllIdle
             /\ round < Len(Work)
             /\ round' = round + 1
             /\ todo' = Work[round + 1]
             /\ UNCHANGED <<heap, locks, has_zero, pc, call, phase, place, rank, scans, ret,
                            ins, history>>

Finished == /\ AllIdle
            /\ round = Len(Work)
            /\ UNCHANGED vars

Next == (\E t \in Threads : Step(t)) \/ NextRound \/ Finished

Spec == Init /\ [][Next]_vars

\* the operating system runs every thread, and a lock that stays free is taken
FairSpec == Spec /\ \A t \in Threads : WF_vars(Step(t))

-------------------------------------------------------------------------------
(* Properties                                                              *)

TypeOK == /\ heap \in [Nodes -> NodeType(Pointers)]
          /\ writer \in [Nodes -> BOOLEAN]
          /\ readers \in [Nodes -> Int]
          /\ has_zero \in BOOLEAN
          /\ pc \in [Threads -> {"idle", "lock", "drain", "handover", "visit"}]
          /\ call \in [Threads -> Calls \cup {None}]
          /\ \A t \in Threads : pc[t] # "idle" => call[t] \in Calls
          /\ phase \in [Threads -> {"search", "again", "down", "scan"}]
          /\ curr \in [Threads -> Pointers]
          /\ \A t \in Threads : pc[t] \in {"drain", "handover", "visit"} => curr[t] \in Nodes
          /\ prev \in [Threads -> Pointers]
          /\ \A t \in Threads : pc[t] = "handover" => prev[t] \in Nodes
          /\ rank \in [Threads -> Slot]
          /\ seen \in [Threads -> Seq(AnyKey \X Nat)]
          /\ left \in [Threads -> Int]
          /\ ins \in [Threads -> Nat]
          /\ \A t \in Threads : ins[t] <= MaxInserts[t]
          /\ ret \in [Threads -> Nat]
          /\ round \in 1 .. Len(Work)
          /\ todo \in [Threads -> SUBSET Calls]
          /\ must \in [Threads -> SUBSET AnyKey]
          /\ known \in SUBSET AnyKey

InList(n) == heap[n].num > 0
IsTail(n) == n = EndSentinel(Level(n))
Nexts == {n \in Nodes : InList(n) /\ ~IsTail(n)}

(* No node outgrows its arrays (the asserts on MAX_KEYS in insert and in the *)
(* nodes): full nodes are split before they get a key, and the half or the   *)
(* tail that moves always finds its new node empty.                          *)
NodesFit == \A n \in Nodes : heap[n].num <= MaxKeys

(* The order validate_structure asserts, in every state and not only at     *)
(* rest: the keys of a node ascend, and so do the headers along a level.    *)
(* It is what every search relies on.                                      *)
KeysAscend ==
  \A n \in Nexts :
    /\ \A i, j \in Live(heap[n]) : i < j => heap[n].key[i] < heap[n].key[j]
    /\ GetHeader(heap[n]) < GetHeader(heap[heap[n].next])

(* next_header, which searches read instead of the neighbour, is the        *)
(* neighbour's header - what validate_structure counts violations of - and  *)
(* bounds the node's own keys: no split leaves it behind.                   *)
NextHeaderExact ==
  \A n \in Nexts :
    /\ heap[n].next_header = GetHeader(heap[heap[n].next])
    /\ \A k \in Keys(heap[n]) : k < heap[n].next_header

(* Every node that holds keys is on its level's list exactly once: splits   *)
(* of neighbours lose no node.                                             *)
ListsWhole ==
  \A n \in Nodes : InList(n) /\ n # Header(Level(n)) =>
    Cardinality({m \in Nexts : heap[m].next = n}) = 1

Doing(ops) == {t \in Threads : Op(t) \in ops}
Inserting(k) == {t \in Doing({"insert"}) : K(t) = k}

(* A down pointer leads to the node one level below with the same header    *)
(* (the tbassert on parent_rank in insert), or to the locked node the       *)
(* inserter of that key is about to fill.                                   *)
ChildAligned ==
  \A n \in {m \in Nexts : Level(m) > 0} : \A i \in Live(heap[n]) :
    LET c == heap[n].child[i] IN
      /\ c # Null /\ Level(c) = Level(n) - 1
      /\ IF InList(c)
         THEN GetHeader(heap[c]) = heap[n].key[i]
         ELSE writer[c] /\ \E t \in Inserting(heap[n].key[i]) : c = NewNode(t, Level(c))

(* A key of the leaves is on every level up to the one flip_coins gives it  *)
(* and on none above, unless its insert has not ended.                      *)
TowersWhole ==
  \A k \in 1 .. Inf - 1 : Inserting(k) = {} =>
    \A l \in Levels :
      (\E n \in Nodes : Level(n) = l /\ k \in Keys(heap[n])) <=>
        (k \in Contents /\ l <= LevelOf[k])

\* the nodes a thread has locked
Holding(t) == CASE pc[t] = "visit" -> {curr[t]}
                [] pc[t] = "handover" -> {curr[t], prev[t]}
                [] pc[t] \in {"lock", "drain"} -> {prev[t]} \ {Null}
                [] OTHER -> {}
Flagging(t) == Holding(t) \cup (IF pc[t] = "drain" THEN {curr[t]} ELSE {})

(* No lock is lost or released twice: a node counts as many readers as      *)
(* there are threads that have it locked for reading.                      *)
ReadersExact ==
  \A n \in Nodes :
    readers[n] = Cardinality({t \in Threads : n \in Holding(t) /\ ~ForWriting(t, n)})

(* ... and the writer flag of a node in a list is set exactly while one     *)
(* thread has locked it for writing or waits for its readers.               *)
WriterExact ==
  \A n \in Nodes : InList(n) =>
    Cardinality({t \in Threads : n \in Flagging(t) /\ ForWriting(t, n)}) =
      IF writer[n] THEN 1 ELSE 0

(* Nobody waits for a lock that comes before one it holds: from a node,     *)
(* threads lock only lower levels and, on a level, larger headers.  With    *)
(* the new nodes locked by the thread that fills them, no cycle of waiting  *)
(* threads can form.                                                       *)
LockOrder ==
  \A t \in Threads : pc[t] \in {"lock", "drain"} /\ prev[t] # Null =>
    /\ curr[t] # Null
    /\ \/ Level(curr[t]) < Level(prev[t])
       \/ /\ Level(curr[t]) = Level(prev[t])
          /\ GetHeader(heap[prev[t]]) < GetHeader(heap[curr[t]])

(* A search never passes its key: at each node it has locked, the header is *)
(* at most the key (the tbassert in insert, find and value), and below the  *)
(* node where the key was found it is the key.                              *)
SearchesStayLeft ==
  \A t \in Threads : pc[t] = "visit" =>
    /\ InList(curr[t])
    /\ phase[t] = "search" => GetHeader(heap[curr[t]]) <= K(t)
    /\ phase[t] = "down" => GetHeader(heap[curr[t]]) = K(t)

(* A node in a list is written only by a step of a thread that has it       *)
(* alone: no reader is inside.                                             *)
WritesAlone ==
  [][\A n \in Nodes : InList(n) /\ heap'[n] # heap[n] => writer[n] /\ readers[n] = 0]_vars

(* The header of a node in a list never changes and next_header only moves  *)
(* left, so what a thread read before it locked the next node still holds.  *)
HeadersFixed ==
  [][\A n \in Nodes : InList(n) =>
       /\ heap'[n].num > 0
       /\ GetHeader(heap'[n]) = GetHeader(heap[n])
       /\ heap'[n].next_header <= heap[n].next_header]_vars

(* No key of the leaves disappears: nothing deletes, and no insert writes   *)
(* over another key.                                                       *)
KeysStay == [][Contents \subseteq {k \in AnyKey : \E n \in Leaves : k \in Keys(heap'[n])}]_vars

Ends(t, ops) == t \in Doing(ops) /\ call'[t] = None

(* A lookup finds its key if the key was in a leaf, or exists had reported  *)
(* it, when the lookup started - whatever splits it meets on the way.       *)
NoStaleMiss ==
  [][\A t \in Threads : Ends(t, {"value", "exists"}) /\ K(t) \in must[t] => ret'[t] # 0]_vars

\* the keys a scan of call c that visited s was bound to visit, of those in m
Due(c, s, m) ==
  {k \in m : /\ k >= c.key
             /\ IF c.op = "range" THEN k <= c.arg
                ELSE Len(s) < c.arg \/ k <= s[Len(s)][1]}
Visited(s) == {s[i][1] : i \in 1 .. Len(s)}

(* A scan visits keys of its range, in ascending order, none twice, and no  *)
(* more than map_range_length asked for.                                    *)
ScansOrdered ==
  [][\A t \in Threads : Ends(t, {"range", "length"}) =>
       LET s == seen'[t] IN
         /\ \A i, j \in 1 .. Len(s) : i < j => s[i][1] < s[j][1]
         /\ \A k \in Visited(s) : k >= K(t) /\ k < Inf
         /\ IF Op(t) = "range" THEN \A k \in Visited(s) : k <= call[t].arg
            ELSE Len(s) <= call[t].arg]_vars

(* A scan misses no key of its range that was in the leaves when it         *)
(* started, though inserts split the nodes ahead of it and behind it.       *)
ScansComplete ==
  [][\A t \in Threads : Ends(t, {"range", "length"}) =>
       Due(call[t], seen'[t], must[t]) \subseteq Visited(seen'[t])]_vars

(* Key 0 is kept apart from the front sentinel that stands in for it:       *)
(* exists(0) is true only after 0 was inserted (the comment on has_zero).   *)
ZeroSeparate ==
  [][\A t \in Threads : Ends(t, {"exists"}) /\ K(t) = 0 /\ ret'[t] = 1 => has_zero]_vars

(* Every call ends: no thread waits for ever for a lock.                    *)
CallsEnd == \A t \in Threads : (call[t] # None) ~> (call[t] = None)

Pairs == UNION {{<<heap[n].key[i], heap[n].val[i]>> : i \in Live(heap[n])} : n \in Leaves}

PlannedCalls == UNION {UNION {Work[i][t] : t \in Threads} : i \in 1 .. Len(Work)}

Abstract == INSTANCE BSkipMap
  WITH Calls <- PlannedCalls, None <- None,
       map <- {p \in Pairs : p[1] # 0},
       call <- [t \in Threads |-> IF t \in Doing({"range", "length"}) THEN None ELSE call[t]]

(* insert, value and exists take effect at one moment each (BSkipMap).      *)
ImplementsMap == Abstract!Spec
===============================================================================
