------------------------------ MODULE NoHotSpot ------------------------------
(***************************************************************************)
(* The no-hot-spot skip list of nohotspot-skiplist: insert, delete and     *)
(* contains of several threads without locks (nohotspot_ops.cpp), and the  *)
(* background thread that alone removes nodes and keeps the index levels   *)
(* over them (background.cpp).                                             *)
(*                                                                         *)
(* A delete only makes the value of a node NULL, and an insert of the same *)
(* key gives it a value again.  The background thread makes NULL of a node *)
(* without index items point to the node itself, for good; then whoever    *)
(* meets the node puts a marker behind it and links its predecessor past   *)
(* both.  Nothing is reused: garbagecoll.cpp defines MINIMAL_GC.           *)
(*                                                                         *)
(* A step is one read or compare-and-swap of a field that others change,   *)
(* with what the thread does alone around it.  A read followed by a        *)
(* compare-and-swap of the same field that is tried until it succeeds is   *)
(* one step, and so is a test in front of a compare-and-swap of what it    *)
(* tests.                                                                  *)
(***************************************************************************)
EXTENDS Integers, FiniteSets, Sequences

CONSTANTS Threads, Bg,   \* the callers and the background thread
          Work,          \* the rounds: the calls each thread makes in a round
          Loops,         \* the loops of the background thread in each round
          Levels,        \* 0, or the levels of the index the driver rebuilds in a round
          MaxNodes,      \* bound on the nodes inserted
          MaxItems       \* bound on the index items

Calls == [op : {"insert", "delete", "exists"}, key : Nat \ {0}, arg : Nat]
None == [op |-> "none", key |-> 0, arg |-> 0]

ASSUME ActorsAssumption == Bg \notin Threads
ASSUME WorkAssumption == /\ Work \in Seq([Threads -> SUBSET Calls])
                         /\ Len(Work) > 0
                         /\ Loops \in [1 .. Len(Work) -> Nat]
                         /\ Levels \in [1 .. Len(Work) -> Nat]
\* sl_add_old inserts the key as the value, which is not NULL
ASSUME ValuesAssumption == \A i \in 1 .. Len(Work), t \in Threads : \A c \in Work[i][t] :
                             c.op = "insert" => c.arg > 0
ASSUME BoundsAssumption == MaxNodes \in Nat /\ MaxItems \in Nat \ {0}

Actors == Threads \cup {Bg}

\* Node names: 0 is the head, the nodes are numbered as they get into the list,
\* and -n is the marker behind node n
HeadNode == 0
Inserted == 1 .. MaxNodes
Marker(n) == -n
IsMarker(n) == n < 0
Names == -MaxNodes .. MaxNodes
Null == MaxNodes + 1
Items == 1 .. MaxItems
NoItem == 0

\* values: NULL, and the one that stands for a pointer to the node itself
NULL == 0
Self == -1

VARIABLES heap,    \* the nodes
          used,    \* nodes 1 .. used have been inserted
          idx,     \* the index items
          made,    \* items 1 .. made have been allocated
          top,     \* set->top
          pc,      \* where each actor is
          call,    \* the call a thread is in
          item,    \* the index item it is at
          left,    \* node of sl_do_operation, prev of the background thread
          right,   \* next of sl_do_operation, node of the background thread
          ahead,   \* next of bg_raise_nlevel
          nval,    \* node_val of sl_do_operation
          level,   \* the index level the background thread works on
          raised,  \* whether it has raised something there
          inodes,  \* the first item of each level, from the lowest up
          alive, tall,   \* bg_non_deleted, bg_tall_deleted
          ret,     \* the result of each thread's last call
          round, todo, loops,
          saw      \* history: the states the call's key has been in during the call

list == <<heap, used>>
index == <<idx, made, top>>
at == <<left, right>>
bg == <<ahead, level, raised, inodes, alive, tall>>
driver == <<round, todo, loops>>
vars == <<list, index, pc, call, item, at, nval, bg, ret, driver, saw>>

Op(t) == call[t].op
K(t) == call[t].key
Goto(a, where) == pc' = [pc EXCEPT ![a] = where]

\* the state of key k: the value of its node, or 0
InMap(h) == {n \in Inserted : h[n].val \notin {NULL, Self}}
StateOf(k, h) == IF \E n \in InMap(h) : h[n].key = k
                 THEN h[CHOOSE n \in InMap(h) : h[n].key = k].val ELSE 0

\* the history, kept up by every step
Watch == saw' = [t \in Threads |->
                   IF call'[t] = None THEN {} ELSE saw[t] \cup {StateOf(call'[t].key, heap')}]

Blank == [key |-> 0, val |-> Self, next |-> Null, prev |-> Null, level |-> 0]
NewHead == [key |-> 0, val |-> NULL, next |-> Null, prev |-> Null, level |-> 1]
BlankItem == [node |-> HeadNode, right |-> NoItem, down |-> NoItem]

\* set_new: a head of level 1 below one index item
Init == /\ heap = [n \in Names |-> IF n = HeadNode THEN NewHead ELSE Blank]
        /\ used = 0
        /\ idx = [i \in Items |-> BlankItem]
        /\ made = 1 /\ top = 1
        /\ pc = [a \in Actors |-> "idle"]
        /\ call = [t \in Threads |-> None]
        /\ item = [a \in Actors |-> NoItem]
        /\ left = [a \in Actors |-> Null]
        /\ right = [a \in Actors |-> Null]
        /\ nval = [t \in Threads |-> NULL]
        /\ ahead = Null /\ level = 0 /\ raised = FALSE /\ inodes = <<>> /\ alive = 0 /\ tall = 0
        /\ ret = [t \in Threads |-> 0]
        /\ round = 1
        /\ todo = Work[1]
        /\ loops = Loops[1]
        /\ saw = [t \in Threads |-> {}]

-------------------------------------------------------------------------------
(* Calls, and the way down the index                                       *)

Start(t) == \E c \in todo[t] :
  /\ pc[t] = "idle"
  /\ todo' = [todo EXCEPT ![t] = @ \ {c}]
  /\ call' = [call EXCEPT ![t] = c]
  /\ item' = [item EXCEPT ![t] = top]
  /\ Goto(t, "right")
  /\ UNCHANGED <<list, index, at, nval, bg, ret, round, loops>>
  /\ Watch

Return(t, r) == /\ Goto(t, "idle")
                /\ call' = [call EXCEPT ![t] = None]
                /\ ret' = [ret EXCEPT ![t] = r]
                /\ left' = [left EXCEPT ![t] = Null]
                /\ right' = [right EXCEPT ![t] = Null]
                /\ nval' = [nval EXCEPT ![t] = NULL]
                /\ UNCHANGED <<item, bg, driver>>

KeyOf(i) == heap[idx[i].node].key

\* leave the index at node n
Land(t, n) == /\ left' = [left EXCEPT ![t] = n]
              /\ item' = [item EXCEPT ![t] = NoItem]
              /\ Goto(t, "val")
              /\ UNCHANGED <<list, index, call, right, nval, bg, ret, driver>>
              /\ Watch

\* item->right: go on, or drop to the nodes in front of the key, or go down
GoRight(t) == LET r == idx[item[t]].right IN
  /\ pc[t] = "right"
  /\ IF r = NoItem \/ KeyOf(r) > K(t)
     THEN Goto(t, "down") /\ UNCHANGED item
     ELSE KeyOf(r) < K(t) /\ item' = [item EXCEPT ![t] = r] /\ UNCHANGED pc
  /\ UNCHANGED <<list, index, call, at, nval, bg, ret, driver>>
  /\ Watch

LandBefore(t) == LET r == idx[item[t]].right IN
  /\ pc[t] = "right"
  /\ r # NoItem
  /\ KeyOf(r) = K(t)
  /\ Land(t, idx[item[t]].node)

GoDown(t) == LET d == idx[item[t]].down IN
  /\ pc[t] = "down"
  /\ d # NoItem
  /\ item' = [item EXCEPT ![t] = d]
  /\ Goto(t, "right")
  /\ UNCHANGED <<list, index, call, at, nval, bg, ret, driver>>
  /\ Watch

LandBelow(t) == /\ pc[t] = "down"
                /\ idx[item[t]].down = NoItem
                /\ Land(t, idx[item[t]].node)

-------------------------------------------------------------------------------
(* Along the nodes                                                         *)

Dead(n) == heap[n].val = Self

\* the node is being removed: back to its predecessor
StepBack(t) == /\ pc[t] = "val"
               /\ Dead(left[t])
               /\ left' = [left EXCEPT ![t] = heap[left[t]].prev]
               /\ UNCHANGED <<list, index, pc, call, item, right, nval, bg, ret, driver>>
               /\ Watch

\* (faulty variant: whatever the value is)
ReadValAny(t) == /\ pc[t] = "val"
                 /\ nval' = [nval EXCEPT ![t] = heap[left[t]].val]
                 /\ Goto(t, "next")
                 /\ UNCHANGED <<list, index, call, item, at, bg, ret, driver>>
                 /\ Watch

ReadVal(t) == /\ pc[t] = "val"
              /\ ~Dead(left[t])
              /\ nval' = [nval EXCEPT ![t] = heap[left[t]].val]
              /\ Goto(t, "next")
              /\ UNCHANGED <<list, index, call, item, at, bg, ret, driver>>
              /\ Watch

ReadNext(t) == /\ pc[t] = "next"
               /\ right' = [right EXCEPT ![t] = heap[left[t]].next]
               /\ Goto(t, "check")
               /\ UNCHANGED <<list, index, call, item, left, nval, bg, ret, driver>>
               /\ Watch

\* (faulty variant: leaves the removal to the background thread)
MeetDeadOnly(t) == /\ pc[t] = "check"
                   /\ right[t] # Null
                   /\ Dead(right[t])
                   /\ Goto(t, "val")
                   /\ UNCHANGED <<list, index, call, item, at, nval, bg, ret, driver>>
                   /\ Watch

\* the next node is being removed: help (a marker is behind such a node; look again)
MeetDead(t) == /\ pc[t] = "check"
               /\ right[t] # Null
               /\ Dead(right[t])
               /\ Goto(t, IF IsMarker(right[t]) THEN "val" ELSE "mark")
               /\ UNCHANGED <<list, index, call, item, at, nval, bg, ret, driver>>
               /\ Watch

MoveOn(t) == /\ pc[t] = "check"
             /\ right[t] # Null
             /\ ~Dead(right[t])
             /\ heap[right[t]].key <= K(t)
             /\ left' = [left EXCEPT ![t] = right[t]]
             /\ Goto(t, "val")
             /\ UNCHANGED <<list, index, call, item, right, nval, bg, ret, driver>>
             /\ Watch

\* node and next are on either side of the key
Arrived(t) == /\ pc[t] = "check"
              /\ right[t] # Null => ~Dead(right[t]) /\ heap[right[t]].key > K(t)

Hit(t) == heap[left[t]].key = K(t)
Found(t) == Hit(t) /\ nval[t] # NULL

\* (faulty variant: any node with the key will do)
FinishContainsHit(t) == /\ Arrived(t)
                        /\ Op(t) = "exists"
                        /\ Return(t, IF Hit(t) THEN 1 ELSE 0)
                        /\ UNCHANGED <<list, index>>
                        /\ Watch

FinishContains(t) == /\ Arrived(t)
                     /\ Op(t) = "exists"
                     /\ Return(t, IF Found(t) THEN 1 ELSE 0)
                     /\ UNCHANGED <<list, index>>
                     /\ Watch

\* insert of a key that is there, delete of one that is not
FinishVain(t) == /\ Arrived(t)
                 /\ \/ Op(t) = "insert" /\ Found(t)
                    \/ Op(t) = "delete" /\ ~Found(t)
                 /\ Return(t, 0)
                 /\ UNCHANGED <<list, index>>
                 /\ Watch

\* everything else ends in a compare-and-swap
GoAct(t) == /\ Arrived(t)
            /\ \/ Op(t) = "insert" /\ ~Found(t)
               \/ Op(t) = "delete" /\ Found(t)
            /\ Goto(t, "act")
            /\ UNCHANGED <<list, index, call, item, at, nval, bg, ret, driver>>
            /\ Watch

-------------------------------------------------------------------------------
(* sl_finish_delete and sl_finish_insert                                   *)

Delete(t) == /\ pc[t] = "act"
             /\ Op(t) = "delete"
             /\ heap[left[t]].val \notin {NULL, Self}
             /\ heap' = [heap EXCEPT ![left[t]].val = NULL]
             /\ Return(t, 1)
             /\ UNCHANGED <<used, index>>
             /\ Watch

\* someone else has deleted it
DeleteLate(t) == /\ pc[t] = "act"
                 /\ Op(t) = "delete"
                 /\ heap[left[t]].val \in {NULL, Self}
                 /\ Return(t, 0)
                 /\ UNCHANGED <<list, index>>
                 /\ Watch

\* (faulty variant: a plain write where the compare-and-swap is)
ReviveBlindly(t) == /\ pc[t] = "act"
                    /\ Op(t) = "insert"
                    /\ Hit(t)
                    /\ heap' = [heap EXCEPT ![left[t]].val = call[t].arg]
                    /\ Return(t, 1)
                    /\ UNCHANGED <<used, index>>
                    /\ Watch

\* the key's node is there, deleted: give it a value again
Revive(t) == /\ pc[t] = "act"
             /\ Op(t) = "insert"
             /\ Hit(t)
             /\ heap[left[t]].val = NULL
             /\ heap' = [heap EXCEPT ![left[t]].val = call[t].arg]
             /\ Return(t, 1)
             /\ UNCHANGED <<used, index>>
             /\ Watch

NewNode(t) == [key |-> K(t), val |-> call[t].arg, next |-> right[t], prev |-> left[t],
               level |-> 0]

\* between node and next; the back pointer of next follows later
Publish(t) ==
  /\ pc[t] = "act"
  /\ Op(t) = "insert"
  /\ ~Hit(t)
  /\ heap[left[t]].next = right[t]
  /\ used < MaxNodes
  /\ used' = used + 1
  /\ heap' = [heap EXCEPT ![left[t]].next = used + 1, ![used + 1] = NewNode(t)]
  /\ IF right[t] = Null
     THEN Return(t, 1)
     ELSE /\ ret' = [ret EXCEPT ![t] = 1]
          /\ left' = [left EXCEPT ![t] = used + 1]
          /\ Goto(t, "link")
          /\ UNCHANGED <<call, item, right, nval, bg, driver>>
  /\ UNCHANGED index
  /\ Watch

\* next->prev = new_node
Link(t) == /\ pc[t] = "link"
           /\ heap' = [heap EXCEPT ![right[t]].prev = left[t]]
           /\ Return(t, ret[t])
           /\ UNCHANGED <<used, index>>
           /\ Watch

\* the compare-and-swap fails: look again from the same node
Retry(t) == /\ pc[t] = "act"
            /\ Op(t) = "insert"
            /\ IF Hit(t) THEN heap[left[t]].val # NULL ELSE heap[left[t]].next # right[t]
            /\ Goto(t, "val")
            /\ UNCHANGED <<list, index, call, item, at, nval, bg, ret, driver>>
            /\ Watch

-------------------------------------------------------------------------------
(* bg_help_remove(left, right), by any actor that has seen right dead      *)

\* (faulty variant: no marker, the node keeps its successor)
HelpMarkNothing(a) == /\ pc[a] = "mark"
                      /\ Goto(a, "unlink")
                      /\ UNCHANGED <<list, index, call, item, at, nval, bg, ret, driver>>
                      /\ Watch

\* put a marker behind the node unless it has one
HelpMark(a) ==
  LET n == right[a] IN
  /\ pc[a] = "mark"
  /\ IF IsMarker(heap[n].next) THEN UNCHANGED heap
     ELSE heap' = [heap EXCEPT ![n].next = Marker(n),
                               ![Marker(n)].next = heap[n].next, ![Marker(n)].prev = n]
  /\ Goto(a, "unlink")
  /\ UNCHANGED <<used, index, call, item, at, nval, bg, ret, driver>>
  /\ Watch

\* what a removed node stood in front of: behind its marker, if it has one
Behind(n) == IF IsMarker(heap[n].next) THEN heap[heap[n].next].next ELSE heap[n].next

\* link the predecessor past both, if it still is the predecessor
HelpUnlink(a) ==
  LET n == right[a] IN
  /\ pc[a] = "unlink"
  /\ IF heap[left[a]].next = n /\ ~IsMarker(left[a])
     THEN heap' = [heap EXCEPT ![left[a]].next = Behind(n)]
     ELSE UNCHANGED heap
  /\ Goto(a, IF a = Bg THEN "count" ELSE "val")
  /\ UNCHANGED <<used, index, call, item, at, nval, bg, ret, driver>>
  /\ Watch

-------------------------------------------------------------------------------
(* The background thread: bg_trav_nodes                                    *)

Free == UNCHANGED <<call, nval, ret, round, todo>>   \* it touches no call
Visit(p, n) == left' = [left EXCEPT ![Bg] = p] /\ right' = [right EXCEPT ![Bg] = n]

\* the driver waits for the levels of the index it has rebuilt
Waiting == heap[HeadNode].level < Levels[round]

BgWake == /\ pc[Bg] = "idle"
          /\ loops > 0 \/ Waiting
          /\ loops' = IF loops > 0 THEN loops - 1 ELSE 0
          /\ alive' = 0 /\ tall' = 0
          /\ Visit(HeadNode, heap[HeadNode].next)
          /\ Goto(Bg, "claim")
          /\ Free /\ UNCHANGED <<list, index, item, ahead, level, raised, inodes>> /\ Watch

Short(n) == heap[n].level = 0

\* bg_remove: a deleted node without index items is claimed and removed
BgRemove == LET n == right[Bg] IN
  /\ pc[Bg] = "claim"
  /\ n # Null
  /\ Short(n) /\ ~IsMarker(n)
  /\ heap[n].val \in {NULL, Self}
  /\ heap' = [heap EXCEPT ![n].val = Self]
  /\ Goto(Bg, "mark")
  /\ Free /\ UNCHANGED <<used, index, item, at, bg, loops>> /\ Watch

BgSpare == LET n == right[Bg] IN
  /\ pc[Bg] = "claim"
  /\ n # Null
  /\ ~Short(n) \/ IsMarker(n) \/ heap[n].val \notin {NULL, Self}
  /\ Goto(Bg, "count")
  /\ Free /\ UNCHANGED <<list, index, item, at, bg, loops>> /\ Watch

BgCount == LET n == right[Bg] IN
  /\ pc[Bg] = "count"
  /\ IF heap[n].val \notin {NULL, Self} THEN alive' = alive + 1 /\ UNCHANGED tall
     ELSE tall' = tall + (IF Short(n) THEN 0 ELSE 1) /\ UNCHANGED alive
  /\ Goto(Bg, "walk")
  /\ Free /\ UNCHANGED <<list, index, item, at, ahead, level, raised, inodes, loops>> /\ Watch

BgWalk == /\ pc[Bg] = "walk"
          /\ Visit(right[Bg], heap[right[Bg]].next)
          /\ Goto(Bg, "claim")
          /\ Free /\ UNCHANGED <<list, index, item, bg, loops>> /\ Watch

-------------------------------------------------------------------------------
(* The index, which only the background thread changes                     *)

\* the items on i's level from i on
Row[i \in 0 .. MaxItems] == IF i = NoItem THEN {} ELSE {i} \cup Row[idx[i].right]

\* (faulty variant: at the front of the level)
IsFront(j, i, k) == j = i

\* j is above_prev: the last item from i on before key k
IsBefore(j, i, k) == /\ j \in Row[i]
                     /\ j = i \/ KeyOf(j) < k
                     /\ idx[j].right # NoItem => KeyOf(idx[j].right) >= k

\* a new item over node n on top of item d, in its place on the level of item i
Raise(i, n, d, height) == \E j \in Items :
  /\ IsBefore(j, i, heap[n].key)
  /\ made < MaxItems
  /\ made' = made + 1
  /\ idx' = [idx EXCEPT ![made + 1] = [node |-> n, right |-> idx[j].right, down |-> d],
                        ![j].right = made + 1]
  /\ heap' = [heap EXCEPT ![n].level = height]
  /\ raised' = TRUE

\* a new level with an item over the head only
AddTop == /\ made < MaxItems
          /\ made' = made + 1
          /\ idx' = [idx EXCEPT ![made + 1] = [node |-> HeadNode, right |-> NoItem, down |-> top]]
          /\ top' = made + 1
          /\ heap' = [heap EXCEPT ![HeadNode].level = @ + 1]

\* after the traversal: find the first item of each level
BgTraversed == /\ pc[Bg] = "claim"
               /\ right[Bg] = Null
               /\ item' = [item EXCEPT ![Bg] = top]
               /\ inodes' = <<>>
               /\ Goto(Bg, "gather")
               /\ Free /\ UNCHANGED <<list, index, at, ahead, level, raised, alive, tall, loops>> /\ Watch

BgGather == LET i == item[Bg] IN
  /\ pc[Bg] = "gather"
  /\ i # NoItem
  /\ inodes' = <<i>> \o inodes
  /\ item' = [item EXCEPT ![Bg] = idx[i].down]
  /\ Free /\ UNCHANGED <<list, index, pc, at, ahead, level, raised, alive, tall, loops>> /\ Watch

BgGathered == /\ pc[Bg] = "gather"
              /\ item[Bg] = NoItem
              /\ Visit(HeadNode, heap[HeadNode].next)
              /\ raised' = FALSE
              /\ Goto(Bg, "raise")
              /\ Free /\ UNCHANGED <<list, index, item, ahead, level, inodes, alive, tall, loops>> /\ Watch

BgLookAhead == /\ pc[Bg] = "raise"
               /\ right[Bg] # Null
               /\ ahead' = heap[right[Bg]].next
               /\ Goto(Bg, "place")
               /\ Free /\ UNCHANGED <<list, index, item, at, level, raised, inodes, alive, tall, loops>>
               /\ Watch

\* bg_raise_nlevel: an item over a node that is one of three without
BgRaise == LET n == right[Bg] IN
  /\ pc[Bg] = "place"
  /\ ahead # Null
  /\ IF ~Dead(n) /\ Short(left[Bg]) /\ Short(n) /\ Short(ahead)
     THEN Raise(inodes[1], n, NoItem, 1)
     ELSE UNCHANGED <<heap, made, idx, raised>>
  /\ Visit(n, ahead)
  /\ ahead' = Null
  /\ Goto(Bg, "raise")
  /\ Free /\ UNCHANGED <<used, top, item, level, inodes, alive, tall, loops>> /\ Watch

\* to the first pair of index levels, if there is one
BgRaised ==
  /\ \/ pc[Bg] = "raise" /\ right[Bg] = Null
     \/ pc[Bg] = "place" /\ ahead = Null
  /\ Visit(Null, Null)
  /\ IF raised /\ heap[HeadNode].level = 1
     THEN AddTop /\ inodes' = Append(inodes, top')
     ELSE UNCHANGED <<heap, index, inodes>>
  /\ level' = 1
  /\ raised' = FALSE
  /\ item' = [item EXCEPT ![Bg] = inodes[1]]
  /\ Goto(Bg, "climb")
  /\ Free /\ UNCHANGED <<used, ahead, alive, tall, loops>> /\ Watch

\* bg_raise_ilevel for one index level after the other: an item over an item
\* that is one of three without.  (Items over dead nodes, which the code skips,
\* do not occur: IndexSound.)
BgClimb ==
  LET i == item[Bg]
      j == idx[i].right
      k == idx[j].right
      low(x) == heap[idx[x].node].level <= level
  IN /\ pc[Bg] = "climb"
     /\ level < Len(inodes)
     /\ j # NoItem
     /\ k # NoItem
     /\ IF low(i) /\ low(j) /\ low(k)
        THEN Raise(inodes[level + 1], idx[j].node, j, level + 1)
        ELSE UNCHANGED <<heap, made, idx, raised>>
     /\ item' = [item EXCEPT ![Bg] = j]
     /\ Free /\ UNCHANGED <<used, top, pc, at, ahead, level, inodes, alive, tall, loops>> /\ Watch

LevelDone == LET j == idx[item[Bg]].right
             IN level < Len(inodes) /\ (j # NoItem => idx[j].right = NoItem)

BgNextLevel == /\ pc[Bg] = "climb"
               /\ LevelDone
               /\ level + 1 < Len(inodes)
               /\ level' = level + 1
               /\ raised' = FALSE
               /\ item' = [item EXCEPT ![Bg] = inodes[level + 1]]
               /\ Free /\ UNCHANGED <<list, index, pc, at, ahead, inodes, alive, tall, loops>> /\ Watch

\* when most of the tall nodes are deleted the lowest index level goes:
\* bg_lower_ilevel starts from the first item of the level above it
StartLower == IF tall > alive * 10 /\ Len(inodes) > 1
              THEN Goto(Bg, "lower") /\ item' = [item EXCEPT ![Bg] = inodes[2]]
              ELSE Goto(Bg, "idle") /\ item' = [item EXCEPT ![Bg] = NoItem]

BgClimbed == /\ pc[Bg] = "climb"
             /\ level >= Len(inodes) - 1
             /\ level < Len(inodes) => LevelDone
             /\ IF raised THEN AddTop ELSE UNCHANGED <<heap, index>>
             /\ StartLower
             /\ level' = 0 /\ raised' = FALSE /\ inodes' = <<>> /\ alive' = 0 /\ tall' = 0
             /\ Free /\ UNCHANGED <<used, at, ahead, loops>> /\ Watch

BgLower == LET i == item[Bg] IN
  /\ pc[Bg] = "lower"
  /\ idx' = [idx EXCEPT ![i].down = NoItem]
  /\ heap' = [heap EXCEPT ![idx[i].node].level = @ - 1]
  /\ item' = [item EXCEPT ![Bg] = idx[i].right]
  /\ Goto(Bg, IF idx[i].right = NoItem THEN "idle" ELSE "lower")
  /\ Free /\ UNCHANGED <<used, made, top, at, bg, loops>> /\ Watch

-------------------------------------------------------------------------------
(* Actors and rounds                                                       *)

Step(t) == \/ Start(t) \/ GoRight(t) \/ LandBefore(t) \/ GoDown(t) \/ LandBelow(t)
           \/ StepBack(t) \/ ReadVal(t) \/ ReadNext(t) \/ MeetDead(t) \/ MoveOn(t)
           \/ HelpMark(t) \/ HelpUnlink(t)
           \/ FinishContains(t) \/ FinishVain(t) \/ GoAct(t)
           \/ Delete(t) \/ DeleteLate(t) \/ Revive(t) \/ Publish(t) \/ Link(t) \/ Retry(t)

BgStep == \/ BgWake \/ BgRemove \/ BgSpare \/ HelpMark(Bg) \/ HelpUnlink(Bg)
          \/ BgCount \/ BgWalk \/ BgTraversed \/ BgGather \/ BgGathered
          \/ BgLookAhead \/ BgRaise \/ BgRaised \/ BgClimb \/ BgNextLevel \/ BgClimbed \/ BgLower

AllIdle == \A t \in Threads : pc[t] = "idle" /\ todo[t] = {}
Asleep == pc[Bg] = "idle" /\ loops = 0 /\ ~Waiting

\* the nodes reached from n through next, markers included
Chain[n \in Names \cup {Null}] == IF n = Null THEN {} ELSE {n} \cup Chain[heap[n].next]
Linked == Chain[HeadNode]

\* the driver drops the index and makes every linked node short again
Rebuild == /\ made < MaxItems
           /\ made' = made + 1
           /\ idx' = [idx EXCEPT ![made + 1] = BlankItem]
           /\ top' = made + 1
           /\ heap' = [n \in Names |-> IF n \notin Linked THEN heap[n]
                                      ELSE [heap[n] EXCEPT !.level = IF n = HeadNode THEN 1 ELSE 0]]

\* between its rounds the driver joins its threads, and bg_stop the background
\* thread, after the loop it is in
NextRound == /\ AllIdle /\ Asleep
             /\ round < Len(Work)
             /\ round' = round + 1
             /\ todo' = Work[round + 1]
             /\ loops' = Loops[round + 1]
             /\ IF Levels[round + 1] > 0 THEN Rebuild ELSE UNCHANGED <<heap, index>>
             /\ UNCHANGED <<used, pc, call, item, at, nval, bg, ret, saw>>

Finished == /\ AllIdle /\ Asleep
            /\ round = Len(Work)
            /\ UNCHANGED vars

Next == (\E t \in Threads : Step(t)) \/ BgStep \/ NextRound \/ Finished

Spec == Init /\ [][Next]_vars

\* the operating system runs every thread, the driver's own too
FairSpec == Spec /\ WF_vars(NextRound) /\ WF_vars(BgStep) /\ \A t \in Threads : WF_vars(Step(t))

-------------------------------------------------------------------------------
(* Properties                                                              *)

NodeType == [key : Nat, val : {Self} \cup Nat, next : Names \cup {Null},
             prev : Names \cup {Null}, level : Int]
Places == {"idle", "right", "down", "val", "next", "check", "act", "link", "mark", "unlink",
           "claim", "count", "walk", "gather", "raise", "place", "climb", "lower"}

TypeOK == /\ heap \in [Names -> NodeType]
          /\ used \in 0 .. MaxNodes
          /\ idx \in [Items -> [node : 0 .. MaxNodes, right : 0 .. MaxItems, down : 0 .. MaxItems]]
          /\ made \in Items /\ top \in 1 .. made
          /\ pc \in [Actors -> Places]
          /\ call \in [Threads -> Calls \cup {None}]
          /\ item \in [Actors -> 0 .. MaxItems]
          /\ left \in [Actors -> Names \cup {Null}]
          /\ right \in [Actors -> Names \cup {Null}]
          /\ nval \in [Threads -> Nat]
          /\ ahead \in Names \cup {Null}
          /\ level \in Nat /\ raised \in BOOLEAN /\ inodes \in Seq(Items) /\ alive \in Nat /\ tall \in Nat
          /\ ret \in [Threads -> {0, 1}]
          /\ round \in 1 .. Len(Work)
          /\ todo \in [Threads -> SUBSET Calls]
          /\ loops \in Nat
          /\ saw \in [Threads -> SUBSET Nat]

\* the node a marker is behind, or the node itself
Owner(n) == IF IsMarker(n) THEN -n ELSE n

\* keys ascend from node to node, and a marker is right behind its dead node
Ordered == \A n \in Names : heap[n].next # Null =>
  LET m == heap[n].next
  IN IF IsMarker(m) THEN n \in 1 .. used /\ Dead(n) /\ m = Marker(n)
     ELSE m \in 1 .. used /\ heap[m].key > heap[Owner(n)].key

\* the way back from a node leads to smaller keys
WayBack == \A n \in 1 .. used : /\ heap[n].prev \in 0 .. used
                               /\ heap[heap[n].prev].key < heap[n].key

(* The list is whole whatever compare-and-swaps meet: every node that is    *)
(* not being removed is on it, its nodes are in ascending order of keys -   *)
(* so no key is there twice - and markers are right behind dead nodes.  The *)
(* way back from a removed node leads to smaller keys, though insert sets   *)
(* next->prev late, after others may have changed the list on either side   *)
(* (sl_finish_insert, bg_help_remove).                                      *)
ListWhole == /\ \A n \in 1 .. used : ~Dead(n) => n \in Linked
             /\ Ordered
             /\ WayBack

\* the next of a removed node and of its marker are what they are
Sealed(n) == IsMarker(heap[n].next) => /\ heap'[n].next = heap[n].next
                                       /\ heap'[Marker(n)].next = heap[Marker(n)].next
OffTheList(n) == IsMarker(heap[n].next) /\ \A m \in Linked : heap[m].next # n

(* A removed node stays removed: its value points to it for ever, behind    *)
(* its marker nothing is changed any more, and once it is off the list no   *)
(* compare-and-swap brings it back.                                         *)
RemovedStays ==
  [][\A n \in 1 .. used : Dead(n) =>
       /\ heap'[n].val = Self
       /\ Sealed(n)
       /\ OffTheList(n) => \A m \in Linked : heap'[m].next # n]_vars

\* the first items of the index levels, from the lowest up to item i
Column[i \in 0 .. MaxItems] == IF i = NoItem THEN <<>> ELSE Append(Column[idx[i].down], i)
Tower == Column[top]

\* the items that hang under the top
Tops == {Tower[l] : l \in 1 .. Len(Tower)}

(* The index is one at every step of its upkeep, of which searches may see  *)
(* any: each level ascends, an item is over a node that is not removed and  *)
(* stands on an item over the same node, one level down.                    *)
IndexSound ==
  /\ Cardinality(Tops) = heap[HeadNode].level \/ pc[Bg] \in {"lower"}
  /\ \A l \in 1 .. Len(Tower) : \A i \in Row[Tower[l]] :
       /\ ~Dead(idx[i].node)
       /\ idx[i].right # NoItem => KeyOf(i) < KeyOf(idx[i].right)
       /\ IF l = 1 THEN idx[i].down = NoItem \/ pc[Bg] = "lower"
          ELSE idx[i].down \in Row[Tower[l - 1]] /\ idx[idx[i].down].node = idx[i].node

(* Every call ends: helping, stepping back and trying again come to an end  *)
(* when the other calls do.  And the driver gets through its rounds: the    *)
(* index it has rebuilt gets the levels it waits for (ycsb.cpp, "wait till  *)
(* the list is balanced").                                                  *)
CallsEnd == /\ \A t \in Threads : (call[t] # None) ~> (call[t] = None)
            /\ <>(round = Len(Work))

(* A node's level counts the index items over it, so that a node of level 0 *)
(* is one without (the comment on bg_remove: "nodes that are of height 0    *)
(* (i.e. they don't have index nodes above)").                              *)
LevelsCounted ==
  pc[Bg] = "idle" =>
    \A n \in 1 .. used : ~Dead(n) =>
      heap[n].level = Cardinality({l \in 1 .. Len(Tower) :
                                     \E i \in Row[Tower[l]] : idx[i].node = n})

PlannedCalls == UNION {UNION {Work[i][t] : t \in Threads} : i \in 1 .. Len(Work)}
Pending(t) == call[t] # None /\ pc[t] # "link"

Abstract == INSTANCE MapSpec
  WITH Calls <- PlannedCalls, None <- None,
       map <- {<<heap[n].key, heap[n].val>> : n \in InMap(heap)},
       call <- [t \in Threads |-> IF Pending(t) THEN call[t] ELSE None],
       saw <- [t \in Threads |-> IF Pending(t) THEN saw[t] ELSE {}]

(* insert and delete take effect at one compare-and-swap each, and a call   *)
(* that changes nothing answers with a state its key had during the call    *)
(* (MapSpec).                                                               *)
ImplementsMap == Abstract!Spec
===============================================================================
