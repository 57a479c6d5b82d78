------------------------------- MODULE MapSpec -------------------------------
(***************************************************************************)
(* What a concurrent map without overwriting promises: insert adds a key   *)
(* that is not there, delete removes one that is, and a call that changes  *)
(* nothing - a lookup, an insert of a key that is there, a delete of one   *)
(* that is not - answers with a state its key had at some moment since the *)
(* call started.  0 stands for "not there".                                *)
(*                                                                         *)
(* BTree implements it with answers of the moment, NoHotSpot, whose reads  *)
(* are not atomic with their answers, with answers of the whole call.      *)
(***************************************************************************)
EXTENDS Integers

CONSTANTS Threads, Calls, None

VARIABLES map,   \* the pairs <<key, value>>, at most one for each key
          call,  \* the call each thread is in
          saw,   \* states of the call's key it may answer with
          ret    \* the result of each thread's last call

vars == <<map, call, saw, ret>>

Init == /\ map = {}
        /\ call = [t \in Threads |-> None]
        /\ saw = [t \in Threads |-> {}]
        /\ ret = [t \in Threads |-> 0]

State(k, m) == IF \E p \in m : p[1] = k THEN (CHOOSE p \in m : p[1] = k)[2] ELSE 0

\* a call may forget what it saw, but comes to know nothing except the present
Watch == \A t \in Threads :
           \/ saw'[t] = {}
           \/ call'[t] # None /\ saw'[t] \subseteq saw[t] \cup {State(call'[t].key, map')}

Invoke(t) == /\ call[t] = None
             /\ \E c \in Calls : call' = [call EXCEPT ![t] = c]
             /\ saw[t] = {}
             /\ Watch
             /\ UNCHANGED <<map, ret>>

Answer(t, r) == /\ call' = [call EXCEPT ![t] = None]
                /\ ret' = [ret EXCEPT ![t] = r]
                /\ Watch

Insert(t) == /\ call[t].op = "insert"
             /\ State(call[t].key, map) = 0
             /\ map' = map \cup {<<call[t].key, call[t].arg>>}
             /\ Answer(t, 1)

Delete(t) == /\ call[t].op = "delete"
             /\ State(call[t].key, map) # 0
             /\ map' = {p \in map : p[1] # call[t].key}
             /\ Answer(t, 1)

NotInserted(t) == /\ call[t].op = "insert"
                  /\ saw[t] \ {0} # {}
                  /\ Answer(t, 0)
                  /\ UNCHANGED map

NotDeleted(t) == /\ call[t].op = "delete"
                 /\ 0 \in saw[t]
                 /\ Answer(t, 0)
                 /\ UNCHANGED map

Value(t) == /\ call[t].op = "value"
            /\ \E v \in saw[t] : Answer(t, v)
            /\ UNCHANGED map

Exists(t) == /\ call[t].op = "exists"
             /\ \E v \in saw[t] : Answer(t, IF v = 0 THEN 0 ELSE 1)
             /\ UNCHANGED map

Next == \E t \in Threads : \/ Invoke(t) \/ Insert(t) \/ Delete(t) \/ NotInserted(t)
                           \/ NotDeleted(t) \/ Value(t) \/ Exists(t)

Spec == Init /\ [][Next]_vars
===============================================================================
