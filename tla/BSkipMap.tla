------------------------------- MODULE BSkipMap -------------------------------
(***************************************************************************)
(* What a BSkip used as a map promises: each call takes effect at one      *)
(* moment between its start and its end.  insert sets the value of a key,  *)
(* value reads it (0 stands for the NULL of a miss), exists says whether   *)
(* it is there - except that exists may already see a key whose insert     *)
(* has not ended, since it answers from the topmost node that holds it.    *)
(***************************************************************************)
EXTENDS Integers

CONSTANTS Threads, Calls, None

VARIABLES map,   \* the pairs <<key, value>>, at most one for each key
          call,  \* the call each thread is in
          ret    \* the result of each thread's last call

vars == <<map, call, ret>>

Init == /\ map = {}
        /\ call = [t \in Threads |-> None]
        /\ ret = [t \in Threads |-> 0]

Invoke(t) == /\ call[t] = None
             /\ \E c \in Calls : call' = [call EXCEPT ![t] = c]
             /\ UNCHANGED <<map, ret>>

Answer(t, r) == /\ call' = [call EXCEPT ![t] = None]
                /\ ret' = [ret EXCEPT ![t] = r]

Of(k) == {p \in map : p[1] = k}

Insert(t) == LET c == call[t] IN
             /\ c.op = "insert"
             /\ map' = (map \ Of(c.key)) \cup {<<c.key, c.arg>>}
             /\ Answer(t, 1)

\* key 0 stands for the front sentinel: inserting it leaves no pair behind
InsertZero(t) == /\ call[t] = None
                 /\ ret' = [ret EXCEPT ![t] = 1]
                 /\ UNCHANGED <<map, call>>

Value(t) == /\ call[t].op = "value"
            /\ \/ \E p \in Of(call[t].key) : Answer(t, p[2])
               \/ Of(call[t].key) = {} /\ Answer(t, 0)
            /\ UNCHANGED map

Inserting(k) == \E t \in Threads : call[t].op = "insert" /\ call[t].key = k

Exists(t) == LET k == call[t].key IN
             /\ call[t].op = "exists"
             /\ \/ (Of(k) # {} \/ Inserting(k)) /\ Answer(t, 1)
                \/ Of(k) = {} /\ Answer(t, 0)
             /\ UNCHANGED map

Next == \E t \in Threads : Invoke(t) \/ Insert(t) \/ InsertZero(t) \/ Value(t) \/ Exists(t)

Spec == Init /\ [][Next]_vars
===============================================================================
