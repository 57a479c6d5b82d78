------------------------------ MODULE RWLockSpec ------------------------------
(***************************************************************************)
(* What a reader-writer lock of ParallelTools/Lock.hpp promises its        *)
(* callers: readers share it, a writer first announces itself, which keeps *)
(* new readers out, and enters once the readers that were in have left.    *)
(* A reader may announce itself without letting go first (the upgrade).    *)
(*                                                                         *)
(* announced holds the one thread that owns the writer flag, if any;       *)
(* BSkip.tla uses locks of this shape, one per node.                       *)
(***************************************************************************)
EXTENDS FiniteSets

CONSTANT Threads

VARIABLES readers,    \* the threads inside for reading
          announced,  \* the thread that holds the writer flag
          writing     \* the thread inside for writing

vars == <<readers, announced, writing>>

Init == /\ readers = {}
        /\ announced = {}
        /\ writing = {}

EnterRead(t) == /\ announced = {}
                /\ t \notin readers
                /\ readers' = readers \cup {t}
                /\ UNCHANGED <<announced, writing>>

LeaveRead(t) == /\ t \in readers
                /\ readers' = readers \ {t}
                /\ UNCHANGED <<announced, writing>>

Announce(t) == /\ announced = {}
               /\ announced' = {t}
               /\ UNCHANGED <<readers, writing>>

EnterWrite(t) == /\ t \in announced
                 /\ writing = {}
                 /\ readers = {}
                 /\ writing' = {t}
                 /\ UNCHANGED <<readers, announced>>

LeaveWrite(t) == /\ t \in writing
                 /\ writing' = {}
                 /\ announced' = {}
                 /\ UNCHANGED readers

Next == \E t \in Threads : \/ EnterRead(t)
                           \/ LeaveRead(t)
                           \/ Announce(t)
                           \/ EnterWrite(t)
                           \/ LeaveWrite(t)

Spec == Init /\ [][Next]_vars
===============================================================================
