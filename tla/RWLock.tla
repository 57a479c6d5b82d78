-------------------------------- MODULE RWLock --------------------------------
(***************************************************************************)
(* ReaderWriterLock of bskiplist/ParallelTools/ParallelTools/Lock.hpp, one *)
(* action per atomic memory access.  A writer flag and a reader counter    *)
(* that is split over NumCounters cache lines: a reader adds to the line   *)
(* its cpu number selects, a writer sums the lines one after the other     *)
(* without stopping anyone.  With NumCounters = 1 this is                  *)
(* ReaderWriterLock2, whose counter is a single atomic integer.            *)
(***************************************************************************)
EXTENDS Integers, FiniteSets

CONSTANTS Threads,      \* the threads that use the lock
          NumCounters   \* lines of partitioned_counter (48 in the code)

ASSUME CountersAssumption == NumCounters \in Nat \ {0}
ASSUME ThreadsAssumption == IsFiniteSet(Threads)

Lines == 0 .. NumCounters - 1

VARIABLES writer,   \* the atomic_flag
          counter,  \* local_counters[i].counter
          pc,       \* where each thread is
          line,     \* cpuid % num_counters of the thread's current call
          scan,     \* the loop index of readers.get()
          total     \* its accumulator

vars == <<writer, counter, pc, line, scan, total>>

Places == {"idle", "add", "test", "wait", "reading", "giveup",
           "swap", "sleep", "upgrade", "drop", "sum", "writing"}

TypeOK == /\ writer \in BOOLEAN
          /\ counter \in [Lines -> Int]
          /\ pc \in [Threads -> Places]
          /\ line \in [Threads -> Lines]
          /\ scan \in [Threads -> 0 .. NumCounters]
          /\ total \in [Threads -> Int]

Init == /\ writer = FALSE
        /\ counter = [i \in Lines |-> 0]
        /\ pc = [t \in Threads |-> "idle"]
        /\ line = [t \in Threads |-> 0]
        /\ scan = [t \in Threads |-> 0]
        /\ total = [t \in Threads |-> 0]

Goto(t, place) == pc' = [pc EXCEPT ![t] = place]

\* partitioned_counter::add
Add(t, count) == counter' = [counter EXCEPT ![line[t]] = @ + count]

-------------------------------------------------------------------------------
(* read_lock(cpuid): the caller read its cpu number once, with              *)
(* sched_getcpu(), and passes the same one to read_unlock.                  *)

\* (faulty variant: the cpu number itself selects the line)
ReadCallRawCpu(t) == /\ pc[t] = "idle"
                     /\ \E i \in 0 .. NumCounters : line' = [line EXCEPT ![t] = i]
                     /\ Goto(t, "add")
                     /\ UNCHANGED <<writer, counter, scan, total>>

ReadCall(t) == /\ pc[t] = "idle"
               /\ \E i \in Lines : line' = [line EXCEPT ![t] = i]
               /\ Goto(t, "add")
               /\ UNCHANGED <<writer, counter, scan, total>>

ReadAdd(t) == /\ pc[t] = "add"
              /\ Add(t, 1)
              /\ Goto(t, "test")
              /\ UNCHANGED <<writer, line, scan, total>>

ReadEnter(t) == /\ pc[t] = "test"
                /\ ~writer
                /\ Goto(t, "reading")
                /\ UNCHANGED <<writer, counter, line, scan, total>>

ReadSeesWriter(t) == /\ pc[t] = "test"
                     /\ writer
                     /\ Goto(t, "giveup")
                     /\ UNCHANGED <<writer, counter, line, scan, total>>

\* readers.add(-1) of a read_lock that found the writer flag set
ReadBackOff(t) == /\ pc[t] = "giveup"
                  /\ Add(t, -1)
                  /\ Goto(t, "wait")
                  /\ UNCHANGED <<writer, line, scan, total>>

\* (faulty variant: tries again at once)
ReadWakeKeepsSpinning(t) == /\ pc[t] = "wait"
                            /\ Goto(t, "add")
                            /\ UNCHANGED <<writer, counter, line, scan, total>>

\* writer.wait(true) sleeps until the flag is seen clear
ReadWake(t) == /\ pc[t] = "wait"
               /\ ~writer
               /\ Goto(t, "add")
               /\ UNCHANGED <<writer, counter, line, scan, total>>

\* (faulty variant: sched_getcpu() is read again for the unlock)
ReadUnlockOnAnotherLine(t) ==
  /\ pc[t] = "reading"
  /\ \E i \in Lines : counter' = [counter EXCEPT ![i] = @ - 1]
  /\ Goto(t, "idle")
  /\ UNCHANGED <<writer, line, scan, total>>

ReadUnlock(t) == /\ pc[t] = "reading"
                 /\ Add(t, -1)
                 /\ Goto(t, "idle")
                 /\ UNCHANGED <<writer, line, scan, total>>

-------------------------------------------------------------------------------
(* write_lock()                                                            *)

WriteCall(t) == /\ pc[t] = "idle"
                /\ Goto(t, "swap")
                /\ UNCHANGED <<writer, counter, line, scan, total>>

StartSum(t) == /\ scan' = [scan EXCEPT ![t] = 0]
               /\ total' = [total EXCEPT ![t] = 0]

\* test_and_set returned false: this thread owns the flag
SetFlag(t) == /\ pc[t] = "swap"
              /\ ~writer
              /\ writer' = TRUE
              /\ StartSum(t)
              /\ Goto(t, "sum")
              /\ UNCHANGED <<counter, line>>

FlagTaken(t) == /\ pc[t] = "swap"
                /\ writer
                /\ Goto(t, "sleep")
                /\ UNCHANGED <<writer, counter, line, scan, total>>

WriteWake(t) == /\ pc[t] = "sleep"
                /\ ~writer
                /\ Goto(t, "swap")
                /\ UNCHANGED <<writer, counter, line, scan, total>>

\* one load of readers.get()
SumOneLine(t) == /\ pc[t] = "sum"
                 /\ scan[t] < NumCounters
                 /\ total' = [total EXCEPT ![t] = @ + counter[scan[t]]]
                 /\ scan' = [scan EXCEPT ![t] = @ + 1]
                 /\ UNCHANGED <<writer, counter, pc, line>>

\* while (readers.get()): the sum was not zero
SumAgain(t) == /\ pc[t] = "sum"
               /\ scan[t] = NumCounters
               /\ total[t] # 0
               /\ StartSum(t)
               /\ UNCHANGED <<writer, counter, pc, line>>

\* (faulty variant: the first zero is enough)
WriteEnterEarly(t) == /\ pc[t] = "sum"
                      /\ total[t] = 0
                      /\ scan[t] > 0
                      /\ Goto(t, "writing")
                      /\ UNCHANGED <<writer, counter, line, scan, total>>

WriteEnter(t) == /\ pc[t] = "sum"
                 /\ scan[t] = NumCounters
                 /\ total[t] = 0
                 /\ Goto(t, "writing")
                 /\ UNCHANGED <<writer, counter, line, scan, total>>

WriteUnlock(t) == /\ pc[t] = "writing"
                  /\ writer' = FALSE
                  /\ Goto(t, "idle")
                  /\ UNCHANGED <<counter, line, scan, total>>

-------------------------------------------------------------------------------
(* try_upgrade_release_on_fail(cpuid), called by a reader                   *)

\* (faulty variant: does not look at what test_and_set returned)
UpgradeWithoutTest(t) == /\ pc[t] = "reading"
                         /\ writer' = TRUE
                         /\ Goto(t, "upgrade")
                         /\ UNCHANGED <<counter, line, scan, total>>

UpgradeSetFlag(t) == /\ pc[t] = "reading"
                     /\ ~writer
                     /\ writer' = TRUE
                     /\ Goto(t, "upgrade")
                     /\ UNCHANGED <<counter, line, scan, total>>

\* add(-1) after a successful test_and_set, then wait for the other readers
UpgradeDrop(t) == /\ pc[t] = "upgrade"
                  /\ Add(t, -1)
                  /\ StartSum(t)
                  /\ Goto(t, "sum")
                  /\ UNCHANGED <<writer, line>>

\* another thread owns the flag
UpgradeSeesWriter(t) == /\ pc[t] = "reading"
                        /\ writer
                        /\ Goto(t, "drop")
                        /\ UNCHANGED <<writer, counter, line, scan, total>>

\* ... so release the read lock and return false
UpgradeFails(t) == /\ pc[t] = "drop"
                   /\ Add(t, -1)
                   /\ Goto(t, "idle")
                   /\ UNCHANGED <<writer, line, scan, total>>

Step(t) == \/ ReadCall(t)  \/ ReadAdd(t)     \/ ReadEnter(t)
           \/ ReadSeesWriter(t) \/ ReadBackOff(t) \/ ReadWake(t)
           \/ ReadUnlock(t)
           \/ WriteCall(t) \/ SetFlag(t)     \/ FlagTaken(t)
           \/ WriteWake(t) \/ SumOneLine(t)  \/ SumAgain(t)
           \/ WriteEnter(t) \/ WriteUnlock(t)
           \/ UpgradeSetFlag(t) \/ UpgradeDrop(t)
           \/ UpgradeSeesWriter(t) \/ UpgradeFails(t)

Next == \E t \in Threads : Step(t)

Spec == Init /\ [][Next]_vars

(* A thread that is inside keeps running, and the two loops keep looping:  *)
(* everything but the decision to make a new call is weakly fair.          *)
Progress(t) == \/ ReadAdd(t) \/ ReadEnter(t) \/ ReadSeesWriter(t)
               \/ ReadBackOff(t) \/ ReadWake(t)
               \/ ReadUnlock(t) \/ SetFlag(t) \/ FlagTaken(t) \/ WriteWake(t)
               \/ SumOneLine(t) \/ SumAgain(t) \/ WriteEnter(t)
               \/ WriteUnlock(t) \/ UpgradeDrop(t) \/ UpgradeFails(t)

FairSpec == Spec /\ \A t \in Threads : WF_vars(Progress(t))

-------------------------------------------------------------------------------
(* Properties                                                              *)

Reading == {t \in Threads : pc[t] \in {"reading", "upgrade", "drop"}}
Announced == {t \in Threads : pc[t] \in {"upgrade", "sum", "writing"}}
Writing == {t \in Threads : pc[t] = "writing"}

\* the threads whose add(1) is not yet undone, by line
Counted(i) == {t \in Threads : /\ pc[t] \in {"test", "giveup", "reading", "upgrade", "drop"}
                               /\ line[t] = i}

(* A thread inside for writing is alone: no other writer, no reader that    *)
(* entered before it, even though the writer sums the lines one by one     *)
(* while readers come and go (write_lock, read_lock).                      *)
MutualExclusion == \A w \in Writing : Reading = {} /\ Writing = {w}

(* No line drifts: each counter is the number of readers that added to it  *)
(* and have not taken it back, through back-offs, unlocks and upgrades     *)
(* (partitioned_counter::add with the cpu number of the call).             *)
CountersExact == \A i \in Lines : counter[i] = Cardinality(Counted(i))

(* A writer that has set the flag and saw only zeroes so far cannot have    *)
(* overlooked a reader: every reader still inside uses a line it has yet    *)
(* to sum.                                                                 *)
SumMissesNobody ==
  \A w \in Threads : pc[w] = "sum" /\ total[w] = 0 =>
    \A r \in Reading : scan[w] <= line[r]

(* A writer that owns the flag gets in: readers that keep arriving back off *)
(* and sleep, so they cannot keep the sum above zero for ever.              *)
AnnouncedEnters ==
  \A t \in Threads : (t \in Announced) ~> (t \in Writing)

(* What the callers are promised (RWLockSpec).                             *)
Abstract == INSTANCE RWLockSpec
              WITH readers <- Reading, announced <- Announced, writing <- Writing

ImplementsLock == Abstract!Spec
===============================================================================
