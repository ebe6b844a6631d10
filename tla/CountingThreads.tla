--------------------------- MODULE CountingThreads --------------------------
(***************************************************************************)
(* Two threads that each add 1 to count a number of times: those of        *)
(* workshop/sample_code/threads/no-race-mutex.c, which hold a lock all     *)
(* the while, and those of thread2.c, which do not.  Adding 1 is a load    *)
(* and a store, in no-race-mutex.c by way of the local temp and in         *)
(* thread2.c as gcc compiles count++ without optimisation.                 *)
(***************************************************************************)
EXTENDS Integers

CONSTANT ITERATIONS

ASSUME IterationsAssumption == ITERATIONS \in Nat \ {0, 1}

Runners == {1, 2}

VARIABLES
    locks,        \* whether the program is the one with the lock
    lock,         \* the thread that holds the lock, or 0
    count,
    i, temp,      \* of each thread
    run_pc,       \* of each thread: "lock", "load", "store", "unlock", "ended"
    verdict       \* what main prints: "none" before both threads are joined

countVars == <<locks, lock, count, i, temp, run_pc, verdict>>

CountInit ==
    /\ locks \in BOOLEAN
    /\ lock = 0
    /\ count = 0
    /\ i = [t \in Runners |-> 0]
    /\ temp = [t \in Runners |-> 0]
    /\ run_pc = [t \in Runners |-> IF locks THEN "lock" ELSE "load"]
    /\ verdict = "none"

RunGoto(t, point) == run_pc' = [run_pc EXCEPT ![t] = point]

Lock(t) ==
    /\ run_pc[t] = "lock" /\ lock = 0
    /\ lock' = t
    /\ RunGoto(t, "load")
    /\ UNCHANGED <<locks, count, i, temp, verdict>>

Load(t) ==
    /\ run_pc[t] = "load"
    /\ temp' = [temp EXCEPT ![t] = count]
    /\ RunGoto(t, "store")
    /\ UNCHANGED <<locks, lock, count, i, verdict>>

(* count = temp + 1, and the loop goes on or ends. *)
Store(t) ==
    /\ run_pc[t] = "store"
    /\ count' = temp[t] + 1
    /\ i' = [i EXCEPT ![t] = @ + 1]
    /\ RunGoto(t, IF i[t] + 1 < ITERATIONS THEN "load" ELSE IF locks THEN "unlock" ELSE "ended")
    /\ UNCHANGED <<locks, lock, temp, verdict>>

(* Faulty variant: the lock is kept. *)
Unlock_Kept(t) ==
    /\ run_pc[t] = "unlock"
    /\ RunGoto(t, "ended")
    /\ UNCHANGED <<locks, lock, count, i, temp, verdict>>

Unlock(t) ==
    /\ run_pc[t] = "unlock"
    /\ lock' = 0
    /\ RunGoto(t, "ended")
    /\ UNCHANGED <<locks, count, i, temp, verdict>>

(* main has joined both threads and compares: no-race-mutex.c for less,    *)
(* thread2.c for a difference.                                             *)
Report ==
    /\ verdict = "none"
    /\ \A t \in Runners : run_pc[t] = "ended"
    /\ verdict' = IF (IF locks THEN count < 2 * ITERATIONS ELSE count # 2 * ITERATIONS)
                  THEN "error" ELSE "OK"
    /\ UNCHANGED <<locks, lock, count, i, temp, run_pc>>

Runner(t) == Lock(t) \/ Load(t) \/ Store(t) \/ Unlock(t)

CountNext == Report \/ \E t \in Runners : Runner(t)

(* The threads and main are scheduled. *)
CountFairness == WF_countVars(Report) /\ \A t \in Runners : WF_countVars(Runner(t))

CountSpec == CountInit /\ [][CountNext]_countVars /\ CountFairness

-----------------------------------------------------------------------------
CountTypeOK ==
    /\ locks \in BOOLEAN
    /\ lock \in {0} \cup Runners
    /\ count \in Nat
    /\ i \in [Runners -> 0 .. ITERATIONS]
    /\ temp \in [Runners -> Nat]
    /\ run_pc \in [Runners -> {"lock", "load", "store", "unlock", "ended"}]
    /\ verdict \in {"none", "OK", "error"}

(* With the lock no addition is lost, so main never prints its error       *)
(* message (no-race-mutex.c, lines 52-55 and 64-77).                       *)
LockedCountIsExact ==
    locks /\ verdict # "none" => count = 2 * ITERATIONS /\ verdict = "OK"

(* Without the lock additions are lost, but never so many that fewer than  *)
(* 2 are left, and none is ever made up (thread2.c, lines 22-25, 30-35).   *)
LostAdditionsAreBounded ==
    /\ count =< i[1] + i[2]
    /\ verdict # "none" => count >= 2

(* Both threads end and main compares, with the lock too. *)
ThreadsAreJoined == <>(verdict # "none")

=============================================================================
