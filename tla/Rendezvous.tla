----------------------------- MODULE Rendezvous -----------------------------
(***************************************************************************)
(* workshop/sample_code/threads/semaphores.c: two threads that each post   *)
(* the other's semaphore and then wait for their own, so that neither      *)
(* passes the barrier before both have reached it.                         *)
(***************************************************************************)
EXTENDS Integers

Threads == {1, 2}

Other(t) == 3 - t

VARIABLES
    sem,            \* sem[1] is semA, for which simple1 waits; sem[2] is semB
    barrier_pc,     \* of each thread: "before", "post", "wait", "after", "ended"
    joined          \* how many threads main has joined

barrierVars == <<sem, barrier_pc, joined>>

BarrierInit ==
    /\ sem = [t \in Threads |-> 0]
    /\ barrier_pc = [t \in Threads |-> "before"]
    /\ joined = 0

BarrierGoto(t, from, to) == barrier_pc[t] = from /\ barrier_pc' = [barrier_pc EXCEPT ![t] = to]

PrintBefore(t) == BarrierGoto(t, "before", "post") /\ UNCHANGED <<sem, joined>>

PostOther(t) ==
    /\ BarrierGoto(t, "post", "wait")
    /\ sem' = [sem EXCEPT ![Other(t)] = @ + 1]
    /\ UNCHANGED joined

WaitOwn(t) ==
    /\ sem[t] > 0
    /\ BarrierGoto(t, "wait", "after")
    /\ sem' = [sem EXCEPT ![t] = @ - 1]
    /\ UNCHANGED joined

PrintAfter(t) == BarrierGoto(t, "after", "ended") /\ UNCHANGED <<sem, joined>>

(* main joins the threads in turn. *)
Join ==
    /\ joined < 2
    /\ barrier_pc[joined + 1] = "ended"
    /\ joined' = joined + 1
    /\ UNCHANGED <<sem, barrier_pc>>

BarrierThread(t) ==
    PrintBefore(t) \/ PostOther(t) \/ WaitOwn(t) \/ PrintAfter(t)

BarrierNext == Join \/ \E t \in Threads : BarrierThread(t)

(* The threads and main are scheduled. *)
BarrierFairness == WF_barrierVars(Join) /\ \A t \in Threads : WF_barrierVars(BarrierThread(t))

BarrierSpec == BarrierInit /\ [][BarrierNext]_barrierVars /\ BarrierFairness

-----------------------------------------------------------------------------
BarrierTypeOK ==
    /\ sem \in [Threads -> Nat]
    /\ barrier_pc \in [Threads -> {"before", "post", "wait", "after", "ended"}]
    /\ joined \in 0 .. 2

(* The semaphore of a thread holds the posts of the other one that it has  *)
(* not yet used.                                                           *)
SemaphoresCountPosts ==
    \A t \in Threads :
        sem[t] = (IF barrier_pc[Other(t)] \in {"wait", "after", "ended"} THEN 1 ELSE 0)
                 - (IF barrier_pc[t] \in {"after", "ended"} THEN 1 ELSE 0)

(* No thread prints that it is after the barrier before both have printed  *)
(* that they were before it (lines 34-48).                                 *)
NobodyPassesEarly ==
    \A t \in Threads : barrier_pc[t] \in {"after", "ended"} => barrier_pc[Other(t)] # "before"

(* Both threads pass and main joins them: they do not wait for each other  *)
(* for ever (lines 25-48).                                                 *)
BothPass == <>(joined = 2)

=============================================================================
