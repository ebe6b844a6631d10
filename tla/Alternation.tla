----------------------------- MODULE Alternation ----------------------------
(***************************************************************************)
(* workshop/sample_code/threads/producer-consumer.c: a producer that adds  *)
(* 1 to n and a consumer that prints n, in turn.  n++ is a load and a      *)
(* store.                                                                  *)
(***************************************************************************)
EXTENDS Integers, Sequences

CONSTANT loopcnt

ASSUME LoopAssumption == loopcnt \in Nat \ {0}

VARIABLES
    produced, consumed,     \* the semaphores
    n,
    iprod, icons,           \* i of each thread
    prod_pc,                \* "wait", "load", "store", "post"
    cons_pc,                \* "wait", "print", "post"
    loaded,                 \* what the producer has loaded
    printed                 \* what the consumer has printed

turnVars == <<produced, consumed, n, iprod, icons, prod_pc, cons_pc, loaded, printed>>

(* Faulty variant: both semaphores let a thread begin. *)
TurnInit_BothOpen ==
    /\ produced = 1 /\ consumed = 1
    /\ n = 0 /\ loaded = 0
    /\ iprod = 0 /\ icons = 0
    /\ prod_pc = "wait" /\ cons_pc = "wait"
    /\ printed = << >>

TurnInit ==
    /\ produced = 1 /\ consumed = 0
    /\ n = 0 /\ loaded = 0
    /\ iprod = 0 /\ icons = 0
    /\ prod_pc = "wait" /\ cons_pc = "wait"
    /\ printed = << >>

-----------------------------------------------------------------------------
ProdWait ==
    /\ prod_pc = "wait" /\ iprod < loopcnt
    /\ consumed > 0 /\ consumed' = consumed - 1
    /\ prod_pc' = "load"
    /\ UNCHANGED <<produced, n, iprod, icons, cons_pc, loaded, printed>>

ProdLoad ==
    /\ prod_pc = "load"
    /\ loaded' = n
    /\ prod_pc' = "store"
    /\ UNCHANGED <<produced, consumed, n, iprod, icons, cons_pc, printed>>

ProdStore ==
    /\ prod_pc = "store"
    /\ n' = loaded + 1
    /\ prod_pc' = "post"
    /\ UNCHANGED <<produced, consumed, iprod, icons, cons_pc, loaded, printed>>

ProdPost ==
    /\ prod_pc = "post"
    /\ produced' = produced + 1
    /\ iprod' = iprod + 1
    /\ prod_pc' = "wait"
    /\ UNCHANGED <<consumed, n, icons, cons_pc, loaded, printed>>

ConsWait ==
    /\ cons_pc = "wait" /\ icons < loopcnt
    /\ produced > 0 /\ produced' = produced - 1
    /\ cons_pc' = "print"
    /\ UNCHANGED <<consumed, n, iprod, icons, prod_pc, loaded, printed>>

ConsPrint ==
    /\ cons_pc = "print"
    /\ printed' = Append(printed, n)
    /\ cons_pc' = "post"
    /\ UNCHANGED <<produced, consumed, n, iprod, icons, prod_pc, loaded>>

ConsPost ==
    /\ cons_pc = "post"
    /\ consumed' = consumed + 1
    /\ icons' = icons + 1
    /\ cons_pc' = "wait"
    /\ UNCHANGED <<produced, n, iprod, prod_pc, loaded, printed>>

Produce == ProdWait \/ ProdLoad \/ ProdStore \/ ProdPost

Consume == ConsWait \/ ConsPrint \/ ConsPost

TurnNext == Produce \/ Consume

(* Both threads are scheduled. *)
TurnFairness == WF_turnVars(Produce) /\ WF_turnVars(Consume)

TurnSpec == TurnInit /\ [][TurnNext]_turnVars /\ TurnFairness

-----------------------------------------------------------------------------
TurnTypeOK ==
    /\ produced \in Nat /\ consumed \in Nat
    /\ n \in Nat /\ loaded \in Nat
    /\ iprod \in 0 .. loopcnt /\ icons \in 0 .. loopcnt
    /\ prod_pc \in {"wait", "load", "store", "post"}
    /\ cons_pc \in {"wait", "print", "post"}
    /\ printed \in Seq(Nat)

(* Exactly one of four holds: either semaphore is up, or either thread is  *)
(* between its wait and its post.                                          *)
OneTurn ==
    produced + consumed + (IF prod_pc = "wait" THEN 0 ELSE 1)
                        + (IF cons_pc = "wait" THEN 0 ELSE 1) = 1

(* The two threads never touch n at the same time (lines 45-49, 57-61). *)
NoRaceOnN == ~(prod_pc # "wait" /\ cons_pc # "wait")

(* The consumer prints 0, 1, 2 and so on: it misses no value of n and      *)
(* prints none twice (lines 40-62).                                        *)
PrintsEveryValue == \A k \in 1 .. Len(printed) : printed[k] = k - 1

(* Both threads finish their turns, so main can join them (lines 33-34). *)
AllPrinted == <>(iprod = loopcnt /\ icons = loopcnt /\ Len(printed) = loopcnt)

=============================================================================
