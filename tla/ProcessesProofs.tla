--------------------------- MODULE ProcessesProofs --------------------------
(***************************************************************************)
(* The small concurrent programs, for every value of their constants: the  *)
(* barrier of semaphores.c, the alternation of producer-consumer.c, the    *)
(* counting threads of no-race-mutex.c and thread2.c                       *)
(* (workshop/sample_code/threads), the shell with its timeout, the signals *)
(* for prime numbers, and at the end the bytes of a game of Mastermind.    *)
(***************************************************************************)
EXTENDS MCProcesses, FiniteSetTheorems, TLAPS

(* A leaf goes to Zenon unless it names a prover. *)
USE ZenonT(30)

BarrierInv == BarrierTypeOK /\ SemaphoresCountPosts

(* The barrier starts in the invariant. *)
LEMMA BarrierInitInv == BarrierInit => BarrierInv
BY SMTT(30) DEF BarrierInit, BarrierInv, BarrierTypeOK, SemaphoresCountPosts, Threads, Other

(* Every step of the barrier keeps the accounts of the semaphores. *)
LEMMA BarrierStep ==
  ASSUME BarrierInv, [BarrierNext]_barrierVars
  PROVE  BarrierInv'
<1> USE DEF BarrierInv, BarrierTypeOK, SemaphoresCountPosts, Threads, Other, BarrierGoto
<1>1. CASE Join
  BY SMTT(30), <1>1 DEF Join
<1>2. ASSUME NEW t \in Threads, PrintBefore(t) \/ PrintAfter(t)
      PROVE  BarrierInv'
  BY SMTT(30), <1>2 DEF PrintBefore, PrintAfter
<1>3. ASSUME NEW t \in Threads, PostOther(t)
      PROVE  BarrierInv'
  BY SMTT(30), <1>3 DEF PostOther
<1>4. ASSUME NEW t \in Threads, WaitOwn(t)
      PROVE  BarrierInv'
  BY SMTT(30), <1>4 DEF WaitOwn
<1>5. CASE UNCHANGED barrierVars
  BY <1>5 DEF barrierVars
<1> QED BY <1>1, <1>2, <1>3, <1>4, <1>5 DEF BarrierNext, BarrierThread

(* No thread of semaphores.c passes the barrier before both have reached   *)
(* it (lines 34-48).                                                       *)
THEOREM BarrierHolds == BarrierSpec => []NobodyPassesEarly
<1>1. BarrierInv => NobodyPassesEarly
  BY SMTT(30) DEF BarrierInv, BarrierTypeOK, SemaphoresCountPosts, NobodyPassesEarly, Threads, Other
<1>2. BarrierInv /\ [BarrierNext]_barrierVars => BarrierInv'
  BY BarrierStep
<1> QED BY BarrierInitInv, <1>1, <1>2, PTL DEF BarrierSpec

-----------------------------------------------------------------------------
(* n is the number of finished additions and printed holds the values      *)
(* before it: the current one too when the consumer has printed it.        *)
CountsTurns ==
    /\ n = iprod + (IF prod_pc = "post" THEN 1 ELSE 0)
    /\ prod_pc = "store" => loaded = n
    /\ Len(printed) = icons + (IF cons_pc = "post" THEN 1 ELSE 0)
    /\ icons = iprod + consumed + (IF prod_pc = "wait" THEN 0 ELSE 1)
    /\ prod_pc # "wait" => iprod < loopcnt
    /\ cons_pc # "wait" => icons < loopcnt

TurnInv == TurnTypeOK /\ OneTurn /\ CountsTurns /\ PrintsEveryValue

(* The alternation starts in the invariant. *)
LEMMA TurnInitInv == TurnInit => TurnInv
BY SMTT(30), LoopAssumption
   DEF TurnInit, TurnInv, TurnTypeOK, OneTurn, CountsTurns, PrintsEveryValue

(* Every step of the producer keeps the invariant. *)
LEMMA ProduceStep == ASSUME TurnInv, Produce PROVE TurnInv'
<1> USE LoopAssumption DEF TurnInv, TurnTypeOK, OneTurn, CountsTurns, PrintsEveryValue
<1>1. CASE ProdWait
  BY SMTT(30), <1>1 DEF ProdWait
<1>2. CASE ProdLoad
  BY <1>2 DEF ProdLoad
<1>3. CASE ProdStore
  BY SMTT(30), <1>3 DEF ProdStore
<1>4. CASE ProdPost
  BY SMTT(30), <1>4 DEF ProdPost
<1> QED BY <1>1, <1>2, <1>3, <1>4 DEF Produce

(* Every step of the consumer keeps the invariant. *)
LEMMA ConsumeStep == ASSUME TurnInv, Consume PROVE TurnInv'
<1> USE LoopAssumption DEF TurnInv, TurnTypeOK, OneTurn, CountsTurns, PrintsEveryValue
<1>1. CASE ConsWait
  BY SMTT(30), <1>1 DEF ConsWait
<1>2. CASE ConsPrint
  BY SMTT(30), <1>2 DEF ConsPrint
<1>3. CASE ConsPost
  BY SMTT(30), <1>3 DEF ConsPost
<1> QED BY <1>1, <1>2, <1>3 DEF Consume

(* So does every step of the alternation. *)
LEMMA TurnStep ==
  ASSUME TurnInv, [TurnNext]_turnVars
  PROVE  TurnInv'
<1>1. CASE UNCHANGED turnVars
  BY <1>1 DEF turnVars, TurnInv, TurnTypeOK, OneTurn, CountsTurns, PrintsEveryValue
<1> QED BY <1>1, ProduceStep, ConsumeStep DEF TurnNext

LEMMA TurnInvariant == TurnSpec => []TurnInv
<1>1. TurnInv /\ [TurnNext]_turnVars => TurnInv'
  BY TurnStep
<1> QED BY TurnInitInv, <1>1, PTL DEF TurnSpec

(* For every loopcnt the two threads are never between their waits and     *)
(* posts at the same time (lines 45-49, 57-61).                            *)
THEOREM TurnsExclude == TurnSpec => []NoRaceOnN
<1>1. TurnInv => NoRaceOnN
  BY SMTT(30) DEF TurnInv, TurnTypeOK, OneTurn, NoRaceOnN
<1> QED BY TurnInvariant, <1>1, PTL

(* For every loopcnt the consumer prints 0, 1, 2 and so on (lines 40-62). *)
THEOREM EveryValuePrinted == TurnSpec => []PrintsEveryValue
<1>1. TurnInv => PrintsEveryValue
  BY DEF TurnInv
<1> QED BY TurnInvariant, <1>1, PTL

-----------------------------------------------------------------------------
Inside == {"load", "store", "unlock"}

(* A thread in its loop has additions to do, one past it has done them; no *)
(* lock is touched in the program without one.                             *)
LoopInv ==
    /\ \A t \in Runners :
          /\ run_pc[t] \in {"lock", "load", "store"} => i[t] < ITERATIONS
          /\ run_pc[t] \in {"unlock", "ended"} => i[t] = ITERATIONS
          /\ ~locks => run_pc[t] \notin {"lock", "unlock"}
    /\ verdict # "none" => \A t \in Runners : run_pc[t] = "ended"

(* With the lock: its holder is the thread in the loop, and nothing is     *)
(* lost.                                                                   *)
LockedInv ==
    locks =>
        /\ \A t \in Runners : run_pc[t] \in Inside <=> lock = t
        /\ count = i[1] + i[2]
        /\ \A t \in Runners : run_pc[t] = "store" => temp[t] = count
        /\ verdict # "error"

(* Without it: a thread past its first addition only ever loads 1 or more. *)
UnlockedInv ==
    /\ count =< i[1] + i[2]
    /\ \A t \in Runners : run_pc[t] = "store" => temp[t] =< i[1] + i[2]
    /\ i[1] + i[2] >= 1 => count >= 1
    /\ \A t \in Runners : run_pc[t] = "store" /\ i[t] >= 1 => temp[t] >= 1
    /\ i[1] + i[2] = 2 * ITERATIONS => count >= 2

CountInv == CountTypeOK /\ LoopInv /\ LockedInv /\ UnlockedInv

USE IterationsAssumption

-----------------------------------------------------------------------------
(* The programs start in the invariant. *)
LEMMA CountInitInv == CountInit => CountInv
BY SMTT(30) DEF CountInit, CountInv, CountTypeOK, LoopInv, LockedInv, UnlockedInv, Inside, Runners

(* Every step keeps the types and the positions in the loop. *)
LEMMA LoopStep ==
  ASSUME CountInv, [CountNext]_countVars
  PROVE  CountTypeOK' /\ LoopInv'
<1> USE DEF CountInv, CountTypeOK, LoopInv, Runners, RunGoto
<1>1. CASE Report
  BY <1>1 DEF Report
<1>2. ASSUME NEW t \in Runners, Lock(t)
      PROVE  CountTypeOK' /\ LoopInv'
  BY <1>2 DEF Lock
<1>3. ASSUME NEW t \in Runners, Load(t)
      PROVE  CountTypeOK' /\ LoopInv'
  BY <1>3 DEF Load
<1>4. ASSUME NEW t \in Runners, Store(t)
      PROVE  CountTypeOK' /\ LoopInv'
  BY SMTT(30), <1>4 DEF Store
<1>5. ASSUME NEW t \in Runners, Unlock(t)
      PROVE  CountTypeOK' /\ LoopInv'
  BY <1>5 DEF Unlock
<1>6. CASE UNCHANGED countVars
  BY <1>6 DEF countVars
<1> QED BY <1>1, <1>2, <1>3, <1>4, <1>5, <1>6 DEF CountNext, Runner

(* Every step keeps the exact count of the program with the lock. *)
LEMMA LockedStep ==
  ASSUME CountInv, [CountNext]_countVars
  PROVE  LockedInv'
<1> SUFFICES ASSUME locks' PROVE LockedInv'
  BY DEF LockedInv
<1>0. locks
  BY DEF CountNext, Runner, Report, Lock, Load, Store, Unlock, countVars
<1> USE <1>0 DEF CountInv, CountTypeOK, LoopInv, LockedInv, Inside, Runners, RunGoto
<1>1. CASE Report
  BY SMTT(30), <1>1 DEF Report
<1>2. ASSUME NEW t \in Runners, Lock(t)
      PROVE  LockedInv'
  BY SMTT(30), <1>2 DEF Lock
<1>3. ASSUME NEW t \in Runners, Load(t)
      PROVE  LockedInv'
  BY <1>3 DEF Load
<1>4. ASSUME NEW t \in Runners, Store(t)
      PROVE  LockedInv'
  BY SMTT(30), <1>4 DEF Store
<1>5. ASSUME NEW t \in Runners, Unlock(t)
      PROVE  LockedInv'
  BY SMTT(30), <1>5 DEF Unlock
<1>6. CASE UNCHANGED countVars
  BY <1>6 DEF countVars
<1> QED BY <1>1, <1>2, <1>3, <1>4, <1>5, <1>6 DEF CountNext, Runner

(* Every step keeps the bounds of both programs. *)
LEMMA UnlockedStep ==
  ASSUME CountInv, [CountNext]_countVars
  PROVE  UnlockedInv'
<1> USE DEF CountInv, CountTypeOK, LoopInv, UnlockedInv, Runners, RunGoto
<1>1. CASE Report
  BY <1>1 DEF Report
<1>2. ASSUME NEW t \in Runners, Lock(t)
      PROVE  UnlockedInv'
  BY <1>2 DEF Lock
<1>3. ASSUME NEW t \in Runners, Load(t)
      PROVE  UnlockedInv'
  BY SMTT(30), <1>3 DEF Load
<1>4. ASSUME NEW t \in Runners, Store(t)
      PROVE  UnlockedInv'
  BY SMTT(30), <1>4 DEF Store
<1>5. ASSUME NEW t \in Runners, Unlock(t)
      PROVE  UnlockedInv'
  BY <1>5 DEF Unlock
<1>6. CASE UNCHANGED countVars
  BY <1>6 DEF countVars
<1> QED BY <1>1, <1>2, <1>3, <1>4, <1>5, <1>6 DEF CountNext, Runner

LEMMA CountInvariant == CountSpec => []CountInv
<1>1. CountInv /\ [CountNext]_countVars => CountInv'
  BY LoopStep, LockedStep, UnlockedStep DEF CountInv
<1> QED BY CountInitInv, <1>1, PTL DEF CountSpec

-----------------------------------------------------------------------------
(* For every number of iterations the program with the lock ends with the  *)
(* exact count and never prints its error message (no-race-mutex.c, lines  *)
(* 52-55 and 64-77).                                                       *)
THEOREM LockedCountExact == CountSpec => []LockedCountIsExact
<1>1. CountInv => LockedCountIsExact
  BY SMTT(30) DEF CountInv, CountTypeOK, LoopInv, LockedInv, LockedCountIsExact, Runners
<1> QED BY CountInvariant, <1>1, PTL

(* For every number of iterations of at least 2 the program without the    *)
(* lock ends with a count of at least 2 and at most the additions made     *)
(* (thread2.c, lines 22-25 and 30-35).                                     *)
THEOREM LostAdditionsBounded == CountSpec => []LostAdditionsAreBounded
<1>1. CountInv => LostAdditionsAreBounded
  BY SMTT(30) DEF CountInv, CountTypeOK, LoopInv, UnlockedInv, LostAdditionsAreBounded, Runners
<1> QED BY CountInvariant, <1>1, PTL

-----------------------------------------------------------------------------
SamplesInv == BarrierInv /\ TurnInv /\ CountInv

(* Whichever program of MCProcesses runs, each thread sample takes a step  *)
(* of its own or none.                                                     *)
LEMMA SamplesStep ==
  ASSUME [Next]_allVars
  PROVE  [BarrierNext]_barrierVars /\ [TurnNext]_turnVars /\ [CountNext]_countVars
BY DEF Next, allVars

(* For every value of the constants: nobody passes the barrier early, the  *)
(* alternating threads never race and print every value, the locked count  *)
(* is exact and the one without a lock loses a bounded number of additions *)
(* (the main functions of workshop/sample_code/threads).                   *)
THEOREM ThreadSamplesSafe == Spec => []ThreadSamplesAreSafe
<1>1. Init => SamplesInv
  BY BarrierInitInv, TurnInitInv, CountInitInv DEF Init, SamplesInv
<1>2. SamplesInv /\ [Next]_allVars => SamplesInv'
  BY SamplesStep, BarrierStep, TurnStep, LoopStep, LockedStep, UnlockedStep
     DEF SamplesInv, CountInv
<1>3. BarrierInv => NobodyPassesEarly
  BY SMTT(30) DEF BarrierInv, BarrierTypeOK, SemaphoresCountPosts, NobodyPassesEarly, Threads, Other
<1>4. TurnInv => NoRaceOnN /\ PrintsEveryValue
  BY SMTT(30) DEF TurnInv, TurnTypeOK, OneTurn, NoRaceOnN
<1>5. CountInv => LockedCountIsExact /\ LostAdditionsAreBounded
  BY SMTT(30) DEF CountInv, CountTypeOK, LoopInv, LockedInv, UnlockedInv, LockedCountIsExact,
         LostAdditionsAreBounded, Runners
<1>6. SamplesInv => ThreadSamplesAreSafe
  BY <1>3, <1>4, <1>5 DEF SamplesInv, ThreadSamplesAreSafe
<1> QED BY <1>1, <1>2, <1>6, PTL DEF Spec

-----------------------------------------------------------------------------
(* Only the last process forked is not waited for, and only while the      *)
(* shell is between fork and wait; an alarm runs only from the moment its  *)
(* id is stored until alarm(0).                                            *)
ShellInv ==
    /\ shell_pc \in {"prompt", "fork", "forked", "waiting", "reaped", "exited", "failed"}
    /\ forked \in 0 .. MaxCommands
    /\ process \in [Pids -> {"none", "starting", "running", "zombie", "reaped"}]
    /\ alarm \in {"off", "set", "expired"}
    /\ \A p \in Pids : p > forked => process[p] = "none"
    /\ \A p \in Pids : p < forked => process[p] = "reaped"
    /\ shell_pc \in {"forked", "waiting"} =>
          forked > 0 /\ process[forked] \in {"starting", "running", "zombie"}
    /\ shell_pc \in {"prompt", "fork", "reaped"} /\ forked > 0 => process[forked] = "reaped"
    /\ shell_pc \in {"waiting", "reaped"} => childpid = forked /\ forked > 0
    /\ shell_pc = "fork" => forked < MaxCommands
    /\ alarm # "off" => shell_pc \in {"waiting", "reaped"}

LEMMA ShellInitInv == ShellInit => ShellInv
BY SMTT(30), ShellAssumption DEF ShellInit, ShellInv, Pids

LEMMA ShellStepInv ==
  ASSUME ShellInv, [ShellNext]_shellVars
  PROVE  ShellInv'
<1> USE ShellAssumption DEF ShellInv, Pids, ShellGoto, ShellRuns
<1>1. CASE ReadCommand
  BY <1>1 DEF ReadCommand
<1>2. CASE Fork
  BY SMTT(30), <1>2 DEF Fork
<1>3. CASE ForkFails
  BY <1>3 DEF ForkFails
<1>4. CASE SetAlarm
  BY <1>4 DEF SetAlarm
<1>5. CASE Wait
  BY SMTT(30), <1>5 DEF Wait
<1>6. CASE StopAlarm
  BY <1>6 DEF StopAlarm
<1>7. CASE SigHandler
  BY <1>7 DEF SigHandler
<1>8. CASE AlarmExpires
  BY <1>8 DEF AlarmExpires
<1>9. ASSUME NEW p \in Pids, Execve(p) \/ ProgramEnds(p) PROVE ShellInv'
  BY SMTT(30), <1>9 DEF Execve, ProgramEnds
<1>10. CASE UNCHANGED shellVars
  BY <1>10 DEF shellVars
<1> QED BY <1>1, <1>2, <1>3, <1>4, <1>5, <1>6, <1>7, <1>8, <1>9, <1>10
        DEF ShellNext, ShellStep, KernelStep

(* While the handler is due, nothing but the command it was set for        *)
(* changes, and it ends the shell only after the wait.                     *)
LEMMA TimeoutStep ==
  ASSUME ShellInv, [ShellNext]_shellVars, alarm = "expired"
  PROVE  /\ \A p \in Pids : process'[p] # process[p] => p = forked
         /\ shell_pc' = "failed" => shell_pc = "reaped"
<1> USE ShellAssumption DEF ShellInv, Pids
<1>1. CASE SigHandler
  BY SMTT(30), <1>1 DEF SigHandler, ShellGoto
<1>2. ASSUME NEW q \in Pids, Execve(q) \/ ProgramEnds(q)
      PROVE  /\ \A p \in Pids : process'[p] # process[p] => p = forked
             /\ shell_pc' = shell_pc
  BY SMTT(30), <1>2 DEF Execve, ProgramEnds
<1>3. CASE UNCHANGED shellVars
  BY <1>3 DEF shellVars
<1> QED BY <1>1, <1>2, <1>3
        DEF ShellNext, ShellStep, KernelStep, ReadCommand, Fork, ForkFails, SetAlarm, Wait,
            StopAlarm, AlarmExpires, ShellRuns

(* For any number of commands, a timeout of my-shell.c kills only the      *)
(* command it was set for, ends the shell only in the race between wait    *)
(* and alarm(0), and nothing of it is left at the next prompt (lines       *)
(* 344-359).                                                               *)
THEOREM TimeoutIsForItsCommand == ShellSpec => TimeoutHitsItsCommand
<1>1. ShellInv => PromptIsClean
  BY SMTT(30), ShellAssumption DEF ShellInv, PromptIsClean, Pids
<1>2. ShellInv /\ [ShellNext]_shellVars => ShellInv'
  BY ShellStepInv
<1>3. ShellInv /\ [ShellNext]_shellVars
        => [alarm = "expired" =>
              /\ \A p \in Pids : process'[p] # process[p] => p = forked
              /\ shell_pc' = "failed" => shell_pc = "reaped"]_shellVars
  BY TimeoutStep
<1> QED BY ShellInitInv, <1>1, <1>2, <1>3, PTL DEF ShellSpec, TimeoutHitsItsCommand

-----------------------------------------------------------------------------
(* A number is a multiple of each of its factors, and a proper factor is   *)
(* at most half of it.                                                     *)
LEMMA NoRemainder ==
  ASSUME NEW a \in Nat, NEW b \in Nat, a > 0
  PROVE  (a * b) % a = 0
<1> DEFINE q == (a * b) \div a
           r == (a * b) % a
<1>1. q \in Int /\ r \in 0 .. a - 1 /\ a * b = a * q + r
  BY SMTT(30)
<1>2. a * (b - q) = r
  BY SMTT(30), <1>1
<1>3. CASE b - q >= 1
  BY SMTT(30), <1>1, <1>2, <1>3
<1>4. CASE b - q =< -1
  BY SMTT(30), <1>1, <1>2, <1>4
<1> QED BY SMTT(30), <1>1, <1>2, <1>3, <1>4

LEMMA HalfBounds ==
  ASSUME NEW a \in Nat, NEW b \in Nat, a >= 2, b >= 2
  PROVE  a \in 2 .. (a * b) \div 2
<1>1. a * b >= a * 2
  BY SMTT(30)
<1> QED BY SMTT(30), <1>1

(* isprimeno tries divisors up to half of the number: that is enough. *)
LEMMA TrialDivision ==
  ASSUME NEW k \in Int, isprimeno(k)
  PROVE  IsPrime(k)
<1> SUFFICES ASSUME NEW a \in 2 .. k, NEW b \in 2 .. k, a * b = k
             PROVE  FALSE
  BY SMTT(30) DEF isprimeno, IsPrime
<1>1. k % a = 0
  <2>1. a \in Nat /\ b \in Nat /\ a > 0
    BY SMTT(30)
  <2>2. (a * b) % a = 0
    BY <2>1, NoRemainder
  <2> QED BY <2>2
<1>2. a \in 2 .. k \div 2
  BY SMTT(30), HalfBounds
<1> QED BY <1>1, <1>2 DEF isprimeno

(* The handlers are set before there is a child.  A prime that is read and *)
(* not yet tested leaves room for its report; once the input has ended     *)
(* nothing is read any more.                                               *)
PrimeInv ==
    /\ tokens \in Seq(Numbers \cup {NonInteger}) /\ numbers_seen \subseteq Numbers
    /\ primes_read \in Nat /\ notices \in Nat /\ input_ended \in BOOLEAN
    /\ parent_pc # "install1" => SIGUSR1 \in handled
    /\ parent_pc \notin {"install1", "install2"} => SIGUSR2 \in handled
    /\ parent_pc \in {"install1", "install2", "fork"} => child_state = "none"
    /\ input_ended => tokens = << >>
    /\ parent_pc = "test" /\ ~input_ended /\ (\E k \in numbers_seen : IsPrime(k))
          => Reports < primes_read
    /\ OnlyPrimesReported

LEMMA PrimeInitInv == PrimeInit => PrimeInv
<1> SUFFICES ASSUME PrimeInit PROVE PrimeInv
  OBVIOUS
<1>1. Reports = 0 /\ ~(Reports > 0)
  BY SMTT(30) DEF PrimeInit, Reports
<1>2. tokens \in Seq(Numbers \cup {NonInteger})
  BY PrimeAssumption DEF PrimeInit
<1> QED BY <1>1, <1>2 DEF PrimeInit, PrimeInv, OnlyPrimesReported

LEMMA ReportsType == PrimeInv => Reports \in Nat
BY SMTT(30) DEF PrimeInv, Reports

LEMMA PrimeStepInv ==
  ASSUME PrimeInv, [PrimeNext]_primeVars
  PROVE  PrimeInv'
<1> USE DEF PrimeInv, OnlyPrimesReported, SIGUSR1, SIGUSR2, historyVars
<1>0. Reports \in Nat
  BY ReportsType
<1>1. CASE InstallUsr1 \/ InstallUsr2 \/ ForkChild \/ ForkChildFails
  <2>1. Reports' = Reports
    BY <1>1 DEF Reports, InstallUsr1, InstallUsr2, ForkChild, ForkChildFails
  <2>2. UNCHANGED <<tokens, numbers_seen, notices, primes_read, input_ended>> /\ parent_pc' # "test"
    BY <1>1 DEF InstallUsr1, InstallUsr2, ForkChild, ForkChildFails
  <2>3. /\ (parent_pc # "install1" => SIGUSR1 \in handled)'
        /\ (parent_pc \notin {"install1", "install2"} => SIGUSR2 \in handled)'
        /\ (parent_pc \in {"install1", "install2", "fork"} => child_state = "none")'
        /\ child_state' # "killed"
    BY <1>1 DEF InstallUsr1, InstallUsr2, ForkChild, ForkChildFails
  <2> QED BY <2>1, <2>2, <2>3
<1>2. CASE Scanf
  <2>1. tokens' \in Seq(Numbers \cup {NonInteger}) /\ numbers_seen' \subseteq Numbers
    <3>1. \/ UNCHANGED <<tokens, numbers_seen>>
          \/ /\ tokens # << >> /\ Head(tokens) # NonInteger
             /\ numbers_seen' = {Head(tokens)} /\ tokens' = Tail(tokens)
      BY <1>2 DEF Scanf
    <3>2. tokens # << >> => /\ Head(tokens) \in Numbers \cup {NonInteger}
                            /\ Tail(tokens) \in Seq(Numbers \cup {NonInteger})
      BY SMTT(30)
    <3> QED BY <3>1, <3>2
  <2>2. Reports' = Reports
    BY <1>2 DEF Reports, Scanf
  <2>3. UNCHANGED <<handled, child_state, notices>> /\ parent_pc = "scanf"
        /\ parent_pc' \in {"test", "end"}
    BY <1>2 DEF Scanf
  <2>4. CASE tokens = << >>
    <3>1. input_ended' /\ input_ended' \in BOOLEAN /\ UNCHANGED <<tokens, numbers_seen, primes_read>>
      BY <1>2, <2>4 DEF Scanf
    <3> QED BY <2>1, <2>2, <2>3, <2>4, <3>1
  <2>5. CASE tokens # << >> /\ Head(tokens) = NonInteger
    <3>1. parent_pc' = "end" /\ UNCHANGED <<tokens, numbers_seen, primes_read, input_ended>>
      BY <1>2, <2>5 DEF Scanf
    <3> QED BY <2>1, <2>2, <2>3, <3>1
  <2>6. CASE tokens # << >> /\ Head(tokens) # NonInteger
    <3>1. /\ numbers_seen' = {Head(tokens)} /\ UNCHANGED input_ended /\ ~input_ended
          /\ primes_read' = primes_read + IF IsPrime(Head(tokens)) THEN 1 ELSE 0
      BY <1>2, <2>6 DEF Scanf
    <3>2. ~(Reports > primes_read)
      BY <3>1
    <3>3. CASE IsPrime(Head(tokens))
      <4>1. primes_read' \in Nat /\ Reports < primes_read' /\ ~(Reports > primes_read')
        BY SMTT(30), <1>0, <3>1, <3>2, <3>3
      <4> QED BY <2>1, <2>2, <2>3, <3>1, <4>1
    <3>4. CASE ~IsPrime(Head(tokens))
      <4>1. primes_read' = primes_read
        BY SMTT(30), <3>1, <3>4
      <4> QED BY <2>1, <2>2, <2>3, <3>1, <3>2, <3>4, <4>1
    <3> QED BY <3>3, <3>4
  <2> QED BY <2>4, <2>5, <2>6
<1>3. CASE TestNumber
  <2>1. PICK k \in numbers_seen :
           /\ pending' = IF isprimeno(k) THEN pending \cup {SIGUSR1} ELSE pending
           /\ numbers_seen' = {k}
    BY <1>3 DEF TestNumber
  <2>2. /\ UNCHANGED <<tokens, handled, child_state, notices, primes_read, input_ended>>
        /\ parent_pc = "test" /\ parent_pc' = "scanf"
    BY <1>3 DEF TestNumber
  <2>3. CASE isprimeno(k)
    <3>1. IsPrime(k)
      BY <2>1, <2>3, TrialDivision, PrimeAssumption
    <3>2. Reports' =< Reports + 1
      BY SMTT(30), <2>1, <2>2, <2>3 DEF Reports
    <3>3. Reports' \in Nat
      BY SMTT(30), <2>1, <2>2 DEF Reports
    <3>4. Reports' > primes_read => ~(Reports < primes_read)
      BY SMTT(30), <1>0, <3>2, <3>3
    <3> QED BY <2>1, <2>2, <3>1, <3>4
  <2>4. CASE ~isprimeno(k)
    <3>1. Reports' = Reports
      BY <2>1, <2>2, <2>4 DEF Reports
    <3> QED BY <2>1, <2>2, <3>1
  <2> QED BY <2>3, <2>4
<1>4. CASE ParentEnds
  <2>1. Reports' = Reports
    BY <1>4 DEF Reports, ParentEnds
  <2> QED BY <1>4, <2>1 DEF ParentEnds
<1>5. ASSUME NEW signo \in {SIGUSR1, SIGUSR2}, Deliver(signo) PROVE PrimeInv'
  <2>1. Reports' =< Reports /\ Reports' \in Nat
    BY SMTT(30), <1>5 DEF Deliver, Reports
  <2>2. /\ Reports' > primes_read => Reports > primes_read
        /\ Reports < primes_read => Reports' < primes_read
    BY SMTT(30), <1>0, <2>1
  <2> QED BY <1>5, <2>2 DEF Deliver
<1>6. CASE PrintNotice
  <2>1. Reports' = Reports /\ notices' \in Nat
    BY SMTT(30), <1>6 DEF PrintNotice, Reports
  <2> QED BY <1>6, <2>1 DEF PrintNotice
<1>7. CASE UNCHANGED primeVars
  BY <1>7 DEF primeVars, Reports
<1> QED BY <1>1, <1>2, <1>3, <1>4, <1>5, <1>6, <1>7 DEF PrimeNext, ParentStep, ChildStep

(* For every input of signal-prime-number.c the child reports no more      *)
(* primes than the parent has read, although isprimeno tries divisors up   *)
(* to n / 2 only and signals merge, until scanf meets the end of the input *)
(* while n holds a prime; and no signal ever meets a child without its     *)
(* handler (lines 51-123).                                                 *)
THEOREM PrimesReported == PrimeSpec => []OnlyPrimesReported
<1>1. PrimeInv => OnlyPrimesReported
  BY DEF PrimeInv
<1>2. PrimeInv /\ [PrimeNext]_primeVars => PrimeInv'
  BY PrimeStepInv
<1> QED BY PrimeInitInv, <1>1, <1>2, PTL DEF PrimeSpec

-----------------------------------------------------------------------------
(***************************************************************************)
(* One game of Mastermind as bytes, for messages of every size, reads cut  *)
(* anywhere and every number of attempts and guesses.                      *)
(*                                                                         *)
(* The starts of requests and the ends of lines are counted: one that was  *)
(* sent is on its way, in a buffer, or used up.  And the places of bytes   *)
(* are followed: what a reader has of a message, with what is on its way,  *)
(* is whole messages.                                                      *)
(***************************************************************************)

(* The bytes the server can have sent, and those the client can: a typed   *)
(* line over such bytes.                                                   *)
ServerKinds == {"DISPMSG", "REQUEST", "INVALID", "FEEDBAC", "SUCCESS", "FAILURE"}
ServerBytes == (ServerKinds \cup {"none"}) \X (0 .. GP_SIZE)
ClientBytes == (ServerKinds \cup {"none"} \cup Lines) \X (0 .. GP_SIZE)

(* The bytes that count: the first one of a request for the client, the    *)
(* null byte of a line for the server.                                     *)
AskingStarts == {<<kind, 1>> : kind \in AskingKinds}

(* The places of such bytes, and how many there are. *)
Marks(bytes, marks) == {j \in DOMAIN bytes : bytes[j] \in marks}
MarkCount(bytes, marks) == Cardinality(Marks(bytes, marks))

(* 1 when buf has one of them at a place. *)
Held(buf, place, marks) == IF buf[place] \in marks THEN 1 ELSE 0

AtMostOneMark(bytes, marks) ==
    \A j, l \in DOMAIN bytes : bytes[j] \in marks /\ bytes[l] \in marks => j = l
NoMark(bytes, marks) == \A j \in DOMAIN bytes : bytes[j] \notin marks

(* Part of a sequence. *)
LEMMA SubSeqParts ==
  ASSUME NEW S, NEW s \in Seq(S), NEW m \in 1 .. Len(s) + 1, NEW l \in m - 1 .. Len(s)
  PROVE  /\ SubSeq(s, m, l) \in Seq(S) /\ Len(SubSeq(s, m, l)) = (l - m) + 1
         /\ DOMAIN SubSeq(s, m, l) = 1 .. (l - m) + 1
         /\ \A k \in 1 .. (l - m) + 1 : SubSeq(s, m, l)[k] = s[(m + k) - 1]
<1>1. Len(SubSeq(s, m, l)) = (l - m) + 1
  BY SMTT(30)
<1>2. \A k \in 1 .. (l - m) + 1 : SubSeq(s, m, l)[k] = s[(m + k) - 1]
  BY SMTT(30)
<1>3. SubSeq(s, m, l) \in Seq(S)
  BY SMTT(30)
<1> QED BY SMTT(30), <1>1, <1>2, <1>3

LEMMA MarksFinite ==
  ASSUME NEW S, NEW bytes \in Seq(S), NEW marks
  PROVE  IsFiniteSet(Marks(bytes, marks)) /\ MarkCount(bytes, marks) \in Nat
<1>1. Marks(bytes, marks) \in SUBSET (1 .. Len(bytes))
  BY SMTT(30) DEF Marks
<1>2. IsFiniteSet(1 .. Len(bytes))
  BY SMTT(30), FS_Interval
<1>3. IsFiniteSet(Marks(bytes, marks))
  BY <1>1, <1>2, FS_Subset
<1> QED BY <1>3, FS_CardinalityType DEF MarkCount

LEMMA NoBytesNoMarks ==
  ASSUME NEW marks
  PROVE  MarkCount(<< >>, marks) = 0
<1>1. Marks(<< >>, marks) = {}
  BY SMTT(30) DEF Marks
<1> QED BY <1>1, FS_EmptySet DEF MarkCount

(* Bytes with at most one mark among them add at most one. *)
LEMMA MarksAppended ==
  ASSUME NEW S, NEW bytes \in Seq(S), NEW more \in Seq(S), NEW marks,
         AtMostOneMark(more, marks)
  PROVE  /\ MarkCount(bytes \o more, marks) =< MarkCount(bytes, marks) + 1
         /\ NoMark(more, marks) => MarkCount(bytes \o more, marks) = MarkCount(bytes, marks)
<1> DEFINE A == Marks(bytes, marks)
           B == Marks(bytes \o more, marks)
<1>1. IsFiniteSet(A) /\ Cardinality(A) \in Nat
  BY MarksFinite DEF MarkCount
<1>2. A \subseteq B
  BY SMTT(30) DEF Marks
<1>3. \A j \in B \ A : j - Len(bytes) \in DOMAIN more /\ more[j - Len(bytes)] \in marks
  <2> SUFFICES ASSUME NEW j \in B, j \notin A
               PROVE  j - Len(bytes) \in DOMAIN more /\ more[j - Len(bytes)] \in marks
    OBVIOUS
  <2>1. j \in 1 .. Len(bytes) + Len(more) /\ (bytes \o more)[j] \in marks
    BY SMTT(30) DEF Marks
  <2>2. j > Len(bytes)
    BY SMTT(30), <2>1 DEF Marks
  <2>3. j - Len(bytes) \in DOMAIN more
    BY SMTT(30), <2>1, <2>2
  <2>4. (bytes \o more)[j] = more[j - Len(bytes)]
    BY SMTT(30), <2>1, <2>2
  <2> QED BY <2>1, <2>3, <2>4
<1>4. CASE NoMark(more, marks)
  <2>1. B = A
    BY <1>2, <1>3, <1>4 DEF NoMark
  <2> QED BY SMTT(30), <1>1, <2>1 DEF MarkCount
<1>5. CASE ~NoMark(more, marks)
  <2>1. PICK l \in DOMAIN more : more[l] \in marks
    BY <1>5 DEF NoMark
  <2>2. l \in Int /\ Len(bytes) \in Int /\ B \subseteq Int
    BY SMTT(30) DEF Marks
  <2> DEFINE x == Len(bytes) + l
  <2>3. B \subseteq A \cup {x}
    <3> SUFFICES ASSUME NEW j \in B, j \notin A PROVE j = x
      OBVIOUS
    <3>1. j - Len(bytes) \in DOMAIN more /\ more[j - Len(bytes)] \in marks
      BY <1>3
    <3>2. j - Len(bytes) = l
      BY <2>1, <3>1 DEF AtMostOneMark
    <3>3. j \in Int
      BY <2>2
    <3> HIDE DEF B
    <3> QED BY SMTT(30), <2>2, <3>2, <3>3
  <2> HIDE DEF A, B, x
  <2>4. /\ IsFiniteSet(A \cup {x})
        /\ Cardinality(A \cup {x}) = IF x \in A THEN Cardinality(A) ELSE Cardinality(A) + 1
    BY <1>1, FS_AddElement
  <2>5. IsFiniteSet(B) /\ Cardinality(B) =< Cardinality(A \cup {x})
    BY <2>3, <2>4, FS_Subset
  <2>6. Cardinality(B) \in Nat
    BY <2>5, FS_CardinalityType
  <2>7. Cardinality(B) =< Cardinality(A) + 1
    BY SMTT(30), <1>1, <2>4, <2>5, <2>6
  <2> QED BY <1>5, <2>7 DEF MarkCount, A, B
<1> QED BY <1>4, <1>5

(* What is read from the front of a stream takes its marks with it. *)
LEMMA MarksRead ==
  ASSUME NEW S, NEW bytes \in Seq(S), NEW marks, NEW m \in 0 .. Len(bytes), NEW p \in Int
  PROVE  MarkCount(SubSeq(bytes, m + 1, Len(bytes)), marks)
            + (IF p \in 1 .. m THEN Held(bytes, p, marks) ELSE 0) =< MarkCount(bytes, marks)
<1> DEFINE rest == SubSeq(bytes, m + 1, Len(bytes))
           A == Marks(bytes, marks)
           B == Marks(rest, marks)
           C == IF p \in 1 .. m THEN A \ {p} ELSE A
           f == [j \in B |-> j + m]
<1>1. /\ rest \in Seq(S) /\ Len(rest) = Len(bytes) - m
      /\ \A j \in 1 .. Len(rest) : rest[j] = bytes[j + m]
  BY SMTT(30), SubSeqParts
<1> HIDE DEF rest
<1>2. IsFiniteSet(A) /\ Cardinality(A) \in Nat
  BY MarksFinite DEF MarkCount
<1>3. IsFiniteSet(C) /\ Cardinality(C) = Cardinality(A) - (IF p \in 1 .. m THEN Held(bytes, p, marks) ELSE 0)
  <2>1. p \in 1 .. m => (p \in A <=> Held(bytes, p, marks) = 1)
    BY SMTT(30) DEF Marks, Held
  <2>2. CASE p \in 1 .. m
    <3>1. /\ IsFiniteSet(A \ {p})
          /\ Cardinality(A \ {p}) = IF p \in A THEN Cardinality(A) - 1 ELSE Cardinality(A)
      BY <1>2, FS_RemoveElement
    <3>2. Held(bytes, p, marks) \in {0, 1}
      BY DEF Held
    <3> QED BY SMTT(30), <1>2, <2>1, <2>2, <3>1, <3>2
  <2> QED BY SMTT(30), <1>2, <2>2
<1>4. \A j \in B : j \in 1 .. Len(rest) /\ rest[j] \in marks
  <2>1. DOMAIN rest = 1 .. Len(rest)
    BY SMTT(30), <1>1
  <2> QED BY <2>1 DEF Marks
<1> HIDE DEF B
<1>5. \A j \in B : j + m \in C
  <2> SUFFICES ASSUME NEW j \in B PROVE j + m \in C
    OBVIOUS
  <2>1. j \in 1 .. Len(bytes) - m /\ bytes[j + m] \in marks
    BY <1>1, <1>4
  <2>2. j + m \in A
    BY SMTT(30), <2>1 DEF Marks
  <2> HIDE DEF A
  <2>3. p \in 1 .. m => j + m # p
    BY SMTT(30), <2>1
  <2> QED BY <2>2, <2>3
<1>6. f \in Injection(B, C)
  <2>1. f \in [B -> C]
    BY <1>5
  <2>2. \A a, b \in B : f[a] = f[b] => a = b
    BY SMTT(30), <1>4
  <2> QED BY <2>1, <2>2 DEF Injection, IsInjective
<1>7. IsFiniteSet(B) /\ Cardinality(B) =< Cardinality(C)
  BY <1>3, <1>6, FS_Injection
<1>8. Cardinality(B) \in Nat
  BY <1>7, FS_CardinalityType
<1>9. Held(bytes, p, marks) \in {0, 1}
  BY DEF Held
<1> QED BY SMTT(30), <1>2, <1>3, <1>7, <1>8, <1>9 DEF MarkCount, rest, B

-----------------------------------------------------------------------------
(* One read of receive_message takes bytes from the front of the stream to *)
(* their places in the buffer.                                             *)
FilledFrom(new, buf, received, stream, m) ==
    \A k \in 1 .. GP_SIZE :
        new[k] = IF k - received \in 1 .. m THEN stream[k - received] ELSE buf[k]

LEMMA ReadFills ==
  ASSUME NEW S, NEW buf \in [1 .. GP_SIZE -> S], NEW stream \in Seq(S),
         NEW received \in 0 .. GP_SIZE - 1, NEW closed,
         NEW m \in ReadSizes(stream, received, closed)
  PROVE  /\ m \in 0 .. Len(stream) /\ received + m =< GP_SIZE
         /\ Filled(buf, received, SubSeq(stream, 1, m)) \in [1 .. GP_SIZE -> S]
         /\ FilledFrom(Filled(buf, received, SubSeq(stream, 1, m)), buf, received, stream, m)
         /\ SubSeq(stream, m + 1, Len(stream)) \in Seq(S)
         /\ Len(SubSeq(stream, m + 1, Len(stream))) = Len(stream) - m
         /\ \A j \in 1 .. Len(stream) - m : SubSeq(stream, m + 1, Len(stream))[j] = stream[j + m]
<1> USE StreamAssumption
<1> DEFINE bytes == SubSeq(stream, 1, m)
           new == Filled(buf, received, bytes)
           rest == SubSeq(stream, m + 1, Len(stream))
<1>1. m \in 0 .. Len(stream) /\ received + m =< GP_SIZE
  BY SMTT(30) DEF ReadSizes, Wanted
<1>2. /\ bytes \in Seq(S) /\ DOMAIN bytes = 1 .. m
      /\ \A k \in 1 .. m : bytes[k] = stream[k]
  BY SMTT(30), <1>1, SubSeqParts
<1>3. /\ rest \in Seq(S) /\ Len(rest) = Len(stream) - m
      /\ \A j \in 1 .. Len(stream) - m : rest[j] = stream[j + m]
  BY SMTT(30), <1>1, SubSeqParts
<1> HIDE DEF bytes, rest
<1>4. \A k \in 1 .. GP_SIZE :
         new[k] = IF k - received \in 1 .. m THEN stream[k - received] ELSE buf[k]
  BY <1>2 DEF Filled
<1>5. new \in [1 .. GP_SIZE -> S]
  <2>1. \A k \in 1 .. m : stream[k] \in S
    BY SMTT(30), <1>1
  <2>2. \A k \in 1 .. GP_SIZE : new[k] \in S
    BY <1>4, <2>1
  <2> QED BY <2>2 DEF Filled
<1> HIDE DEF new
<1>6. FilledFrom(new, buf, received, stream, m)
  BY <1>4 DEF FilledFrom
<1> QED BY <1>1, <1>3, <1>5, <1>6 DEF new, bytes, rest

(* No mark is in the buffer and the stream twice. *)
LEMMA ReadKeepsMarks ==
  ASSUME NEW S, NEW buf \in [1 .. GP_SIZE -> S], NEW stream \in Seq(S),
         NEW received \in 0 .. GP_SIZE - 1, NEW closed,
         NEW m \in ReadSizes(stream, received, closed), NEW marks, NEW place \in 1 .. GP_SIZE
  PROVE  MarkCount(SubSeq(stream, m + 1, Len(stream)), marks)
               + Held(Filled(buf, received, SubSeq(stream, 1, m)), place, marks)
            =< MarkCount(stream, marks) + Held(buf, place, marks)
<1> DEFINE new == Filled(buf, received, SubSeq(stream, 1, m))
           rest == SubSeq(stream, m + 1, Len(stream))
           p == place - received
<1>1. m \in 0 .. Len(stream) /\ rest \in Seq(S)
  BY ReadFills
<1>2. FilledFrom(new, buf, received, stream, m)
  BY ReadFills
<1> HIDE DEF new
<1>3. p \in Int
  BY SMTT(30), StreamAssumption
<1>4. Held(new, place, marks) = IF p \in 1 .. m THEN Held(stream, p, marks) ELSE Held(buf, place, marks)
  BY <1>2 DEF Held, FilledFrom
<1> HIDE DEF p
<1>5. MarkCount(rest, marks) + (IF p \in 1 .. m THEN Held(stream, p, marks) ELSE 0) =< MarkCount(stream, marks)
  BY <1>1, <1>3, MarksRead
<1> HIDE DEF rest
<1>6. /\ MarkCount(rest, marks) \in Nat /\ MarkCount(stream, marks) \in Nat
      /\ Held(stream, p, marks) \in Nat /\ Held(buf, place, marks) \in Nat
  BY <1>1, MarksFinite DEF Held
<1>7. MarkCount(rest, marks) + Held(new, place, marks) =< MarkCount(stream, marks) + Held(buf, place, marks)
  <2>1. CASE p \in 1 .. m
    BY SMTT(30), <1>4, <1>5, <1>6, <2>1
  <2>2. CASE p \notin 1 .. m
    BY SMTT(30), <1>4, <1>5, <1>6, <2>2
  <2> QED BY <2>1, <2>2
<1> QED BY <1>7 DEF new, rest

(* A buffer of a known kind starts with the start of a message, and ends   *)
(* with its last byte.                                                     *)
LEMMA KindHeld ==
  ASSUME NEW buf, Kind(buf) # "none"
  PROVE  buf[1] = <<Kind(buf), 1>> /\ buf[GP_HEADER_SIZE] = <<Kind(buf), GP_HEADER_SIZE>>
<1>1. \A k \in 1 .. GP_HEADER_SIZE : buf[k] = <<buf[1][1], k>>
  BY DEF Kind
<1>2. Kind(buf) = buf[1][1] /\ 1 \in 1 .. GP_HEADER_SIZE /\ GP_HEADER_SIZE \in 1 .. GP_HEADER_SIZE
  BY SMTT(30), <1>1, StreamAssumption DEF Kind
<1> QED BY <1>1, <1>2

(* A buffer with a request starts with its start. *)
LEMMA AskingHeld ==
  ASSUME NEW buf, Kind(buf) \in AskingKinds
  PROVE  Held(buf, 1, AskingStarts) = 1
<1>1. Kind(buf) # "none"
  BY DEF AskingKinds
<1>2. buf[1] = <<Kind(buf), 1>>
  BY <1>1, KindHeld
<1> QED BY <1>2 DEF Held, AskingStarts

(* A buffer that may hold a code has the end of a line after it. *)
LEMMA CodeHeld ==
  ASSUME NEW buf, CodesIn(buf) # {}
  PROVE  Held(buf, GP_HEADER_SIZE, LineEnds) = 1
<1>1. CASE Kind(buf) # "none"
  <2>1. Kind(buf) \in {"right", "wrong"}
    BY <1>1 DEF CodesIn, GuessesIn
  <2>2. Kind(buf) \in Lines /\ LineEnd(Kind(buf)) = GP_HEADER_SIZE
    BY SMTT(30), <2>1 DEF Lines, LineEnd
  <2>3. buf[GP_HEADER_SIZE] = <<Kind(buf), GP_HEADER_SIZE>>
    BY <1>1, KindHeld
  <2>4. buf[GP_HEADER_SIZE] \in LineEnds
    BY <2>2, <2>3 DEF LineEnds
  <2> QED BY <2>4 DEF Held
<1>2. CASE Kind(buf) = "none"
  <2>1. buf[GP_HEADER_SIZE] \in LineEnds
    BY <1>2 DEF CodesIn, GuessesIn
  <2> QED BY <2>1 DEF Held
<1> QED BY <1>1, <1>2

(* No byte of the server is the end of a line, and none of nothing a start. *)
LEMMA ServerBytesNoEnds ==
  /\ \A b \in ServerBytes : b \notin LineEnds
  /\ <<"none", 0>> \notin AskingStarts /\ <<"none", 0>> \notin LineEnds
<1>1. \A b \in ServerBytes : b \notin LineEnds
  BY SMTT(30) DEF ServerBytes, ServerKinds, LineEnds, Lines
<1>2. <<"none", 0>> \notin AskingStarts
  BY SMTT(30) DEF AskingStarts, AskingKinds
<1>3. <<"none", 0>> \notin LineEnds
  BY SMTT(30) DEF LineEnds, Lines
<1> QED BY <1>1, <1>2, <1>3

LEMMA BlankHeld ==
  ASSUME NEW place \in 1 .. GP_SIZE
  PROVE  Held(Blank, place, AskingStarts) = 0 /\ Held(Blank, place, LineEnds) = 0
BY ServerBytesNoEnds DEF Held, Blank

(* What the server composes: GP_SIZE bytes, the start of one message. *)
LEMMA MessageStarts ==
  ASSUME NEW kind \in ServerKinds, NEW m \in 0 .. GP_SIZE
  PROVE  /\ Message(kind) \in [1 .. GP_SIZE -> ServerBytes]
         /\ SubSeq(Message(kind), 1, m) \in Seq(ServerBytes) /\ Len(SubSeq(Message(kind), 1, m)) = m
         /\ \A j \in 1 .. m : SubSeq(Message(kind), 1, m)[j] = <<kind, j>>
         /\ AtMostOneMark(SubSeq(Message(kind), 1, m), AskingStarts)
         /\ kind \notin AskingKinds => NoMark(SubSeq(Message(kind), 1, m), AskingStarts)
<1> USE StreamAssumption
<1>1. Message(kind) \in [1 .. GP_SIZE -> ServerBytes]
  <2>1. \A k \in 1 .. GP_SIZE : <<kind, k>> \in ServerBytes
    BY SMTT(30) DEF ServerBytes
  <2> QED BY <2>1 DEF Message
<1>2. Message(kind) \in Seq(ServerBytes) /\ Len(Message(kind)) = GP_SIZE
  BY SMTT(30), <1>1
<1> DEFINE part == SubSeq(Message(kind), 1, m)
<1>3. part \in Seq(ServerBytes) /\ Len(part) = m /\ \A j \in 1 .. m : part[j] = Message(kind)[j]
  BY SMTT(30), <1>2, SubSeqParts
<1> HIDE DEF part
<1>4. \A j \in 1 .. m : part[j] = <<kind, j>>
  <2>1. \A j \in 1 .. GP_SIZE : Message(kind)[j] = <<kind, j>>
    BY DEF Message
  <2> QED BY SMTT(30), <1>3, <2>1
<1>5. DOMAIN part = 1 .. m
  BY SMTT(30), <1>3
<1>6. \A j \in DOMAIN part : part[j] \in AskingStarts => j = 1 /\ kind \in AskingKinds
  BY SMTT(30), <1>4, <1>5 DEF AskingStarts
<1>7. AtMostOneMark(part, AskingStarts)
  BY <1>6 DEF AtMostOneMark
<1>8. kind \notin AskingKinds => NoMark(part, AskingStarts)
  BY <1>6 DEF NoMark
<1> QED BY <1>1, <1>3, <1>4, <1>7, <1>8 DEF part

LEMMA WholeMessage ==
  ASSUME NEW S, NEW bytes \in [1 .. GP_SIZE -> S]
  PROVE  bytes \in Seq(S) /\ Len(bytes) = GP_SIZE /\ SubSeq(bytes, 1, GP_SIZE) = bytes
<1>1. bytes \in Seq(S) /\ Len(bytes) = GP_SIZE
  BY SMTT(30), StreamAssumption
<1>2. /\ SubSeq(bytes, 1, GP_SIZE) \in Seq(S) /\ Len(SubSeq(bytes, 1, GP_SIZE)) = GP_SIZE
      /\ \A j \in 1 .. GP_SIZE : SubSeq(bytes, 1, GP_SIZE)[j] = bytes[j]
  BY SMTT(30), <1>1, StreamAssumption, SubSeqParts
<1>3. SubSeq(bytes, 1, GP_SIZE) = bytes
  BY SMTT(30), <1>1, <1>2
<1> QED BY <1>1, <1>3

(* The points where the server sends, and which of them ask for a guess. *)
LEMMA PointFacts ==
  ASSUME server_pc \in DOMAIN ServerPoints
  PROVE  /\ ServerPoints[server_pc] \in ServerKinds
         /\ Asks <=> ServerPoints[server_pc] \in AskingKinds
         /\ server_pc \notin {"receive", "score", "closed"}
         /\ PointAfter \in DOMAIN ServerPoints \cup {"receive", "closed"}
BY SMTT(30) DEF ServerPoints, ServerKinds, Asks, AskingKinds, PointAfter

-----------------------------------------------------------------------------
StreamTypes ==
    /\ to_client \in Seq(ServerBytes) /\ to_server \in Seq(ClientBytes)
    /\ client_buf \in [1 .. GP_SIZE -> ServerBytes] /\ client_read \in 0 .. GP_SIZE - 1
    /\ server_buf \in [1 .. GP_SIZE -> ClientBytes] /\ server_read \in 0 .. GP_SIZE - 1
    /\ requests \in Nat /\ answers \in Nat /\ lines \in Nat /\ scored \in Nat
    /\ server_pc \in DOMAIN ServerPoints \cup {"receive", "score", "closed"}
    /\ client_pc \in {"receive", "handle", "ended", "killed"}

(* Every request asked for has been answered, is in the client's buffer or *)
(* is on its way, and is only at one of the three; likewise for the lines. *)
(* The server's buffer counts while it receives and until it has scored.   *)
InTheServersBuffer ==
    IF server_pc \in {"receive", "score"} THEN Held(server_buf, GP_HEADER_SIZE, LineEnds) ELSE 0

StreamAccounts ==
    /\ answers + Held(client_buf, 1, AskingStarts) + MarkCount(to_client, AskingStarts) =< requests
    /\ scored + InTheServersBuffer + MarkCount(to_server, LineEnds) =< lines
    /\ server_pc = "score" => CodesIn(server_buf) # {}

StreamInv == StreamTypes /\ StreamAccounts

LEMMA HeldType ==
  ASSUME NEW buf, NEW place, NEW marks
  PROVE  Held(buf, place, marks) \in Nat
BY DEF Held

LEMMA BytesIncluded ==
  /\ ServerBytes \subseteq ClientBytes
  /\ Seq(ServerBytes) \subseteq Seq(ClientBytes)
  /\ Blank \in [1 .. GP_SIZE -> ServerBytes] /\ Blank \in [1 .. GP_SIZE -> ClientBytes]
<1>1. ServerBytes \subseteq ClientBytes
  BY DEF ServerBytes, ClientBytes
<1>2. <<"none", 0>> \in ServerBytes
  BY SMTT(30), StreamAssumption DEF ServerBytes
<1>3. Seq(ServerBytes) \subseteq Seq(ClientBytes)
  <2> HIDE DEF ServerBytes, ClientBytes
  <2> QED BY SMTT(30), <1>1
<1> QED BY <1>1, <1>2, <1>3 DEF Blank

(* The places that are looked at. *)
LEMMA PlacesIn == 1 \in 1 .. GP_SIZE /\ GP_HEADER_SIZE \in 1 .. GP_SIZE
BY SMTT(30), StreamAssumption

LEMMA StreamInitInv == StreamInit => StreamInv
<1> SUFFICES ASSUME StreamInit PROVE StreamInv
  OBVIOUS
<1>1. StreamTypes
  BY SMTT(30), BytesIncluded, StreamAssumption DEF StreamInit, StreamTypes, ServerPoints
<1>2. StreamAccounts
  <2>1. Held(client_buf, 1, AskingStarts) = 0 /\ InTheServersBuffer = 0
    BY BlankHeld, PlacesIn DEF StreamInit, InTheServersBuffer
  <2> QED BY SMTT(30), <2>1, NoBytesNoMarks DEF StreamInit, StreamAccounts
<1> QED BY <1>1, <1>2 DEF StreamInv

(* What the accounts need of every state. *)
LEMMA AccountTypes ==
  ASSUME StreamTypes
  PROVE  /\ Held(client_buf, 1, AskingStarts) \in Nat /\ MarkCount(to_client, AskingStarts) \in Nat
         /\ InTheServersBuffer \in Nat /\ MarkCount(to_server, LineEnds) \in Nat
         /\ requests \in Nat /\ answers \in Nat /\ lines \in Nat /\ scored \in Nat
BY HeldType, MarksFinite DEF StreamTypes, InTheServersBuffer

(* Sending, whole or in part, adds at most the request that is counted. *)
LEMMA ServerSendsInv ==
  ASSUME StreamInv, ServerSends \/ ServerSendFails
  PROVE  StreamInv'
<1> DEFINE kind == ServerPoints[server_pc]
<1>1. PICK m \in 0 .. GP_SIZE :
        to_client' = to_client \/ to_client' = to_client \o SubSeq(Message(kind), 1, m)
  <2>1. CASE ServerSends
    <3>1. kind \in ServerKinds
      BY <2>1, PointFacts DEF ServerSends
    <3>2. to_client' = to_client \/ to_client' = to_client \o Message(kind)
      BY <2>1 DEF ServerSends
    <3> HIDE DEF kind
    <3>3. GP_SIZE \in 0 .. GP_SIZE
      BY SMTT(30), StreamAssumption
    <3>4. Message(kind) \in [1 .. GP_SIZE -> ServerBytes]
      BY <3>1, <3>3, MessageStarts
    <3>5. Message(kind) = SubSeq(Message(kind), 1, GP_SIZE)
      BY <3>4, WholeMessage
    <3> QED BY <3>2, <3>3, <3>5
  <2>2. CASE ServerSendFails
    <3>1. to_client' = to_client
          \/ \E m \in 0 .. GP_SIZE - 1 : to_client' = to_client \o SubSeq(Message(kind), 1, m)
      BY <2>2 DEF ServerSendFails
    <3> HIDE DEF kind
    <3>2. 0 \in 0 .. GP_SIZE /\ \A m \in 0 .. GP_SIZE - 1 : m \in 0 .. GP_SIZE
      BY SMTT(30), StreamAssumption
    <3> QED BY <3>1, <3>2
  <2> QED BY <2>1, <2>2
<1>2. /\ server_pc \in DOMAIN ServerPoints
      /\ server_buf' = Message(kind)
      /\ UNCHANGED <<to_server, server_read, scored, clientSide>>
  BY DEF ServerSends, ServerSendFails, Composed
<1>3. /\ kind \in ServerKinds /\ (Asks <=> kind \in AskingKinds)
      /\ PointAfter \in DOMAIN ServerPoints \cup {"receive", "closed"}
  BY <1>2, PointFacts
<1> HIDE DEF kind
<1>4. /\ requests' \in Nat /\ requests' >= requests
      /\ to_client' # to_client /\ kind \in AskingKinds => requests' = requests + 1
  BY SMTT(30), <1>3 DEF ServerSends, ServerSendFails, StreamInv, StreamTypes
<1>5. server_pc' \in DOMAIN ServerPoints \cup {"receive", "closed"}
  BY <1>3 DEF ServerSends, ServerSendFails
<1> DEFINE part == SubSeq(Message(kind), 1, m)
<1>6. part \in Seq(ServerBytes) /\ Message(kind) \in [1 .. GP_SIZE -> ServerBytes]
  BY <1>3, MessageStarts
<1>7. AtMostOneMark(part, AskingStarts) /\ (kind \notin AskingKinds => NoMark(part, AskingStarts))
  BY <1>3, MessageStarts
<1>8. to_client' = to_client \/ to_client' = to_client \o part
  BY <1>1
<1> HIDE DEF part
<1>9. to_client \in Seq(ServerBytes) /\ to_client \o part \in Seq(ServerBytes)
  <2>1. to_client \in Seq(ServerBytes)
    BY DEF StreamInv, StreamTypes
  <2> QED BY SMTT(30), <1>6, <2>1
<1>10. StreamTypes'
  <2>1. to_client' \in Seq(ServerBytes)
    BY <1>8, <1>9
  <2>2. server_buf' \in [1 .. GP_SIZE -> ClientBytes]
    BY <1>2, <1>6, BytesIncluded
  <2> QED BY <1>2, <1>4, <1>5, <2>1, <2>2 DEF StreamInv, StreamTypes, clientSide
<1>11. answers' + Held(client_buf, 1, AskingStarts)' + MarkCount(to_client, AskingStarts)' =< requests'
  <2>1. /\ answers' = answers
        /\ Held(client_buf, 1, AskingStarts)' = Held(client_buf, 1, AskingStarts)
    BY <1>2 DEF clientSide
  <2>2. CASE to_client' = to_client
    BY SMTT(30), <1>4, <2>1, <2>2, AccountTypes DEF StreamInv, StreamAccounts
  <2>3. CASE to_client' # to_client
    <3>1. to_client' = to_client \o part
      BY <1>8, <2>3
    <3>2. /\ MarkCount(to_client \o part, AskingStarts) =< MarkCount(to_client, AskingStarts) + 1
          /\ kind \notin AskingKinds =>
                MarkCount(to_client \o part, AskingStarts) = MarkCount(to_client, AskingStarts)
      BY <1>6, <1>7, <1>9, MarksAppended
    <3>3. MarkCount(to_client \o part, AskingStarts) \in Nat
      BY <1>9, MarksFinite
    <3>4. MarkCount(to_client, AskingStarts)' = MarkCount(to_client \o part, AskingStarts)
      BY <3>1
    <3> QED BY SMTT(30), <1>4, <2>1, <2>3, <3>2, <3>3, <3>4, AccountTypes DEF StreamInv, StreamAccounts
  <2> QED BY <2>2, <2>3
<1>12. scored' + InTheServersBuffer' + MarkCount(to_server, LineEnds)' =< lines'
  <2>1. Held(Message(kind), GP_HEADER_SIZE, LineEnds) = 0
    BY <1>6, PlacesIn, ServerBytesNoEnds DEF Held
  <2>2. InTheServersBuffer' = 0
    BY <1>2, <1>5, <2>1 DEF InTheServersBuffer
  <2>3. scored' = scored /\ lines' = lines /\ to_server' = to_server
    BY <1>2 DEF clientSide
  <2>4. MarkCount(to_server, LineEnds)' = MarkCount(to_server, LineEnds)
    BY <2>3
  <2> QED BY SMTT(30), <2>2, <2>3, <2>4, AccountTypes DEF StreamInv, StreamAccounts
<1>13. server_pc' # "score"
  BY <1>5 DEF ServerPoints
<1> QED BY <1>10, <1>11, <1>12, <1>13 DEF StreamInv, StreamAccounts

(* A read of the server moves marks from the stream to its buffer. *)
LEMMA ServerReadsInv ==
  ASSUME StreamInv, ServerReads
  PROVE  StreamInv'
<1>1. PICK m \in ReadSizes(to_server, server_read, ClientGone) :
        /\ server_buf' = Filled(server_buf, server_read, SubSeq(to_server, 1, m))
        /\ to_server' = SubSeq(to_server, m + 1, Len(to_server))
        /\ server_read' = IF LastRead(server_read + m, server_attempts) THEN 0 ELSE server_read + m
        /\ server_pc' \in {"receive", "score", "invalid"}
        /\ server_pc' = "score" => CodesIn(server_buf') # {}
  BY DEF ServerReads
<1>2. server_pc = "receive" /\ UNCHANGED <<to_client, scored, clientSide, requests>>
  BY DEF ServerReads
<1>3. /\ server_buf \in [1 .. GP_SIZE -> ClientBytes] /\ to_server \in Seq(ClientBytes)
      /\ server_read \in 0 .. GP_SIZE - 1
  BY DEF StreamInv, StreamTypes
<1>4. /\ m \in 0 .. Len(to_server) /\ server_read + m =< GP_SIZE
      /\ server_buf' \in [1 .. GP_SIZE -> ClientBytes] /\ to_server' \in Seq(ClientBytes)
      /\ MarkCount(to_server, LineEnds)' + Held(server_buf, GP_HEADER_SIZE, LineEnds)'
            =< MarkCount(to_server, LineEnds) + Held(server_buf, GP_HEADER_SIZE, LineEnds)
  BY <1>1, <1>3, PlacesIn, ReadFills, ReadKeepsMarks
<1>5. StreamTypes'
  <2>1. server_read' \in 0 .. GP_SIZE - 1
    BY SMTT(30), <1>1, <1>3, <1>4, StreamAssumption DEF LastRead
  <2>2. server_pc' \in DOMAIN ServerPoints \cup {"receive", "score", "closed"}
    BY <1>1 DEF ServerPoints
  <2> QED BY <1>2, <1>4, <2>1, <2>2 DEF StreamInv, StreamTypes, clientSide
<1>6. /\ InTheServersBuffer = Held(server_buf, GP_HEADER_SIZE, LineEnds)
      /\ InTheServersBuffer' =< Held(server_buf, GP_HEADER_SIZE, LineEnds)'
  BY SMTT(30), <1>2 DEF InTheServersBuffer, Held
<1>7. scored' + InTheServersBuffer' + MarkCount(to_server, LineEnds)' =< lines'
  <2>1. /\ Held(server_buf, GP_HEADER_SIZE, LineEnds)' \in Nat /\ InTheServersBuffer' \in Nat
        /\ MarkCount(to_server, LineEnds)' \in Nat
    BY <1>4, HeldType, MarksFinite DEF InTheServersBuffer
  <2>2. scored' = scored /\ lines' = lines
    BY <1>2 DEF clientSide
  <2>3. MarkCount(to_server, LineEnds)' + Held(server_buf, GP_HEADER_SIZE, LineEnds)'
          =< MarkCount(to_server, LineEnds) + InTheServersBuffer
    BY <1>4, <1>6
  <2>4. scored + InTheServersBuffer + MarkCount(to_server, LineEnds) =< lines
    BY DEF StreamInv, StreamAccounts
  <2>5. /\ InTheServersBuffer \in Nat /\ MarkCount(to_server, LineEnds) \in Nat
        /\ lines \in Nat /\ scored \in Nat
    BY AccountTypes DEF StreamInv
  <2> QED BY SMTT(30), <1>6, <2>1, <2>2, <2>3, <2>4, <2>5
<1>8. answers' + Held(client_buf, 1, AskingStarts)' + MarkCount(to_client, AskingStarts)' =< requests'
  BY <1>2 DEF clientSide, StreamInv, StreamAccounts
<1>9. server_pc' = "score" => (CodesIn(server_buf) # {})'
  BY <1>1
<1> QED BY <1>5, <1>7, <1>8, <1>9 DEF StreamInv, StreamAccounts

(* A score uses up the line that is in the buffer. *)
LEMMA ScoresInv ==
  ASSUME StreamInv, Scores
  PROVE  StreamInv'
<1>1. /\ server_pc = "score" /\ server_pc' = "feedback" /\ scored' = scored + 1
      /\ UNCHANGED <<to_client, to_server, server_buf, server_read, clientSide, requests>>
  BY DEF Scores
<1>2. StreamTypes'
  BY SMTT(30), <1>1 DEF StreamInv, StreamTypes, clientSide, ServerPoints
<1>3. InTheServersBuffer = 1 /\ InTheServersBuffer' = 0
  <2>1. CodesIn(server_buf) # {}
    BY <1>1 DEF StreamInv, StreamAccounts
  <2>2. Held(server_buf, GP_HEADER_SIZE, LineEnds) = 1
    BY <2>1, CodeHeld
  <2> QED BY <1>1, <2>2 DEF InTheServersBuffer
<1>4. StreamAccounts'
  BY SMTT(30), <1>1, <1>3, AccountTypes DEF StreamInv, StreamAccounts, clientSide
<1> QED BY <1>2, <1>4 DEF StreamInv

(* The end of the server loses nothing that counts. *)
LEMMA ServerShutsDownInv ==
  ASSUME StreamInv, ServerShutsDown
  PROVE  StreamInv'
<1>1. /\ server_pc' = "closed"
      /\ UNCHANGED <<to_client, to_server, server_buf, server_read, scored, clientSide, requests>>
  BY DEF ServerShutsDown
<1>2. StreamTypes'
  BY <1>1 DEF StreamInv, StreamTypes, clientSide
<1>3. InTheServersBuffer' = 0
  BY <1>1 DEF InTheServersBuffer
<1>4. StreamAccounts'
  BY SMTT(30), <1>1, <1>3, AccountTypes DEF StreamInv, StreamAccounts, clientSide
<1> QED BY <1>2, <1>4 DEF StreamInv

(* A read of the client moves marks from the stream to its buffer. *)
LEMMA ClientReceivesInv ==
  ASSUME StreamInv, ClientReceives
  PROVE  StreamInv'
<1>1. PICK m \in ReadSizes(to_client, client_read, server_pc = "closed") :
        /\ client_buf' = Filled(client_buf, client_read, SubSeq(to_client, 1, m))
        /\ to_client' = SubSeq(to_client, m + 1, Len(to_client))
        /\ client_read' = IF LastRead(client_read + m, client_attempts) THEN 0 ELSE client_read + m
        /\ client_pc' \in {"handle", "receive"}
  BY DEF ClientReceives
<1>2. UNCHANGED <<to_server, answers, lines, serverSide, requests>>
  BY DEF ClientReceives
<1>3. /\ client_buf \in [1 .. GP_SIZE -> ServerBytes] /\ to_client \in Seq(ServerBytes)
      /\ client_read \in 0 .. GP_SIZE - 1
  BY DEF StreamInv, StreamTypes
<1>4. /\ m \in 0 .. Len(to_client) /\ client_read + m =< GP_SIZE
      /\ client_buf' \in [1 .. GP_SIZE -> ServerBytes] /\ to_client' \in Seq(ServerBytes)
      /\ MarkCount(to_client, AskingStarts)' + Held(client_buf, 1, AskingStarts)'
            =< MarkCount(to_client, AskingStarts) + Held(client_buf, 1, AskingStarts)
  BY <1>1, <1>3, PlacesIn, ReadFills, ReadKeepsMarks
<1>5. StreamTypes'
  <2>1. client_read' \in 0 .. GP_SIZE - 1
    BY SMTT(30), <1>1, <1>3, <1>4, StreamAssumption DEF LastRead
  <2> QED BY <1>1, <1>2, <1>4, <2>1 DEF StreamInv, StreamTypes, serverSide
<1>6. answers' + Held(client_buf, 1, AskingStarts)' + MarkCount(to_client, AskingStarts)' =< requests'
  <2>1. Held(client_buf, 1, AskingStarts)' \in Nat /\ MarkCount(to_client, AskingStarts)' \in Nat
    BY <1>4, HeldType, MarksFinite
  <2>2. MarkCount(to_client, AskingStarts)' + Held(client_buf, 1, AskingStarts)'
          =< MarkCount(to_client, AskingStarts) + Held(client_buf, 1, AskingStarts)
    BY <1>4
  <2>3. answers + Held(client_buf, 1, AskingStarts) + MarkCount(to_client, AskingStarts) =< requests
    BY DEF StreamInv, StreamAccounts
  <2>4. /\ Held(client_buf, 1, AskingStarts) \in Nat /\ MarkCount(to_client, AskingStarts) \in Nat
        /\ requests \in Nat /\ answers \in Nat
    BY AccountTypes DEF StreamInv
  <2> QED BY SMTT(30), <1>2, <2>1, <2>2, <2>3, <2>4
<1>7. InTheServersBuffer' = InTheServersBuffer
  BY <1>2 DEF InTheServersBuffer, serverSide
<1> QED BY <1>2, <1>5, <1>6, <1>7 DEF StreamInv, StreamAccounts, serverSide

(* An answer has at most one end of a line, that of the line typed. *)
LEMMA TypedMarks ==
  ASSUME StreamInv, NEW line \in InputLines, NEW m \in 0 .. GP_SIZE
  PROVE  /\ Typed(line) \in [1 .. GP_SIZE -> ClientBytes]
         /\ SubSeq(Typed(line), 1, m) \in Seq(ClientBytes) /\ Len(SubSeq(Typed(line), 1, m)) = m
         /\ \A j \in 1 .. m : SubSeq(Typed(line), 1, m)[j] = Typed(line)[j]
         /\ AtMostOneMark(SubSeq(Typed(line), 1, m), LineEnds)
         /\ line = "EOF" => NoMark(SubSeq(Typed(line), 1, m), LineEnds)
<1> USE StreamAssumption
<1> DEFINE part == SubSeq(Typed(line), 1, m)
<1>1. \A k \in 1 .. GP_SIZE : client_buf[k] \in ServerBytes
  BY DEF StreamInv, StreamTypes
<1>2. \A k \in 1 .. GP_SIZE : line # "EOF" => <<line, k>> \in ClientBytes
  BY SMTT(30) DEF ClientBytes
<1>3. Typed(line) \in [1 .. GP_SIZE -> ClientBytes]
  BY <1>1, <1>2, BytesIncluded DEF Typed, StreamInv, StreamTypes
<1>4. \A k \in 1 .. GP_SIZE :
         Typed(line)[k] \in ServerBytes \/ (line # "EOF" /\ Typed(line)[k] = <<line, k>>)
  BY <1>1 DEF Typed
<1>5. Typed(line) \in Seq(ClientBytes) /\ Len(Typed(line)) = GP_SIZE
  BY <1>3, WholeMessage
<1>6. /\ part \in Seq(ClientBytes) /\ Len(part) = m
      /\ \A j \in 1 .. m : part[j] = Typed(line)[j]
  BY SMTT(30), <1>5, SubSeqParts
<1> HIDE DEF part
<1>7. DOMAIN part = 1 .. m /\ \A j \in 1 .. m : j \in 1 .. GP_SIZE
  BY SMTT(30), <1>6
<1>8. \A k : <<line, k>> \in LineEnds => k = LineEnd(line)
  BY SMTT(30) DEF LineEnds
<1>9. \A j \in DOMAIN part : part[j] \in LineEnds => j = LineEnd(line) /\ line # "EOF"
  BY <1>4, <1>6, <1>7, <1>8, ServerBytesNoEnds
<1>10. AtMostOneMark(part, LineEnds)
  BY <1>9 DEF AtMostOneMark
<1>11. line = "EOF" => NoMark(part, LineEnds)
  BY <1>9 DEF NoMark
<1> QED BY <1>3, <1>6, <1>10, <1>11 DEF part

(* A line answers the request that is in the buffer, which is cleared. *)
LEMMA ClientAnswersInv ==
  ASSUME StreamInv, NEW line \in InputLines, ClientAnswers(line)
  PROVE  StreamInv'
<1>1. PICK m \in 0 .. GP_SIZE :
        to_server' = to_server \/ to_server' = to_server \o SubSeq(Typed(line), 1, m)
  <2>1. GP_SIZE \in 0 .. GP_SIZE /\ 0 \in 0 .. GP_SIZE
        /\ \A m \in 0 .. GP_SIZE - 1 : m \in 0 .. GP_SIZE
    BY SMTT(30), StreamAssumption
  <2>2. Typed(line) = SubSeq(Typed(line), 1, GP_SIZE)
    BY <2>1, TypedMarks, WholeMessage
  <2>3. \/ to_server' = to_server
        \/ to_server' = to_server \o Typed(line)
        \/ \E m \in 0 .. GP_SIZE - 1 : to_server' = to_server \o SubSeq(Typed(line), 1, m)
    BY DEF ClientAnswers
  <2> QED BY <2>1, <2>2, <2>3
<1>2. /\ Kind(client_buf) \in AskingKinds /\ client_buf' = Blank
      /\ client_pc' \in {"receive", "killed"}
      /\ answers' = answers + 1
      /\ lines' = IF line = "EOF" THEN lines ELSE lines + 1
      /\ UNCHANGED <<to_client, client_read, serverSide, requests>>
  BY DEF ClientAnswers, Cleared
<1> DEFINE part == SubSeq(Typed(line), 1, m)
<1>3. /\ part \in Seq(ClientBytes) /\ AtMostOneMark(part, LineEnds)
      /\ line = "EOF" => NoMark(part, LineEnds)
  BY TypedMarks
<1>4. to_server' = to_server \/ to_server' = to_server \o part
  BY <1>1
<1> HIDE DEF part
<1>5. to_server \in Seq(ClientBytes) /\ to_server \o part \in Seq(ClientBytes)
  <2>1. to_server \in Seq(ClientBytes)
    BY DEF StreamInv, StreamTypes
  <2> QED BY SMTT(30), <1>3, <2>1
<1>6. StreamTypes'
  <2>1. to_server' \in Seq(ClientBytes)
    BY <1>4, <1>5
  <2>2. lines' \in Nat
    BY SMTT(30), <1>2 DEF StreamInv, StreamTypes
  <2> QED BY SMTT(30), <1>2, <2>1, <2>2, BytesIncluded DEF StreamInv, StreamTypes, serverSide
<1>7. answers' + Held(client_buf, 1, AskingStarts)' + MarkCount(to_client, AskingStarts)' =< requests'
  <2>1. Held(client_buf, 1, AskingStarts) = 1 /\ Held(client_buf, 1, AskingStarts)' = 0
    BY <1>2, PlacesIn, AskingHeld, BlankHeld
  <2> QED BY SMTT(30), <1>2, <2>1, AccountTypes DEF StreamInv, StreamAccounts
<1>8. scored' + InTheServersBuffer' + MarkCount(to_server, LineEnds)' =< lines'
  <2>1. scored' = scored /\ InTheServersBuffer' = InTheServersBuffer
    BY <1>2 DEF serverSide, InTheServersBuffer
  <2>2. /\ MarkCount(to_server \o part, LineEnds) =< MarkCount(to_server, LineEnds) + 1
        /\ line = "EOF" =>
              MarkCount(to_server \o part, LineEnds) = MarkCount(to_server, LineEnds)
    BY <1>3, <1>5, MarksAppended
  <2>3. MarkCount(to_server \o part, LineEnds) \in Nat
    BY <1>5, MarksFinite
  <2>4. \/ MarkCount(to_server, LineEnds)' = MarkCount(to_server, LineEnds)
        \/ MarkCount(to_server, LineEnds)' = MarkCount(to_server \o part, LineEnds)
    BY <1>4
  <2> QED BY SMTT(30), <1>2, <2>1, <2>2, <2>3, <2>4, AccountTypes DEF StreamInv, StreamAccounts
<1>9. server_pc' = "score" => (CodesIn(server_buf) # {})'
  BY <1>2 DEF serverSide, StreamInv, StreamAccounts
<1> QED BY <1>6, <1>7, <1>8, <1>9 DEF StreamInv, StreamAccounts

(* A client that passes over a message, stops or is killed clears its      *)
(* buffer; a killed one takes what it has not read with it.                *)
LEMMA ClientClearsInv ==
  ASSUME StreamInv, ClientPasses \/ ClientStops \/ ClientIsKilled
  PROVE  StreamInv'
<1>1. /\ client_buf' = Blank /\ client_read' \in {0, client_read}
      /\ client_pc' \in {"receive", "ended", "killed"}
      /\ to_client' \in {to_client, << >>} /\ to_server' \in {to_server, << >>}
      /\ UNCHANGED <<answers, lines, serverSide, requests>>
  BY DEF ClientPasses, ClientStops, ClientIsKilled, Cleared
<1>2. StreamTypes'
  <2>1. to_client' \in Seq(ServerBytes) /\ to_server' \in Seq(ClientBytes)
    <3>1. << >> \in Seq(ServerBytes) /\ << >> \in Seq(ClientBytes)
      BY SMTT(30)
    <3> QED BY <1>1, <3>1 DEF StreamInv, StreamTypes
  <2>2. client_read' \in 0 .. GP_SIZE - 1
    BY SMTT(30), <1>1, StreamAssumption DEF StreamInv, StreamTypes
  <2> QED BY <1>1, <2>1, <2>2, BytesIncluded DEF StreamInv, StreamTypes, serverSide
<1>3. /\ Held(client_buf, 1, AskingStarts)' = 0
      /\ MarkCount(to_client, AskingStarts)' \in {MarkCount(to_client, AskingStarts), 0}
      /\ MarkCount(to_server, LineEnds)' \in {MarkCount(to_server, LineEnds), 0}
      /\ InTheServersBuffer' = InTheServersBuffer
  BY <1>1, PlacesIn, BlankHeld, NoBytesNoMarks DEF InTheServersBuffer, serverSide
<1>4. StreamAccounts'
  BY SMTT(30), <1>1, <1>3, AccountTypes DEF StreamInv, StreamAccounts, serverSide
<1> QED BY <1>2, <1>4 DEF StreamInv

LEMMA StreamStepInv ==
  ASSUME StreamInv, [StreamNext]_streamVars
  PROVE  StreamInv'
<1>1. CASE UNCHANGED streamVars
  BY <1>1 DEF streamVars, serverSide, clientSide, StreamInv, StreamTypes, StreamAccounts,
              InTheServersBuffer
<1> QED BY <1>1, ServerSendsInv, ServerReadsInv, ScoresInv, ServerShutsDownInv,
           ClientReceivesInv, ClientAnswersInv, ClientClearsInv
        DEF StreamNext, ServerStep, ClientStep

LEMMA StreamInvariant == StreamSpec => []StreamInv
<1>1. StreamInv /\ [StreamNext]_streamVars => StreamInv'
  BY StreamStepInv
<1> QED BY StreamInitInv, <1>1, PTL DEF StreamSpec

(* For messages of any size cut into reads of any size, with any number of *)
(* attempts and of guesses, and whatever fails: no request is answered     *)
(* twice and no line scored twice (server.c:203, 546-553; client.c:84-124),*)
(* even where bytes of a line that is no code read as one.                 *)
THEOREM RequestsCountOnce == StreamSpec => []NothingCountsTwice
<1>1. StreamInv => NothingCountsTwice
  BY SMTT(30), AccountTypes DEF StreamInv, StreamAccounts, NothingCountsTwice
<1> QED BY StreamInvariant, <1>1, PTL

-----------------------------------------------------------------------------
(* Remainders, for places in a stream of whole messages. *)
LEMMA SmallMod ==
  ASSUME NEW G \in Nat, NEW x \in 0 .. G - 1
  PROVE  x % G = x
<1> DEFINE q == x \div G
           r == x % G
<1>1. q \in Int /\ r \in 0 .. G - 1 /\ x = G * q + r
  BY SMTT(30)
<1>2. CASE q >= 1
  BY SMTT(30), <1>1, <1>2
<1>3. CASE q =< -1
  BY SMTT(30), <1>1, <1>3
<1> QED BY SMTT(30), <1>1, <1>2, <1>3

LEMMA ModShift ==
  ASSUME NEW G \in Nat, G > 0, NEW a \in Nat, NEW x \in Nat, a % G = 0
  PROVE  (a + x) % G = x % G
<1> DEFINE q == (a + x) \div G
           r == (a + x) % G
           u == a \div G
           v == x \div G
           w == x % G
<1>1. q \in Int /\ r \in 0 .. G - 1 /\ a + x = G * q + r
  BY SMTT(30)
<1>2. u \in Int /\ a = G * u
  BY SMTT(30)
<1>3. v \in Int /\ w \in 0 .. G - 1 /\ x = G * v + w
  BY SMTT(30)
<1> HIDE DEF q, r, u, v, w
<1>4. G * (q - u - v) = w - r
  BY SMTT(30), <1>1, <1>2, <1>3
<1>5. CASE q - u - v >= 1
  BY SMTT(30), <1>1, <1>2, <1>3, <1>4, <1>5
<1>6. CASE q - u - v =< -1
  BY SMTT(30), <1>1, <1>2, <1>3, <1>4, <1>6
<1>7. r = w
  BY SMTT(30), <1>1, <1>2, <1>3, <1>4, <1>5, <1>6
<1> QED BY <1>7 DEF r, w

LEMMA SelfMod ==
  ASSUME NEW G \in Nat, G > 0
  PROVE  G % G = 0
<1> DEFINE q == G \div G
           r == G % G
<1>1. q \in Int /\ r \in 0 .. G - 1 /\ G = G * q + r
  BY SMTT(30)
<1> HIDE DEF q, r
<1>2. G * (1 - q) = r
  BY SMTT(30), <1>1
<1>3. CASE 1 - q >= 1
  BY SMTT(30), <1>1, <1>2, <1>3
<1>4. CASE 1 - q =< -1
  BY SMTT(30), <1>1, <1>2, <1>4
<1>5. r = 0
  BY SMTT(30), <1>1, <1>2, <1>3, <1>4
<1> QED BY <1>5 DEF r

(* The first received bytes of buf, with stream after them, are whole      *)
(* messages: each byte is at its place.                                    *)
Aligned(buf, received, stream) ==
    /\ (received + Len(stream)) % GP_SIZE = 0
    /\ \A k \in 1 .. received : buf[k][2] = k
    /\ \A j \in 1 .. Len(stream) : stream[j][2] = ((received + j - 1) % GP_SIZE) + 1

FullMessage(bytes) == \A k \in 1 .. GP_SIZE : bytes[k][2] = k

(* What a whole message appended to whole messages leaves. *)
LEMMA AlignedAppend ==
  ASSUME NEW S, NEW buf, NEW received \in Nat, NEW stream \in Seq(S), NEW more \in Seq(S),
         Aligned(buf, received, stream), Len(more) = GP_SIZE, FullMessage(more)
  PROVE  Aligned(buf, received, stream \o more)
<1> USE StreamAssumption
<1> DEFINE all == stream \o more
<1>1. /\ Len(all) = Len(stream) + GP_SIZE
      /\ \A j \in 1 .. Len(stream) : all[j] = stream[j]
      /\ \A k \in 1 .. GP_SIZE : all[Len(stream) + k] = more[k]
  BY SMTT(30)
<1> HIDE DEF all
<1> DEFINE before == received + Len(stream)
<1>2. before \in Nat /\ before % GP_SIZE = 0
  BY SMTT(30) DEF Aligned
<1> HIDE DEF before
<1>3. (before + GP_SIZE) % GP_SIZE = 0
  <2>1. GP_SIZE \in Nat /\ GP_SIZE > 0
    BY SMTT(30)
  <2>2. (before + GP_SIZE) % GP_SIZE = GP_SIZE % GP_SIZE
    BY <1>2, <2>1, ModShift
  <2> QED BY <2>1, <2>2, SelfMod
<1>4. \A k \in 1 .. GP_SIZE : (before + (k - 1)) % GP_SIZE = k - 1
  <2>1. GP_SIZE \in Nat /\ GP_SIZE > 0
    BY SMTT(30)
  <2>2. \A x \in Nat : (before + x) % GP_SIZE = x % GP_SIZE
    BY <1>2, <2>1, ModShift
  <2>3. \A x \in 0 .. GP_SIZE - 1 : x % GP_SIZE = x
    BY <2>1, SmallMod
  <2> TAKE k \in 1 .. GP_SIZE
  <2>4. k - 1 \in Nat /\ k - 1 \in 0 .. GP_SIZE - 1
    BY SMTT(30)
  <2> QED BY <2>2, <2>3, <2>4
<1>5. \A k \in 1 .. GP_SIZE :
         all[Len(stream) + k][2] = ((received + (Len(stream) + k) - 1) % GP_SIZE) + 1
  <2> TAKE k \in 1 .. GP_SIZE
  <2>1. all[Len(stream) + k][2] = k
    BY <1>1 DEF FullMessage
  <2>2. received + (Len(stream) + k) - 1 = before + (k - 1)
    BY SMTT(30) DEF before
  <2> QED BY SMTT(30), <1>4, <2>1, <2>2
<1>6. \A j \in 1 .. Len(all) : all[j][2] = ((received + j - 1) % GP_SIZE) + 1
  <2> TAKE j \in 1 .. Len(all)
  <2>1. CASE j =< Len(stream)
    <3>1. j \in 1 .. Len(stream)
      BY SMTT(30), <2>1
    <3> QED BY <1>1, <3>1 DEF Aligned
  <2>2. CASE j > Len(stream)
    <3>1. j - Len(stream) \in 1 .. GP_SIZE /\ j = Len(stream) + (j - Len(stream))
      BY SMTT(30), <1>1, <2>2
    <3> QED BY <1>5, <3>1
  <2> QED BY SMTT(30), <2>1, <2>2
<1>7. received + Len(all) = before + GP_SIZE
  BY SMTT(30), <1>1 DEF before
<1>8. Aligned(buf, received, all)
  BY <1>3, <1>6, <1>7 DEF Aligned
<1> QED BY <1>8 DEF all

(* A read keeps the rest whole, and a buffer that is full is a message. *)
LEMMA AlignedRead ==
  ASSUME NEW S, NEW buf \in [1 .. GP_SIZE -> S], NEW stream \in Seq(S),
         NEW received \in 0 .. GP_SIZE - 1, NEW closed,
         NEW m \in ReadSizes(stream, received, closed),
         Aligned(buf, received, stream)
  PROVE  LET new == Filled(buf, received, SubSeq(stream, 1, m))
             rest == SubSeq(stream, m + 1, Len(stream))
         IN  /\ received + m < GP_SIZE => Aligned(new, received + m, rest)
             /\ received + m = GP_SIZE => Aligned(new, 0, rest) /\ FullMessage(new)
<1> USE StreamAssumption
<1> DEFINE new == Filled(buf, received, SubSeq(stream, 1, m))
           rest == SubSeq(stream, m + 1, Len(stream))
<1>0. m \in 0 .. Len(stream) /\ received + m =< GP_SIZE /\ FilledFrom(new, buf, received, stream, m)
  BY ReadFills
<1>1. /\ m \in 0 .. Len(stream) /\ received + m =< GP_SIZE
      /\ \A k \in 1 .. GP_SIZE :
            new[k] = IF k - received \in 1 .. m THEN stream[k - received] ELSE buf[k]
  <2> HIDE DEF new
  <2> QED BY <1>0 DEF FilledFrom
<1>2. Len(rest) = Len(stream) - m /\ \A j \in 1 .. Len(rest) : rest[j] = stream[j + m]
  BY SMTT(30), ReadFills
<1> HIDE DEF new, rest
<1>3. /\ (received + Len(stream)) % GP_SIZE = 0
      /\ \A k \in 1 .. received : buf[k][2] = k
      /\ \A j \in 1 .. Len(stream) : stream[j][2] = ((received + j - 1) % GP_SIZE) + 1
  BY DEF Aligned
<1>4. \A k \in 1 .. received + m : new[k][2] = k
  <2> TAKE k \in 1 .. received + m
  <2>1. CASE k =< received
    <3>1. k \in 1 .. GP_SIZE /\ k \in 1 .. received /\ k - received \notin 1 .. m
      BY SMTT(30), <1>1, <2>1
    <3>2. new[k] = buf[k]
      BY <1>1, <3>1
    <3> QED BY <1>3, <3>1, <3>2
  <2>2. CASE k > received
    <3>1. k - received \in 1 .. m /\ k \in 1 .. GP_SIZE /\ k - 1 \in 0 .. GP_SIZE - 1
      BY SMTT(30), <1>1, <2>2
    <3>2. new[k] = stream[k - received] /\ k - received \in 1 .. Len(stream)
      BY SMTT(30), <1>1, <3>1
    <3>3. received + (k - received) - 1 = k - 1
      BY SMTT(30), <3>1
    <3>4. stream[k - received][2] = ((k - 1) % GP_SIZE) + 1
      BY <1>3, <3>2, <3>3
    <3>5. (k - 1) % GP_SIZE = k - 1
      BY <3>1, SmallMod
    <3> QED BY SMTT(30), <3>1, <3>2, <3>4, <3>5
  <2> QED BY SMTT(30), <2>1, <2>2
<1>5. \A j \in 1 .. Len(rest) : rest[j][2] = ((received + m + j - 1) % GP_SIZE) + 1
  <2> TAKE j \in 1 .. Len(rest)
  <2>1. j + m \in 1 .. Len(stream) /\ rest[j] = stream[j + m]
    BY SMTT(30), <1>1, <1>2
  <2>2. received + (j + m) - 1 = received + m + j - 1
    BY SMTT(30), <1>1
  <2> QED BY <1>3, <2>1, <2>2
<1>6. received + Len(stream) = received + m + Len(rest)
  BY SMTT(30), <1>1, <1>2
<1>7. ASSUME received + m < GP_SIZE PROVE Aligned(new, received + m, rest)
  BY <1>3, <1>4, <1>5, <1>6 DEF Aligned
<1>8. ASSUME received + m = GP_SIZE PROVE Aligned(new, 0, rest) /\ FullMessage(new)
  <2>1. GP_SIZE \in Nat /\ GP_SIZE > 0 /\ Len(rest) \in Nat /\ GP_SIZE % GP_SIZE = 0
    BY SMTT(30), <1>1, <1>2, SelfMod
  <2>2. Len(rest) % GP_SIZE = 0
    <3>1. (GP_SIZE + Len(rest)) % GP_SIZE = Len(rest) % GP_SIZE
      BY <2>1, ModShift
    <3> QED BY <1>3, <1>6, <1>8, <3>1
  <2>3. \A j \in 1 .. Len(rest) : rest[j][2] = ((0 + j - 1) % GP_SIZE) + 1
    <3> TAKE j \in 1 .. Len(rest)
    <3>1. j - 1 \in Nat /\ received + m + j - 1 = GP_SIZE + (j - 1) /\ 0 + j - 1 = j - 1
      BY SMTT(30), <1>8, <2>1
    <3>2. (GP_SIZE + (j - 1)) % GP_SIZE = (j - 1) % GP_SIZE
      BY <2>1, <3>1, ModShift
    <3>3. rest[j][2] = ((received + m + j - 1) % GP_SIZE) + 1
      BY <1>5
    <3> QED BY <3>1, <3>2, <3>3
  <2>4. FullMessage(new)
    BY <1>4, <1>8 DEF FullMessage
  <2>5. 0 + Len(rest) = Len(rest)
    BY SMTT(30), <2>1
  <2> QED BY SMTT(30), <2>2, <2>3, <2>4, <2>5 DEF Aligned
<1> QED BY <1>7, <1>8 DEF new, rest

(* What is composed and what is typed are whole messages. *)
LEMMA ComposedFull ==
  ASSUME NEW kind
  PROVE  FullMessage(Message(kind))
BY DEF FullMessage, Message

LEMMA TypedFull ==
  ASSUME NEW line, FullMessage(client_buf)
  PROVE  FullMessage(Typed(line))
BY StreamAssumption DEF FullMessage, Typed

(* The invariant: only a reader in a message has bytes of it. *)
Reading ==
    /\ client_pc \in {"handle", "ended"} => client_read = 0
    /\ server_pc \notin {"receive", "closed"} => server_read = 0

AlignedInv ==
    ~failed /\ client_pc # "killed" =>
        /\ Aligned(client_buf, client_read, to_client)
        /\ Aligned(server_buf, server_read, to_server)
        /\ client_pc = "handle" => FullMessage(client_buf)
        /\ server_pc \in {"score", "invalid"} => FullMessage(server_buf)

(* A reader without bytes of the next message does not look at its buffer. *)
LEMMA AlignedNothingRead ==
  ASSUME NEW a, NEW b, NEW stream, Aligned(a, 0, stream)
  PROVE  Aligned(b, 0, stream)
BY SMTT(30) DEF Aligned

LEMMA InStepInit == StreamInit => Reading /\ AlignedInv
<1> SUFFICES ASSUME StreamInit PROVE Reading /\ AlignedInv
  OBVIOUS
<1>1. 0 \in 0 .. GP_SIZE - 1 /\ GP_SIZE \in Nat
  BY SMTT(30), StreamAssumption
<1>2. 0 % GP_SIZE = 0
  BY <1>1, SmallMod
<1>3. \A buf : Aligned(buf, 0, << >>)
  BY SMTT(30), <1>2 DEF Aligned
<1> QED BY <1>3 DEF StreamInit, Reading, AlignedInv

(* Where a reader stands. *)
LEMMA ReadingStep ==
  ASSUME StreamTypes, Reading, [StreamNext]_streamVars
  PROVE  Reading'
<1>1. CASE ServerSends \/ ServerSendFails
  <2>1. /\ server_read = 0 /\ server_read' = server_read
        /\ client_pc' = client_pc /\ client_read' = client_read
    BY <1>1, PointFacts DEF ServerSends, ServerSendFails, Reading, clientSide
  <2> QED BY <2>1 DEF Reading
<1>2. CASE ServerReads
  BY <1>2 DEF ServerReads, Reading, clientSide
<1>3. CASE Scores \/ ServerShutsDown
  BY <1>3 DEF Scores, ServerShutsDown, Reading, clientSide
<1>4. CASE ClientReceives
  BY <1>4 DEF ClientReceives, Reading, serverSide
<1>5. ASSUME NEW line \in InputLines, ClientAnswers(line) PROVE Reading'
  BY <1>5 DEF ClientAnswers, Reading, serverSide
<1>6. CASE ClientPasses \/ ClientStops \/ ClientIsKilled
  BY <1>6 DEF ClientPasses, ClientStops, ClientIsKilled, Reading, serverSide
<1>7. CASE UNCHANGED streamVars
  BY <1>7 DEF streamVars, serverSide, clientSide, Reading
<1> QED BY <1>1, <1>2, <1>3, <1>4, <1>5, <1>6, <1>7 DEF StreamNext, ServerStep, ClientStep

LEMMA ServerSendsAligned ==
  ASSUME StreamInv, Reading, AlignedInv, ServerSends \/ ServerSendFails
  PROVE  AlignedInv'
<1> SUFFICES ASSUME ~failed', client_pc' # "killed" PROVE AlignedInv'
  BY DEF AlignedInv
<1> DEFINE kind == ServerPoints[server_pc]
<1>1. /\ server_pc \in DOMAIN ServerPoints /\ failed' = failed
      /\ to_client' = to_client \/ to_client' = to_client \o Message(kind)
      /\ server_pc' = PointAfter \/ server_pc' = "closed"
      /\ UNCHANGED <<to_server, server_read, clientSide>>
  BY DEF ServerSends, ServerSendFails
<1>2. kind \in ServerKinds /\ server_read = 0
  BY <1>1, PointFacts DEF Reading
<1>3. server_pc' \notin {"score", "invalid"}
  BY <1>1 DEF PointAfter, ServerPoints
<1> HIDE DEF kind
<1>4. Message(kind) \in Seq(ServerBytes) /\ Len(Message(kind)) = GP_SIZE
  <2>1. 0 \in 0 .. GP_SIZE
    BY SMTT(30), StreamAssumption
  <2> QED BY <1>2, <2>1, MessageStarts, WholeMessage
<1>5. UNCHANGED <<client_pc, client_buf, client_read>> /\ ~failed /\ client_pc # "killed"
  BY <1>1 DEF clientSide
<1>6. Aligned(client_buf, client_read, to_client)'
  <2>1. Aligned(client_buf, client_read, to_client)
    BY <1>5 DEF AlignedInv
  <2>2. client_read \in Nat /\ to_client \in Seq(ServerBytes)
    BY SMTT(30) DEF StreamInv, StreamTypes
  <2>3. Aligned(client_buf, client_read, to_client \o Message(kind))
    BY <1>4, <2>1, <2>2, ComposedFull, AlignedAppend
  <2> QED BY <1>1, <1>5, <2>1, <2>3
<1>7. Aligned(server_buf, server_read, to_server)'
  BY <1>1, <1>2, <1>5, AlignedNothingRead DEF AlignedInv
<1> QED BY <1>3, <1>5, <1>6, <1>7 DEF AlignedInv

LEMMA ServerReadsAligned ==
  ASSUME StreamInv, AlignedInv, ServerReads
  PROVE  AlignedInv'
<1> SUFFICES ASSUME ~failed', client_pc' # "killed" PROVE AlignedInv'
  BY DEF AlignedInv
<1>1. PICK m \in ReadSizes(to_server, server_read, ClientGone) :
        /\ server_buf' = Filled(server_buf, server_read, SubSeq(to_server, 1, m))
        /\ to_server' = SubSeq(to_server, m + 1, Len(to_server))
        /\ server_read' = IF LastRead(server_read + m, server_attempts) THEN 0 ELSE server_read + m
        /\ failed' = (failed \/ (LastRead(server_read + m, server_attempts) /\ server_read + m # GP_SIZE))
        /\ ~LastRead(server_read + m, server_attempts) => server_pc' = "receive"
  BY DEF ServerReads
<1>2. UNCHANGED <<to_client, clientSide>>
  BY DEF ServerReads
<1>3. UNCHANGED <<client_pc, client_buf, client_read>> /\ ~failed /\ client_pc # "killed"
  BY <1>1, <1>2 DEF clientSide
<1>4. /\ server_buf \in [1 .. GP_SIZE -> ClientBytes] /\ to_server \in Seq(ClientBytes)
      /\ server_read \in 0 .. GP_SIZE - 1 /\ Aligned(server_buf, server_read, to_server)
  BY <1>3 DEF StreamInv, StreamTypes, AlignedInv
<1>5. /\ server_read + m < GP_SIZE => Aligned(server_buf', server_read + m, to_server')
      /\ server_read + m = GP_SIZE => Aligned(server_buf', 0, to_server') /\ FullMessage(server_buf')
  BY <1>1, <1>4, AlignedRead
<1>6. /\ LastRead(server_read + m, server_attempts) => server_read + m = GP_SIZE
      /\ ~LastRead(server_read + m, server_attempts) => server_read + m < GP_SIZE
  <2>1. m \in Nat
    <3>1. m \in 0 .. Len(to_server)
      BY <1>1, <1>4, ReadFills
    <3> QED BY SMTT(30), <1>4, <3>1
  <2>2. LastRead(server_read + m, server_attempts) => server_read + m = GP_SIZE
    BY <1>1, ZenonT(30)
  <2>3. ~LastRead(server_read + m, server_attempts) => server_read + m < GP_SIZE
    BY SMTT(30), <1>4, <2>1, StreamAssumption DEF LastRead
  <2> QED BY <2>2, <2>3
<1>7. Aligned(server_buf, server_read, to_server)'
  BY <1>1, <1>5, <1>6
<1>8. (server_pc \in {"score", "invalid"})' => FullMessage(server_buf)'
  BY <1>1, <1>5, <1>6
<1> QED BY <1>2, <1>3, <1>7, <1>8 DEF AlignedInv

LEMMA ClientReceivesAligned ==
  ASSUME StreamInv, AlignedInv, ClientReceives
  PROVE  AlignedInv'
<1> SUFFICES ASSUME ~failed', client_pc' # "killed" PROVE AlignedInv'
  BY DEF AlignedInv
<1>1. PICK m \in ReadSizes(to_client, client_read, server_pc = "closed") :
        /\ client_buf' = Filled(client_buf, client_read, SubSeq(to_client, 1, m))
        /\ to_client' = SubSeq(to_client, m + 1, Len(to_client))
        /\ client_read' = IF LastRead(client_read + m, client_attempts) THEN 0 ELSE client_read + m
        /\ failed' = (failed \/ (LastRead(client_read + m, client_attempts) /\ client_read + m # GP_SIZE))
        /\ ~LastRead(client_read + m, client_attempts) => client_pc' = "receive"
  BY DEF ClientReceives
<1>2. UNCHANGED <<to_server, server_pc, server_buf, server_read>> /\ ~failed /\ client_pc # "killed"
  BY <1>1 DEF ClientReceives, serverSide
<1>3. /\ client_buf \in [1 .. GP_SIZE -> ServerBytes] /\ to_client \in Seq(ServerBytes)
      /\ client_read \in 0 .. GP_SIZE - 1 /\ Aligned(client_buf, client_read, to_client)
  BY <1>2 DEF StreamInv, StreamTypes, AlignedInv
<1>4. /\ client_read + m < GP_SIZE => Aligned(client_buf', client_read + m, to_client')
      /\ client_read + m = GP_SIZE => Aligned(client_buf', 0, to_client') /\ FullMessage(client_buf')
  BY <1>1, <1>3, AlignedRead
<1>5. /\ LastRead(client_read + m, client_attempts) => client_read + m = GP_SIZE
      /\ ~LastRead(client_read + m, client_attempts) => client_read + m < GP_SIZE
  <2>1. m \in Nat
    <3>1. m \in 0 .. Len(to_client)
      BY <1>1, <1>3, ReadFills
    <3> QED BY SMTT(30), <1>3, <3>1
  <2>2. LastRead(client_read + m, client_attempts) => client_read + m = GP_SIZE
    BY <1>1, ZenonT(30)
  <2>3. ~LastRead(client_read + m, client_attempts) => client_read + m < GP_SIZE
    BY SMTT(30), <1>3, <2>1, StreamAssumption DEF LastRead
  <2> QED BY <2>2, <2>3
<1>6. Aligned(client_buf, client_read, to_client)'
  BY <1>1, <1>4, <1>5
<1>7. (client_pc = "handle")' => FullMessage(client_buf)'
  BY <1>1, <1>4, <1>5
<1> QED BY <1>2, <1>6, <1>7 DEF AlignedInv

LEMMA ClientAnswersAligned ==
  ASSUME StreamInv, Reading, AlignedInv, NEW line \in InputLines, ClientAnswers(line)
  PROVE  AlignedInv'
<1> SUFFICES ASSUME ~failed', client_pc' # "killed" PROVE AlignedInv'
  BY DEF AlignedInv
<1>1. /\ client_pc = "handle" /\ client_pc' = "receive" /\ ~failed
      /\ to_server' = to_server \/ to_server' = to_server \o Typed(line)
      /\ UNCHANGED <<to_client, client_read, server_pc, server_buf, server_read>>
  BY SMTT(30) DEF ClientAnswers, serverSide
<1>2. client_read = 0 /\ FullMessage(client_buf)
  BY <1>1 DEF Reading, AlignedInv
<1>3. Typed(line) \in Seq(ClientBytes) /\ Len(Typed(line)) = GP_SIZE /\ FullMessage(Typed(line))
  <2>1. 0 \in 0 .. GP_SIZE
    BY SMTT(30), StreamAssumption
  <2> QED BY <1>2, <2>1, TypedMarks, WholeMessage, TypedFull
<1>4. Aligned(server_buf, server_read, to_server)'
  <2>1. Aligned(server_buf, server_read, to_server)
    BY <1>1 DEF AlignedInv
  <2>2. server_read \in Nat /\ to_server \in Seq(ClientBytes)
    BY SMTT(30) DEF StreamInv, StreamTypes
  <2>3. Aligned(server_buf, server_read, to_server \o Typed(line))
    BY <1>3, <2>1, <2>2, AlignedAppend
  <2> QED BY <1>1, <2>1, <2>3
<1>5. Aligned(client_buf, client_read, to_client)'
  BY <1>1, <1>2, AlignedNothingRead DEF AlignedInv
<1> QED BY <1>1, <1>4, <1>5 DEF AlignedInv

LEMMA AlignedStep ==
  ASSUME StreamInv, Reading, AlignedInv, [StreamNext]_streamVars
  PROVE  AlignedInv'
<1>1. CASE Scores \/ ServerShutsDown
  BY <1>1 DEF Scores, ServerShutsDown, clientSide, AlignedInv
<1>2. CASE ClientPasses \/ ClientStops \/ ClientIsKilled
  <2>1. CASE ClientIsKilled
    BY <2>1 DEF ClientIsKilled, AlignedInv
  <2>2. CASE ClientPasses \/ ClientStops
    <3>1. /\ client_pc = "handle" /\ client_pc' \in {"receive", "ended"}
          /\ UNCHANGED <<to_client, to_server, client_read, server_pc, server_buf, server_read, failed>>
      BY <2>2 DEF ClientPasses, ClientStops, serverSide
    <3>2. client_read = 0
      BY <3>1 DEF Reading
    <3> QED BY <3>1, <3>2, AlignedNothingRead DEF AlignedInv
  <2> QED BY <1>2, <2>1, <2>2
<1>3. CASE UNCHANGED streamVars
  BY <1>3 DEF streamVars, serverSide, clientSide, AlignedInv
<1> QED BY <1>1, <1>2, <1>3, ServerSendsAligned, ServerReadsAligned, ClientReceivesAligned,
           ClientAnswersAligned
        DEF StreamNext, ServerStep, ClientStep

InOrder(bytes) == \A j \in DOMAIN bytes : bytes[j][2] = ((j - 1) % GP_SIZE) + 1

(* Aligned says of the bytes one after the other what InStep says. *)
LEMMA AlignedWhole ==
  ASSUME NEW S, NEW buf \in [1 .. GP_SIZE -> S], NEW received \in 0 .. GP_SIZE - 1,
         NEW stream \in Seq(S), Aligned(buf, received, stream)
  PROVE  /\ Len(SubSeq(buf, 1, received) \o stream) % GP_SIZE = 0
         /\ InOrder(SubSeq(buf, 1, received) \o stream)
<1> USE StreamAssumption
<1> DEFINE front == SubSeq(buf, 1, received)
<1>1. buf \in Seq(S) /\ Len(buf) = GP_SIZE
  BY WholeMessage
<1>2. /\ front \in Seq(S) /\ Len(front) = received
      /\ \A k \in 1 .. received : front[k] = buf[k]
  BY SMTT(30), <1>1, SubSeqParts
<1> HIDE DEF front
<1> DEFINE all == front \o stream
<1>3. /\ all \in Seq(S) /\ Len(all) = received + Len(stream)
      /\ \A k \in 1 .. received : all[k] = front[k]
      /\ \A j \in 1 .. Len(stream) : all[received + j] = stream[j]
  BY SMTT(30), <1>2
<1> HIDE DEF all
<1>4. \A j \in 1 .. Len(all) : all[j][2] = ((j - 1) % GP_SIZE) + 1
  <2> TAKE j \in 1 .. Len(all)
  <2>1. CASE j =< received
    <3>1. j - 1 \in 0 .. GP_SIZE - 1 /\ j \in 1 .. received
      BY SMTT(30), <1>3, <2>1
    <3>2. (j - 1) % GP_SIZE = j - 1
      BY <3>1, SmallMod
    <3>3. all[j][2] = j
      BY SMTT(30), <1>2, <1>3, <3>1 DEF Aligned
    <3> QED BY SMTT(30), <3>1, <3>2, <3>3
  <2>2. CASE j > received
    <3>1. j - received \in 1 .. Len(stream) /\ received + (j - received) = j
      BY SMTT(30), <1>3, <2>2
    <3>2. all[j] = stream[j - received]
      BY <1>3, <3>1
    <3>3. received + (j - received) - 1 = j - 1
      BY SMTT(30), <3>1
    <3>4. stream[j - received][2] = ((received + (j - received) - 1) % GP_SIZE) + 1
      BY <3>1 DEF Aligned
    <3> QED BY <3>2, <3>3, <3>4
  <2> QED BY SMTT(30), <1>3, <2>1, <2>2
<1>5. Len(all) % GP_SIZE = 0
  BY <1>3 DEF Aligned
<1>6. InOrder(all)
  <2>1. DOMAIN all = 1 .. Len(all)
    BY SMTT(30), <1>3
  <2> QED BY <1>4, <2>1 DEF InOrder
<1> QED BY <1>5, <1>6 DEF all, front

LEMMA FullInOrder ==
  ASSUME NEW S, NEW buf \in [1 .. GP_SIZE -> S], FullMessage(buf)
  PROVE  InOrder(buf)
<1> SUFFICES ASSUME NEW j \in DOMAIN buf PROVE buf[j][2] = ((j - 1) % GP_SIZE) + 1
  BY DEF InOrder
<1>1. j \in 1 .. GP_SIZE /\ j - 1 \in 0 .. GP_SIZE - 1 /\ GP_SIZE \in Nat
  BY SMTT(30), StreamAssumption
<1>2. (j - 1) % GP_SIZE = j - 1
  BY <1>1, SmallMod
<1> QED BY SMTT(30), <1>1, <1>2 DEF FullMessage

(* For messages of any size cut into reads of any size: until a message is *)
(* not received or sent in full, the programs agree on where each message  *)
(* begins (message-helpers.c, lines 23-32).                                *)
THEOREM StaysInStep == StreamSpec => []InStep
<1>1. StreamInit => Reading /\ AlignedInv
  BY InStepInit
<1>2. StreamInv /\ Reading /\ AlignedInv /\ [StreamNext]_streamVars => Reading' /\ AlignedInv'
  BY ReadingStep, AlignedStep DEF StreamInv
<1>3. StreamInv /\ AlignedInv => InStep
  <2> SUFFICES ASSUME StreamInv, AlignedInv, ~failed, client_pc # "killed" PROVE InStep
    BY DEF InStep
  <2>1. /\ client_buf \in [1 .. GP_SIZE -> ServerBytes] /\ client_read \in 0 .. GP_SIZE - 1
        /\ server_buf \in [1 .. GP_SIZE -> ClientBytes] /\ server_read \in 0 .. GP_SIZE - 1
        /\ to_client \in Seq(ServerBytes) /\ to_server \in Seq(ClientBytes)
    BY DEF StreamInv, StreamTypes
  <2>2. /\ Aligned(client_buf, client_read, to_client)
        /\ Aligned(server_buf, server_read, to_server)
        /\ client_pc = "handle" => FullMessage(client_buf)
        /\ server_pc \in {"score", "invalid"} => FullMessage(server_buf)
    BY DEF AlignedInv
  <2>3. /\ Len(SubSeq(client_buf, 1, client_read) \o to_client) % GP_SIZE = 0
        /\ InOrder(SubSeq(client_buf, 1, client_read) \o to_client)
    BY <2>1, <2>2, AlignedWhole
  <2>4. /\ Len(SubSeq(server_buf, 1, server_read) \o to_server) % GP_SIZE = 0
        /\ InOrder(SubSeq(server_buf, 1, server_read) \o to_server)
    BY <2>1, <2>2, AlignedWhole
  <2>5. client_pc = "handle" => InOrder(client_buf)
    BY <2>1, <2>2, FullInOrder
  <2>6. server_pc \in {"score", "invalid"} => InOrder(server_buf)
    BY <2>1, <2>2, FullInOrder
  <2> QED BY <2>3, <2>4, <2>5, <2>6, ZenonT(30) DEF InStep, InOrder
<1> QED BY StreamInvariant, <1>1, <1>2, <1>3, PTL DEF StreamSpec

=============================================================================
