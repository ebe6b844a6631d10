----------------------------- MODULE MCProcesses ----------------------------
(***************************************************************************)
(* The small concurrent programs side by side, for TLC: a behaviour is one *)
(* of them, and the variables of the others stay as they are.              *)
(***************************************************************************)
EXTENDS Shell, SignalPrime, Rendezvous, Alternation, CountingThreads, GameStream

CONSTANT LongestList

(* Every input of up to LongestList tokens. *)
SomeTokenLists ==
    UNION {[1 .. k -> Numbers \cup {NonInteger}] : k \in 0 .. LongestList}

VARIABLE program

allVars == <<program, shellVars, primeVars, barrierVars, turnVars, countVars, streamVars>>

Init ==
    /\ program \in {"shell", "primes", "rendezvous", "alternation", "counting", "game"}
    /\ ShellInit /\ (program # "shell" => timeout)
    /\ PrimeInit /\ (program # "primes" => tokens = << >>)
    /\ CountInit /\ (program # "counting" => locks)
    /\ BarrierInit /\ TurnInit /\ StreamInit

Next ==
    /\ UNCHANGED program
    /\ \/ /\ program = "shell" /\ ShellNext
          /\ UNCHANGED <<primeVars, barrierVars, turnVars, countVars, streamVars>>
       \/ /\ program = "primes" /\ PrimeNext
          /\ UNCHANGED <<shellVars, barrierVars, turnVars, countVars, streamVars>>
       \/ /\ program = "rendezvous" /\ BarrierNext
          /\ UNCHANGED <<shellVars, primeVars, turnVars, countVars, streamVars>>
       \/ /\ program = "alternation" /\ TurnNext
          /\ UNCHANGED <<shellVars, primeVars, barrierVars, countVars, streamVars>>
       \/ /\ program = "counting" /\ CountNext
          /\ UNCHANGED <<shellVars, primeVars, barrierVars, turnVars, streamVars>>
       \/ /\ program = "game" /\ StreamNext
          /\ UNCHANGED <<shellVars, primeVars, barrierVars, turnVars, countVars>>

(* The fairness of each module's specification, for the program that runs. *)
Fairness ==
    /\ WF_shellVars(program = "shell" /\ ShellStep)
    /\ WF_shellVars(program = "shell" /\ AlarmExpires)
    /\ \A p \in Pids : WF_shellVars(program = "shell" /\ Execve(p))
    /\ WF_primeVars(program = "primes" /\ ChildStep)
    /\ WF_barrierVars(program = "rendezvous" /\ Join)
    /\ \A t \in Threads : WF_barrierVars(program = "rendezvous" /\ BarrierThread(t))
    /\ WF_turnVars(program = "alternation" /\ Produce)
    /\ WF_turnVars(program = "alternation" /\ Consume)
    /\ WF_countVars(program = "counting" /\ Report)
    /\ \A t \in Runners : WF_countVars(program = "counting" /\ Runner(t))
    /\ WF_streamVars(program = "game" /\ ServerStep)
    /\ WF_streamVars(program = "game" /\ ClientStep)

Spec == Init /\ [][Next]_allVars /\ Fairness

-----------------------------------------------------------------------------
(* What the thread samples promise while they run: nobody passes the       *)
(* barrier of semaphores.c early; producer-consumer.c never races on n and *)
(* prints each value once; no-race-mutex.c counts exactly, and thread2.c   *)
(* loses no more additions than all but two and makes none up.             *)
ThreadSamplesAreSafe ==
    /\ NobodyPassesEarly
    /\ NoRaceOnN /\ PrintsEveryValue
    /\ LockedCountIsExact /\ LostAdditionsAreBounded

(* The threads of every sample end and are joined: those of semaphores.c   *)
(* do not wait for each other for ever, those of producer-consumer.c take  *)
(* all their turns, and the counting ones do not keep the lock.            *)
ThreadSamplesEnd ==
    /\ program = "rendezvous" => BothPass
    /\ program = "alternation" => AllPrinted
    /\ program = "counting" => ThreadsAreJoined

=============================================================================
