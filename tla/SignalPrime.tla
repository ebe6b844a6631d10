----------------------------- MODULE SignalPrime ----------------------------
(***************************************************************************)
(* workshop/signal-prime-number.c: a parent that reads numbers and a child *)
(* that it tells, by signals, of every prime number and of its own end.    *)
(*                                                                         *)
(* A token of the input is a number or NonInteger.  At the end of the      *)
(* input scanf returns EOF, which is not 0, so the loop goes on with the   *)
(* number it already has; a number never read is any number.  A signal is  *)
(* pending until it is delivered, and pending at most once.  A handler is  *)
(* interrupted by the other signal but not by its own.                     *)
(***************************************************************************)
EXTENDS Integers, Sequences

CONSTANTS
    TokenLists,       \* the inputs: sequences of Numbers and NonInteger
    Numbers, NonInteger,
    MaxNotices        \* bound on the notices printed while numbers are tested

ASSUME PrimeAssumption ==
    /\ Numbers \subseteq Int
    /\ NonInteger \notin Int
    /\ TokenLists \subseteq Seq(Numbers \cup {NonInteger})
    /\ MaxNotices \in Nat \ {0}

SIGUSR1 == "SIGUSR1"
SIGUSR2 == "SIGUSR2"

VARIABLES
    tokens,         \* what is left of the input
    numbers_seen,   \* what n may hold: one number, or any before the first scanf
    parent_pc,      \* "install1", "install2", "fork", "scanf", "test", "end", "ended",
                    \* or "failed" when there is no child
    handled,        \* the signals the process, and so its child, has a handler for
    child_state,    \* "none", "asleep", "printing", "exited", or "killed" by a signal
    pending,        \* the signals sent and not delivered
    notices,        \* how many times the child has printed that a prime was found
    primes_read,    \* history: how many of the numbers read are prime
    input_ended     \* history: scanf has met the end of the input

historyVars == <<primes_read, input_ended>>
primeVars == <<tokens, numbers_seen, parent_pc, handled, child_state, pending, notices,
               historyVars>>

PrimeInit ==
    /\ tokens \in TokenLists
    /\ numbers_seen = Numbers
    /\ parent_pc = "install1"
    /\ handled = {}
    /\ child_state = "none"
    /\ pending = {}
    /\ notices = 0
    /\ primes_read = 0 /\ input_ended = FALSE

-----------------------------------------------------------------------------
(* Faulty variant: the largest factor tried is skipped. *)
isprimeno_SkipsLargest(n) == n >= 2 /\ \A i \in 2 .. (n \div 2) - 1 : n % i # 0

isprimeno(n) == n >= 2 /\ \A i \in 2 .. n \div 2 : n % i # 0

InstallUsr1 ==
    /\ parent_pc = "install1"
    /\ handled' = handled \cup {SIGUSR1}
    /\ parent_pc' = "install2"
    /\ UNCHANGED <<tokens, numbers_seen, child_state, pending, notices, historyVars>>

InstallUsr2 ==
    /\ parent_pc = "install2"
    /\ handled' = handled \cup {SIGUSR2}
    /\ parent_pc' = "fork"
    /\ UNCHANGED <<tokens, numbers_seen, child_state, pending, notices, historyVars>>

ForkChild ==
    /\ parent_pc = "fork"
    /\ child_state' = "asleep"
    /\ parent_pc' = "scanf"
    /\ UNCHANGED <<tokens, numbers_seen, handled, pending, notices, historyVars>>

ForkChildFails ==
    /\ parent_pc = "fork"
    /\ parent_pc' = "failed"
    /\ UNCHANGED <<tokens, numbers_seen, handled, child_state, pending, notices, historyVars>>

(* A number is prime when it has no divisor but 1 and itself. *)
IsPrime(n) == n > 1 /\ \A a, b \in 2 .. n : a * b # n

Scanf ==
    /\ parent_pc = "scanf"
    /\ \/ /\ tokens = << >>
          /\ parent_pc' = "test" /\ input_ended' = TRUE
          /\ UNCHANGED <<tokens, numbers_seen, primes_read>>
       \/ /\ tokens # << >> /\ Head(tokens) = NonInteger
          /\ parent_pc' = "end"
          /\ UNCHANGED <<tokens, numbers_seen, historyVars>>
       \/ /\ tokens # << >> /\ Head(tokens) # NonInteger
          /\ numbers_seen' = {Head(tokens)}
          /\ tokens' = Tail(tokens)
          /\ parent_pc' = "test"
          /\ primes_read' = primes_read + IF IsPrime(Head(tokens)) THEN 1 ELSE 0
          /\ UNCHANGED input_ended
    /\ UNCHANGED <<handled, child_state, pending, notices>>

(* kill succeeds for a child that has ended too: nothing waits for it. *)
TestNumber ==
    /\ parent_pc = "test"
    /\ notices < MaxNotices
    /\ \E n \in numbers_seen :
          /\ pending' = IF isprimeno(n) THEN pending \cup {SIGUSR1} ELSE pending
          /\ numbers_seen' = {n}
    /\ parent_pc' = "scanf"
    /\ UNCHANGED <<tokens, handled, child_state, notices, historyVars>>

ParentEnds ==
    /\ parent_pc = "end"
    /\ pending' = pending \cup {SIGUSR2}
    /\ parent_pc' = "ended"
    /\ UNCHANGED <<tokens, numbers_seen, handled, child_state, notices, historyVars>>

-----------------------------------------------------------------------------
(* Faulty variant: the handler passes over the signal for a prime. *)
Deliver_Ignored(signo) ==
    /\ signo \in pending
    /\ child_state = "asleep"
    /\ pending' = pending \ {signo}
    /\ child_state' = IF signo = SIGUSR2 THEN "exited" ELSE child_state
    /\ UNCHANGED <<tokens, numbers_seen, parent_pc, handled, notices, historyVars>>

(* A signal without a handler kills; the handler of SIGUSR1 prints, that   *)
(* of SIGUSR2 exits.                                                       *)
Deliver(signo) ==
    /\ signo \in pending
    /\ \/ child_state = "asleep"
       \/ child_state = "printing" /\ signo = SIGUSR2
    /\ pending' = pending \ {signo}
    /\ child_state' = IF signo \notin handled THEN "killed"
                      ELSE IF signo = SIGUSR1 THEN "printing" ELSE "exited"
    /\ UNCHANGED <<tokens, numbers_seen, parent_pc, handled, notices, historyVars>>

PrintNotice ==
    /\ child_state = "printing"
    /\ notices' = notices + 1
    /\ child_state' = "asleep"
    /\ UNCHANGED <<tokens, numbers_seen, parent_pc, handled, pending, historyVars>>

ParentStep == InstallUsr1 \/ InstallUsr2 \/ ForkChild \/ ForkChildFails
              \/ Scanf \/ TestNumber \/ ParentEnds

ChildStep == PrintNotice \/ \E signo \in {SIGUSR1, SIGUSR2} : Deliver(signo)

PrimeNext == ParentStep \/ ChildStep

(* The kernel delivers what is pending and schedules the child; the parent *)
(* waits for its user.                                                     *)
PrimeFairness == WF_primeVars(ChildStep)

PrimeSpec == PrimeInit /\ [][PrimeNext]_primeVars /\ PrimeFairness

-----------------------------------------------------------------------------
(* The notices of primes, with the one being printed and the one pending. *)
Reports ==
    notices + (IF child_state = "printing" THEN 1 ELSE 0)
            + (IF SIGUSR1 \in pending THEN 1 ELSE 0)

(* The child reports no more primes than the parent has read (lines 51-72, *)
(* 111-123); it may report fewer, since signals that meet merge (line      *)
(* 117).  There is one exception: scanf goes on at the end of the input    *)
(* (line 111), and then a prime n still holds is reported again and again, *)
(* be it the last number of the input or one that was never read.  No      *)
(* signal meets a child without its handler, however early it is sent: the *)
(* handlers are set before fork (lines 80-96).                             *)
OnlyPrimesReported ==
    /\ Reports > primes_read => input_ended /\ \A n \in numbers_seen : IsPrime(n)
    /\ child_state # "killed"

(* A prime the child has been told of is reported, unless the end of the   *)
(* parent comes in between (lines 35-43).                                  *)
PrimeIsReported ==
    \A k \in 0 .. MaxNotices :
        (notices = k /\ SIGUSR1 \in pending) ~> (notices > k \/ child_state = "exited")

(* The child does not outlive the parent for ever (lines 125-130). *)
ChildFollowsParent == (parent_pc = "ended") ~> (child_state = "exited")

(* The child acts on every kind of signal it is sent, merged or not: it    *)
(* reports, and it ends when the parent has (lines 35-49, 125-130).        *)
SignalsAreHeeded == PrimeIsReported /\ ChildFollowsParent

=============================================================================
