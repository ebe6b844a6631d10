-------------------------- MODULE GameServerProofs --------------------------
(***************************************************************************)
(* The count of clients and the mutex of the log of the Mastermind server, *)
(* for any number of clients, any codes, limits, faults and signals.       *)
(***************************************************************************)
EXTENDS GameServer, FiniteSetTheorems, TLAPS

(* A leaf goes to Zenon unless it names a prover. *)
USE ZenonT(30)

(* Where the main thread can be, and where a thread of a client can be. *)
MainPoints ==
    {"accept", "full_lock", "full_log", "full", "create_lock", "create_log",
     "lost_lock", "lost_log", "failed_lock", "failed_log", "leave", "leaving", "done"}

RoutinePoints ==
    {"none", "connect_lock", "connect_log", "connect_count", "connect_counting",
     "connect_secret", "welcome", "instructions_1", "instructions_2", "request", "receive", "invalid",
     "guess_lock", "guess_log", "hint_log", "feedback", "win", "win_lock", "win_log",
     "success", "lose_lock", "lose_log", "failure", "bye_lock", "bye_log",
     "lost_lock", "lost_log", "failed_lock", "failed_log", "leave", "leaving", "done"}

(* The points inside the game loop. *)
LoopPoints ==
    {"request", "receive", "invalid", "guess_lock", "guess_log", "hint_log", "feedback"}

(* The main thread serves a connection exactly between accepting it and    *)
(* coming back to accept.                                                  *)
ControlInv ==
    /\ pc \in [Threads -> MainPoints \cup RoutinePoints]
    /\ pc[Main] \in MainPoints
    /\ \A c \in Clients : pc[c] \in RoutinePoints
    /\ serving \in Clients \cup {None}
    /\ (serving = None) <=> (pc[Main] \in {"accept", "done"})

(* A connection is accepted once, before it has a thread or is refused. *)
Accepted(c) == conn[c] \in {"open", "closed"}

ConnInv ==
    /\ conn \in [Clients -> {"none", "backlog", "open", "closed"}]
    /\ client \in [Clients -> {"away", "playing", "gone", "SUCCESS", "FAILURE", "SERVFUL"}]
    /\ to_server \in [Clients -> Seq(Buffers)]
    /\ \A c \in Clients : client[c] = "away" => conn[c] = "none"
    /\ \A c \in Clients : pc[c] # "none" => Accepted(c)
    /\ \A c \in Clients : c \in {serving, listening} => Accepted(c)

(* Inside the loop there is a guess left. *)
GameInv ==
    /\ secret_code \in [Clients -> Buffers]
    /\ buffer \in [Clients -> Buffers]
    /\ guesses_count \in [Clients -> 0 .. MAX_GUESSES_COUNT]
    /\ correct_positions_count \in [Clients -> 0 .. SECRET_CODE_LEN]
    /\ \A c \in Clients : pc[c] \in LoopPoints => guesses_count[c] < MAX_GUESSES_COUNT

CountInv ==
    /\ clients_now_count \in Int /\ clients_count \in Nat /\ clients_win_count \in Nat
    /\ clients_now_count = Cardinality(Counted) - (IF pc[Main] = "done" THEN 1 ELSE 0)

(* At most one run of sig_handler gets past its lock. *)
HandlerInv ==
    /\ listening \in {"open", "accepting", "closed"} \cup Clients
    /\ handlers \in Seq([thread : Threads, at : {"lock", "unlock", "exit", "exited"}])
    /\ undefined \in BOOLEAN
    /\ \A j, k \in DOMAIN handlers : handlers[j].at # "lock" /\ handlers[k].at # "lock" => j = k

(* log_file_mutex is held by exactly the thread that is between its lock   *)
(* and its unlock, in a section or in the handler.                         *)
Holds(t) ==
    \/ pc[t] \in CriticalPoints
    \/ \E k \in DOMAIN handlers : handlers[k].thread = t /\ handlers[k].at = "unlock"

LockInv ==
    /\ log_file_mutex \in Threads \cup {None}
    /\ \A t \in Threads : Holds(t) <=> log_file_mutex = t
    /\ \A k \in DOMAIN handlers :
          handlers[k].at = "unlock" => pc[handlers[k].thread] \notin CriticalPoints

(* The same for clients_now_count_mutex, which the handler does not take. *)
NowCountPoints == {"connect_counting", "leaving"}

CountLockInv ==
    /\ clients_now_count_mutex \in Threads \cup {None}
    /\ \A t \in Threads : pc[t] \in NowCountPoints <=> clients_now_count_mutex = t

ServerInv ==
    /\ ControlInv /\ ConnInv /\ GameInv /\ CountInv /\ HandlerInv
    /\ LockInv /\ CountLockInv

USE ServerAssumption, SecretCodeAssumption DEF Threads

-----------------------------------------------------------------------------
(* The tables of points, spelled out. *)
LEMMA LockFacts ==
  /\ DOMAIN LockPoints = {"connect_lock", "guess_lock", "win_lock", "lose_lock", "bye_lock",
                          "lost_lock", "failed_lock", "full_lock", "create_lock"}
  /\ LockPoints["connect_lock"] = "connect_log" /\ LockPoints["guess_lock"] = "guess_log"
  /\ LockPoints["win_lock"] = "win_log" /\ LockPoints["lose_lock"] = "lose_log"
  /\ LockPoints["bye_lock"] = "bye_log" /\ LockPoints["lost_lock"] = "lost_log"
  /\ LockPoints["failed_lock"] = "failed_log" /\ LockPoints["full_lock"] = "full_log"
  /\ LockPoints["create_lock"] = "create_log"
BY DEF LockPoints

LEMMA CriticalFacts ==
  CriticalPoints = {"connect_log", "guess_log", "win_log", "lose_log", "bye_log", "lost_log",
                    "failed_log", "full_log", "create_log", "connect_count",
                    "connect_counting", "connect_secret", "hint_log"}
BY SMTT(30), LockFacts DEF CriticalPoints

LEMMA CountFacts ==
  /\ DOMAIN CountPoints = {"connect_count", "leave"}
  /\ CountPoints["connect_count"] = "connect_counting" /\ CountPoints["leave"] = "leaving"
BY DEF CountPoints

LEMMA LogFacts ==
  /\ DOMAIN LogPoints = {"win_log", "lose_log", "bye_log", "lost_log", "failed_log",
                         "full_log", "create_log"}
  /\ LogPoints["win_log"].next = "success" /\ LogPoints["lose_log"].next = "failure"
  /\ LogPoints["bye_log"].next = "leave" /\ LogPoints["lost_log"].next = "leave"
  /\ LogPoints["failed_log"].next = "leave" /\ LogPoints["full_log"].next = "full"
  /\ LogPoints["create_log"].next = "accept"
BY DEF LogPoints

LEMMA SendFacts ==
  DOMAIN SendPoints = {"welcome", "instructions_1", "instructions_2", "request", "invalid",
                       "feedback", "success", "failure", "full"}
BY DEF SendPoints

(* A step of a thread moves that thread alone. *)
LEMMA GotoFacts ==
  ASSUME ControlInv, NEW t \in Threads, NEW q, Goto(t, q)
  PROVE  /\ pc'[t] = q /\ \A u \in Threads \ {t} : pc'[u] = pc[u]
         /\ q \in MainPoints \cup RoutinePoints => pc' \in [Threads -> MainPoints \cup RoutinePoints]
BY DEF ControlInv, Goto

(* What a peer does changes no variable of the server. *)
PeerStep == \E c \in Clients : Connect(c) \/ ClientReads(c) \/ Kill(c)

LEMMA PeerFrame ==
  ASSUME PeerStep
  PROVE  UNCHANGED <<pc, serving, gameVars, mutexVars, countVars, logVars, signalVars>>
BY DEF PeerStep, Connect, ClientReads, ClientShows, ClientGuesses, ClientEnds, Kill

(* What a handler does changes no variable of a thread. *)
LEMMA HandlerFrame ==
  ASSUME NEW k, HandlerStep(k)
  PROVE  UNCHANGED <<pc, serving, gameVars, countVars, session_log, listening,
                     client, to_client, to_server, clients_now_count_mutex>>
BY DEF mutexVars, HandlerStep, LogShutdown, LogShutdownAgain, DestroyMutexes, Exit, netVars, logVars, signalVars

-----------------------------------------------------------------------------
LEMMA ControlStep ==
  ASSUME ControlInv, [Next]_serverVars
  PROVE  ControlInv'
<1> USE DEF ControlInv, MainPoints, RoutinePoints
<1>1. ASSUME NEW t \in Threads, Lock(t) PROVE ControlInv'
  BY SMTT(30), <1>1, LockFacts, GotoFacts DEF Lock
<1>2. ASSUME NEW t \in Threads, LogAndUnlock(t) PROVE ControlInv'
  BY SMTT(30), <1>2, LogFacts, GotoFacts DEF LogAndUnlock
<1>3. ASSUME NEW t \in Threads, SendMessage(t) PROVE ControlInv'
  BY SMTT(30), <1>3, SendFacts, GotoFacts DEF SendMessage, AfterSend, LoopPoint
<1>4. ASSUME NEW t \in Threads, SendConnLost(t) \/ SendOtherError(t) PROVE ControlInv'
  BY SMTT(30), <1>4, SendFacts, GotoFacts DEF SendConnLost, SendOtherError
<1>5. ASSUME NEW t \in Threads, LockNowCount(t) \/ Leave(t) PROVE ControlInv'
  BY SMTT(30), <1>5, CountFacts, GotoFacts DEF LockNowCount, Leave
<1>6. ASSUME NEW t \in Threads, Signal(t) PROVE ControlInv'
  BY <1>6 DEF Signal
<1>7. ASSUME NEW c \in Clients, RoutineStep(c) PROVE ControlInv'
  BY SMTT(30), <1>7, GotoFacts DEF RoutineStep, LogConnect, IncrementClientsNowCount, ChooseSecret,
     ReceiveGuess, LogGuess, LogHint, Win
<1>8. ASSUME NEW c \in Clients, Accept(c) PROVE ControlInv'
  BY SMTT(30), <1>8 DEF Accept
<1>9. CASE PeerStep
  BY <1>9, PeerFrame
<1>10. ASSUME NEW k, HandlerStep(k) PROVE ControlInv'
  BY <1>10, HandlerFrame
<1>11. CASE UNCHANGED serverVars
  BY <1>11 DEF serverVars
<1> QED
  BY <1>1, <1>2, <1>3, <1>4, <1>5, <1>6, <1>7, <1>8, <1>9, <1>10, <1>11
  DEF Next, ThreadStep, PeerStep, Quiet

(* A step that at most closes an accepted connection. *)
LEMMA ClosingStep ==
  ASSUME ConnInv, UNCHANGED client, to_server' \in [Clients -> Seq(Buffers)],
         conn' = conn \/ \E c \in Clients : Accepted(c) /\ CloseSocket(c),
         \A c \in Clients : pc'[c] # "none" => pc[c] # "none",
         \A c \in Clients : c \in {serving', listening'} => c \in {serving, listening}
  PROVE  ConnInv'
BY DEF ConnInv, Accepted, CloseSocket

(* The connection of a thread that acts has been accepted. *)
LEMMA ClientOfAccepted ==
  ASSUME ControlInv, ConnInv, NEW t \in Threads, pc[t] \notin {"none", "accept", "done"}
  PROVE  ClientOf(t) \in Clients /\ Accepted(ClientOf(t))
BY DEF ControlInv, ConnInv, ClientOf

LEMMA ConnStep ==
  ASSUME ControlInv, ConnInv, HandlerInv, [Next]_serverVars
  PROVE  ConnInv'
<1>0. to_server \in [Clients -> Seq(Buffers)]
  BY DEF ConnInv
<1>1. ASSUME NEW t \in Threads, Lock(t) PROVE ConnInv'
  BY SMTT(30), <1>0, <1>1, LockFacts, GotoFacts, ClosingStep DEF Lock, netVars, signalVars
<1>2. ASSUME NEW t \in Threads, LogAndUnlock(t) PROVE ConnInv'
  <2>1. ClientOf(t) \in Clients /\ Accepted(ClientOf(t)) /\ pc[t] # "none"
    BY <1>2, LogFacts, ClientOfAccepted DEF LogAndUnlock
  <2>2. \A c \in Clients : pc'[c] # "none" => pc[c] # "none"
    BY <1>2, <2>1, GotoFacts DEF LogAndUnlock
  <2> QED BY <1>0, <1>2, <2>1, <2>2, ClosingStep DEF LogAndUnlock, signalVars
<1>3. ASSUME NEW t \in Threads, SendMessage(t) PROVE ConnInv'
  <2>1. ClientOf(t) \in Clients /\ Accepted(ClientOf(t)) /\ pc[t] # "none"
    BY <1>3, SendFacts, ClientOfAccepted DEF SendMessage
  <2>2. \A c \in Clients : pc'[c] # "none" => pc[c] # "none"
    BY <1>3, <2>1, GotoFacts DEF SendMessage
  <2> QED BY <1>0, <1>3, <2>1, <2>2, ClosingStep DEF SendMessage, signalVars
<1>4. ASSUME NEW t \in Threads, SendConnLost(t) \/ SendOtherError(t) PROVE ConnInv'
  <2>1. pc[t] # "none"
    BY <1>4, SendFacts DEF SendConnLost, SendOtherError
  <2>2. \A c \in Clients : pc'[c] # "none" => pc[c] # "none"
    BY <1>4, <2>1, GotoFacts DEF SendConnLost, SendOtherError
  <2> QED BY <1>0, <1>4, <2>2, ClosingStep DEF SendConnLost, SendOtherError, netVars, signalVars
<1>5. ASSUME NEW t \in Threads, LockNowCount(t) \/ Leave(t) PROVE ConnInv'
  BY <1>0, <1>5, CountFacts, GotoFacts, ClosingStep
  DEF ControlInv, LockNowCount, Leave, netVars, signalVars
<1>6. ASSUME NEW t \in Threads, Signal(t) PROVE ConnInv'
  <2>1. UNCHANGED <<pc, serving, client, to_server>>
    BY <1>6 DEF Signal
  <2>2. listening' = listening \/ listening' \in {"accepting", "closed"}
    BY <1>6 DEF Signal
  <2>3. conn' = conn \/ (listening \in Clients /\ Accepted(listening) /\ CloseSocket(listening))
    BY <1>6 DEF Signal, ConnInv
  <2> QED BY <1>0, <2>1, <2>2, <2>3, ClosingStep
<1>7. ASSUME NEW c \in Clients, RoutineStep(c) PROVE ConnInv'
  <2>1. to_server' \in [Clients -> Seq(Buffers)]
    <3>1. to_server' = to_server \/
            (to_server[c] # << >> /\ to_server' = [to_server EXCEPT ![c] = Tail(@)])
      BY <1>7 DEF RoutineStep, LogConnect, IncrementClientsNowCount, ChooseSecret,
         ReceiveGuess, LogGuess, LogHint, Win, netVars
    <3>2. to_server[c] # << >> => Tail(to_server[c]) \in Seq(Buffers)
      BY SMTT(30), <1>0
    <3> QED BY <1>0, <3>1, <3>2
  <2>2. UNCHANGED <<conn, client, serving, listening>> /\ pc[c] # "none" /\ \E q : Goto(c, q)
    BY <1>7 DEF RoutineStep, LogConnect, IncrementClientsNowCount, ChooseSecret,
       ReceiveGuess, LogGuess, LogHint, Win, netVars, signalVars
  <2> QED BY <2>1, <2>2, GotoFacts, ClosingStep
<1>8. ASSUME NEW c \in Clients, Accept(c) PROVE ConnInv'
  <2>1. conn' = [conn EXCEPT ![c] = "open"] /\ UNCHANGED <<client, to_server>> /\ conn[c] = "backlog"
    BY <1>8 DEF Accept
  <2>2. \A d \in Clients : d # c => pc'[d] = pc[d]
    BY <1>8 DEF Accept, ControlInv
  <2>3. listening' \in {"open", "closed", c} /\ serving' \in {serving, c}
    BY <1>8 DEF Accept
  <2> QED BY <2>1, <2>2, <2>3 DEF ConnInv, Accepted
<1>9. CASE PeerStep
  <2>1. UNCHANGED <<pc, serving, listening>>
    BY <1>9, PeerFrame DEF signalVars
  <2>2. ASSUME NEW c \in Clients, Connect(c) PROVE ConnInv'
    BY <2>1, <2>2 DEF Connect, ConnInv, Accepted
  <2>3. ASSUME NEW c \in Clients, ClientReads(c) PROVE ConnInv'
    <3>1. to_server' \in [Clients -> Seq(Buffers)]
      <4>1. to_server' = to_server \/ \E line \in TypedLines :
                to_server' = [to_server EXCEPT ![c] = Append(@, line)]
        BY <2>3 DEF ClientReads, ClientShows, ClientGuesses, ClientEnds
      <4>2. \A line \in TypedLines : Append(to_server[c], line) \in Seq(Buffers)
        BY SMTT(30), <1>0
      <4> QED BY <1>0, <4>1, <4>2
    <3>2. UNCHANGED conn
      BY <2>3 DEF ClientReads, ClientShows, ClientGuesses, ClientEnds
    <3>3. client' = client \/ \E s \in {"SUCCESS", "FAILURE", "SERVFUL"} :
                                  client' = [client EXCEPT ![c] = s]
      BY <2>3 DEF ClientReads, ClientShows, ClientGuesses, ClientEnds
    <3> QED BY <2>1, <3>1, <3>2, <3>3 DEF ConnInv, Accepted
  <2>4. ASSUME NEW c \in Clients, Kill(c) PROVE ConnInv'
    <3>1. to_server' \in [Clients -> Seq(Buffers)]
      <4>1. to_server' = to_server \/ to_server' = [to_server EXCEPT ![c] = <<>>]
        BY <2>4 DEF Kill
      <4>2. <<>> \in Seq(Buffers)
        BY SMTT(30)
      <4> QED BY <1>0, <4>1, <4>2
    <3> QED BY <2>1, <2>4, <3>1 DEF Kill, ConnInv, Accepted
  <2> QED BY <1>9, <2>2, <2>3, <2>4 DEF PeerStep
<1>10. ASSUME NEW k, HandlerStep(k) PROVE ConnInv'
  <2>1. conn' = conn \/ conn' = [c \in Clients |-> IF conn[c] = "none" THEN "none" ELSE "closed"]
    BY <1>10 DEF HandlerStep, LogShutdown, LogShutdownAgain, DestroyMutexes, Exit, netVars
  <2> QED BY <1>10, <2>1, HandlerFrame DEF ConnInv, Accepted
<1>11. CASE UNCHANGED serverVars
  BY <1>11 DEF serverVars, netVars, signalVars, ConnInv, Accepted
<1> QED
  BY <1>1, <1>2, <1>3, <1>4, <1>5, <1>6, <1>7, <1>8, <1>9, <1>10, <1>11
  DEF Next, ThreadStep, PeerStep, Quiet

(* The score of a guess has at most SECRET_CODE_LEN exact hits. *)
LEMMA FeedbackRange ==
  ASSUME NEW a, NEW g
  PROVE  GetSecretCodeGuessFeedback(a, g).correct_positions_count \in 0 .. SECRET_CODE_LEN
<1> DEFINE visited == {i \in Positions : g[i] = a[i]}
<1>1. IsFiniteSet(Positions) /\ Cardinality(Positions) = SECRET_CODE_LEN
  BY SMTT(30), FS_Interval DEF Positions
<1>2. Cardinality(visited) \in Nat /\ Cardinality(visited) =< SECRET_CODE_LEN
  BY <1>1, FS_Subset, FS_CardinalityType
<1>3. GetSecretCodeGuessFeedback(a, g).correct_positions_count = Cardinality(visited)
  BY DEF GetSecretCodeGuessFeedback
<1> QED BY SMTT(30), <1>2, <1>3

LEMMA BufferFacts ==
  NotACode \in Buffers /\ RandomSecretCodes \subseteq Buffers
BY SMTT(30) DEF NotACode, Buffers, RandomSecretCodes, Positions

LEMMA GameStep ==
  ASSUME ControlInv, ConnInv, GameInv, [Next]_serverVars
  PROVE  GameInv'
<1> USE DEF GameInv, LoopPoints, gameVars
<1>1. ASSUME NEW t \in Threads, Lock(t) PROVE GameInv'
  BY SMTT(30), <1>1, LockFacts, GotoFacts DEF Lock
<1>2. ASSUME NEW t \in Threads, LogAndUnlock(t) PROVE GameInv'
  BY SMTT(30), <1>2, LogFacts, GotoFacts DEF LogAndUnlock
<1>3. ASSUME NEW t \in Threads, SendMessage(t) PROVE GameInv'
  <2>1. UNCHANGED <<secret_code, correct_positions_count>>
    BY <1>3 DEF SendMessage
  <2>2. buffer' \in [Clients -> Buffers]
    BY <1>3, BufferFacts DEF SendMessage, Compose
  <2>3. CASE t = Main
    BY <1>3, <2>1, <2>2, <2>3, GotoFacts DEF SendMessage, ControlInv, MainPoints
  <2>4. CASE t \in Clients
    <3>1. pc'[t] = AfterSend(t) /\ \A u \in Clients \ {t} : pc'[u] = pc[u]
      BY <1>3, <2>4, GotoFacts DEF SendMessage
    <3>2. guesses_count' \in [Clients -> 0 .. MAX_GUESSES_COUNT]
      BY SMTT(30), <1>3, <2>4 DEF SendMessage
    <3>3. pc'[t] \in LoopPoints => guesses_count'[t] < MAX_GUESSES_COUNT
      BY <1>3, <2>4, <3>1, SendFacts DEF SendMessage, AfterSend, LoopPoint
    <3>4. \A u \in Clients \ {t} : guesses_count'[u] = guesses_count[u]
      BY <1>3, <2>4 DEF SendMessage
    <3> QED BY <2>1, <2>2, <3>1, <3>2, <3>3, <3>4
  <2> QED BY <2>3, <2>4
<1>4. ASSUME NEW t \in Threads, SendConnLost(t) \/ SendOtherError(t) PROVE GameInv'
  <2>1. UNCHANGED <<secret_code, guesses_count, correct_positions_count>>
        /\ \E q \in {"lost_lock", "failed_lock"} : Goto(t, q)
    BY <1>4 DEF SendConnLost, SendOtherError
  <2>2. buffer' \in [Clients -> Buffers]
    BY <1>4, BufferFacts DEF SendConnLost, SendOtherError, Compose
  <2> QED BY <2>1, <2>2, GotoFacts
<1>5. ASSUME NEW t \in Threads, LockNowCount(t) \/ Leave(t) PROVE GameInv'
  BY SMTT(30), <1>5, CountFacts, GotoFacts DEF LockNowCount, Leave
<1>6. ASSUME NEW t \in Threads, Signal(t) PROVE GameInv'
  BY <1>6 DEF Signal
<1>7. ASSUME NEW c \in Clients, RoutineStep(c) PROVE GameInv'
  <2>1. CASE LogConnect(c) \/ IncrementClientsNowCount(c) \/ LogGuess(c) \/ Win(c)
    BY SMTT(30), <2>1, GotoFacts DEF LogConnect, IncrementClientsNowCount, LogGuess, Win
  <2>2. CASE ChooseSecret(c)
    BY SMTT(30), <2>2, GotoFacts, BufferFacts DEF ChooseSecret
  <2>3. CASE ReceiveGuess(c)
    <3>1. to_server[c] # << >> => Head(to_server[c]) \in Buffers
      BY SMTT(30) DEF ConnInv
    <3>2. buffer' \in [Clients -> Buffers]
      BY <2>3, <3>1 DEF ReceiveGuess
    <3>3. UNCHANGED <<secret_code, guesses_count, correct_positions_count>>
          /\ pc[c] = "receive" /\ \E q : Goto(c, q)
      BY <2>3 DEF ReceiveGuess
    <3> QED BY <3>2, <3>3, GotoFacts
  <2>4. CASE LogHint(c)
    BY <2>4, GotoFacts, FeedbackRange DEF LogHint
  <2> QED BY <1>7, <2>1, <2>2, <2>3, <2>4 DEF RoutineStep
<1>8. ASSUME NEW c \in Clients, Accept(c) PROVE GameInv'
  BY <1>8 DEF Accept, ControlInv
<1>9. CASE PeerStep
  BY <1>9, PeerFrame
<1>10. ASSUME NEW k, HandlerStep(k) PROVE GameInv'
  BY <1>10, HandlerFrame
<1>11. CASE UNCHANGED serverVars
  BY <1>11 DEF serverVars
<1> QED
  BY <1>1, <1>2, <1>3, <1>4, <1>5, <1>6, <1>7, <1>8, <1>9, <1>10, <1>11
  DEF Next, ThreadStep, PeerStep, Quiet

-----------------------------------------------------------------------------
(* A step that moves no thread over the ends of Counted. *)
OutsidePoints == {"none", "connect_lock", "connect_log", "connect_count",
                  "connect_counting", "done"}

LEMMA CountKept ==
  ASSUME CountInv, UNCHANGED clients_now_count,
         clients_count' \in Nat, clients_win_count' \in Nat,
         \A c \in Clients : pc'[c] \in OutsidePoints <=> pc[c] \in OutsidePoints,
         pc'[Main] = "done" <=> pc[Main] = "done"
  PROVE  CountInv'
<1>1. Counted' = Counted
  BY DEF Counted, OutsidePoints
<1> QED BY <1>1 DEF CountInv

LEMMA CountKeptByGoto ==
  ASSUME ControlInv, CountInv, NEW t \in Threads, NEW q, Goto(t, q),
         UNCHANGED clients_now_count, clients_count' \in Nat, clients_win_count' \in Nat,
         pc[t] # "done" /\ q # "done",
         t \in Clients => (q \in OutsidePoints <=> pc[t] \in OutsidePoints)
  PROVE  CountInv'
BY GotoFacts, CountKept

LEMMA CountStep ==
  ASSUME ControlInv, ConnInv, CountInv, [Next]_serverVars
  PROVE  CountInv'
<1> USE DEF OutsidePoints, countVars
<1>0. clients_count \in Nat /\ clients_win_count \in Nat
  BY DEF CountInv
<1>1. ASSUME NEW t \in Threads, Lock(t) PROVE CountInv'
  BY <1>0, <1>1, LockFacts, CountKeptByGoto DEF Lock
<1>2. ASSUME NEW t \in Threads, LogAndUnlock(t) PROVE CountInv'
  BY <1>0, <1>2, LogFacts, CountKeptByGoto DEF LogAndUnlock
<1>3. ASSUME NEW t \in Threads, SendMessage(t) PROVE CountInv'
  <2>1. AfterSend(t) \notin OutsidePoints /\ pc[t] \notin OutsidePoints
    BY <1>3, SendFacts DEF SendMessage, AfterSend, LoopPoint
  <2> QED BY <1>0, <1>3, <2>1, CountKeptByGoto DEF SendMessage
<1>4. ASSUME NEW t \in Threads, SendConnLost(t) \/ SendOtherError(t) PROVE CountInv'
  <2>1. pc[t] \notin OutsidePoints /\ \E q \in {"lost_lock", "failed_lock"} : Goto(t, q)
    BY <1>4, SendFacts DEF SendConnLost, SendOtherError
  <2>2. UNCHANGED countVars
    BY <1>4 DEF SendConnLost, SendOtherError
  <2> QED BY <1>0, <2>1, <2>2, CountKeptByGoto
<1>12. ASSUME NEW t \in Threads, LockNowCount(t) PROVE CountInv'
  BY <1>0, <1>12, CountFacts, CountKeptByGoto DEF LockNowCount
<1>5. ASSUME NEW t \in Threads, Leave(t) PROVE CountInv'
  <2>1. pc[t] = "leaving" /\ pc'[t] = "done" /\ \A u \in Threads \ {t} : pc'[u] = pc[u]
    BY <1>5, GotoFacts DEF Leave
  <2>2. clients_now_count' = clients_now_count - 1 /\ UNCHANGED <<clients_count, clients_win_count>>
    BY SMTT(30), <1>5 DEF Leave, UpdateNowCount, CountInv
  <2>3. CASE t = Main
    <3>1. Counted' = Counted
      BY <2>1, <2>3 DEF Counted
    <3> QED BY SMTT(30), <2>1, <2>2, <2>3, <3>1, FS_Subset, FS_CardinalityType DEF CountInv, Counted
  <2>4. CASE t \in Clients
    <3>1. Counted' = Counted \ {t} /\ t \in Counted
      BY <2>1, <2>4 DEF Counted
    <3>2. IsFiniteSet(Counted)
      BY FS_Subset DEF Counted
    <3>3. Cardinality(Counted') = Cardinality(Counted) - 1 /\ Cardinality(Counted) \in Nat
      BY <3>1, <3>2, FS_RemoveElement, FS_CardinalityType
    <3>4. pc'[Main] = pc[Main]
      BY <2>1, <2>4
    <3> QED BY SMTT(30), <2>2, <3>3, <3>4 DEF CountInv
  <2> QED BY <2>3, <2>4
<1>6. ASSUME NEW t \in Threads, Signal(t) PROVE CountInv'
  BY <1>0, <1>6, CountKept DEF Signal
<1>7. ASSUME NEW c \in Clients, RoutineStep(c) PROVE CountInv'
  <2>1. CASE LogConnect(c)
    BY <1>0, <2>1, CountKeptByGoto DEF LogConnect
  <2>2. CASE IncrementClientsNowCount(c)
    <3>1. pc[c] = "connect_counting" /\ pc'[c] = "connect_secret"
          /\ \A u \in Threads \ {c} : pc'[u] = pc[u]
      BY <2>2, GotoFacts DEF IncrementClientsNowCount
    <3>2. clients_now_count' = clients_now_count + 1 /\ UNCHANGED <<clients_count, clients_win_count>>
      BY <2>2 DEF IncrementClientsNowCount, UpdateNowCount
    <3>3. Counted' = Counted \cup {c} /\ c \notin Counted
      BY <3>1 DEF Counted
    <3>4. IsFiniteSet(Counted)
      BY FS_Subset DEF Counted
    <3>5. Cardinality(Counted') = Cardinality(Counted) + 1 /\ Cardinality(Counted) \in Nat
      BY <3>3, <3>4, FS_AddElement, FS_CardinalityType
    <3>6. pc'[Main] = pc[Main]
      BY <3>1
    <3> QED BY SMTT(30), <3>2, <3>5, <3>6 DEF CountInv
  <2>3. CASE ChooseSecret(c)
    BY SMTT(30), <1>0, <2>3, CountKeptByGoto DEF ChooseSecret
  <2>4. CASE ReceiveGuess(c)
    BY <1>0, <2>4, CountKeptByGoto DEF ReceiveGuess
  <2>5. CASE LogGuess(c)
    BY <1>0, <2>5, CountKeptByGoto DEF LogGuess
  <2>6. CASE LogHint(c)
    BY <1>0, <2>6, CountKeptByGoto DEF LogHint
  <2>7. CASE Win(c)
    BY SMTT(30), <1>0, <2>7, CountKeptByGoto DEF Win
  <2> QED BY <1>7, <2>1, <2>2, <2>3, <2>4, <2>5, <2>6, <2>7 DEF RoutineStep
<1>8. ASSUME NEW c \in Clients, Accept(c) PROVE CountInv'
  <2>1. pc[c] = "none" /\ pc[Main] = "accept"
    BY <1>8 DEF Accept, ConnInv, Accepted
  <2>2. UNCHANGED countVars
    BY <1>8 DEF Accept
  <2>3. \/ Goto(c, "connect_lock")
        \/ \E q \in {"full_lock", "create_lock"} : Goto(Main, q)
    BY <1>8 DEF Accept, Goto
  <2> QED BY <1>0, <2>1, <2>2, <2>3, CountKeptByGoto
<1>9. CASE PeerStep
  BY <1>0, <1>9, PeerFrame, CountKept
<1>10. ASSUME NEW k, HandlerStep(k) PROVE CountInv'
  BY <1>0, <1>10, HandlerFrame, CountKept
<1>11. CASE UNCHANGED serverVars
  BY <1>0, <1>11, CountKept DEF serverVars
<1> QED
  BY <1>1, <1>2, <1>3, <1>4, <1>5, <1>6, <1>7, <1>8, <1>9, <1>10, <1>11, <1>12
  DEF Next, ThreadStep, PeerStep, Quiet

-----------------------------------------------------------------------------
(* The steps of the threads and the peers leave the handlers alone. *)
ServerStep ==
    \/ \E t \in Threads : ThreadStep(t)
    \/ \E c \in Clients : RoutineStep(c) \/ Accept(c)
    \/ PeerStep
    \/ UNCHANGED serverVars

LEMMA ServerFrame ==
  ASSUME ServerStep
  PROVE  UNCHANGED <<handlers, stats>>
<1>1. ASSUME NEW t \in Threads, ThreadStep(t) PROVE UNCHANGED <<handlers, stats>>
  BY <1>1 DEF ThreadStep, Lock, LogAndUnlock, SendMessage, SendConnLost, SendOtherError,
     LockNowCount, Leave, signalVars
<1>2. ASSUME NEW c \in Clients, RoutineStep(c) PROVE UNCHANGED <<handlers, stats>>
  BY <1>2 DEF RoutineStep, LogConnect, IncrementClientsNowCount, ChooseSecret, ReceiveGuess,
     LogGuess, LogHint, Win, signalVars
<1>3. ASSUME NEW c \in Clients, Accept(c) PROVE UNCHANGED <<handlers, stats>>
  BY <1>3 DEF Accept
<1>4. CASE PeerStep
  BY <1>4, PeerFrame DEF signalVars
<1>5. CASE UNCHANGED serverVars
  BY <1>5 DEF serverVars, signalVars
<1> QED BY <1>1, <1>2, <1>3, <1>4, <1>5 DEF ServerStep

LEMMA NextCases ==
  ASSUME [Next]_serverVars
  PROVE  \/ ServerStep
         \/ \E t \in Threads : Signal(t)
         \/ \E k \in 1 .. MaxSignals : HandlerStep(k)
BY DEF Next, ServerStep, PeerStep, Quiet

Handlers == [thread : Threads, at : {"lock", "unlock", "exit", "exited"}]

LEMMA HandlerType ==
  ASSUME HandlerInv, NEW j \in DOMAIN handlers
  PROVE  handlers[j].thread \in Threads /\ handlers[j].at \in {"lock", "unlock", "exit", "exited"}
<1>1. handlers \in Seq(Handlers)
  BY DEF HandlerInv, Handlers
<1>2. handlers[j] \in Handlers
  BY SMTT(30), <1>1
<1> QED BY <1>2 DEF Handlers

(* A step of the k-th handler moves that one alone. *)
LEMMA HandlerGotoFacts ==
  ASSUME HandlerInv, NEW k \in DOMAIN handlers, NEW q \in {"unlock", "exit", "exited"},
         HandlerGoto(k, q)
  PROVE  /\ handlers' \in Seq(Handlers) /\ DOMAIN handlers' = DOMAIN handlers
         /\ handlers'[k].thread = handlers[k].thread /\ handlers'[k].at = q
         /\ \A j \in DOMAIN handlers \ {k} : handlers'[j] = handlers[j]
         /\ handlers[k].thread \in Threads
<1>1. handlers \in Seq(Handlers)
  BY DEF HandlerInv, Handlers
<1>2. handlers[k] \in Handlers
  BY SMTT(30), <1>1
<1>3. [handlers[k] EXCEPT !.at = q] \in Handlers /\ [handlers[k] EXCEPT !.at = q].at = q
      /\ [handlers[k] EXCEPT !.at = q].thread = handlers[k].thread
  BY <1>2 DEF Handlers
<1>4. handlers' = [handlers EXCEPT ![k] = [handlers[k] EXCEPT !.at = q]]
  BY DEF HandlerGoto
<1>5. handlers[k].thread \in Threads
  BY <1>2 DEF Handlers
<1>6. PICK h \in Handlers : h.at = q /\ h.thread = handlers[k].thread
                           /\ handlers' = [handlers EXCEPT ![k] = h]
  BY <1>3, <1>4
<1>7. handlers' \in Seq(Handlers) /\ DOMAIN handlers' = DOMAIN handlers
      /\ handlers'[k] = h /\ \A j \in DOMAIN handlers \ {k} : handlers'[j] = handlers[j]
  BY SMTT(30), <1>1, <1>6
<1> QED BY <1>5, <1>6, <1>7

(* A signal starts one more run of the handler. *)
LEMMA SignalFacts ==
  ASSUME HandlerInv, NEW t \in Threads, Signal(t)
  PROVE  /\ handlers' \in Seq(Handlers) /\ DOMAIN handlers \subseteq DOMAIN handlers'
         /\ \A j \in DOMAIN handlers : handlers'[j] = handlers[j]
         /\ \A j \in DOMAIN handlers' \ DOMAIN handlers : handlers'[j].at = "lock"
<1>1. handlers \in Seq(Handlers)
  BY DEF HandlerInv, Handlers
<1>2. [thread |-> t, at |-> "lock"] \in Handlers
  BY DEF Handlers
<1>3. handlers' = Append(handlers, [thread |-> t, at |-> "lock"])
  BY DEF Signal
<1> QED BY SMTT(30), <1>1, <1>2, <1>3

LEMMA HandlersStep ==
  ASSUME HandlerInv, [Next]_serverVars
  PROVE  HandlerInv'
<1> USE DEF Handlers
<1>1. listening' \in {"open", "accepting", "closed"} \cup Clients
  BY PeerFrame, HandlerFrame DEF HandlerInv, Next, ThreadStep, Lock, LogAndUnlock, SendMessage,
     SendConnLost, SendOtherError, LockNowCount, Leave, RoutineStep, LogConnect,
     IncrementClientsNowCount,
     ChooseSecret, ReceiveGuess, LogGuess, LogHint, Win, Accept, Signal, PeerStep, Quiet,
     serverVars, signalVars
<1>2. undefined' \in BOOLEAN
  BY PeerFrame DEF HandlerInv, Next, ThreadStep, Lock, LogAndUnlock, SendMessage,
     SendConnLost, SendOtherError, LockNowCount, Leave, RoutineStep, LogConnect,
     IncrementClientsNowCount,
     ChooseSecret, ReceiveGuess, LogGuess, LogHint, Win, Accept, Signal, PeerStep, Quiet,
     HandlerStep, LogShutdown, LogShutdownAgain, DestroyMutexes, Exit, Log, serverVars, logVars
<1>3. CASE ServerStep
  BY <1>1, <1>2, <1>3, ServerFrame DEF HandlerInv
<1>4. ASSUME NEW t \in Threads, Signal(t) PROVE HandlerInv'
  BY <1>1, <1>2, <1>4, SignalFacts DEF HandlerInv
<1>5. ASSUME NEW k, LogShutdown(k) PROVE HandlerInv'
  <2>1. k \in DOMAIN handlers /\ HandlerGoto(k, "unlock") /\ ~LogClosed /\ ~Exited
    BY <1>5 DEF LogShutdown, HandlerAt
  <2>2. \A j \in DOMAIN handlers : handlers[j].at = "lock"
    BY <2>1, HandlerType DEF LogClosed, Exited
  <2> QED BY SMTT(30), <1>1, <1>2, <2>1, <2>2, HandlerGotoFacts DEF HandlerInv
<1>6. ASSUME NEW k, DestroyMutexes(k) \/ Exit(k) PROVE HandlerInv'
  <2>1. k \in DOMAIN handlers /\ handlers[k].at # "lock"
        /\ \E q \in {"exit", "exited"} : HandlerGoto(k, q)
    BY <1>6 DEF DestroyMutexes, Exit, HandlerAt
  <2> QED BY SMTT(30), <1>1, <1>2, <2>1, HandlerGotoFacts DEF HandlerInv
<1>7. ASSUME NEW k, LogShutdownAgain(k) PROVE HandlerInv'
  BY <1>1, <1>2, <1>7 DEF LogShutdownAgain, signalVars, HandlerInv
<1> QED BY <1>3, <1>4, <1>5, <1>6, <1>7, NextCases DEF HandlerStep

-----------------------------------------------------------------------------
(* A running thread holds the mutex exactly at a critical point. *)
LEMMA RunningHolds ==
  ASSUME LockInv, NEW t \in Threads, Running(t)
  PROVE  (pc[t] \in CriticalPoints) <=> log_file_mutex = t
BY DEF LockInv, Holds, Running

(* A step of thread t that neither takes nor gives back the mutex. *)
LEMMA LockKept ==
  ASSUME ControlInv, HandlerInv, LockInv, NEW t \in Threads, NEW q, Goto(t, q), Running(t),
         UNCHANGED <<handlers, log_file_mutex>>,
         q \in CriticalPoints <=> pc[t] \in CriticalPoints
  PROVE  LockInv'
BY SMTT(30), GotoFacts, HandlerType DEF LockInv, Holds, Running

(* A step of thread t that gives it back. *)
LEMMA LockReleased ==
  ASSUME ControlInv, HandlerInv, LockInv, NEW t \in Threads, NEW q, Goto(t, q), Running(t), Unlock(t),
         UNCHANGED handlers, pc[t] \in CriticalPoints, q \notin CriticalPoints
  PROVE  LockInv'
BY SMTT(30), GotoFacts, HandlerType DEF LockInv, Holds, Running, Unlock

LEMMA LockStep ==
  ASSUME ControlInv, ConnInv, HandlerInv, LockInv, [Next]_serverVars
  PROVE  LockInv'
<1> USE DEF signalVars, mutexVars
<1>1. ASSUME NEW t \in Threads, Lock(t) PROVE LockInv'
  <2>1. PICK q \in CriticalPoints : Goto(t, q)
    BY <1>1, LockFacts, CriticalFacts DEF Lock
  <2>2. log_file_mutex = None /\ log_file_mutex' = t /\ Running(t) /\ UNCHANGED handlers
    BY <1>1 DEF Lock
  <2> QED BY SMTT(30), <2>1, <2>2, GotoFacts, HandlerType DEF LockInv, Holds, Running
<1>2. ASSUME NEW t \in Threads, LogAndUnlock(t) PROVE LockInv'
  BY <1>2, LogFacts, CriticalFacts, LockReleased DEF LogAndUnlock
<1>3. ASSUME NEW t \in Threads, SendMessage(t) PROVE LockInv'
  <2>1. AfterSend(t) \notin CriticalPoints /\ pc[t] \notin CriticalPoints
    BY <1>3, SendFacts, CriticalFacts DEF SendMessage, AfterSend, LoopPoint
  <2> QED BY <1>3, <2>1, LockKept DEF SendMessage
<1>4. ASSUME NEW t \in Threads, SendConnLost(t) \/ SendOtherError(t) PROVE LockInv'
  <2>1. pc[t] \notin CriticalPoints /\ \E q \in {"lost_lock", "failed_lock"} : Goto(t, q)
    BY <1>4, SendFacts, CriticalFacts DEF SendConnLost, SendOtherError
  <2>2. Running(t) /\ UNCHANGED <<handlers, log_file_mutex>>
    BY <1>4 DEF SendConnLost, SendOtherError
  <2> QED BY <2>1, <2>2, LockKept, CriticalFacts
<1>5. ASSUME NEW t \in Threads, LockNowCount(t) \/ Leave(t) PROVE LockInv'
  BY <1>5, CountFacts, LockKept, CriticalFacts DEF LockNowCount, Leave
<1>6. ASSUME NEW t \in Threads, Signal(t) PROVE LockInv'
  <2>1. UNCHANGED <<pc, log_file_mutex>>
    BY <1>6 DEF Signal
  <2> QED BY <1>6, <2>1, SignalFacts DEF LockInv, Holds
<1>7. ASSUME NEW c \in Clients, RoutineStep(c) PROVE LockInv'
  <2>1. CASE LogConnect(c)
    BY <2>1, CriticalFacts, LockKept DEF LogConnect
  <2>2. CASE IncrementClientsNowCount(c)
    BY <2>2, CriticalFacts, LockKept DEF IncrementClientsNowCount
  <2>3. CASE ChooseSecret(c)
    BY SMTT(30), <2>3, CriticalFacts, LockReleased DEF ChooseSecret
  <2>4. CASE ReceiveGuess(c)
    BY <2>4, CriticalFacts, LockKept DEF ReceiveGuess
  <2>5. CASE LogGuess(c)
    BY <2>5, CriticalFacts, LockKept DEF LogGuess
  <2>6. CASE LogHint(c)
    BY SMTT(30), <2>6, CriticalFacts, LockReleased DEF LogHint
  <2>7. CASE Win(c)
    BY <2>7, CriticalFacts, LockKept DEF Win
  <2> QED BY <1>7, <2>1, <2>2, <2>3, <2>4, <2>5, <2>6, <2>7 DEF RoutineStep
<1>8. ASSUME NEW c \in Clients, Accept(c) PROVE LockInv'
  <2>1. pc[c] = "none" /\ pc[Main] = "accept"
    BY <1>8 DEF Accept, ConnInv, Accepted
  <2>2. UNCHANGED <<handlers, log_file_mutex>>
    BY <1>8 DEF Accept
  <2>3. \/ Goto(c, "connect_lock")
        \/ \E q \in {"full_lock", "create_lock"} : Goto(Main, q)
    BY <1>8 DEF Accept, Goto
  <2>4. \A t \in Threads : pc'[t] \in CriticalPoints <=> pc[t] \in CriticalPoints
    BY SMTT(30), <2>1, <2>3, GotoFacts, CriticalFacts
  <2>5. \A k \in DOMAIN handlers : handlers[k].thread \in Threads
    BY HandlerType
  <2> QED BY SMTT(30), <2>2, <2>4, <2>5 DEF LockInv, Holds
<1>9. CASE PeerStep
  BY <1>9, PeerFrame DEF LockInv, Holds
<1>10. ASSUME NEW k, LogShutdown(k) PROVE LockInv'
  <2>1. k \in DOMAIN handlers /\ HandlerGoto(k, "unlock") /\ log_file_mutex = None
        /\ log_file_mutex' = handlers[k].thread /\ UNCHANGED pc
    BY <1>10 DEF LogShutdown, HandlerAt
  <2> QED BY SMTT(30), <2>1, HandlerGotoFacts DEF LockInv, Holds
<1>11. ASSUME NEW k, DestroyMutexes(k) PROVE LockInv'
  <2>1. k \in DOMAIN handlers /\ handlers[k].at = "unlock" /\ HandlerGoto(k, "exit")
        /\ log_file_mutex' = None /\ UNCHANGED pc
    BY <1>11 DEF DestroyMutexes, HandlerAt
  <2>2. \A j \in DOMAIN handlers : handlers[j].at = "unlock" => j = k
    BY <2>1 DEF HandlerInv
  <2> QED BY SMTT(30), <2>1, <2>2, HandlerGotoFacts DEF LockInv, Holds
<1>12. ASSUME NEW k, Exit(k) PROVE LockInv'
  <2>1. k \in DOMAIN handlers /\ handlers[k].at = "exit" /\ HandlerGoto(k, "exited")
        /\ UNCHANGED <<pc, log_file_mutex>>
    BY <1>12 DEF Exit, HandlerAt
  <2> QED BY SMTT(30), <2>1, HandlerGotoFacts DEF LockInv, Holds
<1>13. ASSUME NEW k, LogShutdownAgain(k) PROVE LockInv'
  BY <1>13 DEF LogShutdownAgain, LockInv, Holds
<1>14. CASE UNCHANGED serverVars
  BY <1>14 DEF serverVars, LockInv, Holds
<1> QED
  BY <1>1, <1>2, <1>3, <1>4, <1>5, <1>6, <1>7, <1>8, <1>9, <1>10, <1>11, <1>12, <1>13, <1>14
  DEF Next, ThreadStep, HandlerStep, PeerStep, Quiet

(* A step that moves no thread over the ends of the counting points. *)
LEMMA CountLockKept ==
  ASSUME CountLockInv, UNCHANGED clients_now_count_mutex,
         \A t \in Threads : pc'[t] \in NowCountPoints <=> pc[t] \in NowCountPoints
  PROVE  CountLockInv'
BY DEF CountLockInv

LEMMA CountLockStep ==
  ASSUME ControlInv, ConnInv, CountLockInv, [Next]_serverVars
  PROVE  CountLockInv'
<1> USE DEF NowCountPoints
<1>1. ASSUME NEW t \in Threads, NEW q, Goto(t, q), UNCHANGED clients_now_count_mutex,
             q \notin NowCountPoints, pc[t] \notin NowCountPoints
      PROVE  CountLockInv'
  BY <1>1, GotoFacts, CountLockKept
<1>2. ASSUME NEW t \in Threads, NEW q, Goto(t, q), clients_now_count_mutex' = None,
             q \notin NowCountPoints, pc[t] \in NowCountPoints
      PROVE  CountLockInv'
  BY <1>2, GotoFacts DEF CountLockInv
<1>3. ASSUME NEW t \in Threads, Lock(t) \/ LogAndUnlock(t) PROVE CountLockInv'
  BY <1>1, <1>3, LockFacts, LogFacts DEF Lock, LogAndUnlock
<1>4. ASSUME NEW t \in Threads, SendMessage(t) PROVE CountLockInv'
  <2>1. AfterSend(t) \notin NowCountPoints /\ pc[t] \notin NowCountPoints
    BY <1>4, SendFacts DEF SendMessage, AfterSend, LoopPoint
  <2> QED BY <1>1, <1>4, <2>1 DEF SendMessage, mutexVars
<1>5. ASSUME NEW t \in Threads, SendConnLost(t) \/ SendOtherError(t) PROVE CountLockInv'
  BY <1>1, <1>5, SendFacts DEF SendConnLost, SendOtherError, mutexVars
<1>6. ASSUME NEW t \in Threads, LockNowCount(t) PROVE CountLockInv'
  <2>1. \E q \in NowCountPoints : Goto(t, q)
    BY <1>6, CountFacts DEF LockNowCount
  <2>2. clients_now_count_mutex = None /\ clients_now_count_mutex' = t
    BY <1>6 DEF LockNowCount
  <2> QED BY <2>1, <2>2, GotoFacts DEF CountLockInv
<1>7. ASSUME NEW t \in Threads, Leave(t) PROVE CountLockInv'
  BY <1>2, <1>7 DEF Leave, UpdateNowCount
<1>8. ASSUME NEW c \in Clients, RoutineStep(c) PROVE CountLockInv'
  <2>1. CASE IncrementClientsNowCount(c)
    BY <1>2, <2>1 DEF IncrementClientsNowCount, UpdateNowCount
  <2>2. CASE LogConnect(c) \/ ChooseSecret(c) \/ ReceiveGuess(c)
    BY <1>1, <2>2 DEF LogConnect, ChooseSecret, ReceiveGuess, mutexVars
  <2>3. CASE LogGuess(c) \/ LogHint(c) \/ Win(c)
    BY <1>1, <2>3 DEF LogGuess, LogHint, Win, mutexVars
  <2> QED BY <1>8, <2>1, <2>2, <2>3 DEF RoutineStep
<1>9. ASSUME NEW c \in Clients, Accept(c) PROVE CountLockInv'
  <2>1. pc[c] = "none" /\ pc[Main] = "accept" /\ UNCHANGED clients_now_count_mutex
    BY <1>9 DEF Accept, ConnInv, Accepted, mutexVars
  <2>2. \/ Goto(c, "connect_lock")
        \/ \E q \in {"full_lock", "create_lock"} : Goto(Main, q)
    BY <1>9 DEF Accept, Goto
  <2> QED BY <1>1, <2>1, <2>2
<1>10. CASE PeerStep
  BY <1>10, PeerFrame, CountLockKept DEF mutexVars
<1>11. ASSUME NEW k, HandlerStep(k) PROVE CountLockInv'
  BY <1>11, HandlerFrame, CountLockKept
<1>12. ASSUME NEW t \in Threads, Signal(t) PROVE CountLockInv'
  BY <1>12, CountLockKept DEF Signal, mutexVars
<1>13. CASE UNCHANGED serverVars
  BY <1>13, CountLockKept DEF serverVars, mutexVars
<1> QED
  BY <1>3, <1>4, <1>5, <1>6, <1>7, <1>8, <1>9, <1>10, <1>11, <1>12, <1>13
  DEF Next, ThreadStep, PeerStep, Quiet

-----------------------------------------------------------------------------
LEMMA InitInv ==
  Init => ServerInv
<1> SUFFICES ASSUME Init PROVE ServerInv
  OBVIOUS
<1> USE DEF Init
<1>1. ControlInv
  BY DEF ControlInv, MainPoints, RoutinePoints
<1>2. ConnInv
  BY SMTT(30) DEF ConnInv
<1>3. GameInv
  BY SMTT(30), BufferFacts DEF GameInv, LoopPoints
<1>4. CountInv
  <2>1. Counted = {}
    BY DEF Counted
  <2> QED BY SMTT(30), <2>1, FS_EmptySet DEF CountInv
<1>5. HandlerInv
  <2>1. handlers \in Seq(Handlers)
    BY SMTT(30)
  <2>2. \A k \in DOMAIN handlers : FALSE
    BY SMTT(30)
  <2>3. listening \in {"open", "accepting", "closed"} \cup Clients /\ undefined \in BOOLEAN
    OBVIOUS
  <2> HIDE DEF Init
  <2> QED BY <2>1, <2>2, <2>3 DEF HandlerInv, Handlers
<1>6. LockInv
  BY SMTT(30), CriticalFacts DEF LockInv, Holds
<1>7. CountLockInv
  BY DEF CountLockInv, NowCountPoints
<1> QED BY <1>1, <1>2, <1>3, <1>4, <1>5, <1>6, <1>7 DEF ServerInv

LEMMA StepInv ==
  ServerInv /\ [Next]_serverVars => ServerInv'
BY ControlStep, ConnStep, GameStep, CountStep, HandlersStep, LockStep, CountLockStep
DEF ServerInv

LEMMA ServerInvariant ==
  Spec => []ServerInv
<1> QED BY InitInv, StepInv, PTL DEF Spec

LEMMA TypesFromInv ==
  ServerInv => TypeOK
<1> SUFFICES ASSUME ServerInv PROVE TypeOK
  OBVIOUS
<1>1. pc \in [Threads -> {"none", "accept", "receive", "win", "leave", "leaving", "done"}
                          \cup CriticalPoints \cup DOMAIN LockPoints \cup DOMAIN SendPoints]
  <2>1. MainPoints \cup RoutinePoints
           \subseteq {"none", "accept", "receive", "win", "leave", "leaving", "done"}
                     \cup CriticalPoints \cup DOMAIN LockPoints \cup DOMAIN SendPoints
    BY LockFacts, CriticalFacts, SendFacts DEF MainPoints, RoutinePoints
  <2> QED BY <2>1 DEF ServerInv, ControlInv
<1>2. \A k \in DOMAIN handlers :
         handlers[k] \in [thread : Threads, at : {"lock", "unlock", "exit", "exited"}]
  <2>1. handlers \in Seq(Handlers)
    BY DEF ServerInv, HandlerInv, Handlers
  <2>2. \A k \in DOMAIN handlers : handlers[k] \in Handlers
    BY SMTT(30), <2>1
  <2> QED BY <2>2 DEF Handlers
<1> QED
  BY <1>1, <1>2 DEF ServerInv, ControlInv, ConnInv, GameInv, CountInv, HandlerInv, LockInv,
     CountLockInv, TypeOK

(* On every path a thread can end by, the two error exits inside           *)
(* send_gp_message included, clients_now_count (server.c:164, 172) is the  *)
(* number of threads that serve a client, one less once the main thread    *)
(* has left through such an exit; with it the types of all variables.      *)
(* The counters are only right together with where each thread is.         *)
THEOREM NowCountExact ==
  Spec => []NowCountAccountsForThreads
<1>1. ServerInv => NowCountAccountsForThreads
  BY TypesFromInv DEF ServerInv, CountInv, NowCountAccountsForThreads
<1> QED BY <1>1, ServerInvariant, PTL

(* No two threads are between a lock and the unlock of either mutex. *)
MutexesExclude ==
    \A t, u \in Threads :
        \/ Holds(t) /\ Holds(u)
        \/ pc[t] \in NowCountPoints /\ pc[u] \in NowCountPoints
        => t = u

(* log_file_mutex and clients_now_count_mutex are locks also across        *)
(* signals: two threads are never both between the lock and the unlock of  *)
(* one of them (server.c:93-103, 163-165, 507-525), and the handler never  *)
(* takes log_file_mutex from a thread it interrupts.                       *)
THEOREM LocksExclude ==
  Spec => []MutexesExclude
<1>1. ServerInv => MutexesExclude
  BY DEF ServerInv, LockInv, CountLockInv, MutexesExclude
<1> QED BY <1>1, ServerInvariant, PTL
=============================================================================
