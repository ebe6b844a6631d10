----------------------------- MODULE GameServer -----------------------------
(***************************************************************************)
(* The Mastermind server and its clients (project2/server.c, client.c).    *)
(*                                                                         *)
(* The main thread accepts connections and starts a detached thread for    *)
(* each.  The threads share three counters, each behind a mutex of its     *)
(* own, and a log behind log_file_mutex.  SIGINT and SIGTERM run           *)
(* sig_handler on whichever thread the kernel picks, and a second signal   *)
(* may come while the first is handled.                                    *)
(*                                                                         *)
(* A thread's step runs to the next point where another thread can tell    *)
(* the difference.  A section under log_file_mutex is two steps or more,   *)
(* the lock and the writes, because the handler can interrupt it.  So is   *)
(* an update under clients_now_count_mutex, which one thread requests      *)
(* inside such a section and another may hold when it is interrupted.  An  *)
(* update of the other two counters is one step: clients_count_mutex is    *)
(* only requested under log_file_mutex, so nobody waits for it, and        *)
(* whoever waits for clients_win_count_mutex holds no other mutex.         *)
(*                                                                         *)
(* A message is its header.  The log is its last line together with the    *)
(* lines of each connection.  Once the log is closed a write to it is      *)
(* undefined behaviour: the model says so in undefined and stops there.    *)
(***************************************************************************)
EXTENDS SecretCode, Sequences

CONSTANTS
    Clients,               \* the client processes, each connecting once
    Main,                  \* the main thread
    None,
    CLIENTS_NOW_MAX_COUNT,
    MAX_GUESSES_COUNT,
    SecretArgument,        \* argv[2], or NotACode when there is none
    TypedLines,            \* what a user may type, end of input included
    Faults,                \* which of "kill", "send", "create", "signal" may happen
    MaxSignals             \* bound on the signals

ASSUME ServerAssumption ==
    /\ IsFiniteSet(Clients) /\ Main \notin Clients /\ None \notin Clients \cup {Main}
    /\ Clients \cap {"open", "accepting", "closed"} = {}
    /\ CLIENTS_NOW_MAX_COUNT \in Nat \ {0}
    /\ MAX_GUESSES_COUNT \in Nat \ {0}
    /\ SecretArgument \in Buffers
    /\ TypedLines \subseteq Buffers
    /\ Faults \subseteq {"kill", "send", "create", "signal"}
    /\ MaxSignals \in Nat

VARIABLES
    pc,              \* where each thread is; "none" before pthread_create
    serving,         \* the client main refuses or fails to serve, or None
    conn,            \* the server's end of each connection
    client,          \* the state of each client process
    to_client,       \* messages the server has sent and the client not read
    to_server,       \* the same for the other direction
    secret_code, buffer, guesses_count, correct_positions_count,
    log_file_mutex,  \* the thread that holds it, or None
    clients_now_count_mutex,  \* the same
    clients_now_count, clients_count, clients_win_count,
    log_tail,        \* the last line of the log: its connection and kind
    session_log,     \* the lines of each connection, in order
    listening,       \* socket_fd: "open", "closed", closed under an accept, or
                     \* the connection that has its number then
    handlers,        \* the runs of sig_handler, oldest first: the thread each
                     \* interrupts, and where it is
    stats,           \* the counts sig_handler logged
    undefined        \* a thread wrote to the closed log

gameVars == <<secret_code, buffer, guesses_count, correct_positions_count>>
netVars == <<conn, client, to_client, to_server>>
mutexVars == <<log_file_mutex, clients_now_count_mutex>>
countVars == <<clients_now_count, clients_count, clients_win_count>>
logVars == <<log_tail, session_log, undefined>>
signalVars == <<listening, handlers, stats>>
serverVars == <<pc, serving, netVars, gameVars, mutexVars, countVars,
                logVars, signalVars>>

Threads == Clients \cup {Main}

Init ==
    /\ pc = [t \in Threads |-> IF t = Main THEN "accept" ELSE "none"]
    /\ serving = None
    /\ conn = [c \in Clients |-> "none"]
    /\ client = [c \in Clients |-> "away"]
    /\ to_client = [c \in Clients |-> <<>>]
    /\ to_server = [c \in Clients |-> <<>>]
    /\ secret_code = [c \in Clients |-> IF IsValidSecretCode(SecretArgument)
                                        THEN SecretArgument ELSE NotACode]
    /\ buffer = [c \in Clients |-> NotACode]
    /\ guesses_count = [c \in Clients |-> 0]
    /\ correct_positions_count = [c \in Clients |-> 0]
    /\ log_file_mutex = None /\ clients_now_count_mutex = None
    /\ clients_now_count = 0 /\ clients_count = 0 /\ clients_win_count = 0
    /\ log_tail = [of |-> Main, line |-> "started"]
    /\ session_log = [c \in Clients |-> <<>>]
    /\ listening = "open"
    /\ handlers = <<>> /\ stats = None
    /\ undefined = FALSE

Exited == \E k \in DOMAIN handlers : handlers[k].at = "exited"

LogClosed == \E k \in DOMAIN handlers : handlers[k].at \in {"unlock", "exit"}

(* A thread takes its steps unless a handler interrupts it or has ended    *)
(* the process.                                                            *)
Running(t) == (\A k \in DOMAIN handlers : handlers[k].thread # t) /\ ~Exited /\ ~undefined

Goto(t, point) == pc' = [pc EXCEPT ![t] = point]

(* The connection the thread t works for. *)
ClientOf(t) == IF t = Main THEN serving ELSE t

-----------------------------------------------------------------------------
(***************************************************************************)
(* The log, under log_file_mutex.                                          *)
(***************************************************************************)
(* Each point that locks log_file_mutex, and the first point under it. *)
LockPoints ==
    [connect_lock |-> "connect_log", guess_lock |-> "guess_log",
     win_lock |-> "win_log", lose_lock |-> "lose_log", bye_lock |-> "bye_log",
     lost_lock |-> "lost_log", failed_lock |-> "failed_log",
     full_lock |-> "full_log", create_lock |-> "create_log"]

CriticalPoints ==
    {LockPoints[p] : p \in DOMAIN LockPoints}
        \cup {"connect_count", "connect_counting", "connect_secret", "hint_log"}

Lock(t) ==
    /\ Running(t)
    /\ pc[t] \in DOMAIN LockPoints
    /\ log_file_mutex = None
    /\ log_file_mutex' = t
    /\ Goto(t, LockPoints[pc[t]])
    /\ UNCHANGED <<serving, netVars, gameVars, clients_now_count_mutex, countVars,
                   logVars, signalVars>>

(* fprintf and fflush of lines about the connection of c. *)
Log(c, lines) ==
    IF LogClosed
    THEN /\ undefined' = TRUE
         /\ UNCHANGED <<log_tail, session_log>>
    ELSE /\ session_log' = [session_log EXCEPT ![c] = @ \o lines]
         /\ log_tail' = [of |-> c, line |-> lines[Len(lines)].line]
         /\ UNCHANGED undefined

(* Faulty variant: the mutex stays locked. *)
Unlock_Forgotten(t) == UNCHANGED log_file_mutex

Unlock(t) == log_file_mutex' = None

Line(kind) == [line |-> kind]

CloseSocket(c) == conn' = [conn EXCEPT ![c] = "closed"]

(* Each section that ends in one step: its lines, and the point after it. *)
LogPoints ==
    [win_log |-> [lines |-> <<Line("SUCCESS")>>, next |-> "success"],
     lose_log |-> [lines |-> <<Line("FAILURE")>>, next |-> "failure"],
     bye_log |-> [lines |-> <<Line("disconnected")>>, next |-> "leave"],
     lost_log |-> [lines |-> <<Line("lost")>>, next |-> "leave"],
     failed_log |-> [lines |-> <<Line("send_failed"), Line("disconnected")>>,
                     next |-> "leave"],
     full_log |-> [lines |-> <<Line("full")>>, next |-> "full"],
     create_log |-> [lines |-> <<Line("create_failed")>>, next |-> "accept"]]

(* The sections that close the connection as well. *)
ClosingPoints == {"lost_log", "failed_log", "create_log"}

LogAndUnlock(t) ==
    /\ Running(t)
    /\ pc[t] \in DOMAIN LogPoints
    /\ Log(ClientOf(t), LogPoints[pc[t]].lines)
    /\ Unlock(t)
    /\ Goto(t, LogPoints[pc[t]].next)
    /\ IF pc[t] \in ClosingPoints
       THEN CloseSocket(ClientOf(t))
       ELSE UNCHANGED conn
    /\ serving' = IF pc[t] = "create_log" THEN None ELSE serving
    /\ UNCHANGED <<client, to_client, to_server, gameVars, clients_now_count_mutex,
                   countVars, signalVars>>

-----------------------------------------------------------------------------
(***************************************************************************)
(* send_gp_message.  It composes the message in the thread's buffer and    *)
(* writes it.  The write fails with EPIPE once the client is gone, though  *)
(* not necessarily at once, or it stays incomplete for another reason;     *)
(* both errors end the calling thread, the main thread included.           *)
(***************************************************************************)
(* Faulty variant: a refused client is only shown a message. *)
SendPoints_FullShown ==
    [welcome |-> "DISPMSG", instructions_1 |-> "DISPMSG", instructions_2 |-> "DISPMSG",
     request |-> "REQUEST", invalid |-> "INVALID", feedback |-> "FEEDBAC",
     success |-> "SUCCESS", failure |-> "FAILURE", full |-> "DISPMSG"]

(* The points that send a message, and the message. *)
SendPoints ==
    [welcome |-> "DISPMSG", instructions_1 |-> "DISPMSG", instructions_2 |-> "DISPMSG",
     request |-> "REQUEST", invalid |-> "INVALID", feedback |-> "FEEDBAC",
     success |-> "SUCCESS", failure |-> "FAILURE", full |-> "SERVFUL"]

(* Faulty variant: one guess too many. *)
LoopPoint_OneMore(guesses, correct) ==
    IF guesses =< MAX_GUESSES_COUNT /\ correct < SECRET_CODE_LEN
    THEN "request"
    ELSE IF correct = SECRET_CODE_LEN THEN "win" ELSE "lose_lock"

(* The test of the game loop, and the branch after it. *)
LoopPoint(guesses, correct) ==
    IF guesses < MAX_GUESSES_COUNT /\ correct < SECRET_CODE_LEN
    THEN "request"
    ELSE IF correct = SECRET_CODE_LEN THEN "win" ELSE "lose_lock"

(* Where the thread goes on once the message of pc[t] is sent. *)
AfterSend(t) ==
    CASE pc[t] = "welcome" -> "instructions_1"
      [] pc[t] = "instructions_1" -> "instructions_2"
      [] pc[t] = "instructions_2" -> LoopPoint(guesses_count[t], correct_positions_count[t])
      [] pc[t] \in {"request", "invalid"} -> "receive"
      [] pc[t] = "feedback" -> LoopPoint(guesses_count[t] + 1, correct_positions_count[t])
      [] pc[t] \in {"success", "failure"} -> "bye_lock"
      [] pc[t] = "full" -> "accept"

Compose(t) ==
    buffer' = IF t = Main THEN buffer ELSE [buffer EXCEPT ![t] = NotACode]

(* The message is written in full.  The calls that follow it directly are  *)
(* part of the step: guesses_count++, close, and free in the main thread.  *)
SendMessage(t) ==
    LET c == ClientOf(t) IN
    /\ Running(t)
    /\ pc[t] \in DOMAIN SendPoints /\ conn[c] = "open"
    /\ to_client' = IF client[c] = "playing"
                    THEN [to_client EXCEPT ![c] = Append(@, SendPoints[pc[t]])]
                    ELSE to_client
    /\ Compose(t)
    /\ guesses_count' = IF pc[t] = "feedback"
                        THEN [guesses_count EXCEPT ![t] = @ + 1]
                        ELSE guesses_count
    /\ Goto(t, AfterSend(t))
    /\ IF pc[t] \in {"success", "failure", "full"}
       THEN CloseSocket(c)
       ELSE UNCHANGED conn
    /\ serving' = IF t = Main THEN None ELSE serving
    /\ UNCHANGED <<client, to_server, secret_code, correct_positions_count,
                   mutexVars, countVars, logVars, signalVars>>

(* Faulty variant: the thread goes on as if the message were sent. *)
SendConnLost_Ignored(t) ==
    /\ pc[t] \in DOMAIN SendPoints
    /\ client[ClientOf(t)] = "gone"
    /\ SendMessage(t)

(* WRITE_CONN_LOST_ERROR: the client has closed its end. *)
SendConnLost(t) ==
    /\ Running(t)
    /\ pc[t] \in DOMAIN SendPoints /\ conn[ClientOf(t)] = "open"
    /\ client[ClientOf(t)] = "gone"
    /\ Compose(t)
    /\ Goto(t, "lost_lock")
    /\ UNCHANGED <<serving, netVars, secret_code, guesses_count,
                   correct_positions_count, mutexVars, countVars, logVars,
                   signalVars>>

(* WRITE_OTHER_ERROR: five writes have not sent the whole message, or the  *)
(* descriptor is closed.  The client acts on a message whose first bytes,  *)
(* the header, have arrived.                                               *)
SendOtherError(t) ==
    /\ Running(t)
    /\ pc[t] \in DOMAIN SendPoints
    /\ "send" \in Faults \/ conn[ClientOf(t)] = "closed"
    /\ Compose(t)
    /\ Goto(t, "failed_lock")
    /\ \/ /\ client[ClientOf(t)] = "playing" /\ conn[ClientOf(t)] = "open"
          /\ to_client' = [to_client EXCEPT ![ClientOf(t)] = Append(@, SendPoints[pc[t]])]
       \/ UNCHANGED to_client
    /\ UNCHANGED <<serving, conn, client, to_server, secret_code, guesses_count,
                   correct_positions_count, mutexVars, countVars, logVars,
                   signalVars>>

-----------------------------------------------------------------------------
(***************************************************************************)
(* clients_now_count, under its mutex.                                     *)
(***************************************************************************)
(* Each point that locks clients_now_count_mutex, and the point under it. *)
CountPoints == [connect_count |-> "connect_counting", leave |-> "leaving"]

LockNowCount(t) ==
    /\ Running(t)
    /\ pc[t] \in DOMAIN CountPoints
    /\ clients_now_count_mutex = None
    /\ clients_now_count_mutex' = t
    /\ Goto(t, CountPoints[pc[t]])
    /\ UNCHANGED <<serving, netVars, gameVars, log_file_mutex, countVars, logVars,
                   signalVars>>

(* The update, and the unlock. *)
UpdateNowCount(change) ==
    /\ clients_now_count' = clients_now_count + change
    /\ clients_now_count_mutex' = None
    /\ UNCHANGED <<clients_count, clients_win_count>>

(* increment_clients_now_count, which the main thread's test reads. *)
IncrementClientsNowCount(c) ==
    /\ Running(c)
    /\ pc[c] = "connect_counting"
    /\ UpdateNowCount(1)
    /\ Goto(c, "connect_secret")
    /\ UNCHANGED <<serving, netVars, gameVars, log_file_mutex, logVars, signalVars>>

(* Faulty variant: an exit that forgets the count. *)
Leave_Uncounted(t) ==
    /\ Running(t)
    /\ pc[t] = "leaving"
    /\ UpdateNowCount(0)
    /\ Goto(t, "done")
    /\ serving' = IF t = Main THEN None ELSE serving
    /\ UNCHANGED <<netVars, gameVars, log_file_mutex, logVars, signalVars>>

(* The last step of a thread, through send_gp_message's errors or the end  *)
(* of pthread_routine: decrement_clients_now_count, then the thread ends.  *)
(* In the main thread it is pthread_exit, and the process lives on.        *)
Leave(t) ==
    /\ Running(t)
    /\ pc[t] = "leaving"
    /\ UpdateNowCount(-1)
    /\ Goto(t, "done")
    /\ serving' = IF t = Main THEN None ELSE serving
    /\ UNCHANGED <<netVars, gameVars, log_file_mutex, logVars, signalVars>>

-----------------------------------------------------------------------------
(***************************************************************************)
(* The accept loop of main.  The test against CLIENTS_NOW_MAX_COUNT reads  *)
(* the counter without its mutex; the thread that increments it starts     *)
(* later.                                                                  *)
(***************************************************************************)
IsFull == clients_now_count >= CLIENTS_NOW_MAX_COUNT

Accept(c) ==
    /\ Running(Main)
    /\ pc[Main] = "accept"
    /\ listening \in {"open", "accepting"} /\ conn[c] = "backlog"
    /\ listening' \in IF listening = "accepting" THEN {"closed", c} ELSE {"open"}
    /\ conn' = [conn EXCEPT ![c] = "open"]
    /\ \/ /\ IsFull
          /\ pc' = [pc EXCEPT ![Main] = "full_lock"]
          /\ serving' = c
       \/ /\ ~IsFull
          /\ pc' = [pc EXCEPT ![c] = "connect_lock"]
          /\ UNCHANGED serving
       \/ /\ ~IsFull
          /\ "create" \in Faults
          /\ pc' = [pc EXCEPT ![Main] = "create_lock"]
          /\ serving' = c
    /\ UNCHANGED <<client, to_client, to_server, gameVars, mutexVars,
                   countVars, logVars, handlers, stats>>

-----------------------------------------------------------------------------
(***************************************************************************)
(* pthread_routine, for the connection c.                                  *)
(***************************************************************************)
(* "client connected", at the head of the first section under the mutex. *)
LogConnect(c) ==
    /\ Running(c)
    /\ pc[c] = "connect_log"
    /\ Log(c, <<Line("connected")>>)
    /\ Goto(c, "connect_count")
    /\ UNCHANGED <<serving, netVars, gameVars, mutexVars, countVars, signalVars>>

(* increment_clients_count, then the secret code, given or random. *)
ChooseSecret(c) ==
    /\ Running(c)
    /\ pc[c] = "connect_secret"
    /\ clients_count' = clients_count + 1
    /\ \E code \in IF IsValidSecretCode(secret_code[c])
                   THEN {secret_code[c]} ELSE RandomSecretCodes :
          secret_code' = [secret_code EXCEPT ![c] = code]
    /\ Log(c, <<Line("secret")>>)
    /\ Unlock(c)
    /\ Goto(c, "welcome")
    /\ UNCHANGED <<serving, netVars, buffer, guesses_count, correct_positions_count,
                   clients_now_count_mutex, clients_now_count, clients_win_count,
                   signalVars>>

(* receive_message into buffer, its result ignored, and the test of the    *)
(* guess.  It waits for the client; at the end of the stream, or on a      *)
(* closed descriptor, the five reads return nothing and the buffer still   *)
(* holds the header last sent.                                             *)
ReceiveGuess(c) ==
    /\ Running(c)
    /\ pc[c] = "receive"
    /\ \/ /\ to_server[c] # <<>>
          /\ buffer' = [buffer EXCEPT ![c] = Head(to_server[c])]
          /\ to_server' = [to_server EXCEPT ![c] = Tail(@)]
       \/ /\ (to_server[c] = <<>> /\ client[c] = "gone") \/ conn[c] = "closed"
          /\ UNCHANGED <<buffer, to_server>>
    /\ Goto(c, IF IsValidSecretCode(buffer'[c]) THEN "guess_lock" ELSE "invalid")
    /\ UNCHANGED <<serving, conn, client, to_client, secret_code, guesses_count,
                   correct_positions_count, mutexVars, countVars, logVars,
                   signalVars>>

(* Faulty variant: the mutex is released between the guess and the hint. *)
LogGuess_Unlocking(c) ==
    /\ Running(c)
    /\ pc[c] = "guess_log"
    /\ Log(c, <<[line |-> "guess", code |-> buffer[c]]>>)
    /\ Unlock(c)
    /\ Goto(c, "hint_log")
    /\ UNCHANGED <<serving, netVars, gameVars, clients_now_count_mutex, countVars,
                   signalVars>>

(* "client's guess". *)
LogGuess(c) ==
    /\ Running(c)
    /\ pc[c] = "guess_log"
    /\ Log(c, <<[line |-> "guess", code |-> buffer[c]]>>)
    /\ Goto(c, "hint_log")
    /\ UNCHANGED <<serving, netVars, gameVars, mutexVars, countVars, signalVars>>

(* get_secret_code_guess_feedback and "server's hint". *)
LogHint(c) ==
    LET feedback == GetSecretCodeGuessFeedback(secret_code[c], buffer[c]) IN
    /\ Running(c)
    /\ pc[c] = "hint_log"
    /\ correct_positions_count' =
          [correct_positions_count EXCEPT ![c] = feedback.correct_positions_count]
    /\ Log(c, <<[line |-> "hint",
                 positions |-> feedback.correct_positions_count,
                 colors |-> feedback.correct_colors_count]>>)
    /\ Unlock(c)
    /\ Goto(c, "feedback")
    /\ UNCHANGED <<serving, netVars, secret_code, buffer, guesses_count,
                   clients_now_count_mutex, countVars, signalVars>>

(* increment_clients_win_count, before the win is logged. *)
Win(c) ==
    /\ Running(c)
    /\ pc[c] = "win"
    /\ clients_win_count' = clients_win_count + 1
    /\ Goto(c, "win_lock")
    /\ UNCHANGED <<serving, netVars, gameVars, mutexVars, clients_now_count,
                   clients_count, logVars, signalVars>>

-----------------------------------------------------------------------------
(***************************************************************************)
(* sig_handler, on the thread the signal interrupts.  A handler can be     *)
(* interrupted by the other of the two signals, and then waits for it.     *)
(***************************************************************************)
OnThread(t) == {k \in DOMAIN handlers : handlers[k].thread = t}

(* The k-th run of the handler, if no later one interrupts it. *)
HandlerAt(k, point) ==
    /\ k \in DOMAIN handlers /\ handlers[k].at = point
    /\ \A j \in OnThread(handlers[k].thread) : j <= k
    /\ ~Exited /\ ~undefined

HandlerGoto(k, point) == handlers' = [handlers EXCEPT ![k].at = point]

(* The signal arrives and the handler closes socket_fd.  The first time it *)
(* is the listening socket, although an accept the main thread is blocked  *)
(* in can still return a connection; the second time it is whatever has    *)
(* got that number since.                                                  *)
Signal(t) ==
    /\ "signal" \in Faults
    /\ Len(handlers) < MaxSignals /\ Cardinality(OnThread(t)) < 2
    /\ ~Exited /\ ~undefined
    /\ pc[t] \notin {"none", "done"}
    /\ handlers' = Append(handlers, [thread |-> t, at |-> "lock"])
    /\ listening' \in IF listening = "accepting" THEN {"accepting"}
                      ELSE IF listening = "open" /\ t # Main /\ pc[Main] = "accept"
                      THEN {"accepting", "closed"} ELSE {"closed"}
    /\ IF listening \in Clients THEN CloseSocket(listening) ELSE UNCHANGED conn
    /\ UNCHANGED <<pc, serving, client, to_client, to_server, gameVars, mutexVars,
                   countVars, logVars, stats>>

(* Faulty variant: the handler does not take the mutex. *)
LogShutdown_Unlocked(k) ==
    /\ HandlerAt(k, "lock") /\ ~LogClosed
    /\ log_file_mutex' = handlers[k].thread
    /\ log_tail' = [of |-> Main, line |-> "shutdown"]
    /\ stats' = [connected |-> clients_count, won |-> clients_win_count]
    /\ HandlerGoto(k, "unlock")
    /\ UNCHANGED <<pc, serving, netVars, gameVars, clients_now_count_mutex, countVars,
                   session_log, undefined, listening>>

(* The lock, the statistics, and fclose.  The mutex is not recursive: a    *)
(* thread that held it when it was interrupted waits for itself.           *)
LogShutdown(k) ==
    /\ HandlerAt(k, "lock") /\ ~LogClosed
    /\ log_file_mutex = None
    /\ log_file_mutex' = handlers[k].thread
    /\ log_tail' = [of |-> Main, line |-> "shutdown"]
    /\ stats' = [connected |-> clients_count, won |-> clients_win_count]
    /\ HandlerGoto(k, "unlock")
    /\ UNCHANGED <<pc, serving, netVars, gameVars, clients_now_count_mutex, countVars,
                   session_log, undefined, listening>>

(* The same after another run of the handler has closed the log. *)
LogShutdownAgain(k) ==
    /\ HandlerAt(k, "lock") /\ LogClosed
    /\ log_file_mutex = None
    /\ undefined' = TRUE
    /\ UNCHANGED <<pc, serving, netVars, gameVars, mutexVars, countVars, log_tail,
                   session_log, signalVars>>

(* The unlock, and the destruction of the mutexes. *)
DestroyMutexes(k) ==
    /\ HandlerAt(k, "unlock")
    /\ log_file_mutex' = None
    /\ HandlerGoto(k, "exit")
    /\ UNCHANGED <<pc, serving, netVars, gameVars, clients_now_count_mutex, countVars,
                   logVars, listening, stats>>

(* exit(0) ends every thread and closes every connection. *)
Exit(k) ==
    /\ HandlerAt(k, "exit")
    /\ HandlerGoto(k, "exited")
    /\ conn' = [c \in Clients |-> IF conn[c] = "none" THEN "none" ELSE "closed"]
    /\ UNCHANGED <<pc, serving, client, to_client, to_server, gameVars,
                   mutexVars, countVars, logVars, listening, stats>>

-----------------------------------------------------------------------------
(***************************************************************************)
(* The client process (client.c).                                          *)
(***************************************************************************)
Connect(c) ==
    /\ client[c] = "away"
    /\ listening = "open"
    /\ client' = [client EXCEPT ![c] = "playing"]
    /\ conn' = [conn EXCEPT ![c] = "backlog"]
    /\ UNCHANGED <<pc, serving, to_client, to_server, gameVars, mutexVars,
                   countVars, logVars, signalVars>>

(* The next message is one to show. *)
ClientShows(c) ==
    /\ client[c] = "playing" /\ to_client[c] # <<>>
    /\ Head(to_client[c]) \in {"DISPMSG", "FEEDBAC"}
    /\ to_client' = [to_client EXCEPT ![c] = Tail(@)]
    /\ UNCHANGED <<pc, serving, conn, client, to_server, gameVars, mutexVars,
                   countVars, logVars, signalVars>>

(* The next message asks for a guess: the line the user types is sent. *)
ClientGuesses(c, line) ==
    /\ client[c] = "playing" /\ to_client[c] # <<>>
    /\ Head(to_client[c]) \in {"REQUEST", "INVALID"}
    /\ to_client' = [to_client EXCEPT ![c] = Tail(@)]
    /\ to_server' = IF conn[c] = "closed"
                    THEN to_server
                    ELSE [to_server EXCEPT ![c] = Append(@, line)]
    /\ UNCHANGED <<pc, serving, conn, client, gameVars, mutexVars, countVars,
                   logVars, signalVars>>

(* The next message ends the game. *)
ClientEnds(c) ==
    /\ client[c] = "playing" /\ to_client[c] # <<>>
    /\ Head(to_client[c]) \in {"SUCCESS", "FAILURE", "SERVFUL"}
    /\ client' = [client EXCEPT ![c] = Head(to_client[c])]
    /\ to_client' = [to_client EXCEPT ![c] = Tail(@)]
    /\ UNCHANGED <<pc, serving, conn, to_server, gameVars, mutexVars, countVars,
                   logVars, signalVars>>

(* The client is killed; a guess on its way may be lost with it. *)
Kill(c) ==
    /\ "kill" \in Faults
    /\ client[c] = "playing"
    /\ client' = [client EXCEPT ![c] = "gone"]
    /\ to_client' = [to_client EXCEPT ![c] = <<>>]
    /\ to_server' \in {to_server, [to_server EXCEPT ![c] = <<>>]}
    /\ UNCHANGED <<pc, serving, conn, gameVars, mutexVars, countVars, logVars,
                   signalVars>>

-----------------------------------------------------------------------------
ThreadStep(t) ==
    \/ Lock(t) \/ LogAndUnlock(t)
    \/ SendMessage(t) \/ SendConnLost(t) \/ SendOtherError(t)
    \/ LockNowCount(t) \/ Leave(t)

RoutineStep(c) ==
    \/ LogConnect(c) \/ IncrementClientsNowCount(c) \/ ChooseSecret(c)
    \/ ReceiveGuess(c) \/ LogGuess(c) \/ LogHint(c) \/ Win(c)

HandlerStep(k) == LogShutdown(k) \/ LogShutdownAgain(k) \/ DestroyMutexes(k) \/ Exit(k)

ClientReads(c) ==
    ClientShows(c) \/ ClientEnds(c) \/ \E line \in TypedLines : ClientGuesses(c, line)

(* The server waits for connections that do not come any more. *)
Quiet ==
    /\ \A c \in Clients : client[c] # "away" /\ pc[c] \in {"none", "done"}
    /\ UNCHANGED serverVars

Next ==
    \/ \E t \in Threads : ThreadStep(t) \/ Signal(t)
    \/ \E c \in Clients : RoutineStep(c) \/ Accept(c)
    \/ \E c \in Clients : Connect(c) \/ ClientReads(c) \/ Kill(c)
    \/ \E k \in 1 .. MaxSignals : HandlerStep(k)
    \/ Quiet

(* The scheduler runs every thread that can go on. *)
ThreadFairness ==
    /\ \A t \in Threads : WF_serverVars(ThreadStep(t))
    /\ \A c \in Clients : WF_serverVars(RoutineStep(c))
    /\ \A k \in 1 .. MaxSignals : WF_serverVars(HandlerStep(k))

(* Connections are accepted, a client reads what it is sent, the kernel    *)
(* reports a reset connection in the end, and a user asked for a guess     *)
(* over and over types a valid one some time.                              *)
PeerFairness ==
    /\ \A t \in Threads : SF_serverVars(SendConnLost(t))
    /\ \A c \in Clients : WF_serverVars(Accept(c)) /\ WF_serverVars(ClientReads(c))
    /\ \A c \in Clients :
          SF_serverVars(\E line \in TypedLines \cap Codes : ClientGuesses(c, line))

Spec == Init /\ [][Next]_serverVars
ThreadsRun == Spec /\ ThreadFairness
FairSpec == Spec /\ ThreadFairness /\ PeerFairness

-----------------------------------------------------------------------------
(***************************************************************************)
(* Properties.                                                             *)
(***************************************************************************)
(* The types of the server's, the handler's and the clients' variables. *)
TypeOK ==
    /\ pc \in [Threads -> {"none", "accept", "receive", "win", "leave", "leaving", "done"}
                          \cup CriticalPoints \cup DOMAIN LockPoints
                          \cup DOMAIN SendPoints]
    /\ serving \in Clients \cup {None}
    /\ conn \in [Clients -> {"none", "backlog", "open", "closed"}]
    /\ client \in [Clients -> {"away", "playing", "gone", "SUCCESS", "FAILURE", "SERVFUL"}]
    /\ secret_code \in [Clients -> Buffers]
    /\ buffer \in [Clients -> Buffers]
    /\ guesses_count \in [Clients -> 0 .. MAX_GUESSES_COUNT]
    /\ correct_positions_count \in [Clients -> 0 .. SECRET_CODE_LEN]
    /\ log_file_mutex \in Threads \cup {None}
    /\ clients_now_count_mutex \in Threads \cup {None}
    /\ clients_now_count \in Int /\ clients_count \in Nat /\ clients_win_count \in Nat
    /\ listening \in {"open", "accepting", "closed"} \cup Clients
    /\ \A k \in DOMAIN handlers :
          handlers[k] \in [thread : Threads, at : {"lock", "unlock", "exit", "exited"}]
    /\ undefined \in BOOLEAN

Lines(c, kind) == SelectSeq(session_log[c], LAMBDA l : l.line = kind)
Logged(c, kind) == \E i \in DOMAIN session_log[c] : session_log[c][i].line = kind

(* The threads between their two updates of clients_now_count. *)
Counted ==
    {c \in Clients : pc[c] \notin {"none", "connect_lock", "connect_log",
                                   "connect_count", "connect_counting", "done"}}

(* clients_now_count (server.c:164, 172) counts the threads that serve a   *)
(* client on every path they can end by, the two error exits inside        *)
(* send_gp_message included.  It is one short exactly once the main        *)
(* thread has failed to send SERVFUL and has left through one of them.     *)
NowCountAccountsForThreads ==
    /\ TypeOK
    /\ clients_now_count = Cardinality(Counted) - (IF pc[Main] = "done" THEN 1 ELSE 0)

(* What two writes of one section put in the log stays together: the       *)
(* secret follows its "client connected" line and the hint its guess       *)
(* (server.c:507-525, 556-568), whatever the other threads and the signal  *)
(* handler log.                                                            *)
LogPairsAdjacent ==
    [][/\ log_tail.line = "connected" /\ log_tail' # log_tail
             => log_tail' = [of |-> log_tail.of, line |-> "secret"]
       /\ log_tail.line = "guess" /\ log_tail' # log_tail
             => log_tail' = [of |-> log_tail.of, line |-> "hint"]]_serverVars

(* The hints logged for c. *)
Hints(c) == Lines(c, "hint")
WinningHint(h) == h.positions = SECRET_CODE_LEN

(* A session's log tells the game: at most MAX_GUESSES_COUNT guesses, each *)
(* answered by the score of Mastermind's rules, none after a winning one;  *)
(* SUCCESS exactly after a winning hint and FAILURE only after the last    *)
(* guess missed.  The client is told what the log says (server.c:535-608). *)
SessionTellsTheGame ==
    \A c \in Clients :
        /\ Len(Lines(c, "guess")) =< MAX_GUESSES_COUNT
        /\ \A k \in DOMAIN Hints(c) :
              LET score == Mastermind(secret_code[c], Lines(c, "guess")[k].code)
              IN  /\ Hints(c)[k].positions = score.correct_positions_count
                  /\ Hints(c)[k].colors = score.correct_colors_count
                  /\ WinningHint(Hints(c)[k]) => k = Len(Lines(c, "guess"))
        /\ Logged(c, "SUCCESS") => WinningHint(Hints(c)[Len(Hints(c))])
        /\ Logged(c, "FAILURE") =>
              /\ Len(Hints(c)) = MAX_GUESSES_COUNT
              /\ \A k \in DOMAIN Hints(c) : ~WinningHint(Hints(c)[k])
        /\ client[c] = "SUCCESS" => Logged(c, "SUCCESS")
        /\ client[c] = "FAILURE" => Logged(c, "FAILURE")
        /\ client[c] = "SERVFUL" => Logged(c, "full")

(* The statistics sig_handler prints (server.c:99-100) agree with the log: *)
(* the count of connections is the number of "client connected" lines,     *)
(* because it is incremented under log_file_mutex; the count of wins may   *)
(* be ahead of the SUCCESS lines by the threads that have counted their    *)
(* win and wait for the mutex.                                             *)
ShutdownStatsMatchLog ==
    (stats # None /\ ~undefined) =>
        LET succeeded == {c \in Clients : Logged(c, "SUCCESS")}
            waiting == {c \in Clients : pc[c] \in {"win_lock", "win_log"}}
        IN  /\ stats.connected = Cardinality({c \in Clients : Logged(c, "connected")})
            /\ stats.won =< Cardinality(succeeded \cup waiting)
            /\ stats.won >= Cardinality(succeeded)

(* A thread whose client was killed notices it and ends, whatever it was   *)
(* doing: receive_message's error is ignored (server.c:546), but answering *)
(* INVALID to a lost connection fails in the end.                          *)
LostClientsAreReleased ==
    \A c \in Clients :
        (client[c] = "gone" /\ pc[c] # "none") ~> (pc[c] = "done")

(* Every client that connects and whose user keeps playing is told the end *)
(* of its game, or that the server is full (server.c:447, 595, 607),       *)
(* whatever happens to the others.  The one exception is a client in the   *)
(* backlog when send_gp_message has ended the main thread, because the     *)
(* client it refused was gone (server.c:447, 230).                         *)
EveryPlayerIsAnswered ==
    \A c \in Clients :
        (client[c] = "playing")
            ~> \/ client[c] \in {"SUCCESS", "FAILURE", "SERVFUL", "gone"}
               \/ pc[Main] = "done" /\ conn[c] = "backlog"

(* A handler waits for log_file_mutex on a thread that keeps it locked:    *)
(* the thread holds it, in the section or in the earlier handler that is   *)
(* interrupted, or it holds clients_now_count_mutex and the holder waits   *)
(* for that (server.c:512, 163).                                           *)
BlocksItsHandler(t) ==
    /\ \E k \in OnThread(t) : HandlerAt(k, "lock")
    /\ \/ log_file_mutex = t
       \/ /\ clients_now_count_mutex = t
          /\ \E u \in Clients : log_file_mutex = u /\ pc[u] = "connect_count"

(* However the signals fall, the process ends, or writes to the log that a *)
(* handler has closed (server.c:133, 142), or a thread keeps its own       *)
(* handler waiting for ever: interrupted under log_file_mutex it does so   *)
(* by itself (server.c:93), under clients_now_count_mutex together with a  *)
(* thread that counts a new client (server.c:163, 171).  Nothing else      *)
(* keeps the server from shutting down.                                    *)
ShutdownEndsOrDeadlocks ==
    (handlers # <<>>) ~> (Exited \/ undefined \/ \E t \in Threads : BlocksItsHandler(t))

(* What server.c:435-436 is for: no more than CLIENTS_NOW_MAX_COUNT        *)
(* clients are served at a time.  The test is on a count that threads      *)
(* already created have not raised yet.                                    *)
AtMostMaxClients == clients_now_count =< CLIENTS_NOW_MAX_COUNT

(* server.c:476-478: the handler closes the socket and the log and         *)
(* destroys the mutex.  It waits for ever on the mutex when the signal     *)
(* interrupts a thread that holds it, or that holds what its holder needs. *)
SignalShutsDown == (handlers # <<>>) ~> (Exited \/ undefined)

=============================================================================
