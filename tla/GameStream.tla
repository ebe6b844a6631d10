----------------------------- MODULE GameStream -----------------------------
(***************************************************************************)
(* One game as bytes: the thread of project2/server.c and the client of    *)
(* client.c over two streams, with receive_message and send_message of     *)
(* message-helpers.c.  A read takes what has arrived, which may be less    *)
(* than was asked for, and receive_message gives up after                  *)
(* READ_ATTEMPTS_MAX_COUNT reads.  Neither program looks at its result.    *)
(*                                                                         *)
(* A message is GP_SIZE bytes.  A byte is the message it was composed for  *)
(* and its place there; the first GP_HEADER_SIZE tell what a buffer holds, *)
(* a header and a code with its null byte alike.  Bytes of several lines,  *)
(* or from the middle of one, may read as a code when one of them ends     *)
(* where the code would.  The log, the counters and the other connections  *)
(* are in GameServer.                                                      *)
(***************************************************************************)
EXTENDS Integers, Sequences

CONSTANTS
    GP_SIZE, GP_HEADER_SIZE, READ_ATTEMPTS_MAX_COUNT, GUESSES,
    InputLines,       \* what a user may type: members of Lines, or "EOF"
    StreamFaults,     \* which of "send", "kill", "shutdown" may happen
    MaxRequests       \* bound on the guesses asked for

(* The lines: the secret code, another code, a line shorter than a code    *)
(* and one that fills the buffer.                                          *)
Lines == {"right", "wrong", "short", "long"}

ASSUME StreamAssumption ==
    /\ GP_SIZE \in Nat /\ GP_HEADER_SIZE \in 1 .. GP_SIZE - 1
    /\ READ_ATTEMPTS_MAX_COUNT \in Nat \ {0} /\ GUESSES \in Nat \ {0}
    /\ InputLines \subseteq Lines \cup {"EOF"}
    /\ StreamFaults \subseteq {"send", "kill", "shutdown"}
    /\ MaxRequests \in Nat

VARIABLES
    to_client, to_server,     \* bytes sent and not read
    server_pc, server_buf, server_read, server_attempts,
    client_pc, client_buf, client_read, client_attempts,
    guesses, correct,         \* guesses_count, and whether the last one was right
    failed,                   \* a message was not received, or not sent, in full
    requests, answers,        \* history: guesses asked for, and answers sent
    lines, scored             \* history: lines typed, and guesses scored

serverSide == <<server_pc, server_buf, server_read, server_attempts, guesses, correct, scored>>
clientSide == <<client_pc, client_buf, client_read, client_attempts, answers, lines>>
streamVars == <<to_client, to_server, serverSide, clientSide, failed, requests>>

Blank == [k \in 1 .. GP_SIZE |-> <<"none", 0>>]

Message(kind) == [k \in 1 .. GP_SIZE |-> <<kind, k>>]

(* What the start of a buffer holds: a header, a line, or nothing whole. *)
Kind(buf) ==
    IF \A k \in 1 .. GP_HEADER_SIZE : buf[k] = <<buf[1][1], k>> THEN buf[1][1] ELSE "none"

(* Where the null byte of each line is. *)
LineEnd(line) ==
    CASE line = "short" -> 1 [] line = "long" -> GP_SIZE [] OTHER -> GP_HEADER_SIZE

LineEnds == {<<line, LineEnd(line)>> : line \in Lines}

(* The bytes that may be a colour: those of a line but its end, and the    *)
(* header of a request, which has an E, an A and a D: sent back, or left   *)
(* behind a short line.                                                    *)
MayBeColour(byte) ==
    \/ byte[1] \in Lines /\ byte[2] # LineEnd(byte[1])
    \/ byte[1] \in {"REQUEST", "INVALID"} /\ byte[2] =< GP_HEADER_SIZE

(* is_valid_secret_code and the feedback after it: what a buffer may be as *)
(* a guess.  A line that is there from its start is what it is; otherwise  *)
(* the end of a line may make a code of the characters before it.          *)
GuessesIn(buf) ==
    IF Kind(buf) # "none" THEN {Kind(buf)}
    ELSE IF /\ \A k \in 1 .. GP_HEADER_SIZE - 1 : MayBeColour(buf[k])
            /\ buf[GP_HEADER_SIZE] \in LineEnds
         THEN {"right", "wrong", "none"}
    ELSE {"none"}

CodesIn(buf) == GuessesIn(buf) \cap {"right", "wrong"}

StreamInit ==
    /\ to_client = << >> /\ to_server = << >>
    /\ server_pc = "welcome" /\ server_buf = Blank
    /\ client_pc = "receive" /\ client_buf = Blank
    /\ server_read = 0 /\ server_attempts = 0
    /\ client_read = 0 /\ client_attempts = 0
    /\ guesses = 0 /\ correct = FALSE
    /\ failed = FALSE
    /\ requests = 0 /\ answers = 0 /\ lines = 0 /\ scored = 0

ClientGone == client_pc \in {"ended", "killed"}

-----------------------------------------------------------------------------
(***************************************************************************)
(* receive_message: one read, into buf after the bytes already there.      *)
(***************************************************************************)
Wanted(received) == GP_SIZE - received

(* How many bytes the read may return: 0 once the peer has closed, and     *)
(* none at all, for the read waits, while there is nothing to read.        *)
ReadSizes(stream, received, closed) ==
    IF stream = << >>
    THEN IF closed THEN {0} ELSE {}
    ELSE 1 .. (IF Len(stream) < Wanted(received) THEN Len(stream) ELSE Wanted(received))

(* Faulty variant: every read stores at the start of the buffer. *)
Filled_FromStart(buf, received, bytes) ==
    [k \in DOMAIN buf |-> IF k \in DOMAIN bytes THEN bytes[k] ELSE buf[k]]

Filled(buf, received, bytes) ==
    [k \in DOMAIN buf |-> IF k - received \in DOMAIN bytes THEN bytes[k - received] ELSE buf[k]]

LastRead(received, attempts) ==
    received >= GP_SIZE \/ attempts + 1 >= READ_ATTEMPTS_MAX_COUNT

-----------------------------------------------------------------------------
(***************************************************************************)
(* The thread of the server.                                               *)
(***************************************************************************)
ServerPoints ==
    [welcome |-> "DISPMSG", instructions_1 |-> "DISPMSG", instructions_2 |-> "DISPMSG",
     request |-> "REQUEST", invalid |-> "INVALID", feedback |-> "FEEDBAC",
     success |-> "SUCCESS", failure |-> "FAILURE"]

PointAfter ==
    CASE server_pc = "welcome" -> "instructions_1"
      [] server_pc = "instructions_1" -> "instructions_2"
      [] server_pc = "instructions_2" -> "request"
      [] server_pc \in {"request", "invalid"} -> "receive"
      [] server_pc = "feedback" -> IF correct THEN "success"
                                   ELSE IF guesses + 1 < GUESSES THEN "request" ELSE "failure"
      [] server_pc \in {"success", "failure"} -> "closed"

Asks == server_pc \in {"request", "invalid"}

(* The buffer after memset and sprintf. *)
Composed == Message(ServerPoints[server_pc])

(* send_gp_message, and guesses_count++ or close after it. *)
ServerSends ==
    /\ server_pc \in DOMAIN ServerPoints
    /\ Asks => requests < MaxRequests
    /\ server_buf' = Composed
    /\ to_client' = IF ClientGone THEN to_client
                    ELSE to_client \o Message(ServerPoints[server_pc])
    /\ requests' = IF Asks THEN requests + 1 ELSE requests
    /\ guesses' = IF server_pc = "feedback" THEN guesses + 1 ELSE guesses
    /\ server_pc' = PointAfter
    /\ UNCHANGED <<to_server, server_read, server_attempts, correct, scored, clientSide, failed>>

(* An error ends the thread: the client is gone, or five writes have only  *)
(* sent the first n bytes.                                                 *)
ServerSendFails ==
    /\ server_pc \in DOMAIN ServerPoints
    /\ Asks => requests < MaxRequests
    /\ \/ ClientGone /\ UNCHANGED <<to_client, failed, requests>>
       \/ /\ "send" \in StreamFaults /\ ~ClientGone
          /\ \E n \in 0 .. GP_SIZE - 1 :
                to_client' = to_client \o SubSeq(Message(ServerPoints[server_pc]), 1, n)
          /\ failed' = TRUE
          /\ requests' = IF Asks THEN requests + 1 ELSE requests
    /\ server_buf' = Composed
    /\ server_pc' = "closed"
    /\ UNCHANGED <<to_server, server_read, server_attempts, guesses, correct, scored, clientSide>>

(* One read of the guess; after the last one the buffer is tested. *)
ServerReads ==
    /\ server_pc = "receive"
    /\ \E n \in ReadSizes(to_server, server_read, ClientGone) :
          LET last == LastRead(server_read + n, server_attempts) IN
          /\ server_buf' = Filled(server_buf, server_read, SubSeq(to_server, 1, n))
          /\ to_server' = SubSeq(to_server, n + 1, Len(to_server))
          /\ server_read' = IF last THEN 0 ELSE server_read + n
          /\ server_attempts' = IF last THEN 0 ELSE server_attempts + 1
          /\ failed' = (failed \/ (last /\ server_read + n # GP_SIZE))
          /\ \/ ~last /\ server_pc' = "receive"
             \/ last /\ CodesIn(server_buf') # {} /\ server_pc' = "score"
             \/ last /\ GuessesIn(server_buf') # CodesIn(server_buf') /\ server_pc' = "invalid"
    /\ UNCHANGED <<to_client, guesses, correct, scored, clientSide, requests>>

Scores ==
    /\ server_pc = "score"
    /\ \E code \in CodesIn(server_buf) : correct' = (code = "right")
    /\ scored' = scored + 1
    /\ server_pc' = "feedback"
    /\ UNCHANGED <<to_client, to_server, server_buf, server_read, server_attempts, guesses,
                   clientSide, failed, requests>>

(* sig_handler ends the process at any point. *)
ServerShutsDown ==
    /\ "shutdown" \in StreamFaults
    /\ server_pc # "closed"
    /\ server_pc' = "closed"
    /\ UNCHANGED <<to_client, to_server, server_buf, server_read, server_attempts, guesses,
                   correct, scored, clientSide, failed, requests>>

-----------------------------------------------------------------------------
(***************************************************************************)
(* The client.                                                             *)
(***************************************************************************)
ClientReceives ==
    /\ client_pc = "receive"
    /\ \E n \in ReadSizes(to_client, client_read, server_pc = "closed") :
          LET last == LastRead(client_read + n, client_attempts) IN
          /\ client_buf' = Filled(client_buf, client_read, SubSeq(to_client, 1, n))
          /\ to_client' = SubSeq(to_client, n + 1, Len(to_client))
          /\ client_read' = IF last THEN 0 ELSE client_read + n
          /\ client_attempts' = IF last THEN 0 ELSE client_attempts + 1
          /\ failed' = (failed \/ (last /\ client_read + n # GP_SIZE))
          /\ client_pc' = IF last THEN "handle" ELSE "receive"
    /\ UNCHANGED <<to_server, answers, lines, serverSide, requests>>

(* Faulty variant: only the first request is answered. *)
AskingKinds_Request == {"REQUEST"}

AskingKinds == {"REQUEST", "INVALID"}

(* Faulty variant: the buffer is not cleared. *)
Cleared_Kept == client_buf

(* memset at the end of the loop. *)
Cleared == Blank

(* A message to show, or one of no known kind, which is passed over. *)
ClientPasses ==
    /\ client_pc = "handle"
    /\ Kind(client_buf) \notin AskingKinds \cup {"SUCCESS", "FAILURE"}
    /\ client_buf' = Cleared
    /\ client_pc' = "receive"
    /\ UNCHANGED <<to_client, to_server, client_read, client_attempts, answers, lines,
                   serverSide, failed, requests>>

(* fgets stores the line over the start of the message, and nothing at the *)
(* end of the input: the buffer then still holds the request.              *)
Typed(line) ==
    IF line = "EOF" THEN client_buf
    ELSE [k \in 1 .. GP_SIZE |->
             IF k =< GP_HEADER_SIZE \/ line = "long" THEN <<line, k>> ELSE client_buf[k]]

(* The whole buffer is sent, or with a fault its first n bytes.  When the  *)
(* server has closed, the bytes are lost or SIGPIPE ends the client.       *)
ClientAnswers(line) ==
    /\ client_pc = "handle"
    /\ Kind(client_buf) \in AskingKinds
    /\ \/ /\ server_pc # "closed"
          /\ to_server' = to_server \o Typed(line)
          /\ client_pc' = "receive"
          /\ UNCHANGED failed
       \/ /\ server_pc # "closed" /\ "send" \in StreamFaults
          /\ \E n \in 0 .. GP_SIZE - 1 : to_server' = to_server \o SubSeq(Typed(line), 1, n)
          /\ client_pc' = "receive"
          /\ failed' = TRUE
       \/ /\ server_pc = "closed"
          /\ client_pc' \in {"receive", "killed"}
          /\ UNCHANGED <<to_server, failed>>
    /\ answers' = answers + 1
    /\ lines' = IF line = "EOF" THEN lines ELSE lines + 1
    /\ client_buf' = Cleared
    /\ UNCHANGED <<to_client, client_read, client_attempts, serverSide, requests>>

ClientStops ==
    /\ client_pc = "handle"
    /\ Kind(client_buf) \in {"SUCCESS", "FAILURE"}
    /\ client_buf' = Cleared
    /\ client_pc' = "ended"
    /\ UNCHANGED <<to_client, to_server, client_read, client_attempts, answers, lines,
                   serverSide, failed, requests>>

(* What it has sent may be lost with it. *)
ClientIsKilled ==
    /\ "kill" \in StreamFaults
    /\ ~ClientGone
    /\ client_pc' = "killed"
    /\ client_buf' = Blank /\ client_read' = 0 /\ client_attempts' = 0
    /\ to_client' = << >>
    /\ to_server' \in {to_server, << >>}
    /\ UNCHANGED <<answers, lines, serverSide, failed, requests>>

-----------------------------------------------------------------------------
ServerStep == ServerSends \/ ServerSendFails \/ ServerReads \/ Scores

ClientStep ==
    ClientReceives \/ ClientPasses \/ ClientStops \/ \E line \in InputLines : ClientAnswers(line)

StreamNext == ServerStep \/ ClientStep \/ ServerShutsDown \/ ClientIsKilled

(* The two programs are scheduled, what is sent arrives, and a user who is *)
(* asked types something or ends the input.                                *)
StreamFairness == WF_streamVars(ServerStep) /\ WF_streamVars(ClientStep)

StreamSpec == StreamInit /\ [][StreamNext]_streamVars /\ StreamFairness

-----------------------------------------------------------------------------
(* As long as no receive has given up, no send stopped half way and the    *)
(* client was not killed, the two programs agree on where a message        *)
(* begins, however the bytes are cut into reads: what a reader has of the  *)
(* current message, with what is still on its way, is whole messages, and  *)
(* a buffer that is looked at holds one of them (message-helpers.c, lines  *)
(* 23-32).                                                                 *)
InStep ==
    LET inOrder(bytes) == \A j \in DOMAIN bytes : bytes[j][2] = ((j - 1) % GP_SIZE) + 1
        whole(buf, received, stream) ==
            LET bytes == SubSeq(buf, 1, received) \o stream
            IN  Len(bytes) % GP_SIZE = 0 /\ inOrder(bytes)
    IN  ~failed /\ client_pc # "killed" =>
            /\ whole(client_buf, client_read, to_client)
            /\ whole(server_buf, server_read, to_server)
            /\ client_pc = "handle" => inOrder(client_buf)
            /\ server_pc \in {"score", "invalid"} => inOrder(server_buf)

(* No request is answered twice and no line scored twice, although both    *)
(* sides go on with whatever is in the buffer after a receive that failed, *)
(* the client sends the request back when its input has ended, and the end *)
(* of a long line may read as a code: each buffer is overwritten before    *)
(* the next receive (server.c:203, 546-553; client.c:84, 93, 124), and a   *)
(* line has one null byte that can end a code (secret-code.c:62).          *)
NothingCountsTwice == answers =< requests /\ scored =< lines

(* A server that waits for a guess gets a line, or the client's end, as    *)
(* long as messages arrive whole: the two never wait for each other        *)
(* (server.c:543-553, client.c:82-125).                                    *)
GuessArrives == (server_pc = "receive") ~> (server_pc # "receive" \/ failed)

=============================================================================
