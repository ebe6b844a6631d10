--------------------------- MODULE GameLogProofs ---------------------------
(***************************************************************************)
(* The lines of the log of the Mastermind server and the statistics the    *)
(* signal handler prints, for any number of clients, any codes, limits,    *)
(* faults and signals.                                                     *)
(***************************************************************************)
EXTENDS GameServerProofs

(* A leaf goes to Zenon unless it names a prover. *)
USE ZenonT(30)

(* Between the line of a connection and its count. *)
CountingPoints == {"connect_count", "connect_counting", "connect_secret"}

(* The first line of a pair is the last one of the log only while its      *)
(* thread is about to write the second.                                    *)
TailInv ==
    /\ log_tail.line = "connected" =>
          log_tail.of \in Clients /\ pc[log_tail.of] \in CountingPoints
    /\ log_tail.line = "guess" =>
          log_tail.of \in Clients /\ pc[log_tail.of] = "hint_log"
    /\ LogClosed => log_tail.line = "shutdown"

(* The lines of the log. *)
LineKinds ==
    {"connected", "secret", "SUCCESS", "FAILURE", "disconnected", "lost", "send_failed",
     "full", "create_failed"}

LogLine ==
    [line : LineKinds]
        \cup [line : {"guess"}, code : Buffers]
        \cup {[line |-> "hint",
               positions |-> GetSecretCodeGuessFeedback(a, g).correct_positions_count,
               colors |-> GetSecretCodeGuessFeedback(a, g).correct_colors_count] :
                  a \in Buffers, g \in Buffers}

(* Before the connection is logged, between the count of a win and its     *)
(* line, and after the game.                                               *)
BeforePoints == {"none", "connect_lock", "connect_log"}
WinPoints == {"win_lock", "win_log"}
EndPoints == {"success", "bye_lock", "bye_log", "lost_lock", "lost_log", "failed_lock",
              "failed_log", "leave", "leaving", "done"}

(* The connections and the wins already counted. *)
CountedConnections == {c \in Clients : Logged(c, "connected") /\ pc[c] \notin CountingPoints}

CountedWins == {c \in Clients : Logged(c, "SUCCESS") \/ pc[c] \in WinPoints}

(* A connection is counted in the section that logs it, a win before it is *)
(* logged, and each once; after the handler has taken the numbers nothing  *)
(* is logged any more.                                                     *)
StatsInv ==
    /\ session_log \in [Clients -> Seq(LogLine)]
    /\ stats # None => /\ stats.won \in Nat
                       /\ \E k \in DOMAIN handlers : handlers[k].at # "lock"
    /\ \A c \in Clients :
          /\ Logged(c, "connected") => pc[c] \notin BeforePoints
          /\ pc[c] \in CountingPoints /\ ~undefined => Logged(c, "connected")
          /\ Logged(c, "SUCCESS") => pc[c] \in EndPoints
    /\ ~undefined => /\ clients_count = Cardinality(CountedConnections)
                     /\ clients_win_count = Cardinality(CountedWins)
    /\ ShutdownStatsMatchLog

LogInv == ServerInv /\ TailInv /\ StatsInv

USE ServerAssumption, SecretCodeAssumption DEF Threads

-----------------------------------------------------------------------------
(* The lines of the sections that end in one step. *)
SectionKinds == LineKinds \ {"connected", "secret"}

LEMMA SeqElements ==
  ASSUME NEW S, NEW s \in Seq(S)
  PROVE  /\ \A i \in DOMAIN s : s[i] \in S
         /\ \A T : S \subseteq T => s \in Seq(T)
<1>1. \A i \in DOMAIN s : s[i] \in S
  BY SMTT(30)
<1>2. ASSUME NEW T, S \subseteq T PROVE s \in Seq(T)
  BY SMTT(30), <1>1, <1>2
<1> QED BY <1>1, <1>2

LEMMA OneLine ==
  ASSUME NEW S, NEW l \in S
  PROVE  <<l>> \in Seq(S) /\ Len(<<l>>) = 1 /\ <<l>>[1] = l /\ DOMAIN <<l>> = {1}
BY SMTT(30)

LEMMA TwoLines ==
  ASSUME NEW S, NEW l \in S, NEW m \in S
  PROVE  /\ <<l, m>> \in Seq(S) /\ Len(<<l, m>>) = 2 /\ DOMAIN <<l, m>> = {1, 2}
         /\ <<l, m>>[1] = l /\ <<l, m>>[2] = m
BY SMTT(30)

LEMMA LineType ==
  ASSUME NEW kind \in SectionKinds
  PROVE  Line(kind) \in [line : SectionKinds] /\ Line(kind).line = kind
BY DEF Line

LEMMA OneKind ==
  ASSUME NEW kind \in SectionKinds
  PROVE  LET lines == <<Line(kind)>>
         IN  /\ lines \in Seq([line : SectionKinds]) /\ lines[Len(lines)].line = kind
             /\ \A i \in DOMAIN lines : lines[i].line = kind
<1>1. Line(kind) \in [line : SectionKinds] /\ Line(kind).line = kind
  BY LineType
<1> QED BY SMTT(30), <1>1, OneLine

LEMMA TwoKinds ==
  ASSUME NEW kind \in SectionKinds, NEW last \in SectionKinds
  PROVE  LET lines == <<Line(kind), Line(last)>>
         IN  /\ lines \in Seq([line : SectionKinds]) /\ lines[Len(lines)].line = last
             /\ \A i \in DOMAIN lines : lines[i].line \in {kind, last}
<1>1. Line(kind) \in [line : SectionKinds] /\ Line(last) \in [line : SectionKinds]
      /\ Line(kind).line = kind /\ Line(last).line = last
  BY LineType
<1> QED BY SMTT(30), <1>1, TwoLines

LEMMA LogLines ==
  ASSUME NEW p \in DOMAIN LogPoints
  PROVE  /\ LogPoints[p].lines \in Seq([line : SectionKinds])
         /\ LogPoints[p].lines[Len(LogPoints[p].lines)].line \in SectionKinds
         /\ \A i \in DOMAIN LogPoints[p].lines :
                LogPoints[p].lines[i].line = "SUCCESS" <=> p = "win_log"
<1>1. CASE p = "win_log"
  <2>1. LogPoints[p].lines = <<Line("SUCCESS")>>
    BY <1>1 DEF LogPoints
  <2>2. "SUCCESS" \in SectionKinds
    BY DEF SectionKinds, LineKinds
  <2> QED BY SMTT(30), <1>1, <2>1, <2>2, OneKind
<1>2. CASE p = "lose_log"
  <2>1. LogPoints[p].lines = <<Line("FAILURE")>>
    BY <1>2 DEF LogPoints
  <2>2. "FAILURE" \in SectionKinds
    BY DEF SectionKinds, LineKinds
  <2> QED BY SMTT(30), <1>2, <2>1, <2>2, OneKind
<1>3. CASE p = "bye_log"
  <2>1. LogPoints[p].lines = <<Line("disconnected")>>
    BY <1>3 DEF LogPoints
  <2>2. "disconnected" \in SectionKinds
    BY DEF SectionKinds, LineKinds
  <2> QED BY SMTT(30), <1>3, <2>1, <2>2, OneKind
<1>4. CASE p = "lost_log"
  <2>1. LogPoints[p].lines = <<Line("lost")>>
    BY <1>4 DEF LogPoints
  <2>2. "lost" \in SectionKinds
    BY DEF SectionKinds, LineKinds
  <2> QED BY SMTT(30), <1>4, <2>1, <2>2, OneKind
<1>5. CASE p = "full_log"
  <2>1. LogPoints[p].lines = <<Line("full")>>
    BY <1>5 DEF LogPoints
  <2>2. "full" \in SectionKinds
    BY DEF SectionKinds, LineKinds
  <2> QED BY SMTT(30), <1>5, <2>1, <2>2, OneKind
<1>6. CASE p = "create_log"
  <2>1. LogPoints[p].lines = <<Line("create_failed")>>
    BY <1>6 DEF LogPoints
  <2>2. "create_failed" \in SectionKinds
    BY DEF SectionKinds, LineKinds
  <2> QED BY SMTT(30), <1>6, <2>1, <2>2, OneKind
<1>7. CASE p = "failed_log"
  <2>1. LogPoints[p].lines = <<Line("send_failed"), Line("disconnected")>>
    BY <1>7 DEF LogPoints
  <2>2. "send_failed" \in SectionKinds /\ "disconnected" \in SectionKinds
    BY DEF SectionKinds, LineKinds
  <2> QED BY SMTT(30), <1>7, <2>1, <2>2, TwoKinds
<1> QED BY <1>1, <1>2, <1>3, <1>4, <1>5, <1>6, <1>7, LogFacts

(* A step that writes no line, of a thread that is not between the lines   *)
(* of a pair.                                                              *)
LEMMA TailKept ==
  ASSUME ControlInv, TailInv, NEW t \in Threads, NEW q, Goto(t, q), UNCHANGED <<log_tail, handlers>>,
         pc[t] \notin CountingPoints \cup {"hint_log"}
  PROVE  TailInv'
BY SMTT(30), GotoFacts DEF TailInv, LogClosed

(* A step that writes no first line of a pair. *)
LEMMA TailWritten ==
  ASSUME TailInv, NEW c, NEW lines, Log(c, lines), UNCHANGED handlers,
         lines[Len(lines)].line \notin {"connected", "guess"}
  PROVE  TailInv'
BY SMTT(30) DEF TailInv, LogClosed, Log

LEMMA TailStep ==
  ASSUME ControlInv, ConnInv, HandlerInv, TailInv, [Next]_serverVars
  PROVE  TailInv'
<1> USE DEF signalVars, logVars, CountingPoints
<1>1. ASSUME NEW t \in Threads, Lock(t) PROVE TailInv'
  BY <1>1, LockFacts, TailKept DEF Lock
<1>2. ASSUME NEW t \in Threads, LogAndUnlock(t) PROVE TailInv'
  BY <1>2, LogLines, TailWritten DEF LogAndUnlock, SectionKinds, LineKinds
<1>3. ASSUME NEW t \in Threads, SendMessage(t) PROVE TailInv'
  BY <1>3, SendFacts, TailKept DEF SendMessage
<1>4. ASSUME NEW t \in Threads, SendConnLost(t) \/ SendOtherError(t) PROVE TailInv'
  BY <1>4, SendFacts, TailKept DEF SendConnLost, SendOtherError
<1>5. ASSUME NEW t \in Threads, Leave(t) PROVE TailInv'
  BY <1>5, TailKept DEF Leave
<1>14. ASSUME NEW t \in Threads, LockNowCount(t) PROVE TailInv'
  <2>1. CASE pc[t] = "leave"
    BY <1>14, <2>1, TailKept DEF LockNowCount
  <2>2. CASE pc[t] = "connect_count"
    <3>1. Goto(t, "connect_counting") /\ UNCHANGED <<log_tail, handlers>>
      BY <1>14, <2>2, CountFacts DEF LockNowCount
    <3> QED BY SMTT(30), <2>2, <3>1, GotoFacts DEF TailInv, LogClosed
  <2> QED BY <1>14, <2>1, <2>2, CountFacts DEF LockNowCount
<1>6. ASSUME NEW t \in Threads, Signal(t) PROVE TailInv'
  <2>1. UNCHANGED <<pc, log_tail>>
    BY <1>6 DEF Signal
  <2> QED BY <1>6, <2>1, SignalFacts DEF TailInv, LogClosed
<1>7. ASSUME NEW c \in Clients, RoutineStep(c) PROVE TailInv'
  <2>1. CASE LogConnect(c)
    <3>1. CASE LogClosed
      BY <2>1, <3>1, GotoFacts DEF LogConnect, Log, TailInv, LogClosed
    <3>2. CASE ~LogClosed
      <4>1. log_tail' = [of |-> c, line |-> "connected"]
        BY <2>1, <3>2 DEF LogConnect, Log, Line
      <4> QED BY <2>1, <3>2, <4>1, GotoFacts DEF LogConnect, TailInv, LogClosed
    <3> QED BY <3>1, <3>2
  <2>2. CASE IncrementClientsNowCount(c)
    BY <2>2, GotoFacts DEF IncrementClientsNowCount, TailInv, LogClosed
  <2>3. CASE ChooseSecret(c)
    <3>1. <<Line("secret")>>[Len(<<Line("secret")>>)].line = "secret"
      BY DEF Line
    <3> QED BY <2>3, <3>1, TailWritten DEF ChooseSecret
  <2>4. CASE ReceiveGuess(c)
    BY <2>4, TailKept DEF ReceiveGuess
  <2>5. CASE LogGuess(c)
    <3>1. CASE LogClosed
      BY <2>5, <3>1, GotoFacts DEF LogGuess, Log, TailInv, LogClosed
    <3>2. CASE ~LogClosed
      <4>1. log_tail' = [of |-> c, line |-> "guess"]
        BY <2>5, <3>2 DEF LogGuess, Log
      <4> QED BY <2>5, <3>2, <4>1, GotoFacts DEF LogGuess, TailInv, LogClosed
    <3> QED BY <3>1, <3>2
  <2>6. CASE LogHint(c)
    <3>1. PICK l : l.line = "hint" /\ Log(c, <<l>>) /\ UNCHANGED handlers
      BY <2>6 DEF LogHint
    <3>2. <<l>>[Len(<<l>>)].line = "hint"
      BY <3>1
    <3> QED BY <3>1, <3>2, TailWritten
  <2>7. CASE Win(c)
    BY <2>7, TailKept DEF Win
  <2> QED BY <1>7, <2>1, <2>2, <2>3, <2>4, <2>5, <2>6, <2>7 DEF RoutineStep
<1>8. ASSUME NEW c \in Clients, Accept(c) PROVE TailInv'
  <2>1. pc[c] = "none" /\ pc[Main] = "accept"
    BY <1>8 DEF Accept, ConnInv, Accepted
  <2>2. UNCHANGED <<handlers, log_tail>>
    BY <1>8 DEF Accept
  <2>3. \/ Goto(c, "connect_lock")
        \/ \E q \in {"full_lock", "create_lock"} : Goto(Main, q)
    BY <1>8 DEF Accept, Goto
  <2> QED BY <2>1, <2>2, <2>3, TailKept
<1>9. CASE PeerStep
  BY <1>9, PeerFrame DEF TailInv, LogClosed
<1>10. ASSUME NEW k, LogShutdown(k) PROVE TailInv'
  BY <1>10 DEF LogShutdown, TailInv
<1>11. ASSUME NEW k, DestroyMutexes(k) \/ Exit(k) PROVE TailInv'
  <2>1. k \in DOMAIN handlers /\ handlers[k].at \in {"unlock", "exit"}
        /\ UNCHANGED <<pc, log_tail>> /\ \E q \in {"exit", "exited"} : HandlerGoto(k, q)
    BY <1>11 DEF DestroyMutexes, Exit, HandlerAt
  <2> QED BY <2>1, HandlerGotoFacts DEF TailInv, LogClosed
<1>12. ASSUME NEW k, LogShutdownAgain(k) PROVE TailInv'
  BY <1>12 DEF LogShutdownAgain, TailInv, LogClosed
<1>13. CASE UNCHANGED serverVars
  BY <1>13 DEF serverVars, TailInv, LogClosed
<1> QED
  BY <1>1, <1>2, <1>3, <1>4, <1>5, <1>6, <1>7, <1>8, <1>9, <1>10, <1>11, <1>12, <1>13, <1>14
  DEF Next, ThreadStep, HandlerStep, PeerStep, Quiet

(* A thread that writes to the log holds the mutex. *)
LEMMA PairStep ==
  ASSUME ControlInv, ConnInv, LockInv, TailInv, [Next]_serverVars, log_tail' # log_tail
  PROVE  /\ log_tail.line = "connected" => log_tail' = [of |-> log_tail.of, line |-> "secret"]
         /\ log_tail.line = "guess" => log_tail' = [of |-> log_tail.of, line |-> "hint"]
<1> DEFINE Pair == log_tail.line \in {"connected", "guess"}
           o == log_tail.of
<1> USE DEF logVars
<1>1. Pair => /\ o \in Clients /\ log_file_mutex = o /\ log_file_mutex # None
              /\ pc[o] \in CountingPoints \cup {"hint_log"}
  BY SMTT(30), CriticalFacts DEF TailInv, LockInv, Holds, CountingPoints
<1>2. ASSUME NEW t \in Threads, Running(t), pc[t] \in CriticalPoints, Pair
      PROVE  t = o
  BY <1>1, <1>2, RunningHolds
<1>3. ASSUME NEW t \in Threads, ThreadStep(t) PROVE ~Pair
  <2>1. LogAndUnlock(t)
    BY <1>3 DEF ThreadStep, Lock, SendMessage, SendConnLost, SendOtherError, LockNowCount, Leave
  <2>2. Running(t) /\ pc[t] \in CriticalPoints
        /\ pc[t] \notin CountingPoints \cup {"hint_log"}
    BY <2>1, LogFacts, CriticalFacts DEF LogAndUnlock, CountingPoints
  <2> QED BY <1>1, <1>2, <2>2
<1>4. ASSUME NEW c \in Clients, RoutineStep(c), Pair
      PROVE  /\ log_tail.line = "connected" => log_tail' = [of |-> o, line |-> "secret"]
             /\ log_tail.line = "guess" => log_tail' = [of |-> o, line |-> "hint"]
  <2>1. LogConnect(c) \/ ChooseSecret(c) \/ LogGuess(c) \/ LogHint(c)
    BY <1>4 DEF RoutineStep, IncrementClientsNowCount, ReceiveGuess, Win
  <2>2. Running(c) /\ pc[c] \in CriticalPoints
    BY <2>1, CriticalFacts DEF LogConnect, ChooseSecret, LogGuess, LogHint
  <2>3. c = o
    BY <1>2, <1>4, <2>2
  <2>4. CASE ChooseSecret(c)
    <3>1. log_tail' = [of |-> c, line |-> "secret"] /\ pc[c] = "connect_secret"
      BY <2>4 DEF ChooseSecret, Log, Line
    <3> QED BY <2>3, <3>1 DEF TailInv
  <2>5. CASE LogHint(c)
    <3>1. log_tail' = [of |-> c, line |-> "hint"] /\ pc[c] = "hint_log"
      BY <2>5 DEF LogHint, Log
    <3> QED BY <2>3, <3>1 DEF TailInv, CountingPoints
  <2>6. ~LogConnect(c) /\ ~LogGuess(c)
    BY <1>1, <1>4, <2>3 DEF LogConnect, LogGuess, CountingPoints
  <2> QED BY <2>1, <2>4, <2>5, <2>6
<1>5. ASSUME NEW k, HandlerStep(k) PROVE ~Pair
  <2>1. log_file_mutex = None
    BY <1>5 DEF HandlerStep, LogShutdown, LogShutdownAgain, DestroyMutexes, Exit
  <2> QED BY <1>1, <2>1
<1>6. ~PeerStep /\ ~UNCHANGED serverVars /\ (\A t \in Threads : ~Signal(t))
      /\ \A c \in Clients : ~Accept(c)
  BY PeerFrame DEF serverVars, Signal, Accept
<1> QED BY <1>3, <1>4, <1>5, <1>6 DEF Next, PeerStep, Quiet

-----------------------------------------------------------------------------
(* What a write to the log adds. *)
LEMMA LoggedFacts ==
  ASSUME StatsInv, NEW c \in Clients, NEW lines \in Seq(LogLine), Log(c, lines)
  PROVE  /\ session_log' \in [Clients -> Seq(LogLine)]
         /\ LogClosed => undefined' /\ UNCHANGED session_log
         /\ ~LogClosed => /\ UNCHANGED undefined
                          /\ \A d \in Clients : \A kind : Logged(d, kind)' <=>
                                \/ Logged(d, kind)
                                \/ d = c /\ \E i \in DOMAIN lines : lines[i].line = kind
<1>1. session_log \in [Clients -> Seq(LogLine)]
  BY DEF StatsInv
<1>2. CASE LogClosed
  BY <1>1, <1>2 DEF Log
<1>3. CASE ~LogClosed
  <2> DEFINE s == session_log[c] \o lines
  <2>1. s \in Seq(LogLine) /\ Len(s) = Len(session_log[c]) + Len(lines)
        /\ (\A i \in 1 .. Len(session_log[c]) : s[i] = session_log[c][i])
        /\ \A i \in 1 .. Len(lines) : s[Len(session_log[c]) + i] = lines[i]
    BY SMTT(30), <1>1
  <2>2. session_log' = [session_log EXCEPT ![c] = s] /\ UNCHANGED undefined
    BY <1>3 DEF Log
  <2>3. session_log[c] \in Seq(LogLine) /\ Len(session_log[c]) \in Nat /\ Len(lines) \in Nat
        /\ DOMAIN session_log[c] = 1 .. Len(session_log[c]) /\ DOMAIN lines = 1 .. Len(lines)
        /\ DOMAIN s = 1 .. Len(s)
    BY SMTT(30), <1>1, <2>1
  <2> HIDE DEF s
  <2>4. ASSUME NEW d \in Clients, NEW kind
        PROVE  Logged(d, kind)' <=> \/ Logged(d, kind)
                                    \/ d = c /\ \E i \in DOMAIN lines : lines[i].line = kind
    <3>1. CASE d # c
      BY <1>1, <2>2, <3>1 DEF Logged
    <3>2. CASE d = c
      <4>1. Logged(d, kind)' <=> \E i \in 1 .. Len(s) : s[i].line = kind
        BY <1>1, <2>2, <2>3, <3>2 DEF Logged
      <4>2. ASSUME NEW i \in 1 .. Len(s)
            PROVE  \/ i \in 1 .. Len(session_log[c]) /\ s[i] = session_log[c][i]
                   \/ \E j \in 1 .. Len(lines) : s[i] = lines[j]
        <5>1. CASE i =< Len(session_log[c])
          BY SMTT(30), <2>1, <2>3, <5>1
        <5>2. CASE i > Len(session_log[c])
          <6>1. i - Len(session_log[c]) \in 1 .. Len(lines)
            BY SMTT(30), <2>1, <2>3, <5>2
          <6>2. i = Len(session_log[c]) + (i - Len(session_log[c]))
            BY SMTT(30), <2>3
          <6> QED BY <2>1, <6>1, <6>2
        <5> QED BY SMTT(30), <2>1, <2>3, <5>1, <5>2
      <4>3. (\E i \in 1 .. Len(s) : s[i].line = kind) =>
               Logged(d, kind) \/ \E j \in DOMAIN lines : lines[j].line = kind
        BY <2>3, <3>2, <4>2 DEF Logged
      <4>4. ASSUME Logged(d, kind) PROVE \E i \in 1 .. Len(s) : s[i].line = kind
        <5>1. PICK i \in DOMAIN session_log[c] : session_log[c][i].line = kind
          BY <3>2, <4>4 DEF Logged
        <5>2. i \in 1 .. Len(s) /\ s[i] = session_log[c][i]
          BY SMTT(30), <2>1, <2>3
        <5> QED BY <5>1, <5>2
      <4>5. ASSUME NEW j \in DOMAIN lines, lines[j].line = kind
            PROVE  \E i \in 1 .. Len(s) : s[i].line = kind
        <5>1. Len(session_log[c]) + j \in 1 .. Len(s)
          BY SMTT(30), <2>1, <2>3
        <5> QED BY <2>1, <2>3, <4>5, <5>1
      <4> QED BY <3>2, <4>1, <4>3, <4>4, <4>5
    <3> QED BY <3>1, <3>2
  <2> QED BY <1>1, <1>3, <2>1, <2>2, <2>4
<1> QED BY <1>2, <1>3

LEMMA LoggedOne ==
  ASSUME StatsInv, NEW c \in Clients, NEW l \in LogLine, Log(c, <<l>>), ~LogClosed
  PROVE  /\ session_log' \in [Clients -> Seq(LogLine)] /\ UNCHANGED undefined
         /\ \A d \in Clients : \A kind : Logged(d, kind)' <=>
                Logged(d, kind) \/ (d = c /\ l.line = kind)
<1>1. PICK lines \in Seq(LogLine) : Log(c, lines) /\ DOMAIN lines = {1} /\ lines[1] = l
  BY OneLine
<1>2. session_log' \in [Clients -> Seq(LogLine)] /\ UNCHANGED undefined
  BY <1>1, LoggedFacts
<1>3. \A d \in Clients : \A kind : Logged(d, kind)' <=>
         Logged(d, kind) \/ (d = c /\ \E i \in DOMAIN lines : lines[i].line = kind)
  BY <1>1, LoggedFacts
<1> QED BY <1>1, <1>2, <1>3

(* While a thread can log, the handler has not taken the statistics. *)
LEMMA NoStatsYet ==
  ASSUME HandlerInv, StatsInv, NEW t, Running(t), ~LogClosed
  PROVE  stats = None
BY HandlerType DEF StatsInv, Running, LogClosed, Exited

(* The sets that ShutdownStatsMatchLog counts. *)
Connections == {c \in Clients : Logged(c, "connected")}
Wins == {c \in Clients : Logged(c, "SUCCESS")}

MatchesLog ==
    stats # None /\ ~undefined =>
        /\ stats.connected = Cardinality(Connections)
        /\ stats.won =< Cardinality(CountedWins)
        /\ stats.won >= Cardinality(Wins)

LEMMA MatchLog ==
  ShutdownStatsMatchLog <=> MatchesLog
<1>1. CountedWins = {c \in Clients : Logged(c, "SUCCESS")}
                      \cup {c \in Clients : pc[c] \in {"win_lock", "win_log"}}
  BY DEF CountedWins, WinPoints
<1> QED BY <1>1 DEF ShutdownStatsMatchLog, MatchesLog, Connections, Wins

LEMMA MatchLogNext ==
  ShutdownStatsMatchLog' <=> MatchesLog'
BY MatchLog, PTL

(* A step of thread t that logs no connection and no win, and moves t over *)
(* no border that is counted.                                              *)
SameRegion(p, q) ==
    /\ q \in BeforePoints <=> p \in BeforePoints
    /\ q \in CountingPoints <=> p \in CountingPoints
    /\ q \in WinPoints <=> p \in WinPoints
    /\ p \in EndPoints => q \in EndPoints

LEMMA StatsKept ==
  ASSUME StatsInv, session_log' \in [Clients -> Seq(LogLine)],
         \A c \in Clients : \A kind \in {"connected", "SUCCESS"} : Logged(c, kind)' <=> Logged(c, kind),
         UNCHANGED <<clients_count, clients_win_count, undefined, handlers, stats>>,
         \A c \in Clients : SameRegion(pc[c], pc'[c])
  PROVE  StatsInv'
<1>1. CountedConnections' = CountedConnections
  BY DEF CountedConnections, SameRegion
<1>2. CountedWins' = CountedWins
  BY DEF CountedWins, SameRegion
<1>3. Connections' = Connections /\ Wins' = Wins
  BY DEF Connections, Wins
<1>4. ShutdownStatsMatchLog'
  BY <1>2, <1>3, MatchLog, MatchLogNext DEF StatsInv, MatchesLog
<1>5. \A c \in Clients :
          /\ Logged(c, "connected")' => pc'[c] \notin BeforePoints
          /\ pc'[c] \in CountingPoints /\ ~undefined' => Logged(c, "connected")'
          /\ Logged(c, "SUCCESS")' => pc'[c] \in EndPoints
  BY DEF StatsInv, SameRegion
<1> QED BY <1>1, <1>2, <1>4, <1>5 DEF StatsInv

LEMMA StatsKeptByGoto ==
  ASSUME ControlInv, StatsInv, NEW t \in Threads, NEW q, Goto(t, q),
         UNCHANGED <<session_log, clients_count, clients_win_count, undefined, handlers, stats>>,
         t \in Clients => SameRegion(pc[t], q)
  PROVE  StatsInv'
<1>1. \A c \in Clients : SameRegion(pc[c], pc'[c])
  BY GotoFacts DEF SameRegion
<1>2. session_log' \in [Clients -> Seq(LogLine)]
  BY DEF StatsInv
<1>3. \A c \in Clients : \A kind : Logged(c, kind)' <=> Logged(c, kind)
  BY DEF Logged
<1> QED BY <1>1, <1>2, <1>3, StatsKept

(* A write to the closed log. *)
LEMMA StatsUndefined ==
  ASSUME ControlInv, StatsInv, NEW t \in Threads, NEW q, Goto(t, q),
         NEW c, NEW lines, Log(c, lines), LogClosed, UNCHANGED <<handlers, stats>>,
         t \in Clients => /\ q \in BeforePoints => pc[t] \in BeforePoints
                          /\ pc[t] \in EndPoints => q \in EndPoints
  PROVE  StatsInv'
<1>1. undefined' /\ UNCHANGED session_log
  BY DEF Log
<1>2. \A d \in Clients : \A kind : Logged(d, kind)' <=> Logged(d, kind)
  BY <1>1 DEF Logged
<1>3. ShutdownStatsMatchLog'
  BY <1>1, MatchLogNext DEF MatchesLog
<1>4. \A d \in Clients :
          /\ Logged(d, "connected")' => pc'[d] \notin BeforePoints
          /\ Logged(d, "SUCCESS")' => pc'[d] \in EndPoints
  BY <1>2, GotoFacts DEF StatsInv
<1> QED BY <1>1, <1>3, <1>4 DEF StatsInv

(* A section that ends in one step. *)
LEMMA StatsSection ==
  ASSUME ControlInv, ConnInv, HandlerInv, StatsInv, NEW t \in Threads, LogAndUnlock(t)
  PROVE  StatsInv'
<1> DEFINE c == ClientOf(t)
           lines == LogPoints[pc[t]].lines
           q == LogPoints[pc[t]].next
<1> USE DEF BeforePoints, CountingPoints, WinPoints, EndPoints
<1>1. pc[t] \in DOMAIN LogPoints /\ Goto(t, q) /\ Log(c, lines) /\ Running(t)
      /\ UNCHANGED <<clients_count, clients_win_count, handlers, stats>>
  BY DEF LogAndUnlock, countVars, signalVars
<1>2. c \in Clients
  BY <1>1, LogFacts, ClientOfAccepted
<1>3. lines \in Seq(LogLine)
  <2>1. lines \in Seq([line : SectionKinds])
    BY <1>1, LogLines
  <2>2. [line : SectionKinds] \subseteq LogLine
    BY SMTT(30) DEF LogLine, SectionKinds
  <2> QED BY <2>1, <2>2, SeqElements
<1>4. \A i \in DOMAIN lines :
         /\ lines[i].line # "connected"
         /\ lines[i].line = "SUCCESS" => pc[t] = "win_log"
  <2>1. lines \in Seq([line : SectionKinds])
        /\ \A i \in DOMAIN lines : lines[i].line = "SUCCESS" => pc[t] = "win_log"
    BY <1>1, LogLines
  <2> HIDE DEF lines
  <2>2. \A i \in DOMAIN lines : lines[i] \in [line : SectionKinds]
    BY <2>1, SeqElements
  <2>3. \A i \in DOMAIN lines : lines[i].line \in SectionKinds
    BY <2>2
  <2> QED BY <2>1, <2>3 DEF SectionKinds
<1>5. q \notin BeforePoints /\ (pc[t] \in EndPoints => q \in EndPoints)
      /\ (pc[t] # "win_log" => SameRegion(pc[t], q)) /\ q \notin WinPoints \cup CountingPoints
      /\ (pc[t] = "win_log" => q = "success")
  BY <1>1, LogFacts DEF SameRegion
<1>c. t \in Clients => c = t
  BY DEF ClientOf
<1> HIDE DEF q, lines, c
<1>6. CASE LogClosed
  BY <1>1, <1>5, <1>6, StatsUndefined
<1>7. CASE ~LogClosed /\ pc[t] # "win_log"
  <2>0. \A d \in Clients : \A kind : Logged(d, kind)' <=>
             Logged(d, kind) \/ (d = c /\ \E i \in DOMAIN lines : lines[i].line = kind)
    BY <1>1, <1>2, <1>3, <1>7, LoggedFacts
  <2>1. \A d \in Clients : \A kind \in {"connected", "SUCCESS"} : Logged(d, kind)' <=> Logged(d, kind)
    <3>1. \A kind \in {"connected", "SUCCESS"} : ~\E i \in DOMAIN lines : lines[i].line = kind
      BY SMTT(30), <1>4, <1>7
    <3> QED BY <2>0, <3>1
  <2>2. session_log' \in [Clients -> Seq(LogLine)] /\ UNCHANGED undefined
    BY <1>1, <1>2, <1>3, <1>7, LoggedFacts
  <2>3. \A d \in Clients : SameRegion(pc[d], pc'[d])
    BY <1>1, <1>5, <1>7, GotoFacts DEF SameRegion
  <2> QED BY <1>1, <2>1, <2>2, <2>3, StatsKept
<1>8. CASE ~LogClosed /\ pc[t] = "win_log"
  <2>0. t \in Clients /\ c = t
    BY <1>c, <1>8 DEF ControlInv, MainPoints
  <2>. \A d \in Clients : \A kind : Logged(d, kind)' <=>
             Logged(d, kind) \/ (d = c /\ \E i \in DOMAIN lines : lines[i].line = kind)
    BY SMTT(30), <1>1, <1>2, <1>3, <1>8, LoggedFacts
  <2>1. \A d \in Clients : Logged(d, "connected")' <=> Logged(d, "connected")
    <3>1. ~\E i \in DOMAIN lines : lines[i].line = "connected"
      BY <1>4
    <3> QED BY <3>1
  <2>2. \A d \in Clients : Logged(d, "SUCCESS")' => Logged(d, "SUCCESS") \/ d = t
    BY <1>1, <1>2, <1>3, <1>8, <2>0, LoggedFacts
  <2>3. \A d \in Clients : Logged(d, "SUCCESS") => Logged(d, "SUCCESS")'
    BY <1>1, <1>2, <1>3, <1>8, LoggedFacts
  <2>4. Logged(t, "SUCCESS")'
    <3>1. lines = <<Line("SUCCESS")>>
      BY SMTT(30), <1>8 DEF lines, LogPoints
    <3>2. "SUCCESS" \in SectionKinds
      BY DEF SectionKinds, LineKinds
    <3>3. DOMAIN lines = {1} /\ lines[1].line = "SUCCESS"
      BY <3>1, <3>2, OneLine, LineType
    <3> QED BY <1>1, <1>2, <1>3, <1>8, <2>0, <3>3, LoggedFacts
  <2>5. session_log' \in [Clients -> Seq(LogLine)] /\ UNCHANGED undefined
    BY <1>1, <1>2, <1>3, <1>8, LoggedFacts
  <2>6. pc'[t] = "success" /\ \A d \in Clients \ {t} : pc'[d] = pc[d]
    BY <1>1, <1>5, <1>8, GotoFacts
  <2>7. stats' = None
    BY <1>1, <1>8, NoStatsYet
  <2>8. CountedWins' = CountedWins
    BY <1>8, <2>0, <2>2, <2>3, <2>4, <2>6 DEF CountedWins
  <2>9. CountedConnections' = CountedConnections
    BY <1>8, <2>0, <2>1, <2>6 DEF CountedConnections
  <2>10. ShutdownStatsMatchLog'
    BY <2>7, MatchLogNext DEF MatchesLog
  <2>11. \A d \in Clients :
          /\ Logged(d, "connected")' => pc'[d] \notin BeforePoints
          /\ pc'[d] \in CountingPoints /\ ~undefined' => Logged(d, "connected")'
          /\ Logged(d, "SUCCESS")' => pc'[d] \in EndPoints
    BY <2>1, <2>2, <2>5, <2>6 DEF StatsInv
  <2> QED BY <1>1, <2>5, <2>7, <2>8, <2>9, <2>10, <2>11 DEF StatsInv
<1> QED BY <1>6, <1>7, <1>8

(* The steps of pthread_routine that log one line. *)
LEMMA StatsLine ==
  ASSUME ControlInv, HandlerInv, StatsInv, NEW c \in Clients, NEW l \in LogLine, Log(c, <<l>>),
         NEW q, Goto(c, q), SameRegion(pc[c], q), l.line \notin {"connected", "SUCCESS"},
         UNCHANGED <<clients_count, clients_win_count, handlers, stats>>
  PROVE  StatsInv'
<1>2. CASE LogClosed
  BY <1>2, StatsUndefined DEF SameRegion
<1>3. CASE ~LogClosed
  <2>2. \A d \in Clients : \A kind \in {"connected", "SUCCESS"} : Logged(d, kind)' <=> Logged(d, kind)
    BY <1>3, LoggedOne
  <2>3. session_log' \in [Clients -> Seq(LogLine)] /\ UNCHANGED undefined
    BY <1>3, LoggedOne
  <2>4. \A d \in Clients : SameRegion(pc[d], pc'[d])
    BY GotoFacts DEF SameRegion
  <2> QED BY <2>2, <2>3, <2>4, StatsKept
<1> QED BY <1>2, <1>3

LEMMA StatsConnect ==
  ASSUME ControlInv, HandlerInv, StatsInv, NEW c \in Clients, LogConnect(c)
  PROVE  StatsInv'
<1> USE DEF BeforePoints, CountingPoints, WinPoints, EndPoints
<1>1. Log(c, <<Line("connected")>>) /\ Goto(c, "connect_count") /\ pc[c] = "connect_log" /\ Running(c)
      /\ UNCHANGED <<clients_count, clients_win_count, handlers, stats>>
  BY DEF LogConnect, countVars, signalVars
<1>2. Line("connected") \in LogLine /\ Line("connected").line = "connected"
  BY SMTT(30) DEF Line, LogLine, LineKinds
<1>4. pc'[c] = "connect_count" /\ \A d \in Clients \ {c} : pc'[d] = pc[d]
  BY <1>1, GotoFacts
<1>5. CASE LogClosed
  BY <1>1, <1>5, StatsUndefined
<1>6. CASE ~LogClosed
  <2>1. \A d \in Clients : \A kind : Logged(d, kind)' <=>
             Logged(d, kind) \/ (d = c /\ kind = "connected")
    BY SMTT(30), <1>1, <1>2, <1>6, LoggedOne
  <2>2. session_log' \in [Clients -> Seq(LogLine)] /\ UNCHANGED undefined
    BY <1>1, <1>2, <1>6, LoggedOne
  <2>3. ~Logged(c, "connected") /\ ~Logged(c, "SUCCESS")
    BY <1>1 DEF StatsInv
  <2>4. CountedConnections' = CountedConnections
    BY <1>4, <2>1, <2>3 DEF CountedConnections
  <2>5. CountedWins' = CountedWins
    BY <1>1, <1>4, <2>1 DEF CountedWins
  <2>6. stats' = None
    BY <1>1, <1>6, NoStatsYet
  <2>7. ShutdownStatsMatchLog'
    BY <2>6, MatchLogNext DEF MatchesLog
  <2>8. \A d \in Clients :
          /\ Logged(d, "connected")' => pc'[d] \notin BeforePoints
          /\ pc'[d] \in CountingPoints /\ ~undefined' => Logged(d, "connected")'
          /\ Logged(d, "SUCCESS")' => pc'[d] \in EndPoints
    <3>1. \A d \in Clients :
             /\ Logged(d, "SUCCESS")' <=> Logged(d, "SUCCESS")
             /\ Logged(d, "connected")' <=> Logged(d, "connected") \/ d = c
      BY SMTT(30), <2>1
    <3> QED BY <1>4, <2>2, <2>3, <3>1 DEF StatsInv
  <2> QED BY <1>1, <2>2, <2>4, <2>5, <2>6, <2>7, <2>8 DEF StatsInv
<1> QED BY <1>5, <1>6

LEMMA StatsSecret ==
  ASSUME ControlInv, HandlerInv, StatsInv, NEW c \in Clients, ChooseSecret(c)
  PROVE  StatsInv'
<1> USE DEF BeforePoints, CountingPoints, WinPoints, EndPoints
<1>1. Log(c, <<Line("secret")>>) /\ Goto(c, "welcome") /\ pc[c] = "connect_secret" /\ Running(c)
      /\ clients_count' = clients_count + 1 /\ UNCHANGED <<clients_win_count, handlers, stats>>
  BY DEF ChooseSecret, signalVars
<1>2. Line("secret") \in LogLine /\ Line("secret").line = "secret"
  BY SMTT(30) DEF Line, LogLine, LineKinds
<1>4. pc'[c] = "welcome" /\ \A d \in Clients \ {c} : pc'[d] = pc[d]
  BY <1>1, GotoFacts
<1>5. CASE LogClosed
  BY SMTT(30), <1>1, <1>5, StatsUndefined
<1>6. CASE ~LogClosed
  <2>1. \A d \in Clients : \A kind \in {"connected", "SUCCESS"} : Logged(d, kind)' <=> Logged(d, kind)
    BY <1>1, <1>2, <1>6, LoggedOne
  <2>2. session_log' \in [Clients -> Seq(LogLine)] /\ UNCHANGED undefined
    BY <1>1, <1>2, <1>6, LoggedOne
  <2>3. ~undefined /\ Logged(c, "connected") /\ ~Logged(c, "SUCCESS")
    BY <1>1 DEF StatsInv, Running
  <2>4. CountedConnections' = CountedConnections \cup {c} /\ c \notin CountedConnections
    BY <1>1, <1>4, <2>1, <2>3 DEF CountedConnections
  <2>5. IsFiniteSet(CountedConnections)
    BY FS_Subset DEF CountedConnections
  <2>6. Cardinality(CountedConnections') = Cardinality(CountedConnections) + 1
    BY <2>4, <2>5, FS_AddElement
  <2>7. CountedWins' = CountedWins
    BY <1>1, <1>4, <2>1 DEF CountedWins
  <2>8. stats' = None
    BY <1>1, <1>6, NoStatsYet
  <2>9. ShutdownStatsMatchLog'
    BY <2>8, MatchLogNext DEF MatchesLog
  <2>10. \A d \in Clients :
          /\ Logged(d, "connected")' => pc'[d] \notin BeforePoints
          /\ pc'[d] \in CountingPoints /\ ~undefined' => Logged(d, "connected")'
          /\ Logged(d, "SUCCESS")' => pc'[d] \in EndPoints
    BY <1>4, <2>1, <2>2, <2>3 DEF StatsInv
  <2> QED BY <1>1, <2>2, <2>3, <2>6, <2>7, <2>8, <2>9, <2>10 DEF StatsInv
<1> QED BY <1>5, <1>6

(* A win is counted once, before its line. *)
LEMMA StatsWin ==
  ASSUME ControlInv, StatsInv, NEW c \in Clients, Win(c)
  PROVE  StatsInv'
<1> USE DEF BeforePoints, CountingPoints, WinPoints, EndPoints
<1>1. Goto(c, "win_lock") /\ pc[c] = "win" /\ clients_win_count' = clients_win_count + 1
      /\ UNCHANGED <<session_log, undefined, clients_count, handlers, stats>>
  BY DEF Win, logVars, signalVars
<1>2. pc'[c] = "win_lock" /\ \A d \in Clients \ {c} : pc'[d] = pc[d]
  BY <1>1, GotoFacts
<1>3. \A d \in Clients : \A kind : Logged(d, kind)' <=> Logged(d, kind)
  BY <1>1 DEF Logged
<1>4. CountedWins' = CountedWins \cup {c} /\ c \notin CountedWins
  <2>1. ~Logged(c, "SUCCESS")
    BY <1>1 DEF StatsInv
  <2> QED BY <1>1, <1>2, <1>3, <2>1 DEF CountedWins
<1>5. IsFiniteSet(CountedWins)
  BY FS_Subset DEF CountedWins
<1>6. Cardinality(CountedWins') = Cardinality(CountedWins) + 1 /\ Cardinality(CountedWins) \in Nat
  BY <1>4, <1>5, FS_AddElement, FS_CardinalityType
<1>7. CountedConnections' = CountedConnections
  BY <1>1, <1>2, <1>3 DEF CountedConnections
<1>8. Connections' = Connections /\ Wins' = Wins
  BY <1>3 DEF Connections, Wins
<1>9. ShutdownStatsMatchLog'
  <2>1. MatchesLog /\ (stats # None => stats.won \in Nat)
    BY MatchLog DEF StatsInv
  <2> QED BY SMTT(30), <1>1, <1>6, <1>8, <2>1, MatchLogNext DEF MatchesLog
<1>10. \A d \in Clients :
          /\ Logged(d, "connected")' => pc'[d] \notin BeforePoints
          /\ pc'[d] \in CountingPoints /\ ~undefined' => Logged(d, "connected")'
          /\ Logged(d, "SUCCESS")' => pc'[d] \in EndPoints
  BY <1>1, <1>2, <1>3 DEF StatsInv
<1> QED BY <1>1, <1>6, <1>7, <1>9, <1>10 DEF StatsInv

(* The handler takes the numbers under the mutex: no thread is between the *)
(* line of a connection and its count.                                     *)
LEMMA StatsShutdown ==
  ASSUME CountInv, HandlerInv, LockInv, StatsInv, NEW k, LogShutdown(k)
  PROVE  StatsInv'
<1> USE DEF BeforePoints, CountingPoints, WinPoints, EndPoints
<1>1. k \in DOMAIN handlers /\ HandlerGoto(k, "unlock") /\ log_file_mutex = None /\ ~undefined
      /\ UNCHANGED <<pc, session_log, undefined, clients_count, clients_win_count>>
      /\ stats' = [connected |-> clients_count, won |-> clients_win_count]
  BY DEF LogShutdown, HandlerAt, countVars
<1>2. \A d \in Clients : \A kind : Logged(d, kind)' <=> Logged(d, kind)
  BY <1>1 DEF Logged
<1>3. \A d \in Clients : pc[d] \notin CountingPoints
  BY <1>1, CriticalFacts DEF LockInv, Holds
<1>4. CountedWins' = CountedWins /\ CountedConnections' = CountedConnections
  BY <1>1, <1>2 DEF CountedWins, CountedConnections
<1>5. Connections' = CountedConnections /\ Wins' \subseteq CountedWins
  BY <1>2, <1>3 DEF CountedConnections, CountedWins, Connections, Wins
<1>6. IsFiniteSet(CountedWins)
  BY FS_Subset DEF CountedWins
<1>7. Cardinality(Wins') =< Cardinality(CountedWins) /\ Cardinality(CountedWins) \in Nat
  BY <1>5, <1>6, FS_Subset, FS_CardinalityType
<1>8. ShutdownStatsMatchLog'
  <2>1. clients_count = Cardinality(CountedConnections) /\ clients_win_count = Cardinality(CountedWins)
    BY <1>1 DEF StatsInv
  <2> QED BY SMTT(30), <1>1, <1>4, <1>5, <1>7, <2>1, MatchLogNext DEF MatchesLog
<1>9. \E j \in DOMAIN handlers' : handlers'[j].at # "lock"
  BY <1>1, HandlerGotoFacts
<1>10. stats'.won \in Nat
  BY <1>1 DEF CountInv
<1> QED BY <1>1, <1>2, <1>4, <1>8, <1>9, <1>10 DEF StatsInv

(* Nothing of the log, the counters or the threads changes. *)
LEMMA StatsFrame ==
  ASSUME StatsInv, UNCHANGED <<pc, session_log, clients_count, clients_win_count, stats>>,
         undefined' = undefined \/ undefined',
         (\E j \in DOMAIN handlers : handlers[j].at # "lock") =>
             \E j \in DOMAIN handlers' : handlers'[j].at # "lock"
  PROVE  StatsInv'
<1>1. \A d \in Clients : \A kind : Logged(d, kind)' <=> Logged(d, kind)
  BY DEF Logged
<1>2. CountedWins' = CountedWins /\ CountedConnections' = CountedConnections
      /\ Connections' = Connections /\ Wins' = Wins
  BY <1>1 DEF CountedWins, CountedConnections, Connections, Wins
<1>3. ShutdownStatsMatchLog'
  BY <1>2, MatchLog, MatchLogNext DEF StatsInv, MatchesLog
<1> QED BY SMTT(30), <1>1, <1>2, <1>3 DEF StatsInv

LEMMA StatsStep ==
  ASSUME ControlInv, ConnInv, GameInv, CountInv, HandlerInv, LockInv, StatsInv, [Next]_serverVars
  PROVE  StatsInv'
<1> DEFINE Counts == <<session_log, clients_count, clients_win_count, undefined, handlers, stats>>
<1> USE DEF countVars, logVars, signalVars
<1>1. ASSUME NEW t \in Threads, Lock(t) PROVE StatsInv'
  <2>1. SameRegion(pc[t], LockPoints[pc[t]])
    BY <1>1, LockFacts
    DEF Lock, SameRegion, BeforePoints, CountingPoints, WinPoints, EndPoints
  <2> QED BY <1>1, <2>1, StatsKeptByGoto DEF Lock
<1>2. ASSUME NEW t \in Threads, LogAndUnlock(t) PROVE StatsInv'
  BY <1>2, StatsSection
<1>3. ASSUME NEW t \in Threads, SendMessage(t) PROVE StatsInv'
  <2>1. SameRegion(pc[t], AfterSend(t)) \/ t = Main
    BY <1>3, SendFacts
    DEF SendMessage, AfterSend, LoopPoint, SameRegion, BeforePoints, CountingPoints, WinPoints,
        EndPoints
  <2> QED BY <1>3, <2>1, StatsKeptByGoto DEF SendMessage
<1>4. ASSUME NEW t \in Threads, SendConnLost(t) \/ SendOtherError(t) PROVE StatsInv'
  <2>1. PICK q \in {"lost_lock", "failed_lock"} :
           Goto(t, q) /\ pc[t] \in DOMAIN SendPoints /\ UNCHANGED Counts
    BY <1>4 DEF SendConnLost, SendOtherError
  <2>2. SameRegion(pc[t], q)
    BY <2>1, SendFacts DEF SameRegion, BeforePoints, CountingPoints, WinPoints, EndPoints
  <2> QED BY <2>1, <2>2, StatsKeptByGoto
<1>5. ASSUME NEW t \in Threads, Leave(t) PROVE StatsInv'
  <2>1. SameRegion("leaving", "done")
    BY DEF SameRegion, BeforePoints, CountingPoints, WinPoints, EndPoints
  <2> QED BY <1>5, <2>1, StatsKeptByGoto DEF Leave, UpdateNowCount
<1>15. ASSUME NEW t \in Threads, LockNowCount(t) PROVE StatsInv'
  <2>1. SameRegion(pc[t], CountPoints[pc[t]])
    BY <1>15, CountFacts
    DEF LockNowCount, SameRegion, BeforePoints, CountingPoints, WinPoints, EndPoints
  <2> QED BY <1>15, <2>1, StatsKeptByGoto DEF LockNowCount
<1>6. ASSUME NEW c \in Clients, Accept(c) PROVE StatsInv'
  <2>1. UNCHANGED Counts /\ pc[c] = "none"
    BY <1>6 DEF Accept, ConnInv, Accepted
  <2>2. PICK t \in Threads, q \in {"full_lock", "create_lock", "connect_lock"} :
           Goto(t, q) /\ (t = Main \/ (t = c /\ q = "connect_lock"))
    BY <1>6 DEF Accept, Goto
  <2>3. SameRegion("none", "connect_lock")
    BY DEF SameRegion, BeforePoints, CountingPoints, WinPoints, EndPoints
  <2> QED BY <2>1, <2>2, <2>3, StatsKeptByGoto
<1>7. ASSUME NEW c \in Clients, LogConnect(c) \/ ChooseSecret(c) \/ Win(c) PROVE StatsInv'
  BY <1>7, StatsConnect, StatsSecret, StatsWin
<1>8. ASSUME NEW c \in Clients, IncrementClientsNowCount(c) PROVE StatsInv'
  <2>1. SameRegion("connect_counting", "connect_secret")
    BY DEF SameRegion, BeforePoints, CountingPoints, WinPoints, EndPoints
  <2> QED BY <1>8, <2>1, StatsKeptByGoto DEF IncrementClientsNowCount, UpdateNowCount
<1>9. ASSUME NEW c \in Clients, ReceiveGuess(c) PROVE StatsInv'
  <2>1. PICK q \in {"guess_lock", "invalid"} : Goto(c, q) /\ pc[c] = "receive" /\ UNCHANGED Counts
    BY <1>9 DEF ReceiveGuess
  <2>2. SameRegion("receive", q)
    BY <2>1 DEF SameRegion, BeforePoints, CountingPoints, WinPoints, EndPoints
  <2> QED BY <2>1, <2>2, StatsKeptByGoto
<1>10. ASSUME NEW c \in Clients, LogGuess(c) PROVE StatsInv'
  <2> DEFINE l == [line |-> "guess", code |-> buffer[c]]
  <2>1. l \in LogLine /\ l.line \notin {"connected", "SUCCESS"}
    BY SMTT(30), <1>10 DEF LogLine, GameInv
  <2>2. SameRegion("guess_log", "hint_log")
    BY DEF SameRegion, BeforePoints, CountingPoints, WinPoints, EndPoints
  <2>3. Log(c, <<l>>) /\ Goto(c, "hint_log") /\ pc[c] = "guess_log"
        /\ UNCHANGED <<clients_count, clients_win_count, handlers, stats>>
    BY <1>10 DEF LogGuess
  <2> HIDE DEF l
  <2> QED BY <2>1, <2>2, <2>3, StatsLine
<1>11. ASSUME NEW c \in Clients, LogHint(c) PROVE StatsInv'
  <2> DEFINE f == GetSecretCodeGuessFeedback(secret_code[c], buffer[c])
             l == [line |-> "hint", positions |-> f.correct_positions_count,
                   colors |-> f.correct_colors_count]
  <2>1. l \in LogLine /\ l.line \notin {"connected", "SUCCESS"}
    BY SMTT(30), <1>11 DEF LogLine, GameInv
  <2>2. SameRegion("hint_log", "feedback")
    BY DEF SameRegion, BeforePoints, CountingPoints, WinPoints, EndPoints
  <2>3. Log(c, <<l>>) /\ Goto(c, "feedback") /\ pc[c] = "hint_log"
        /\ UNCHANGED <<clients_count, clients_win_count, handlers, stats>>
    BY <1>11 DEF LogHint
  <2> HIDE DEF l
  <2> QED BY <2>1, <2>2, <2>3, StatsLine
<1>12. ASSUME NEW t \in Threads, Signal(t) PROVE StatsInv'
  <2>1. DOMAIN handlers \subseteq DOMAIN handlers'
        /\ \A j \in DOMAIN handlers : handlers'[j] = handlers[j]
    BY <1>12, SignalFacts
  <2> QED BY <1>12, <2>1, StatsFrame DEF Signal
<1>13. ASSUME NEW k, HandlerStep(k) PROVE StatsInv'
  <2>1. CASE LogShutdown(k)
    BY <2>1, StatsShutdown
  <2>2. CASE LogShutdownAgain(k)
    BY <2>2, StatsFrame DEF LogShutdownAgain
  <2>3. CASE DestroyMutexes(k)
    BY <2>3, HandlerGotoFacts, StatsFrame DEF DestroyMutexes, HandlerAt
  <2>4. CASE Exit(k)
    BY <2>4, HandlerGotoFacts, StatsFrame DEF Exit, HandlerAt
  <2> QED BY <1>13, <2>1, <2>2, <2>3, <2>4 DEF HandlerStep
<1>14. CASE UNCHANGED serverVars \/ PeerStep
  <2>1. UNCHANGED <<pc, session_log, clients_count, clients_win_count, undefined, handlers, stats>>
    BY <1>14, PeerFrame DEF serverVars
  <2> QED BY <2>1, StatsFrame
<1> QED
  BY <1>1, <1>2, <1>3, <1>4, <1>5, <1>6, <1>7, <1>8, <1>9, <1>10, <1>11, <1>12, <1>13, <1>14,
     <1>15
  DEF Next, ThreadStep, RoutineStep, PeerStep, Quiet

-----------------------------------------------------------------------------
LEMMA InitLog ==
  Init => TailInv /\ StatsInv
<1> SUFFICES ASSUME Init PROVE TailInv /\ StatsInv
  OBVIOUS
<1> USE DEF Init
<1>1. TailInv
  BY SMTT(30) DEF TailInv, LogClosed
<1>2. StatsInv
  <2>1. \A c \in Clients : \A kind : ~Logged(c, kind)
    BY SMTT(30) DEF Logged
  <2>2. CountedConnections = {} /\ CountedWins = {}
    BY <2>1 DEF CountedConnections, CountedWins, WinPoints
  <2>3. session_log \in [Clients -> Seq(LogLine)]
    BY SMTT(30)
  <2>4. Cardinality({}) = 0
    BY FS_EmptySet
  <2> QED BY <2>1, <2>2, <2>3, <2>4 DEF StatsInv, ShutdownStatsMatchLog, CountingPoints
<1> QED BY <1>1, <1>2

LEMMA StepLog ==
  LogInv /\ [Next]_serverVars => LogInv'
BY StepInv, TailStep, StatsStep DEF LogInv, ServerInv

LEMMA LogInvariant ==
  Spec => []LogInv
<1>1. Init => LogInv
  BY InitInv, InitLog DEF LogInv
<1> QED BY <1>1, StepLog, PTL DEF Spec

(* No thread and no signal handler gets a line between "client connected"  *)
(* and the secret code, or between a guess and its hint (server.c:507-525, *)
(* 556-568): the thread that writes the first line holds the mutex until   *)
(* it has written the second, and every writer holds the mutex.            *)
THEOREM PairsStayAdjacent ==
  Spec => LogPairsAdjacent
<1>1. LogInv /\ [Next]_serverVars
        => [/\ log_tail.line = "connected" /\ log_tail' # log_tail
                  => log_tail' = [of |-> log_tail.of, line |-> "secret"]
            /\ log_tail.line = "guess" /\ log_tail' # log_tail
                  => log_tail' = [of |-> log_tail.of, line |-> "hint"]]_serverVars
  BY PairStep DEF LogInv, ServerInv
<1> QED BY <1>1, LogInvariant, PTL DEF Spec, LogPairsAdjacent

(* The numbers sig_handler prints (server.c:99-100) are those of the log:  *)
(* it reads them under the mutex that every connection is logged and       *)
(* counted under, and closes the log before it releases the mutex.         *)
THEOREM StatsMatchLog ==
  Spec => []ShutdownStatsMatchLog
<1>1. LogInv => ShutdownStatsMatchLog
  BY DEF LogInv, StatsInv
<1> QED BY <1>1, LogInvariant, PTL
=============================================================================
