# Verification of the comp30023 programs

TLA+ models of the programs in this repository, the TLC configurations that
check them on small instances, and proofs checked by TLAPS. `PROJECT.json`
records which lines each definition models, what each run checks, the hazards of
the code and the properties that cover them.

## The system

| Part | Source | State | Operations | What makes it hard |
|---|---|---|---|---|
| Memory manager | `project1/memory-management.c` | free list, list of process memories | add, remove, swap in, swap out, consolidate | the free list must stay ordered and consolidated through any sequence of swaps; a swap-in evicts until it fits |
| Schedulers | `project1/process-scheduler.c` | ready queues, running process, clock | arrive, load, run, demote, terminate | a ready process may have been evicted; quantum, job end and arrival at the same tick |
| Data file parser | `project1/process-data-file-parser.c` | growing array | read a line | lines with too few tokens, the array at its limit |
| Secret codes | `project2/secret-code.c` | none | validity, random code, feedback | repeated colours |
| Game server | `project2/server.c`, `message-helpers.c`, `print-helpers.c` | counters, log, three mutexes set up by main and one left at its static value, threads | accept, serve, log, send, receive, shut down | threads, failing sends, lost clients, short reads, a signal handler that takes a mutex and can itself be interrupted |
| Game client | `project2/client.c` | connection | show, guess, end | the peer may vanish; results of reads and writes are ignored |
| Producer and consumer | `workshop/producer-consumer-problem*.c` | shared array and count | insert, remove, exit | interleavings; threads blocked at exit |
| Linked list | `workshop/linked-list.c` | nodes, head, foot, size | append, add, pop, remove, look up, free | head, foot and size must agree after any mix of calls |
| Shell | `workshop/my-shell.c` | child, alarm, growing strings | read, split, fork, wait, time out | the alarm races the end of the child |
| Prime finder | `workshop/signal-prime-number.c` | pending signals | test, signal, print, exit | signals merge; the child must not be hit before it has handlers |
| Thread samples | `workshop/sample_code/threads/` | semaphores, a lock, a counter | barrier, alternation, counting | interleavings of single loads and stores |
| Other exercises and samples | `workshop/` | | | see "Not modelled" |

The simulator (project 1) is one sequential program: the parser feeds a
scheduler, which calls the memory manager. The game (project 2) is a threaded
server and client processes over TCP. The workshop programs stand alone.

## Modules

`SequenceEdits` says what linking and unlinking a node does to the sequence a linked
list stands for; the three modules with such sequences use it.

**Project 1.** `FreeMemorySegments` has the free list as operators on sequences.
`MemoryManagement` adds the list of processes and one action per operation;
a turn of the loop in `swap_in_process_memory` is one step, and `swapping` is the
argument of the call in progress. `MemoryClient` composes it with an arbitrary
client, and `MemoryMap` is the abstract specification it implements: an owner
per cell. `ProcessScheduler` has what the two runners share and is composed with
the memory manager; `FcfsScheduler` and `MultiScheduler` are the runners, and
`MultiFcfs` compares them.
`pc` is the place in the runner's loop. The queues are sequences there;
`PcbQueues` has them as the linked blocks they are, a walk through a queue one
block at a time, with the sequence each should be as a history variable.
`ProcessDataFile` is the parser. `MCScheduler`, `MCFcfs` and `MCMulti` give the
instances for TLC; the memory manager by itself is one of the programs of
`MCSequential`.

**Project 2.** `SecretCode` has the code's three functions and, separately, the
rules of Mastermind; `SecretCodeRounds` plays them. `GameServer` has the server and its clients: `pc[t]` is
where a thread is, and a section under `log_file_mutex` or
`clients_now_count_mutex` is at least two steps, because a signal can fall in
between and its handler waits for `log_file_mutex`. The other two counters are
updated in one step: whoever waits for `clients_count_mutex` holds `log_file_mutex`,
so nobody ever waits for it, and whoever waits for `clients_win_count_mutex` holds
nothing anybody else waits for. A message is its header. The log is its last line and the lines of each
connection. `handlers` is the runs of `sig_handler`, oldest first, each on the
thread it interrupts; one that is interrupted itself waits. A second run closes
whatever has the number of the listening socket by then. A write to the log after
`fclose` is undefined behaviour; the model records it in `undefined` and stops.

`GameStream` is one game at the level of bytes: the same thread and client, with
`receive_message` one `read` at a time. It leaves out the log and the other
connections, which `GameServer` has, and `GameServer` takes messages as whole. A
byte is the message it was composed for and its place in it. What a buffer holds is
told from its first bytes, as by `strncmp` and `is_valid_secret_code`; read from the
wrong place, the end of a line that is no code may be a code (`GuessesIn`), and then
the server may find it right, wrong or invalid.

**Workshop.** `SharedBuffer` has the sections of code both programs share, split
at each update of a shared variable. `ProducerConsumerSemaphore` and
`ProducerConsumerMutex` add what guards them. `BoundedQueue` is the abstract
specification of both. `LinkedList` has the exercise's list as a heap of nodes,
one action per function, and `DataList` is the sequence the comments of
`linked-list.c` describe, with the last call and its result as observable state.
`ImplementsDataList` has one exception, `PopKeepsTheOnly`. `ShellInput` is `strscan` and
`strsplit`; `Shell` is the shell, its child and the alarm. `SignalPrime` is the
prime finder and its child. `Rendezvous`, `Alternation` and `CountingThreads` are
`semaphores.c`, `producer-consumer.c`, and `no-race-mutex.c` with `thread2.c`.

`MCSequential` and `MCProcesses` put independent programs side by side: `program`
says which one a behaviour is about, and only that one moves.

Definitions whose comment starts with "Faulty variant" are not part of any
specification. Each is a plausible mistake in the definition that follows it, and
is used to see that a property would notice the mistake.

## What is checked

| Run | Shows | Bounds |
|---|---|---|
| `sequential` | memory is partitioned, its free list consolidated, the order of eviction, and the two lists implement `MemoryMap`; the linked list implements a sequence, but for a pop of the only element, and loses no node; the linked queues hold what was added, in order; the parser and the shell stay inside their arrays and return the complete lines, and all the words; validity test and feedback against Mastermind's rules | memory: 3 processes, memory 4, sizes 1 to 5, two process ids, so that ids repeat, a clock that may stand still; list: 4 nodes, 2 values; queues: 4 blocks, 2 ranks, a sorted and an unsorted list; parser: all files of up to 4 lines of 0 to 5 tokens, and 6-line files that make an array of 2 grow twice; shell: all inputs of up to 6 characters (spaces, newlines, one letter), arrays that start at 2 and 1 and double; codes: 4 colours, length 4 |
| `list_pop` | **violation**: a pop of the only element does not remove it | 2 nodes, 2 values |
| `fcfs` | the printed schedule is the reference schedule; one process in memory; the simulation ends | every file of up to 3 processes, in and out of arrival order, job time 0 included |
| `multi` | life cycle of a process, accounting of demotion, status lines, end; short jobs are run as by `FcfsScheduler`; the example of `project1/tests` prints `specOutput-multi-100.txt` | every file of up to 3 processes, with distinct and with equal ids, and the example; the real quanta and memory 100; a job of 15 stays on the lowest level for more than one turn |
| `game` | count of clients, log pairs, the log tells the game | 2 clients, limit 1, 2 guesses, random secret, codes of one character in two colours; killed clients, failing sends and thread creation |
| `game_shutdown` | statistics agree with the log; the process ends, or writes to its closed log, unless a thread keeps its own handler waiting for `log_file_mutex`: because it holds it, or because it holds `clients_now_count_mutex`, for which the holder waits | 2 clients who guess right, two signals on any threads at any points |
| `game_progress` | the thread of a killed client ends; every player is answered | 2 clients, either of which may be killed |
| `game_limit` | **violation**: the limit of clients is exceeded | 2 clients, limit 1 |
| `game_signal` | **violation**: a signal is not followed by the end of the process, since the handler waits for its own thread | 2 clients |
| `semaphore` | the semaphores match the buffer, which is a first-in first-out queue; who ends after the flag is set | 2 producers, 2 consumers, 2 places, 2 items |
| `mutex` | the buffer is a first-in first-out queue; the program ends | the same |
| `processes` | the shell's timeout hits only its command and gives the prompt back; no more primes are reported than were read, until the input has ended with a prime as the last number, and the child follows its parent; the barrier, the alternation and the lock hold and end; both ends of a game stay in step, no request is answered and no line scored twice, and neither waits for the other | shell: 3 commands; primes: inputs of up to 3 tokens over 1, 4, 5 and a non-integer, 3 notices; alternation: the 5 turns of the source; counting: 4 iterations; game: messages of 4 bytes with a header of 2, 3 reads per message, 2 guesses, 3 requests, lines that are the secret, another code, too short or as long as the buffer, and the end of the input; sends that stop half way, a killed client and a shutdown |

Several properties are conjunctions of named parts that together say one thing,
such as `RunsOneByOne`, `PcbListsIntact` and `ThreadSamplesAreSafe`. The type
invariants of the schedulers and the server are parts of `RunsOneByOne`,
`ProcessLifecycle` and `NowCountAccountsForThreads`; those of the memory manager
and of the producers and consumers are proved instead.

Two clients with a limit of one are enough for a refused client, a race for the
last slot and a second writer to the log. Codes are one character long in the
server runs because scoring is checked by itself in `sequential`. Three processes
are enough for a hole between two others and for evicting more than one. Four
nodes or blocks are enough for a middle with a neighbour on each side and one to
insert. A message of four bytes can be cut inside its header, after it and
inside the rest; three reads can fail to get it, and leave a rest that shifts the
next message. In `game_shutdown` wrong guesses are left out to make room for the
second signal: they only repeat sections a signal meets in a right one.

`MaxTime` stops the client's clock, `MaxCommands`, `MaxNotices` and `MaxRequests` the
sessions of `processes`, `MaxScan` a scan past the end of the input, and
`MaxSignals` the signals; nothing else is cut off, since input files, guesses and
connections are finite anyway. Symmetry is used in `sequential` (of
the processes of the memory manager) and `game`, which check no liveness.

Deadlock checking is off in `game_shutdown`, `game_signal`, `semaphore`,
`sequential`, `list_pop` and `processes`: after `exit` or a last step, after undefined
behaviour, in a handler that waits for its own thread, or once the threads starve,
these programs do stop. That the memory manager never hangs in a swap-in is
checked with the schedulers (`AllTerminate`).

### Fairness

- The schedulers: the loop goes on; it is sequential code. That a swap-in ends is
  part of `AllTerminate`.
- `GameServer!ThreadFairness`: a thread that can run does. `PeerFairness`, for
  `game_progress` and `game_signal`: connections are accepted, clients read, the
  kernel reports a closed connection to a thread that keeps writing, and a user
  asked again and again types a valid code some time.
- Semaphore program: strong fairness of each thread, that is, a thread waiting on
  a semaphore that is posted over and over gets it some time. POSIX does not
  promise this in general; `ExitOrStarve` says what is true even then.
- Mutex program: weak fairness of each thread.
- `Shell`: the shell is scheduled, `execve` returns and time passes. Nothing says
  that a program ends or that the user types.
- `SignalPrime`: the kernel delivers pending signals and schedules the child;
  nothing is assumed of the parent, which waits for its user.
- Thread samples: weak fairness of each thread; each semaphore and the lock is
  wanted by a thread that nobody can overtake again and again.
- `GameStream`: both programs are scheduled, bytes arrive, and a user who is asked
  types something or ends the input. A user who does neither is the one way a
  server waits for ever.

### Where the code and its comments disagree

Three disagreements have a run of their own:

1. `server.c:436`: the limit of clients is tested on a count raised later, at 512
   (`game_limit`).
2. `server.c:93`: the handler waits for a mutex the interrupted thread holds
   (`game_signal`).
3. `linked-list.c:297`: `poplinkedlist` returns the only element of a list and
   leaves it there, although line 72 says it removes it (`list_pop`).

The others show as an exception in a property, or as an assumption:

4. `server.c:447`: failing to send to a refused client ends the main thread; hence
   the exception in `EveryPlayerIsAnswered`, which takes a third client to meet.
5. `server.c:83`: a second signal finds the socket and the log closed; hence the
   undefined behaviour in `ShutdownEndsOrDeadlocks`. The waiting in it needs only one
   signal: under `clients_now_count_mutex` (163, 171) it takes a second thread, which
   counts a new client at 512.
6. `producer-consumer-problem-semaphore.c:183`: threads that wait when the program
   exits are never woken, and main joins them for ever (`ExitOrStarve`).
7. `process-data-file-parser.c:75`: a line of three tokens passes the test and a
   null pointer is converted (last part of `ReturnsTheCompleteLines`).
8. `memory-management.c:140`: swapping out a process of size 0 leaves an empty
   segment, which can come between two contiguous ones; hence the assumption
   that no size is 0 in two theorems.
9. `my-shell.c:354`: an alarm between the return of `wait` and `alarm(0)` makes
   `kill` fail, which ends the shell (`TimeoutHitsItsCommand` says exactly when).
10. `my-shell.c:161` and `signal-prime-number.c:111`: at the end of the input
   `read` returns 0 and `scanf` returns EOF, which neither program tells from
   success; one stores unread bytes for ever, the other goes on with its last
   number, and reports it for ever if it is prime; hence the exception in
   `OnlyPrimesReported`.
11. `message-helpers.c:32`: after five short reads the rest of a message is taken
   for the start of the next; hence the exception in `InStep`, and the lines read
   from the wrong place in `GuessesIn`.

## What is proved

TLAPS checks the theorems below for every value of the constants that satisfies
the named assumptions of the modules. Each rests on an inductive invariant: it
holds initially, every action keeps it, and it implies the property. The proofs
have one case per action.

**Memory manager** (`MemoryManagementProofs`, `MemoryClientProofs`), for any set of
processes, any memory size above 0 and any sizes and ids: `TypeCorrect`,
`MemoryIsPartitioned`, `EvictionOrder`, and, when no process has size 0,
`HolesStaySeparated`, `UninitialisedOnlyIfOversized` and
`MemoryManagerImplementsMap`. Without the exclusion of size 0 the first two of these
fail: an empty segment can keep two others apart.

- First come lemmas on the free list. Consolidation keeps the cells covered and
  the segments disjoint, by following the loop's successive lists. On an ordered
  list without empty segments it leaves no two that touch. Inserting adds exactly
  the new cells, and occupying removes exactly the cells handed out.
- Each operation keeps `MemInv == MemTypeOK /\ MemoryPartition`. The partition alone
  is not inductive: a release is right only if the process is linked and
  resident, which the type invariant says. `SizedInv` adds separated holes,
  positive sizes, and that a fault concerns an oversized process. With it, memory
  without residents is one hole of the full size, so a process that fits in memory
  is always placed.
- For the refinement, a hole of the free list is shown to be a longest run of cells
  without owner in `MemoryMap`, and the other way round. The first hole the code
  finds large enough is then the highest one, and each operation changes the
  owners of exactly the cells the map says.

**Multi-level feedback queue** (`SchedulerProofs`), for any input files, number of
levels, quanta and memory size: `LifeOfAProcess`, `SchedulerKeepsPartition` and
`DemotionAccounts`. `SchedInv` joins the life cycle, `MemInv`, `SwapTimes` (a process
came to memory before now, or now and then nobody else did) and `Loading` (a
swap-in in progress is that of the running process). `Accounts` adds to
`DemotionAccountsForCpuTime`, which is about waiting processes, what the running one
has used of its quantum; an arrival or a swap-in may fall in between.

**Linked structures** (`ListProofs`), for any nodes, blocks, lists, data and ranks:

- `NodesForm` and `ListImplementsDataList`, about `linked-list.c`. The inductive
  invariant `ListInv` says that some sequence is the `Chain` of the heap: it lists the
  allocated nodes once each from head to foot, with their next pointers, and has
  length `size`. A pop of the only element is the one step that is not a step of
  `DataList`. Linking in a node and taking one out give the edited
  sequence as the new chain; that `Walk` finds the chain is an induction along it.
- `ListsStayIntact`, about the queues of process control blocks, put together
  from `ListsAreTheirContents`, `BlocksInOnePlace` and `QueuesStaySorted`. These speak
  of the moments between two calls; `PcbInv` adds what holds during a walk: where
  `prev_pcb` and `curr_pcb` are in the list, that every block passed in a sorted list
  goes before the one to insert, and that a block in the runner's hands has no next
  pointer. The last is why appending to an empty list is right.

**Game server** (`GameServerProofs`, `GameLogProofs`), for any clients and limits, with
failing sends, killed clients and any number of signals: `NowCountExact`,
`LocksExclude` (of `log_file_mutex` and `clients_now_count_mutex`), `PairsStayAdjacent` and `StatsMatchLog`.

- `ServerInv`, for the first two, says where each thread can be and what its
  connection is then (`ControlInv`, `ConnInv`, `GameInv`); that the count is the number
  of threads between raising it and giving it back (`CountInv`); that at most one
  run of the handler gets past its lock, and who holds the two mutexes (`HandlerInv`,
  `LockInv`, `CountLockInv`).
- `LogInv`, for the others, adds whose section is open while the last line of the log
  is the first of a pair (`TailInv`), and the counters of connections and successes as numbers of logged
  lines, corrected by the threads on the way between the line and the counter
  (`StatsInv`).

**Byte streams of a game** (`ProcessesProofs`), for any message size, header size,
limit of reads and number of guesses: `RequestsCountOnce` and `StaysInStep`.
`StreamInv` counts the marks that make a request or a code, the first byte of a
request and the end of a line, in the sockets and in the buffers: each is in one
place however messages are cut, and no code is read without the end of a line, which
is why even a code found in the wrong place uses up a line that was typed. `AlignedInv` says, as long as nothing has
gone wrong, that what a reader has of a message, followed by what is on its way, is
whole messages with every byte at its place. `Reading` says where in the two programs
nothing of a message has been read.

**Producers and consumers** (`ProducerConsumerProofs`). For any finite sets of
threads, any length and any items, both programs keep their types and implement
`BoundedQueue` (`MutexImplementsQueue`, `SemaphoreImplementsQueue`): every step maps
to a step of the queue or to a stutter. `SectionInv` says what the array and the
count hold at each point inside a section, so that the buffer as a queue changes
at one step only. `MutexInv` adds that the thread in a section holds the mutex.
`SemInv` adds that the binary semaphore is down exactly then, and
`SemaphoresMatchBuffer`, which counts the threads between a wait and a post and is
proved itself (`SemaphoresMatch`); with it a thread in its section finds a place or
an item.

**Workshop processes and threads** (`ProcessesProofs`).

- `ThreadSamplesSafe`, put together from `BarrierHolds`, `TurnsExclude`,
  `EveryValuePrinted`, `LockedCountExact` and `LostAdditionsBounded`. `BarrierInv`
  counts posts; `TurnInv` says that exactly one of the two semaphores and the two
  threads has the turn, and what n is then. `CountInv` says with the lock that only
  its holder is in the loop and that the count is the number of additions; without
  it, that the count is at least 1 after the first addition, so that a thread past
  its own first one never loads less than 1 and the last store is of 2 or more.
  `thread2.c` takes its number of iterations from the command line; with 1 only 1 may
  be left, which is why the assumption asks for 2.
- `TimeoutIsForItsCommand`: the shell, for any number of commands. `ShellInv` ties
  the pending alarm and the child's id to the place of the shell.
- `PrimesReported`: the prime finder, for any input. The property counts a
  pending signal among the reports, and allows more of them than primes read only once
  the input has ended and `n` is prime; `PrimeInv` adds that the handlers are set before
  there is a child, and what the parent may still report of the number it holds. That divisors up to half the number are enough is a lemma.

The proofs assume nothing about fairness.

**Only model-checked.** Everything about liveness. `FeedbackIsMastermind`,
`ArgvIsTheWords`, `ReturnsTheCompleteLines`, `RunsOneByOne` and `SessionTellsTheGame`
compare what the code leaves with a definition that runs over a whole code,
string, file, schedule or log. They need an induction over that data. The library's
induction theorems take an operator as a parameter, which the provers cannot
instantiate; the one induction above, that `Walk` finds the chain, is over a set of
natural numbers and goes from the least place where it would fail.
`StatusLinesConsistent` and `ActsLikeFcfs` relate a printed line, or the state of
another scheduler, to the one at hand; `SpecOutputReproduced` is about one input.

## Not modelled

- `simulation.c`, `resource-usage.c`, the formatting in `print-helpers.c`,
  printing and freeing functions: no state that a property could be about.
- Functions nothing calls: `preempt_pcb`, `receive_raw_message`.
- Overflow of `100 * memusagesize`, which takes memory sizes out of reach of a
  run, and a memory size of 0, which divides by 0 on every input.
- Failures while a program starts: `malloc`, `sem_init`, `pthread_create` of the
  samples, opening sockets and files.
- Lines longer than `LINE_MAX_LEN`, and the digits `atoi` reads.
- The socket, file and process samples, `my-stat.c`, `badbuf` and the Python
  scripts: each shows one system or library call and keeps no state between steps.

## Plan

1. The schedulers on `PcbQueues` in place of sequences.
2. `WithinArray` of the parser and of the shell's input as theorems: the bounds need no
   induction over the file, unlike the rest of `ReturnsTheCompleteLines` and
   `ArgvIsTheWords`.
