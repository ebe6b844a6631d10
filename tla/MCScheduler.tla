---------------------------- MODULE MCScheduler ----------------------------
(***************************************************************************)
(* Input files for the schedulers: every file of up to MaxProcs processes  *)
(* with the given columns, in and out of arrival order; and the example of *)
(* project1/tests.                                                         *)
(***************************************************************************)
EXTENDS Integers, Sequences

CONSTANTS MaxProcs, StartTimes, MemorySizes, JobTimes

File(start_times, pids, sizes, job_times) ==
  [p \in DOMAIN pids |->
     [start_time |-> start_times[p], process_id |-> pids[p],
      memory_size |-> sizes[p], job_time |-> job_times[p]]]

Row(pids) ==
  [start_time : StartTimes, process_id : pids, memory_size : MemorySizes,
   job_time : JobTimes]

\* Process ids are distinct and not in the order of the file.
AllFiles ==
  UNION {{file \in [1 .. n -> Row(1 .. n)] :
            \A p \in 1 .. n : file[p].process_id = n + 1 - p} :
         n \in 0 .. MaxProcs}

\* All process ids the same, which nothing in the file format forbids.
OneIdFiles == UNION {[1 .. n -> Row({1})] : n \in 0 .. MaxProcs}

SpecInput ==
  {File(<<0, 3, 5, 20>>, <<4, 2, 1, 3>>, <<98, 33, 100, 5>>, <<15, 20, 10, 15>>)}

Lines(times, pids, numprocesses, numholes, memusage) ==
  [i \in DOMAIN times |->
     [time |-> times[i], process_id |-> pids[i],
      numprocesses |-> numprocesses[i], numholes |-> numholes[i],
      memusage |-> memusage[i]]]

Quanta_1_2_3 == <<1, 2, 3>>

Quanta_2_4_8 == <<2, 4, 8>>
=============================================================================
