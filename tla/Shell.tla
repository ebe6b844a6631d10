------------------------------- MODULE Shell --------------------------------
(***************************************************************************)
(* The shell of workshop/my-shell.c: it prompts, forks a child for each    *)
(* command, and waits for it with an alarm that kills a child that takes   *)
(* too long.  A command is what main makes of the line: nothing, exit, a   *)
(* program to execute or a name execve rejects.  A process id is the       *)
(* number of the command; it is not used again.                            *)
(*                                                                         *)
(* The handler runs wherever the main program is when the alarm goes off.  *)
(* signal() has the semantics of the GNU library, with which the sources   *)
(* are built: a wait the handler interrupts is restarted.                  *)
(***************************************************************************)
EXTENDS Integers

CONSTANT MaxCommands      \* bound on the processes forked in a session

ASSUME ShellAssumption == MaxCommands \in Nat \ {0}

VARIABLES
    timeout,      \* whether the program argument is a positive timeout
    shell_pc,     \* "prompt", "fork", "forked", "waiting", "reaped", "exited", "failed"
    forked,       \* how many processes have been forked
    childpid,
    process,      \* of each process id: "none", "starting", "running", "zombie", "reaped"
    executable,   \* whether the current command can be executed
    alarm         \* "off", "set", or "expired" until the handler runs

shellVars == <<timeout, shell_pc, forked, childpid, process, executable, alarm>>

Pids == 1 .. MaxCommands

ShellInit ==
    /\ timeout \in BOOLEAN
    /\ shell_pc = "prompt"
    /\ forked = 0 /\ childpid = 0
    /\ process = [p \in Pids |-> "none"]
    /\ executable = FALSE
    /\ alarm = "off"

ShellGoto(point) == shell_pc' = point

(* The handler has priority over the code it interrupts. *)
ShellRuns == alarm # "expired"

-----------------------------------------------------------------------------
(* A line is read and split; a line without a word only prompts again. *)
ReadCommand ==
    /\ shell_pc = "prompt" /\ ShellRuns
    /\ \/ ShellGoto("exited") /\ UNCHANGED executable
       \/ /\ forked < MaxCommands
          /\ ShellGoto("fork")
          /\ executable' \in BOOLEAN
    /\ UNCHANGED <<timeout, forked, childpid, process, alarm>>

Fork ==
    /\ shell_pc = "fork" /\ ShellRuns
    /\ forked' = forked + 1
    /\ process' = [process EXCEPT ![forked + 1] = "starting"]
    /\ ShellGoto("forked")
    /\ UNCHANGED <<timeout, childpid, executable, alarm>>

ForkFails ==
    /\ shell_pc = "fork" /\ ShellRuns
    /\ ShellGoto("exited")
    /\ UNCHANGED <<timeout, forked, childpid, process, executable, alarm>>

(* Faulty variant: the alarm is set before the process id is stored. *)
SetAlarm_StaleChild ==
    /\ shell_pc = "forked" /\ ShellRuns
    /\ alarm' = IF timeout THEN "set" ELSE "off"
    /\ ShellGoto("waiting")
    /\ UNCHANGED <<timeout, forked, childpid, process, executable>>

(* Faulty variant: no alarm is set. *)
SetAlarm_Disarmed ==
    /\ shell_pc = "forked" /\ ShellRuns
    /\ childpid' = forked
    /\ ShellGoto("waiting")
    /\ UNCHANGED <<timeout, forked, process, executable, alarm>>

(* childpid = pid; alarm(timeout), which sets no alarm for 0. *)
SetAlarm ==
    /\ shell_pc = "forked" /\ ShellRuns
    /\ childpid' = forked
    /\ alarm' = IF timeout THEN "set" ELSE "off"
    /\ ShellGoto("waiting")
    /\ UNCHANGED <<timeout, forked, process, executable>>

(* wait(NULL) returns for any child that has ended. *)
Wait ==
    /\ shell_pc = "waiting" /\ ShellRuns
    /\ \E p \in Pids :
          /\ process[p] = "zombie"
          /\ process' = [process EXCEPT ![p] = "reaped"]
    /\ ShellGoto("reaped")
    /\ UNCHANGED <<timeout, forked, childpid, executable, alarm>>

(* alarm(0), and the memory of the command is freed. *)
StopAlarm ==
    /\ shell_pc = "reaped" /\ ShellRuns
    /\ alarm' = "off"
    /\ ShellGoto("prompt")
    /\ UNCHANGED <<timeout, forked, childpid, process, executable>>

-----------------------------------------------------------------------------
AlarmExpires ==
    /\ alarm = "set"
    /\ shell_pc \notin {"exited", "failed"}
    /\ alarm' = "expired"
    /\ UNCHANGED <<timeout, shell_pc, forked, childpid, process, executable>>

(* sighandler: kill fails for a process that has been waited for. *)
SigHandler ==
    /\ alarm = "expired"
    /\ alarm' = "off"
    /\ IF childpid \in Pids /\ process[childpid] \notin {"none", "reaped"}
       THEN /\ process' = [process EXCEPT ![childpid] = "zombie"]
            /\ UNCHANGED shell_pc
       ELSE /\ ShellGoto("failed")
            /\ UNCHANGED process
    /\ UNCHANGED <<timeout, forked, childpid, executable>>

-----------------------------------------------------------------------------
(* The child: execve, or the end with status 1 if that fails. *)
Execve(p) ==
    /\ process[p] = "starting"
    /\ process' = [process EXCEPT ![p] = IF executable THEN "running" ELSE "zombie"]
    /\ UNCHANGED <<timeout, shell_pc, forked, childpid, executable, alarm>>

(* The program ends, if it ever does. *)
ProgramEnds(p) ==
    /\ process[p] = "running"
    /\ process' = [process EXCEPT ![p] = "zombie"]
    /\ UNCHANGED <<timeout, shell_pc, forked, childpid, executable, alarm>>

ShellStep == Fork \/ ForkFails \/ SetAlarm \/ Wait \/ StopAlarm \/ SigHandler

KernelStep == AlarmExpires \/ \E p \in Pids : Execve(p)

ShellNext == ReadCommand \/ ShellStep \/ KernelStep \/ \E p \in Pids : ProgramEnds(p)

(* The shell is scheduled, execve returns, and time passes.  Nothing says  *)
(* that a program ends or that the user types.                             *)
ShellFairness == WF_shellVars(ShellStep) /\ WF_shellVars(AlarmExpires)
                 /\ \A p \in Pids : WF_shellVars(Execve(p))

ShellSpec == ShellInit /\ [][ShellNext]_shellVars /\ ShellFairness

-----------------------------------------------------------------------------
(* At the prompt nothing of an earlier command is left: every process has  *)
(* been waited for and no alarm is running that could hit the shell or the *)
(* next command (lines 344-359).                                           *)
PromptIsClean ==
    shell_pc \in {"prompt", "fork"} =>
        /\ alarm = "off"
        /\ \A p \in Pids : process[p] \in {"none", "reaped"}

(* A timeout only ever kills the command it was set for.  It ends the      *)
(* shell itself exactly when it goes off after wait has returned and       *)
(* before alarm(0) (lines 352-354): kill then has no process to kill.      *)
(* Nothing of it is left at the next prompt.                               *)
TimeoutHitsItsCommand ==
    /\ []PromptIsClean
    /\ [][alarm = "expired" =>
             /\ \A p \in Pids : process'[p] # process[p] => p = forked
             /\ shell_pc' = "failed" => shell_pc = "reaped"]_shellVars

(* With a timeout every command gives the prompt back, even one that never *)
(* ends, unless fork fails or that race ends the shell.                    *)
PromptComesBack ==
    (timeout /\ shell_pc = "fork") ~> (shell_pc \in {"prompt", "exited", "failed"})

=============================================================================
