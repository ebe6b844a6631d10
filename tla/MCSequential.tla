---------------------------- MODULE MCSequential ----------------------------
(***************************************************************************)
(* The sequential parts of the repository side by side, for TLC: a         *)
(* behaviour is one of the programs, and the variables of the others stay  *)
(* as they are.                                                            *)
(***************************************************************************)
EXTENDS MemoryClient, LinkedList, PcbQueues, ProcessDataFile, SecretCodeRounds, ShellInput, TLC

CONSTANTS ShortFile, LongFile, LongestInput

(* Every file of up to ShortFile lines of 0 to 5 tokens, and the files of  *)
(* LongFile lines that make the array grow, with skipped lines anywhere.   *)
SomeFiles ==
    UNION {[1 .. k -> 0 .. 5] : k \in 0 .. ShortFile} \cup [1 .. LongFile -> {2, 4}]

(* Every input of up to LongestInput characters. *)
SomeInputs == UNION {[1 .. k -> Chars] : k \in 0 .. LongestInput}

SomeCode == CHOOSE code \in Codes : TRUE

(* Every guess that is a code against every secret, and every buffer that  *)
(* is none against one of them.                                            *)
SomeGuesses(secret) == IF secret = SomeCode THEN Buffers ELSE Codes

Symmetry == Permutations(Procs)

VARIABLE program

allVars == <<program, vars, listVars, pcbVars, parserVars, roundVars, inputVars>>

SequentialInit ==
    /\ program \in {"memory", "list", "queues", "parser", "codes", "line"}
    /\ Init /\ ListInit
    /\ IF program = "queues" THEN PcbInit
       ELSE /\ pcbs_list = CHOOSE l \in Lists : TRUE
            /\ rank = [p \in Pcbs |-> CHOOSE r \in Ranks : TRUE]
            /\ PcbInit
    /\ IF program = "parser" THEN ParserInit ELSE file = <<>> /\ ParserInit
    /\ IF program = "codes" THEN RoundInit
       ELSE /\ secret_code = SomeCode
            /\ buffer = NotACode /\ feedback = NoFeedback
    /\ IF program = "line" THEN InputInit ELSE stdin = <<>> /\ InputInit

SequentialNext ==
    /\ UNCHANGED program
    /\ \/ /\ program = "memory" /\ Next
          /\ UNCHANGED <<listVars, pcbVars, parserVars, roundVars, inputVars>>
       \/ /\ program = "list" /\ ListNext
          /\ UNCHANGED <<vars, pcbVars, parserVars, roundVars, inputVars>>
       \/ /\ program = "queues" /\ PcbNext
          /\ UNCHANGED <<vars, listVars, parserVars, roundVars, inputVars>>
       \/ /\ program = "parser" /\ ParserNext
          /\ UNCHANGED <<vars, listVars, pcbVars, roundVars, inputVars>>
       \/ /\ program = "codes" /\ RoundNext
          /\ UNCHANGED <<vars, listVars, pcbVars, parserVars, inputVars>>
       \/ /\ program = "line" /\ InputNext
          /\ UNCHANGED <<vars, listVars, pcbVars, parserVars, roundVars>>

SequentialSpec == SequentialInit /\ [][SequentialNext]_allVars

=============================================================================
