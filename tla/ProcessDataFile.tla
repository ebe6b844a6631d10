-------------------------- MODULE ProcessDataFile ---------------------------
(***************************************************************************)
(* parse_process_data_file (project1/process-data-file-parser.c).  A line  *)
(* of the file is the number of its tokens; the scheduled process made     *)
(* from line n is n.  The array is a function on the indices allocated,    *)
(* one more than scheduled_procs_max_len; Garbage is an entry not written. *)
(***************************************************************************)
EXTENDS Integers, SequencesExt

CONSTANTS
    Files,                                 \* sequences of token counts
    TOKENS_LEN,
    INITIAL_SCHEDULED_PROCS_MAX_LEN,
    SCHEDULED_PROCS_MAX_LEN_GROW_FACTOR,
    Null, Garbage

ASSUME ParserAssumption ==
    /\ Files \subseteq Seq(Nat)
    /\ TOKENS_LEN \in Nat \ {0}
    /\ INITIAL_SCHEDULED_PROCS_MAX_LEN \in Nat \ {0}
    /\ SCHEDULED_PROCS_MAX_LEN_GROW_FACTOR \in Nat \ {0, 1}

VARIABLES
    file,
    line,              \* how many lines have been read
    scheduled_procs, scheduled_procs_len, scheduled_procs_max_len,
    state              \* "reading", "returned", or "undefined" after atoi(NULL)

parserVars == <<file, line, scheduled_procs, scheduled_procs_len,
                scheduled_procs_max_len, state>>

ParserInit ==
    /\ file \in Files
    /\ line = 0
    /\ scheduled_procs = [i \in 0 .. INITIAL_SCHEDULED_PROCS_MAX_LEN |-> Garbage]
    /\ scheduled_procs_len = 0
    /\ scheduled_procs_max_len = INITIAL_SCHEDULED_PROCS_MAX_LEN
    /\ state = "reading"

-----------------------------------------------------------------------------
(* The count after the strtok loop: the NULL that ends a short line is     *)
(* counted, and stored, like a token.                                      *)
TokensCount(n) == IF n + 1 < TOKENS_LEN THEN n + 1 ELSE TOKENS_LEN

Skips(n) == TokensCount(n) # TOKENS_LEN

NextLine == file[line + 1]

Reads == state = "reading" /\ line < Len(file)

SkipLine ==
    /\ Reads
    /\ Skips(NextLine)
    /\ line' = line + 1
    /\ UNCHANGED <<file, scheduled_procs, scheduled_procs_len,
                   scheduled_procs_max_len, state>>

(* The last token used is the NULL at the end of the line. *)
ConvertNull ==
    /\ Reads
    /\ ~Skips(NextLine) /\ NextLine < TOKENS_LEN
    /\ state' = "undefined"
    /\ UNCHANGED <<file, line, scheduled_procs, scheduled_procs_len,
                   scheduled_procs_max_len>>

(* Faulty variant: the array grows one process too late. *)
IsFull_Late == scheduled_procs_len > scheduled_procs_max_len

IsFull == scheduled_procs_len = scheduled_procs_max_len

(* The array, reallocated first if it is full, with the process added. *)
AddProcess ==
    /\ Reads
    /\ ~Skips(NextLine) /\ NextLine >= TOKENS_LEN
    /\ scheduled_procs_max_len' =
          scheduled_procs_max_len * (IF IsFull THEN SCHEDULED_PROCS_MAX_LEN_GROW_FACTOR ELSE 1)
    /\ scheduled_procs' =
          [i \in 0 .. scheduled_procs_max_len' |->
              CASE i = scheduled_procs_len -> line + 1
                [] i # scheduled_procs_len /\ i \in DOMAIN scheduled_procs -> scheduled_procs[i]
                [] OTHER -> Garbage]
    /\ scheduled_procs_len' = scheduled_procs_len + 1
    /\ line' = line + 1
    /\ UNCHANGED <<file, state>>

(* The end of the file: the array is ended with a null pointer. *)
Return ==
    /\ state = "reading" /\ line = Len(file)
    /\ scheduled_procs' = [scheduled_procs EXCEPT ![scheduled_procs_len] = Null]
    /\ state' = "returned"
    /\ UNCHANGED <<file, line, scheduled_procs_len, scheduled_procs_max_len>>

ParserDone == state # "reading" /\ UNCHANGED parserVars

ParserNext == SkipLine \/ ConvertNull \/ AddProcess \/ Return \/ ParserDone

ParserSpec == ParserInit /\ [][ParserNext]_parserVars

-----------------------------------------------------------------------------
(* The entries written stay inside the array through every growth, the     *)
(* null pointer included (lines 93-108).                                   *)
WithinArray ==
    /\ DOMAIN scheduled_procs = 0 .. scheduled_procs_max_len
    /\ scheduled_procs_len =< scheduled_procs_max_len

(* What the runners read, up to the null pointer, is the lines with enough *)
(* tokens, all of them and in the order of the file (lines 62-110), and    *)
(* nothing was stored outside the array on the way.  Only a file with a    *)
(* line one token short never gets there.                                  *)
ReturnsTheCompleteLines ==
    /\ WithinArray
    /\ state = "returned" =>
          LET end == CHOOSE i \in DOMAIN scheduled_procs : scheduled_procs[i] = Null
              lines == [n \in 1 .. Len(file) |-> n]
          IN  [i \in 1 .. end |-> scheduled_procs[i - 1]]
                  = SelectSeq(lines, LAMBDA n : file[n] >= TOKENS_LEN)
    /\ state = "undefined" => TOKENS_LEN - 1 \in Range(file)

=============================================================================
