----------------------------- MODULE ShellInput -----------------------------
(***************************************************************************)
(* How the shell of workshop/my-shell.c reads a line: strscan collects the *)
(* characters up to a newline in a string that grows, and strsplit cuts    *)
(* the string into words in an array that grows.  A string is a function   *)
(* on the indices allocated; Unset is a byte never written.  A character   *)
(* is Space, Newline or some other one.                                    *)
(*                                                                         *)
(* At the end of the input read stores nothing and strscan goes on with    *)
(* the byte that happens to be there, which is anything.                   *)
(***************************************************************************)
EXTENDS Integers, SequencesExt

CONSTANTS
    Inputs,                       \* sequences of characters: the rest of stdin
    Letters, Space, Newline, NullByte, Unset,
    STRSCAN_INITIAL_MAX_STR_LEN, STRSCAN_STR_LEN_GROW_FACTOR,
    STRSPLIT_INITIAL_MAX_STR_ARRAY_LEN, STRSPLIT_STR_ARRAY_LEN_GROW_FACTOR,
    MaxScan                       \* bound on the characters strscan stores

Chars == Letters \cup {Space, Newline}

ASSUME InputAssumption ==
    /\ Inputs \subseteq Seq(Chars)
    /\ STRSCAN_INITIAL_MAX_STR_LEN \in Nat \ {0}
    /\ STRSCAN_STR_LEN_GROW_FACTOR \in Nat \ {0, 1}
    /\ STRSPLIT_INITIAL_MAX_STR_ARRAY_LEN \in Nat \ {0}
    /\ STRSPLIT_STR_ARRAY_LEN_GROW_FACTOR \in Nat \ {0, 1}
    /\ MaxScan \in Nat

VARIABLES
    stdin,                                    \* all of the input
    s, slen, maxslen,                         \* of strscan
    strarray, strarraylen, maxstrarraylen,    \* of strsplit
    strarrayi,
    input_pc                                  \* "scan", "split" or "done"

inputVars == <<stdin, s, slen, maxslen, strarray, strarraylen, maxstrarraylen,
               strarrayi, input_pc>>

Allocated(n) == [i \in 0 .. n |-> Unset]

InputInit ==
    /\ stdin \in Inputs
    /\ s = Allocated(STRSCAN_INITIAL_MAX_STR_LEN) /\ slen = 0
    /\ maxslen = STRSCAN_INITIAL_MAX_STR_LEN
    /\ strarray = Allocated(STRSPLIT_INITIAL_MAX_STR_ARRAY_LEN) /\ strarraylen = 0
    /\ maxstrarraylen = STRSPLIT_INITIAL_MAX_STR_ARRAY_LEN
    /\ strarrayi = 0
    /\ input_pc = "scan"

(* The array a after realloc to the indices 0 to n. *)
Realloc(a, n) == [i \in 0 .. n |-> IF i \in DOMAIN a THEN a[i] ELSE Unset]

-----------------------------------------------------------------------------
(* What the byte at slen can hold after read. *)
ReadAny == IF slen < Len(stdin) THEN {stdin[slen + 1]} ELSE Chars \cup {NullByte}

(* One turn of the loop of strscan. *)
StrScan ==
    /\ input_pc = "scan" /\ slen < MaxScan
    /\ maxslen' = IF slen >= maxslen THEN maxslen * STRSCAN_STR_LEN_GROW_FACTOR ELSE maxslen
    /\ slen' = slen + 1
    /\ \E c \in ReadAny :
          /\ s' = [Realloc(s, maxslen') EXCEPT ![slen] = IF c = Newline THEN NullByte ELSE c]
          /\ input_pc' = IF c = Newline THEN "split" ELSE "scan"
    /\ UNCHANGED <<stdin, strarray, strarraylen, maxstrarraylen, strarrayi>>

-----------------------------------------------------------------------------
(* strlen *)
OrigStrLen == CHOOSE n \in DOMAIN s : s[n] = NullByte /\ \A i \in 0 .. n - 1 : s[i] # NullByte

SkipDelimiter ==
    /\ input_pc = "split" /\ strarrayi < OrigStrLen
    /\ s[strarrayi] = Space
    /\ strarrayi' = strarrayi + 1
    /\ UNCHANGED <<stdin, s, slen, maxslen, strarray, strarraylen, maxstrarraylen, input_pc>>

(* Faulty variant: the inner loop stops after one letter. *)
TokenEnd_OneLetter == strarrayi + 1

(* strarrayj after the inner loop. *)
TokenEnd ==
    CHOOSE j \in strarrayi .. OrigStrLen :
        /\ j = OrigStrLen \/ s[j] = Space
        /\ \A k \in strarrayi .. j - 1 : s[k] # Space

SplitGrows == strarraylen >= maxstrarraylen

(* A word is copied and stored. *)
StoreToken ==
    /\ input_pc = "split" /\ strarrayi < OrigStrLen
    /\ s[strarrayi] # Space
    /\ maxstrarraylen' = IF SplitGrows
                         THEN maxstrarraylen * STRSPLIT_STR_ARRAY_LEN_GROW_FACTOR
                         ELSE maxstrarraylen
    /\ strarray' = [Realloc(strarray, maxstrarraylen') EXCEPT
                       ![strarraylen] = [k \in 1 .. TokenEnd - strarrayi |-> s[strarrayi + k - 1]]]
    /\ strarraylen' = strarraylen + 1
    /\ strarrayi' = TokenEnd
    /\ UNCHANGED <<stdin, s, slen, maxslen, input_pc>>

EndSplit ==
    /\ input_pc = "split" /\ strarrayi >= OrigStrLen
    /\ strarray' = [strarray EXCEPT ![strarraylen] = NullByte]
    /\ input_pc' = "done"
    /\ UNCHANGED <<stdin, s, slen, maxslen, strarraylen, maxstrarraylen, strarrayi>>

InputNext == StrScan \/ SkipDelimiter \/ StoreToken \/ EndSplit

InputSpec == InputInit /\ [][InputNext]_inputVars

-----------------------------------------------------------------------------
(* The line of the input: its characters up to the first newline. *)
Line == SubSeq(stdin, 1, SelectInSeq(stdin, LAMBDA c : c = Newline) - 1)

(* The words of a line: its longest stretches without a space, in order. *)
Words(line) ==
    LET isStart(i) == line[i] # Space /\ (i = 1 \/ line[i - 1] = Space)
        isEnd(i) == line[i] # Space /\ (i = Len(line) \/ line[i + 1] = Space)
        starts == SetToSortSeq({i \in DOMAIN line : isStart(i)}, <)
        ends == SetToSortSeq({i \in DOMAIN line : isEnd(i)}, <)
    IN  [n \in DOMAIN starts |-> SubSeq(line, starts[n], ends[n])]

(* Every byte and every pointer the two loops store, the terminating ones  *)
(* included, lies in the memory allocated by then, through every growth    *)
(* (lines 149-158, 248-264), at the end of the input too.                  *)
StaysAllocated ==
    /\ DOMAIN s = 0 .. maxslen /\ slen - 1 =< maxslen
    /\ DOMAIN strarray = 0 .. maxstrarraylen /\ strarraylen =< maxstrarraylen

(* What main reads up to the null pointer is the words of the line, all of *)
(* them and whole, whatever the spaces around them (lines 56-70, 133-267), *)
(* and every store on the way stayed allocated.                            *)
ArgvIsTheWords ==
    /\ StaysAllocated
    /\ input_pc = "done" /\ Contains(stdin, Newline) =>
          LET end == CHOOSE n \in DOMAIN strarray :
                        strarray[n] = NullByte /\ \A i \in 0 .. n - 1 : strarray[i] # NullByte
          IN  [n \in 1 .. end |-> strarray[n - 1]] = Words(Line)

=============================================================================
