----------------------------- MODULE SecretCode -----------------------------
(***************************************************************************)
(* The secret codes of the Mastermind game (project2/secret-code.c): the   *)
(* test that a buffer holds a code, the random code, and the feedback on a *)
(* guess.  A buffer is the first SECRET_CODE_LEN + 1 characters of a char  *)
(* array, the characters is_valid_secret_code looks at; every character    *)
(* that is neither a colour nor '\0' is Other.                             *)
(***************************************************************************)
EXTENDS Integers, FiniteSetsExt, Folds

CONSTANTS
    Colors,           \* SECRET_CODE_COLOR_0 .. SECRET_CODE_COLOR_5
    SECRET_CODE_LEN,
    NUL,              \* the character '\0'
    Other             \* any character that is not a colour and not '\0'

ASSUME SecretCodeAssumption ==
    /\ SECRET_CODE_LEN \in Nat \ {0}
    /\ IsFiniteSet(Colors) /\ Colors # {}
    /\ NUL \notin Colors /\ Other \notin Colors /\ NUL # Other

Positions == 1 .. SECRET_CODE_LEN
Buffers == [1 .. SECRET_CODE_LEN + 1 -> Colors \cup {NUL, Other}]

NotACode == [i \in 1 .. SECRET_CODE_LEN + 1 |-> Other]

(* The strings of exactly SECRET_CODE_LEN colours. *)
Codes == {b \in [1 .. SECRET_CODE_LEN + 1 -> Colors \cup {NUL}] :
             /\ \A i \in Positions : b[i] \in Colors
             /\ b[SECRET_CODE_LEN + 1] = NUL}

(***************************************************************************)
(* get_random_secret_code: one colour per position, then '\0'.             *)
(***************************************************************************)
RandomSecretCodes ==
    {[i \in 1 .. SECRET_CODE_LEN + 1 |->
         IF i = SECRET_CODE_LEN + 1 THEN NUL ELSE f[i]] : f \in [Positions -> Colors]}

(***************************************************************************)
(* is_valid_secret_code: the loop stops at the first character that is not *)
(* a colour, and i is where it stopped.                                    *)
(***************************************************************************)
IsValidSecretCode(buf) ==
    LET stops == {i \in Positions : buf[i] \notin Colors}
        i == IF stops = {} THEN SECRET_CODE_LEN + 1 ELSE Min(stops)
    IN  i = SECRET_CODE_LEN + 1 /\ buf[SECRET_CODE_LEN + 1] = NUL

(* Faulty variant: a position of the actual code is counted twice. *)
CountColor_RescansVisited(actual, guess, visited, i, acc) ==
    LET js == {j \in Positions : j \notin visited /\ guess[i] = actual[j]}
    IN  IF i \in visited \/ js = {}
        THEN acc
        ELSE [correct_colors_count |-> acc.correct_colors_count + 1,
              visited_2 |-> acc.visited_2 \cup {Min(js)}]

(***************************************************************************)
(* The second loop of get_secret_code_guess_feedback, for the guess        *)
(* position i: the first position of the actual code that is in neither    *)
(* visited nor visited_2 and has the colour guess[i] is counted and        *)
(* marked.                                                                 *)
(***************************************************************************)
CountColor(actual, guess, visited, i, acc) ==
    LET js == {j \in Positions :
                  j \notin visited \cup acc.visited_2 /\ guess[i] = actual[j]}
    IN  IF i \in visited \/ js = {}
        THEN acc
        ELSE [correct_colors_count |-> acc.correct_colors_count + 1,
              visited_2 |-> acc.visited_2 \cup {Min(js)}]

GetSecretCodeGuessFeedback(actual, guess) ==
    LET visited == {i \in Positions : guess[i] = actual[i]}
        colors == MapThenFoldSet(
                      LAMBDA i, acc : CountColor(actual, guess, visited, i, acc),
                      [correct_colors_count |-> 0, visited_2 |-> {}],
                      LAMBDA i : i,
                      LAMBDA S : Max(S),
                      Positions)
    IN  [correct_positions_count |-> Cardinality(visited),
         correct_colors_count |-> colors.correct_colors_count,
         correct |-> Cardinality(visited) = SECRET_CODE_LEN]

(***************************************************************************)
(* The rules of Mastermind, independent of the code's loops: a colour      *)
(* scores as often as both codes have it, less the exact hits.             *)
(***************************************************************************)
Occurrences(color, code) == Cardinality({i \in Positions : code[i] = color})

Mastermind(actual, guess) ==
    LET hits == Cardinality({i \in Positions : guess[i] = actual[i]})
        common == MapThenSumSet(
                      LAMBDA color : Min({Occurrences(color, actual),
                                          Occurrences(color, guess)}),
                      Colors)
    IN  [correct_positions_count |-> hits,
         correct_colors_count |-> common - hits,
         correct |-> actual = guess]

=============================================================================
