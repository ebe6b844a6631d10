---------------------------- MODULE MCGameServer ----------------------------
(***************************************************************************)
(* Small games for TLC: codes of SECRET_CODE_LEN characters in two         *)
(* colours, with the secret fixed by the program argument or at random.    *)
(***************************************************************************)
EXTENDS GameServer, TLC

CONSTANTS A, B

TwoColors == {A, B}

(* The code AA...A. *)
AllA == [i \in 1 .. SECRET_CODE_LEN + 1 |->
            IF i = SECRET_CODE_LEN + 1 THEN NUL ELSE A]

AllB == [i \in 1 .. SECRET_CODE_LEN + 1 |->
            IF i = SECRET_CODE_LEN + 1 THEN NUL ELSE B]

(* A right guess, a wrong one, and a line that is no code. *)
Guesses == {AllA, AllB, NotACode}
ValidGuesses == {AllA, AllB}
RightGuess == {AllA}
NoArgument == NotACode

Symmetry == Permutations(Clients)

=============================================================================
