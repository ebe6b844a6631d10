-------------------------- MODULE SecretCodeRounds --------------------------
(***************************************************************************)
(* Rounds of the game: a secret code from the program argument or at       *)
(* random, then any buffer of the right length as a guess.                 *)
(***************************************************************************)
EXTENDS SecretCode

CONSTANTS
    NoFeedback,
    Guesses(_)     \* the buffers tried against a secret code

VARIABLES
    secret_code,
    buffer,        \* what receive_message left in the thread's buffer
    feedback       \* the counts and the result of the last guess

roundVars == <<secret_code, buffer, feedback>>

(* The codes a thread can play with: the program argument if it is one,    *)
(* else a random code (server.c:316-323, 516-519).                         *)
SecretCodes == {arg \in Buffers : IsValidSecretCode(arg)} \cup RandomSecretCodes

RoundInit ==
    /\ secret_code \in SecretCodes
    /\ buffer = NotACode
    /\ feedback = NoFeedback

(* A valid guess gets its feedback, an invalid one none (server.c:546-562). *)
Guess(buf) ==
    /\ buffer' = buf
    /\ feedback' = IF IsValidSecretCode(buf)
                   THEN GetSecretCodeGuessFeedback(secret_code, buf)
                   ELSE NoFeedback
    /\ UNCHANGED secret_code

(* The round is over. *)
NextRound ==
    /\ buffer # NotACode
    /\ buffer' = NotACode
    /\ feedback' = NoFeedback
    /\ UNCHANGED secret_code

RoundNext ==
    \/ buffer = NotACode /\ \E buf \in Guesses(secret_code) : Guess(buf)
    \/ NextRound

RoundSpec == RoundInit /\ [][RoundNext]_roundVars

(* The secret is a string of SECRET_CODE_LEN colours whatever the argument *)
(* was; a guess is scored exactly if it is such a string, although         *)
(* is_valid_secret_code only walks to the first character it rejects; and  *)
(* the two marking loops of get_secret_code_guess_feedback compute the     *)
(* score of Mastermind's rules: a colour counts as often as both codes     *)
(* have it and never for a position already hit, and the result is 1       *)
(* exactly for the secret itself.                                          *)
FeedbackIsMastermind ==
    /\ secret_code \in Codes
    /\ feedback = IF buffer \in Codes THEN Mastermind(secret_code, buffer) ELSE NoFeedback

=============================================================================
