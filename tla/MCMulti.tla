------------------------------ MODULE MCMulti ------------------------------
EXTENDS MultiFcfs, MCScheduler

MultiInputs == AllFiles \cup OneIdFiles \cup SpecInput

(***************************************************************************)
(* The lines printed for specInput.txt are those of                        *)
(* project1/tests/specOutput-multi-100.txt, and the time at the end is 60: *)
(* queues, quanta, evictions, holes and percentages all agree with it.     *)
(***************************************************************************)
SpecOutputReproduced ==
  pc = "done" /\ scheduled_processes \in SpecInput =>
    /\ time = 60
    /\ output = Lines(
         <<0, 2, 6, 8, 10, 14, 18, 26, 28, 32, 40, 44, 45, 53, 59>>,
         <<4, 4, 2, 1, 2, 1, 4, 3, 3, 2, 1, 4, 3, 2, 3>>,
         <<1, 1, 1, 1, 1, 1, 1, 1, 1, 2, 1, 1, 1, 2, 1>>,
         <<1, 1, 1, 0, 1, 0, 1, 1, 1, 1, 0, 1, 1, 1, 1>>,
         <<98, 98, 33, 100, 33, 100, 98, 5, 5, 38, 100, 98, 5, 38, 5>>)
=============================================================================
