------------------------------ MODULE SessionMove ------------------------------
(***************************************************************************)
(* What the relocation of a session promises: the session has one home at  *)
(* any time, it moves in one step, and a move counts one generation.       *)
(***************************************************************************)
EXTENDS Naturals

CONSTANT Cwds

VARIABLES home, gen

Init == home \in Cwds /\ gen = 0

Move == /\ home' \in Cwds \ {home}
        /\ gen' = gen + 1

Spec == Init /\ [][Move]_<<home, gen>>
=============================================================================
