------------------------------- MODULE MCTime -------------------------------
(***************************************************************************)
(* The time service for TLC: clients that can be exchanged for each other, *)
(* or of which those with a timeout are started twice.                     *)
(***************************************************************************)
EXTENDS TimeService, TLC

Symmetry == Permutations(Client)

MCOnce  == [c \in Client |-> 1]
MCAgain == [c \in Client |-> IF c \in HasTimeout THEN 2 ELSE 1]
=============================================================================
