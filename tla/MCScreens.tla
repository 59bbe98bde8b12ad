----------------------------- MODULE MCScreens -----------------------------
(* Constants of the instance of Screens that TLC checks. *)
EXTENDS Screens

TwoRows == {1, 2}

\* The tables of "return" have the shape of those of "issue": one list that
\* operations filter, one search that they leave alone.
DifferentPages == {"orders", "issue", "deposits", "clients", "costumes", "notifications"}
=============================================================================
