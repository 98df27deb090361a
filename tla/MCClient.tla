------------------------------- MODULE MCClient -------------------------------
(* Instances of Client: two or three operations, a few losses.             *)
EXTENDS Client

CONSTANTS x1, x2, x3  \* operations

MCOne == {x1}
MCTwo == {x1, x2}
MCThree == {x1, x2, x3}
=============================================================================
