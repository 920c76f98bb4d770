--------------------------- MODULE MCClientHandler ---------------------------
(***************************************************************************)
(* ClientHandler on two client ids.  The first client id sends one         *)
(* transaction in each of the first two sets, whose tokens nobody need     *)
(* take; in the third it has two, and so has to wait between them.         *)
(***************************************************************************)
EXTENDS ClientHandler, TLC

CONSTANTS a, b

MCLastTx == << a :> 1 @@ b :> 0, a :> 2 @@ b :> 1, a :> 4 @@ b :> 1 >>
=============================================================================
