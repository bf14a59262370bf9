----------------------------- MODULE MCMinting ------------------------------
(***************************************************************************)
(* Two trips of one driver: t1 saved two units of CO2, t2 so little that   *)
(* it is rounded to none.                                                  *)
(***************************************************************************)
EXTENDS Minting, TLC

CONSTANTS t1, t2, u1

MCDriver == t1 :> u1 @@ t2 :> u1
MCCo2 == t1 :> 2 @@ t2 :> 0
=============================================================================
