------------------------------ MODULE MCFunds -------------------------------
(***************************************************************************)
(* Small instances of the wallet's money movements: a and b pay each       *)
(* other, a withdraws, buys, and sends money to itself, b has no wallet    *)
(* until it deposits or is paid.                                           *)
(***************************************************************************)
EXTENDS Funds, TLC

CONSTANTS a, b, p1, w1, t1, t2, t3

MCOwner == [r \in Refs |-> IF r \in {p1, t2} THEN b ELSE a]
MCTo == [t \in Transfers |-> IF t = t1 THEN b ELSE a]
MCOpening == a :> 1 @@ b :> 0
MCFunded == {a}

(* Anything goes; the orderly deployments.                                 *)
FreeOrOrderly == {<<TRUE, FALSE>>, <<FALSE, TRUE>>}
=============================================================================
