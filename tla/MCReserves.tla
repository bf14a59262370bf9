----------------------------- MODULE MCReserves -----------------------------
(***************************************************************************)
(* Small instances of the escrow: buyer a makes two purchases, t1 from b   *)
(* and t2 from c, who has no wallet yet.                                   *)
(***************************************************************************)
EXTENDS Reserves, TLC, FiniteSetsExt

CONSTANTS a, b, c, t1, t2

MCBuyer == [t \in Tx |-> a]
MCSeller == [t \in Tx |-> IF t = t1 THEN b ELSE c]
MCAmount == [t \in Tx |-> IF t = t1 THEN 2 ELSE 3]
MCTotal == [S \in SUBSET Tx |-> MapThenSumSet(LAMBDA t : Amount[t], S)]

Poor == a :> 4 @@ b :> 1 @@ c :> 0     \* only one purchase can be paid for
MCFunded == {a, b}

Symmetric == Permutations(Handlers)
=============================================================================
