----------------------------- MODULE MCPurchase -----------------------------
(***************************************************************************)
(* Seller s lists two kilograms as l1, of which b buys one and c both; b   *)
(* lists one kilogram as l2, which c buys.  s deletes l1 at some point.    *)
(***************************************************************************)
EXTENDS Purchase, TLC

CONSTANTS s, b, c, l1, l2, p1, p2, p3

MCOwner == l1 :> s @@ l2 :> b
MCCo2 == l1 :> 2 @@ l2 :> 1
MCBuyer == p1 :> b @@ p2 :> c @@ p3 :> c
MCOf == p1 :> l1 @@ p2 :> l1 @@ p3 :> l2
MCAmount == p1 :> 1 @@ p2 :> 2 @@ p3 :> 1
MCCredits == s :> 2 @@ b :> 0 @@ c :> 0
MCEdits == {<<l1, None>>}
=============================================================================
