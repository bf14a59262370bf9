----------------------------- MODULE MCListings -----------------------------
(***************************************************************************)
(* An auction x with a reserve price and an offer o of two kilograms.  u   *)
(* bids under a UUID, n under an integer id.  The sellers set their        *)
(* listings aside, and x back.                                             *)
(***************************************************************************)
EXTENDS Listings, TLC

CONSTANTS x, o, u, n

MCStarting == [l \in Auctions |-> 1]
MCFloor == [l \in Auctions |-> 2]
MCCo2 == [l \in Offers |-> 2]
MCEdits == {<<x, "ACTIVE">>, <<x, "PENDING">>, <<o, "PENDING">>}
=============================================================================
