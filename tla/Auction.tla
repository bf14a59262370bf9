------------------------------- MODULE Auction -------------------------------
(***************************************************************************)
(* What an auction promises: while it is open the highest bid only rises,  *)
(* and when it is closed the listing goes to whoever made the highest bid, *)
(* or to nobody if there is none or it misses the reserve price.           *)
(***************************************************************************)
EXTENDS Integers

CONSTANTS Auctions, Bidders, None, Floor   \* reserve price, 0 if none

VARIABLES
  high,     \* amount of the highest bid of each auction, 0 if none
  leader,   \* who made it
  status,   \* of the listing
  winner,   \* winnerId of the listing
  torn      \* auctions about which nothing is promised

vars == <<high, leader, status, winner, torn>>

Init ==
  /\ high = [l \in Auctions |-> 0] /\ leader = [l \in Auctions |-> None]
  /\ status = [l \in Auctions |-> "NONE"] /\ winner = [l \in Auctions |-> None]
  /\ torn = {}

Sold(l) == high[l] > 0 /\ high[l] >= Floor[l]

Raise(l) ==
  /\ status[l] = "ACTIVE"
  /\ high'[l] > high[l]
  /\ leader'[l] \in Bidders
  /\ status'[l] = status[l] /\ winner'[l] = winner[l]

Close(l) ==
  /\ status[l] = "ACTIVE"
  /\ status'[l] = IF Sold(l) THEN "PENDING_PAYMENT" ELSE "CANCELLED"
  /\ winner'[l] = IF Sold(l) THEN leader[l] ELSE winner[l]
  /\ high'[l] = high[l] /\ leader'[l] = leader[l]

(* The listing is created, or its seller gives it another status.          *)
SetStatus(l) ==
  /\ status[l] \notin {"SOLD", "CANCELLED", "EXPIRED", "DELETED"}
  /\ status'[l] # "DELETED"
  /\ winner'[l] = winner[l] /\ high'[l] = high[l] /\ leader'[l] = leader[l]

(* Nobody has bid for it.                                                  *)
Delete(l) ==
  /\ high[l] = 0 /\ status[l] \notin {"NONE", "SOLD", "DELETED"}
  /\ status'[l] = "DELETED"
  /\ winner'[l] = winner[l] /\ high'[l] = high[l] /\ leader'[l] = leader[l]

(* One database transaction may close several auctions.                    *)
Next == \A l \in Auctions \ torn' : Raise(l) \/ Close(l) \/ SetStatus(l) \/ Delete(l)
                                    \/ UNCHANGED <<high[l], leader[l], status[l], winner[l]>>

Spec == Init /\ [][Next]_vars
=============================================================================
