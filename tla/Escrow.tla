------------------------------- MODULE Escrow -------------------------------
(***************************************************************************)
(* What the wallet promises about escrow, with nothing of how it is done:  *)
(* a transaction's amount is locked in the buyer's wallet, and is later    *)
(* either given back to the buyer or moved to the seller, each at most     *)
(* once and in one step.  Nothing is promised once a call has been cut     *)
(* short or has met another one (intact is FALSE): the service repairs no  *)
(* half-done call and keeps no two calls apart.                            *)
(***************************************************************************)
EXTENDS Integers

CONSTANTS Users, Tx, Buyer, Seller, Amount, Opening

VARIABLES reserve, balance, locked, intact

vars == <<reserve, balance, locked, intact>>

Init == /\ reserve = [t \in Tx |-> "NONE"]
        /\ balance = Opening
        /\ locked = [u \in Users |-> 0]
        /\ intact = TRUE

Hold(t) == /\ reserve[t] = "NONE"
           /\ balance[Buyer[t]] - locked[Buyer[t]] >= Amount[t]
           /\ reserve' = [reserve EXCEPT ![t] = "ACTIVE"]
           /\ locked' = [locked EXCEPT ![Buyer[t]] = @ + Amount[t]]
           /\ UNCHANGED balance

GiveBack(t) == /\ reserve[t] = "ACTIVE"
               /\ reserve' = [reserve EXCEPT ![t] = "RELEASED"]
               /\ locked' = [locked EXCEPT ![Buyer[t]] = @ - Amount[t]]
               /\ UNCHANGED balance

Pay(t) == /\ reserve[t] = "ACTIVE"
          /\ reserve' = [reserve EXCEPT ![t] = "SETTLED"]
          /\ locked' = [locked EXCEPT ![Buyer[t]] = @ - Amount[t]]
          /\ balance' = [balance EXCEPT ![Buyer[t]] = @ - Amount[t],
                                        ![Seller[t]] = @ + Amount[t]]

Step == \E t \in Tx : Hold(t) \/ GiveBack(t) \/ Pay(t)

Next == intact' => intact /\ Step

Spec == Init /\ [][Next]_vars
=============================================================================
