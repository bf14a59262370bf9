-------------------------- MODULE PaymentLifecycle --------------------------
(***************************************************************************)
(* What Payment_Service promises about a payment: it is opened once,       *)
(* closed once with one of three outcomes, and one event tells the other   *)
(* services of a completed or failed payment, if that is what it is.       *)
(***************************************************************************)

CONSTANTS Pays, Events

VARIABLES
  status,
  announced   \* the event that told the other services of the outcome

vars == <<status, announced>>

Init == /\ status = [p \in Pays |-> "NONE"]
        /\ announced = [p \in Pays |-> {}]

Open(p) == /\ status[p] = "NONE"
           /\ status' = [status EXCEPT ![p] = "PENDING"]
           /\ UNCHANGED announced

Close(p, outcome) == /\ status[p] = "PENDING"
                     /\ status' = [status EXCEPT ![p] = outcome]
                     /\ UNCHANGED announced

Announce(p, e) == /\ status[p] \in {"COMPLETED", "FAILED"}
                  /\ announced[p] = {}
                  /\ announced' = [announced EXCEPT ![p] = {<<e, status[p]>>}]
                  /\ UNCHANGED status

Next == \E p \in Pays :
  \/ Open(p)
  \/ \E outcome \in {"COMPLETED", "FAILED", "EXPIRED"} : Close(p, outcome)
  \/ \E e \in Events : Announce(p, e)

Spec == Init /\ [][Next]_vars
=============================================================================
