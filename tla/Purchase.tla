------------------------------ MODULE Purchase ------------------------------
(***************************************************************************)
(* The purchase of a listing: TransactionService.purchaseListing calls the *)
(* listing, wallet and credit services one after the other and keeps a     *)
(* transactions row of its progress.  Any call, or its answer, may be      *)
(* lost; the service may crash; purchases and the sellers' own updates of  *)
(* their listings interleave.                                              *)
(*                                                                         *)
(* Of the wallet service only the reserve of each purchase is here, which  *)
(* its settlement and the cleanup job each find and save later; what they  *)
(* do to the wallets is in module Reserves.  The credit and listing        *)
(* services read without locks and write when their database transaction   *)
(* commits.                                                                *)
(*                                                                         *)
(* A purchase and the call it waits for move together.  A service whose    *)
(* caller is gone finishes its work all the same, and then the purchase    *)
(* breaks off after that work: all its end does is to mark its own row.    *)
(***************************************************************************)
EXTENDS Integers, FiniteSetsExt

CONSTANTS
  Users,
  Listings,     \* listings at a fixed price
  Purchases,    \* purchases, each with its transactions row
  Edits,        \* by sellers: <<listing, status asked for, None to delete it>>
  None,
  Owner,        \* seller of each listing
  Co2,          \* co2Amount of each listing
  Buyer, Of, Amount,   \* buyer, listing and quantity of each purchase
  Credits,      \* credit balances when the behaviour starts
  MaxFaults     \* bound: lost messages and crashes

Status == {"DRAFT", "ACTIVE", "PENDING", "PENDING_PAYMENT", "SOLD", "EXPIRED", "CANCELLED"}
Final == {"SOLD", "CANCELLED", "EXPIRED"}

ASSUME PurchaseAssumption ==
  /\ Owner \in [Listings -> Users] /\ Co2 \in [Listings -> Nat]
  /\ Buyer \in [Purchases -> Users] /\ Of \in [Purchases -> Listings]
  /\ Amount \in [Purchases -> Nat \ {0}]
  /\ Credits \in [Users -> Nat]
  /\ Edits \subseteq Listings \X (Status \cup {None}) /\ Purchases \cap Edits = {}
  /\ None \notin Status
  /\ MaxFaults \in Nat

VARIABLES
  reserve,      \* status of the wallet service's reserve for each purchase
  releasing,    \* reserves the cleanup job has found and not saved yet
  credits,      \* balance of each credits row, 0 if there is none
  listing,      \* status of each listing, None once it is deleted
  tx,           \* status of each transactions row, "NONE" if absent
  announced,    \* purchases of which credit.purchased was published
  pc,           \* where each purchase or edit stands
  read,         \* the two credit balances a transfer has read
  loaded,       \* the listing's status an update has read
  delivered,    \* history: purchases whose credits were transferred
  contested,    \* history: reserves both a settlement and the cleanup found ACTIVE
  crossed,      \* history: users with transfers that overlapped
  faults

reserves == <<reserve, releasing, contested>>
credit == <<credits, read, delivered, crossed>>
shop == <<listing, loaded>>
ours == <<tx, announced, pc>>
vars == <<reserves, credit, shop, ours, faults>>

SellerOf == [t \in Purchases |-> Owner[Of[t]]]

TxStatus == {"NONE", "PENDING", "COMPLETED", "FAILED"}
Labels == {"start", "insert", "reserve", "settle", "settleSave", "credit",
           "creditCommit", "list", "listCommit", "complete", "announce", "fail", "done"}

TypeOK ==
  /\ reserve \in [Purchases -> {"NONE", "ACTIVE", "RELEASED", "SETTLED"}]
  /\ releasing \subseteq Purchases /\ contested \subseteq Purchases
  /\ credits \in [Users -> Nat]
  /\ listing \in [Listings -> Status \cup {None}]
  /\ tx \in [Purchases -> TxStatus]
  /\ announced \subseteq Purchases /\ delivered \subseteq Purchases
  /\ pc \in [Purchases \cup Edits -> Labels]
  /\ read \in [Purchases -> [from : Nat, to : Nat]]
  /\ loaded \in [Purchases \cup Edits -> Status \cup {None}]
  /\ crossed \subseteq Users
  /\ faults \in 0 .. MaxFaults

NothingRead == [from |-> 0, to |-> 0]

Init ==
  /\ reserve = [t \in Purchases |-> "NONE"]
  /\ releasing = {} /\ contested = {}
  /\ credits = Credits
  /\ listing = [l \in Listings |-> "ACTIVE"]
  /\ tx = [t \in Purchases |-> "NONE"]
  /\ announced = {} /\ delivered = {}
  /\ pc = [p \in Purchases \cup Edits |-> "start"]
  /\ read = [t \in Purchases |-> NothingRead]
  /\ loaded = [p \in Purchases \cup Edits |-> None]
  /\ crossed = {}
  /\ faults = 0

Goto(p, label) == pc' = [pc EXCEPT ![p] = label]

-----------------------------------------------------------------------------
(* The saga, up to the first call that changes something.                  *)

(* getListingDetails and the checks on its answer.  co2Amount is what was  *)
(* put up for sale: no purchase changes it.                                *)
Purchase(t) ==
  /\ pc[t] = "start"
  /\ Goto(t, IF /\ listing[Of[t]] = "ACTIVE"
                /\ Amount[t] <= Co2[Of[t]]
                /\ SellerOf[t] # Buyer[t]
             THEN "insert" ELSE "done")
  /\ UNCHANGED <<reserves, credit, shop, tx, announced, faults>>

(* The buyer's balance comes from the wallet's cache and may be minutes    *)
(* old, so either answer is possible.                                      *)
InsertTransaction(t) ==
  /\ pc[t] = "insert"
  /\ \/ Goto(t, "done") /\ UNCHANGED tx
     \/ Goto(t, "reserve") /\ tx' = [tx EXCEPT ![t] = "PENDING"]
  /\ UNCHANGED <<reserves, credit, shop, announced, faults>>

-----------------------------------------------------------------------------
(* Wallet service.  Its reads and saves are awaited one by one.            *)

(* Whether the wallet covers the amount depends on all that goes on there. *)
ReservePayment(t) ==
  /\ pc[t] = "reserve"
  /\ \/ Goto(t, "fail") /\ UNCHANGED reserve
     \/ Goto(t, "settle") /\ reserve' = [reserve EXCEPT ![t] = "ACTIVE"]
  /\ UNCHANGED <<releasing, contested, credit, shop, tx, announced, faults>>

SettleRefused(t) ==
  /\ pc[t] = "settle"
  /\ Goto(t, "fail")
  /\ UNCHANGED <<reserves, credit, shop, tx, announced, faults>>

(* Fault: a reserve is settled whatever has become of it.                  *)
SettleUnchecked(t) ==
  /\ pc[t] = "settle"
  /\ Goto(t, "credit")
  /\ UNCHANGED <<reserves, credit, shop, tx, announced, faults>>

(* settleFunds goes on only from an ACTIVE reserve, and may still be       *)
(* refused for want of locked funds.                                       *)
SettleFind(t) ==
  /\ pc[t] = "settle"
  /\ reserve[t] = "ACTIVE"
  /\ Goto(t, "settleSave")
  /\ contested' = contested \cup ({t} \cap releasing)
  /\ UNCHANGED <<reserve, releasing, credit, shop, tx, announced, faults>>

SettleSave(t) ==
  /\ pc[t] = "settleSave"
  /\ reserve' = [reserve EXCEPT ![t] = "SETTLED"]
  /\ Goto(t, "credit")
  /\ UNCHANGED <<releasing, contested, credit, shop, tx, announced, faults>>

(* The cleanup job: releaseFunds for a reserve that has expired.           *)
ReleaseFind(t) ==
  /\ reserve[t] = "ACTIVE" /\ t \notin releasing
  /\ releasing' = releasing \cup {t}
  /\ contested' = IF pc[t] = "settleSave" THEN contested \cup {t} ELSE contested
  /\ UNCHANGED <<reserve, credit, shop, ours, faults>>

(* The save may fail: the next sweep takes the reserve up again.           *)
ReleaseSave(t) ==
  /\ t \in releasing
  /\ reserve' \in {reserve, [reserve EXCEPT ![t] = "RELEASED"]}
  /\ releasing' = releasing \ {t}
  /\ UNCHANGED <<contested, credit, shop, ours, faults>>

-----------------------------------------------------------------------------
(* Credit service: transferCredit.                                         *)

Parties(t) == {SellerOf[t], Buyer[t]}

Transferring == {t \in Purchases : pc[t] = "creditCommit"}

HasCredits(t) == credits[SellerOf[t]] >= Amount[t]

TransferRead(t) ==
  /\ pc[t] = "credit"
  /\ HasCredits(t)
  /\ read' = [read EXCEPT ![t] = [from |-> credits[SellerOf[t]],
                                  to |-> credits[Buyer[t]]]]
  /\ crossed' = crossed \cup
       (Parties(t) \cap UNION {Parties(u) : u \in Transferring})
  /\ Goto(t, "creditCommit")
  /\ UNCHANGED <<reserves, credits, delivered, shop, tx, announced, faults>>

(* Fault: a refused transfer is logged and the purchase goes on.           *)
RefusalLogged(t) ==
  /\ pc[t] = "credit"
  /\ ~HasCredits(t)
  /\ Goto(t, "list")
  /\ UNCHANGED <<reserves, credit, shop, tx, announced, faults>>

TransferRefused(t) ==
  /\ pc[t] = "credit"
  /\ ~HasCredits(t)
  /\ Goto(t, "fail")
  /\ UNCHANGED <<reserves, credit, shop, tx, announced, faults>>

(* Fault: the receiver's row is not saved.                                 *)
SaveSenderOnly(t) == [credits EXCEPT ![SellerOf[t]] = read[t].from - Amount[t]]

SaveBoth(t) == [credits EXCEPT ![SellerOf[t]] = read[t].from - Amount[t],
                               ![Buyer[t]] = read[t].to + Amount[t]]

TransferCommit(t) ==
  /\ pc[t] = "creditCommit"
  /\ credits' = SaveBoth(t)
  /\ read' = [read EXCEPT ![t] = NothingRead]
  /\ delivered' = delivered \cup {t}
  /\ Goto(t, "list")
  /\ UNCHANGED <<reserves, crossed, shop, tx, announced, faults>>

-----------------------------------------------------------------------------
(* Listing service: updateListing, for a purchase or for the seller.       *)

Updatable(status) == status \notin Final \cup {None}

LoadListing(p, l) ==
  /\ loaded' = [loaded EXCEPT ![p] = listing[l]]
  /\ Goto(p, "listCommit")
  /\ UNCHANGED <<reserves, credit, listing, tx, announced, faults>>

(* Hibernate writes the whole row if any column differs from the one it    *)
(* loaded; the seller may have changed other columns meanwhile.            *)
SaveListing(p, l, status) ==
  /\ pc[p] = "listCommit"
  /\ \/ listing[l] # None /\ listing' = [listing EXCEPT ![l] = status]
     \/ status = loaded[p] /\ UNCHANGED listing
  /\ loaded' = [loaded EXCEPT ![p] = None]
  /\ UNCHANGED <<reserves, credit, tx, announced, faults>>

(* The row to write is no longer there: Hibernate throws.                  *)
SaveFails(p, l) ==
  /\ pc[p] = "listCommit"
  /\ listing[l] = None
  /\ loaded' = [loaded EXCEPT ![p] = None]
  /\ UNCHANGED <<reserves, credit, listing, tx, announced, faults>>

UpdateListing(t) ==
  /\ pc[t] = "list"
  /\ Updatable(listing[Of[t]])
  /\ LoadListing(t, Of[t])

UpdateRefused(t) ==
  /\ pc[t] = "list"
  /\ ~Updatable(listing[Of[t]])
  /\ Goto(t, "fail")
  /\ UNCHANGED <<reserves, credit, shop, tx, announced, faults>>

(* updateListingStatus when all of it was bought, else updateListingAmount *)
(* which, for want of an amount in the request, only sets the status.      *)
UpdateCommit(t) ==
  \/ /\ SaveListing(t, Of[t], IF Co2[Of[t]] - Amount[t] <= 0 THEN "SOLD" ELSE "ACTIVE")
     /\ Goto(t, "complete")
  \/ SaveFails(t, Of[t]) /\ Goto(t, "fail")

(* deleteListing refuses a sold listing; one at a fixed price has no bids. *)
EditListing(e) ==
  /\ pc[e] = "start"
  /\ IF e[2] = None THEN listing[e[1]] \notin {"SOLD", None} ELSE Updatable(listing[e[1]])
  /\ LoadListing(e, e[1])

EditCommit(e) ==
  /\ SaveListing(e, e[1], e[2]) \/ SaveFails(e, e[1])
  /\ Goto(e, "done")

-----------------------------------------------------------------------------
(* The end of the saga.                                                    *)

Complete(t) ==
  /\ pc[t] = "complete"
  /\ tx' = [tx EXCEPT ![t] = "COMPLETED"]
  /\ Goto(t, "announce")
  /\ UNCHANGED <<reserves, credit, shop, announced, faults>>

(* The publisher swallows its errors.                                      *)
Announce(t) ==
  /\ pc[t] = "announce"
  /\ announced' \in {announced, announced \cup {t}}
  /\ Goto(t, "done")
  /\ UNCHANGED <<reserves, credit, shop, tx, faults>>

(* The catch block: nothing that was done is undone.                       *)
Fail(t) ==
  /\ pc[t] = "fail"
  /\ tx' = [tx EXCEPT ![t] = "FAILED"]
  /\ Goto(t, "done")
  /\ UNCHANGED <<reserves, credit, shop, announced, faults>>

-----------------------------------------------------------------------------
(* A call of purchase t, or the answer to the one before, is lost, the     *)
(* called service rolls back, or the transactions row cannot be saved: the *)
(* purchase fails.  Or the service dies and the purchase is not taken up   *)
(* again, or the catch block cannot save either.                           *)
Break(t) ==
  /\ pc[t] \in {"reserve", "settle", "settleSave", "credit", "creditCommit",
                "list", "listCommit", "complete", "fail"}
  /\ faults < MaxFaults
  /\ faults' = faults + 1
  /\ \E label \in {"fail", "done"} \ {pc[t]} : Goto(t, label)
  /\ read' = [read EXCEPT ![t] = NothingRead]
  /\ loaded' = [loaded EXCEPT ![t] = None]
  /\ UNCHANGED <<reserves, credits, delivered, crossed, listing, tx, announced>>

Step(t) ==
  \/ Purchase(t) \/ InsertTransaction(t)
  \/ ReservePayment(t) \/ SettleRefused(t) \/ SettleFind(t) \/ SettleSave(t)
  \/ TransferRead(t) \/ TransferRefused(t) \/ TransferCommit(t)
  \/ UpdateListing(t) \/ UpdateRefused(t) \/ UpdateCommit(t)
  \/ Complete(t) \/ Announce(t) \/ Fail(t)

Next ==
  \/ \E t \in Purchases : Step(t) \/ ReleaseFind(t) \/ ReleaseSave(t) \/ Break(t)
  \/ \E e \in Edits : EditListing(e) \/ EditCommit(e)

Spec == Init /\ [][Next]_vars

-----------------------------------------------------------------------------
(* A purchase that is COMPLETED, or announced to the certificate service,  *)
(* has delivered its credits, whatever was lost on the way.                *)
CompletedIsDelivered ==
  \A t \in Purchases : tx[t] = "COMPLETED" \/ t \in announced => t \in delivered

(* Credits are delivered only for a reserve that was settled: one that     *)
(* expired, or was given back, stops the purchase.  Exempt is the reserve  *)
(* that the settlement and the cleanup both found ACTIVE: settleFunds and  *)
(* releaseFunds take no lock, the later save stands, and a purchase may be *)
(* delivered whose reserve ends up RELEASED.                               *)
DeliveredIsPaid ==
  \A t \in delivered :
    \/ reserve[t] = "SETTLED"
    \/ t \in contested /\ reserve[t] = "RELEASED"

Sum(S) == MapThenSumSet(LAMBDA t : Amount[t], S)

(* Each credit account that never saw two transfers overlap holds exactly  *)
(* what the deliveries to and from it add up to.                           *)
CreditsAddUp ==
  \A u \in Users \ crossed :
    credits[u] = Credits[u] + Sum({t \in delivered : Buyer[t] = u})
                            - Sum({t \in delivered : SellerOf[t] = u})

=============================================================================
