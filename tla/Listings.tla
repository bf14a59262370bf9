------------------------------ MODULE Listings ------------------------------
(***************************************************************************)
(* listing-service: listings at a fixed price, auctions, and the bids on   *)
(* them.  Every request, and every run of the cron job that closes         *)
(* auctions, is one database transaction without locks or versions: it     *)
(* reads a snapshot, and what it writes appears when it commits.           *)
(*                                                                         *)
(* Requests that are refused change nothing and are left out.              *)
(***************************************************************************)
EXTENDS Integers, Sequences, FiniteSets

CONSTANTS
  Auctions, Offers,   \* listings of type AUCTION and FIXED_PRICE
  Bidders,      \* bidder ids
  Uuids,        \* those that have the form of a UUID
  Handlers,     \* requests and cron runs in progress
  None,
  Amounts,      \* amounts offered in bids
  Quantities,   \* quantities bought at a fixed price
  Edits,        \* updates by sellers: <<listing, status asked for>>
  Starting, Floor,    \* startingBid and reservePrice (0 if none) of an auction
  Co2,          \* co2Amount of an offer
  MinIncrement, \* MIN_BID_INCREMENT
  MaxCalls,     \* bound: requests
  MaxAborts     \* bound: transactions rolled back by a failure

Listings == Auctions \cup Offers
Gone == {"NONE", "DELETED"}   \* there is no row yet, or no longer
Status == {"DRAFT", "ACTIVE", "PENDING", "PENDING_PAYMENT", "SOLD",
           "EXPIRED", "CANCELLED"} \cup Gone
Final == {"SOLD", "CANCELLED", "EXPIRED"}
BidStatus == {"ACTIVE", "OUTBID", "WON", "LOST", "CANCELLED"}

ASSUME ListingAssumption ==
  /\ Auctions \cap Offers = {} /\ Uuids \subseteq Bidders
  /\ Amounts \subseteq Nat \ {0} /\ Quantities \subseteq Nat \ {0}
  /\ Edits \subseteq Listings \X (Status \ Gone)
  /\ Starting \in [Auctions -> Nat] /\ Floor \in [Auctions -> Nat]
  /\ Co2 \in [Offers -> Nat]
  /\ MinIncrement \in Nat \ {0} /\ MaxCalls \in Nat /\ MaxAborts \in Nat

VARIABLES
  listing,      \* table listings: status, winner, left (availableAmount)
  bids,         \* table bids, in the order of insertion
  sold,         \* table transactions: what its rows say was bought of each offer
  paid,         \* the ids of those rows
  announced,    \* the ids of which credit.purchased events tell
  ended,        \* auctions whose end time has passed
  work,         \* what each handler is doing, with the rows it has read
  torn,         \* history: listings two transactions worked on at once
  calls, aborts

tables == <<listing, bids, sold, paid, announced>>
vars == <<tables, ended, work, torn, calls, aborts>>

ListingRow == [status : Status, winner : Bidders \cup {None}, left : Int]
Bid == [of : Auctions, bidder : Bidders, amount : Amounts,
        status : BidStatus, isWinning : BOOLEAN]
Idle == [op |-> "idle", on |-> {}, who |-> None, amount |-> 0, what |-> None,
         listing |-> <<>>, bids |-> <<>>]

TypeOK ==
  /\ listing \in [Listings -> ListingRow]
  /\ bids \in Seq(Bid)
  /\ sold \in [Offers -> Nat] /\ paid \subseteq Nat /\ announced \subseteq Nat
  /\ ended \subseteq Auctions /\ torn \subseteq Listings
  /\ \A h \in Handlers :
       /\ work[h].op \in {"idle", "place", "bid", "cancel", "close", "update", "delete", "buy", "bought"}
       /\ work[h].on \subseteq Listings
       /\ work[h].bids \in Seq(Bid)
       /\ work[h].listing \in [work[h].on -> ListingRow]
  /\ calls \in 0 .. MaxCalls /\ aborts \in 0 .. MaxAborts

Init ==
  /\ listing = [l \in Listings |-> [status |-> "NONE", winner |-> None, left |-> 0]]
  /\ bids = <<>>
  /\ sold = [l \in Offers |-> 0] /\ paid = {} /\ announced = {}
  /\ ended = {} /\ torn = {}
  /\ work = [h \in Handlers |-> Idle]
  /\ calls = 0 /\ aborts = 0

-----------------------------------------------------------------------------
(* Transactions.                                                           *)

Begin(h, op, on, who, amount, what) ==
  /\ work[h] = Idle
  /\ work' = [work EXCEPT ![h] =
       [op |-> op, on |-> on, who |-> who, amount |-> amount, what |-> what,
        listing |-> [l \in on |-> listing[l]], bids |-> bids]]
  /\ torn' = torn \cup UNION {on \cap work[g].on : g \in Handlers}
  /\ UNCHANGED <<tables, ended, aborts>>

Request(h, op, on, who, amount, what) ==
  /\ calls < MaxCalls
  /\ calls' = calls + 1
  /\ Begin(h, op, on, who, amount, what)

Commit(h, op) ==
  /\ work[h].op = op
  /\ work' = [work EXCEPT ![h] = Idle]
  /\ UNCHANGED <<ended, torn, calls, aborts>>

Exists(l) == listing[l].status \notin Gone

(* The one listing a request is about.                                     *)
The(h) == CHOOSE l \in work[h].on : TRUE

On(rows, l) == {i \in DOMAIN rows : rows[i].of = l}

(* findByListingIdOrderByBidAmountDesc, first row: cancelled bids count.   *)
(* Of equal bids the one created last comes first; bids may be created in  *)
(* one order and committed in another.                                     *)
Highest(rows, l) ==
  {i \in On(rows, l) : \A j \in On(rows, l) : rows[j].amount <= rows[i].amount}

HighestAmount(rows, l) ==
  IF On(rows, l) = {} THEN 0 ELSE rows[CHOOSE i \in Highest(rows, l) : TRUE].amount

NewBid(l, who, amount) ==
  [of |-> l, bidder |-> who, amount |-> amount, status |-> "ACTIVE", isWinning |-> TRUE]

Outbid(row) == [row EXCEPT !.status = "OUTBID", !.isWinning = FALSE]

(* canPlaceBid                                                             *)
CanPlaceBid(l) == listing[l].status = "ACTIVE" /\ l \notin ended

-----------------------------------------------------------------------------
(* ListingServiceImpl.                                                     *)

(* ListingMapper.toEntity                                                  *)
NewListing(l) ==
  [status |-> "ACTIVE", winner |-> None, left |-> IF l \in Offers THEN Co2[l] ELSE 0]

(* For a trip that is VERIFIED, which module Minting is about.             *)
CreateListing(l) ==
  /\ listing[l].status = "NONE"
  /\ listing' = [listing EXCEPT ![l] = NewListing(l)]
  /\ UNCHANGED <<bids, sold, paid, announced, ended, work, torn, calls, aborts>>

UpdateListing(h, l, status) ==
  /\ Exists(l) /\ listing[l].status \notin Final
  /\ Request(h, "update", {l}, None, 0, status)

(* Hibernate writes the whole row it loaded, if any column has changed; it *)
(* throws, and the transaction rolls back, if the row has been deleted.    *)
UpdateCommit(h) ==
  LET l == The(h) row == work[h].listing[l] IN
  /\ Commit(h, "update")
  /\ \/ Exists(l) /\ listing' = [listing EXCEPT ![l] = [row EXCEPT !.status = work[h].what]]
     \/ (row.status = work[h].what \/ ~ Exists(l)) /\ UNCHANGED listing
  /\ UNCHANGED <<bids, sold, paid, announced>>

(* An auction with a bid, of whatever status, cannot be deleted.           *)
DeleteListing(h, l) ==
  /\ Exists(l) /\ listing[l].status # "SOLD"
  /\ On(bids, l) = {}
  /\ Request(h, "delete", {l}, None, 0, None)

(* The row goes, whatever has become of it, unless a bid refers to it now. *)
DeleteCommit(h) ==
  LET l == The(h) IN
  /\ Commit(h, "delete")
  /\ listing' = IF Exists(l) /\ On(bids, l) = {}
                THEN [listing EXCEPT ![l].status = "DELETED"] ELSE listing
  /\ UNCHANGED <<bids, sold, paid, announced>>

-----------------------------------------------------------------------------
(* TransactionServiceImpl.purchaseListing, the listing service's own way   *)
(* to buy: it moves no money and no credits.                               *)

(* Fault: the quantity is not compared with what is left.                  *)
ForSaleUnchecked(l, amount) == listing[l].status = "ACTIVE"

(* validateListingForPurchase                                              *)
ForSale(l, amount) == listing[l].status = "ACTIVE" /\ amount <= listing[l].left

(* The row of table transactions gets an id.                               *)
Buy(h, l, amount) ==
  /\ ForSale(l, amount)
  /\ Request(h, "buy", {l}, None, amount, calls + 1)

(* publishCreditPurchased, before the transaction commits: the certificate *)
(* is on its way first.  The publisher swallows its errors.                *)
BuyPublish(h) ==
  /\ work[h].op = "buy"
  /\ work' = [work EXCEPT ![h].op = "bought"]
  /\ announced' \in {announced, announced \cup {work[h].what}}
  /\ UNCHANGED <<listing, bids, sold, paid, ended, torn, calls, aborts>>

(* Two UPDATEs of single columns, computed from the row that was read.     *)
(* They find no row if it has been deleted, which goes unnoticed.          *)
BuyCommit(h) ==
  LET l == The(h) left == work[h].listing[l].left - work[h].amount IN
  /\ Commit(h, "bought")
  /\ sold' = [sold EXCEPT ![l] = @ + work[h].amount]
  /\ paid' = paid \cup {work[h].what}
  /\ listing' = IF Exists(l)
                THEN [listing EXCEPT ![l].left = left,
                                     ![l].status = IF left <= 0 THEN "SOLD" ELSE @]
                ELSE listing
  /\ UNCHANGED <<bids, announced>>

-----------------------------------------------------------------------------
(* AuctionService.placeBid                                                 *)

EnoughToPlace(l, amount) ==
  IF On(bids, l) = {} THEN amount >= Starting[l]
  ELSE amount >= HighestAmount(bids, l) + MinIncrement

(* The seller is not kept out: a UUID never equals a string.               *)
PlaceBid(h, l, who, amount) ==
  /\ CanPlaceBid(l)
  /\ EnoughToPlace(l, amount)
  /\ Request(h, "place", {l}, who, amount, None)

(* The former highest bid is written back as it was read, but outbid.  The *)
(* foreign key of the new bid holds, or the transaction rolls back.        *)
Dethrone(rows, top) ==
  IF rows[top].status = "ACTIVE" THEN [bids EXCEPT ![top] = Outbid(rows[top])] ELSE bids

PlaceCommit(h) ==
  LET w == work[h] l == The(h) IN
  /\ Commit(h, "place")
  /\ IF Exists(l)
     THEN \/ /\ On(w.bids, l) = {}
             /\ bids' = Append(bids, NewBid(l, w.who, w.amount))
          \/ \E top \in Highest(w.bids, l) :
               bids' = Append(Dethrone(w.bids, top), NewBid(l, w.who, w.amount))
     ELSE UNCHANGED bids
  /\ UNCHANGED <<listing, sold, paid, announced>>

-----------------------------------------------------------------------------
(* BidServiceImpl                                                          *)

OwnBids(rows, l, who) == {i \in On(rows, l) : rows[i].bidder = who}

(* markOtherBidsAsOutbid, an UPDATE that sees what is committed now.       *)
MarkOthers(rows, l, kept) ==
  [i \in DOMAIN rows |-> IF i \in On(rows, l) \ kept /\ rows[i].status = "ACTIVE"
                         THEN Outbid(rows[i]) ELSE rows[i]]

ValidBidAmount(l, amount) == amount >= Starting[l] /\ amount > HighestAmount(bids, l)

(* findHighestBidByListingId expects one row and has no limit: it throws,  *)
(* and the transaction rolls back, if the auction has a second bid, and    *)
(* findUserBidOnListing does if the bidder has.  So this request succeeds  *)
(* for the first bid of an auction, or to raise the only one.              *)
BidOrRaise(h, l, who, amount) ==
  /\ CanPlaceBid(l) /\ ValidBidAmount(l, amount)
  /\ On(bids, l) = OwnBids(bids, l, who) /\ Cardinality(On(bids, l)) <= 1
  /\ \A i \in On(bids, l) : bids[i].status \in {"ACTIVE", "OUTBID"}
  /\ Request(h, "bid", {l}, who, amount, None)

(* The UPDATE of other bids makes those it touches visible to the query    *)
(* that follows, which then throws.                                        *)
BidCommit(h) ==
  LET w == work[h] l == The(h) own == On(w.bids, l) IN
  /\ Commit(h, "bid")
  /\ IF ~ Exists(l) \/ \E i \in On(bids, l) \ own : bids[i].status = "ACTIVE"
     THEN UNCHANGED bids
     ELSE bids' = IF own = {} THEN Append(bids, NewBid(l, w.who, w.amount))
                  ELSE [i \in DOMAIN bids |-> IF i \in own THEN NewBid(l, w.who, w.amount)
                                              ELSE bids[i]]
  /\ UNCHANGED <<listing, sold, paid, announced>>

(* recalculateWinningBid throws too if the auction has a second bid, so    *)
(* that the winning bid cannot be cancelled then.                          *)
CancelBid(h, i) ==
  /\ bids[i].status \in {"ACTIVE", "OUTBID"} /\ bids[i].of \notin ended
  /\ bids[i].isWinning => Cardinality(On(bids, bids[i].of)) = 1
  /\ Request(h, "cancel", {bids[i].of}, bids[i].bidder, i, None)

(* The new highest bid is then the cancelled one, as it was loaded before: *)
(* it is ACTIVE and winning already, so that nothing is written.           *)
CancelCommit(h) ==
  LET w == work[h] i == work[h].amount
      cancelled == [bids EXCEPT ![i].status = "CANCELLED"] IN
  /\ Commit(h, "cancel")
  /\ bids' = IF w.bids[i].isWinning THEN MarkOthers(cancelled, The(h), {i}) ELSE cancelled
  /\ UNCHANGED <<listing, sold, paid, announced>>

-----------------------------------------------------------------------------
(* AuctionService.closeExpiredAuctions, run by the cron and on request.    *)

EndAuction(l) ==
  /\ l \notin ended /\ Exists(l)
  /\ ended' = ended \cup {l}
  /\ UNCHANGED <<tables, work, torn, calls, aborts>>

(* Fault: auctions without a bid are not looked for.                       *)
ExpiredWithBids == {l \in ended : listing[l].status = "ACTIVE" /\ On(bids, l) # {}}

(* findExpiredAuctions                                                     *)
ExpiredAuctions == {l \in ended : listing[l].status = "ACTIVE"}

CloseFind(h) ==
  /\ ExpiredAuctions # {}
  /\ Begin(h, "close", ExpiredAuctions, None, 0, None)
  /\ UNCHANGED calls

Won(rows, l) == On(rows, l) # {} /\ HighestAmount(rows, l) >= Floor[l]


(* UUID.fromString throws before anything is changed; the exception is     *)
(* caught and the next auction is closed.                                  *)
Stuck(rows, l, top) == Won(rows, l) /\ rows[top].bidder \notin Uuids

(* Fault: the first bid wins.                                              *)
ClosedToFirst(row, rows, l, top) ==
  IF Won(rows, l) THEN [row EXCEPT !.status = "PENDING_PAYMENT",
                                   !.winner = rows[CHOOSE i \in On(rows, l) : \A j \in On(rows, l) : i <= j].bidder]
  ELSE [row EXCEPT !.status = "CANCELLED"]

ClosedListing(row, rows, l, top) ==
  IF Won(rows, l) THEN [row EXCEPT !.status = "PENDING_PAYMENT", !.winner = rows[top].bidder]
  ELSE [row EXCEPT !.status = "CANCELLED"]

(* If the reserve price is missed only the highest bid is marked.          *)
ClosedBid(rows, l, top, i) ==
  IF i = top
  THEN [rows[i] EXCEPT !.status = IF Won(rows, l) THEN "WON" ELSE "LOST",
                       !.isWinning = Won(rows, l)]
  ELSE IF Won(rows, l) /\ rows[i].status # "LOST"
       THEN [rows[i] EXCEPT !.status = "LOST", !.isWinning = FALSE]
       ELSE bids[i]

TopChoices(w) == {f \in [w.on -> 0 .. Len(w.bids)] :
  \A l \in w.on : IF On(w.bids, l) = {} THEN f[l] = 0 ELSE f[l] \in Highest(w.bids, l)}

(* One that has been deleted meanwhile rolls back the closing of all.      *)
CloseCommit(h) ==
  LET w == work[h] IN
  /\ Commit(h, "close")
  /\ \E top \in TopChoices(w) :
       LET closed == {l \in w.on : ~Stuck(w.bids, l, top[l])} IN
       IF \A l \in closed : Exists(l)
       THEN /\ listing' = [l \in Listings |-> IF l \in closed
                             THEN ClosedListing(w.listing[l], w.bids, l, top[l]) ELSE listing[l]]
            /\ bids' = [i \in DOMAIN bids |-> IF i \in DOMAIN w.bids /\ bids[i].of \in closed
                          THEN ClosedBid(w.bids, bids[i].of, top[bids[i].of], i) ELSE bids[i]]
       ELSE UNCHANGED <<listing, bids>>
  /\ UNCHANGED <<sold, paid, announced>>

-----------------------------------------------------------------------------
(* The database fails and the transaction rolls back; a purchase may have  *)
(* published its event by then.                                            *)
Abort(h) ==
  /\ work[h] # Idle /\ aborts < MaxAborts
  /\ aborts' = aborts + 1
  /\ work' = [work EXCEPT ![h] = Idle]
  /\ UNCHANGED <<tables, ended, torn, calls>>

CommitStep(h) ==
  \/ UpdateCommit(h) \/ DeleteCommit(h) \/ BuyPublish(h) \/ BuyCommit(h)
  \/ PlaceCommit(h) \/ BidCommit(h) \/ CancelCommit(h) \/ CloseCommit(h)

Next ==
  \/ \E l \in Listings : CreateListing(l)
  \/ \E l \in Auctions : EndAuction(l)
  \/ \E h \in Handlers :
       \/ \E e \in Edits : UpdateListing(h, e[1], e[2])
       \/ \E l \in Listings : DeleteListing(h, l)
       \/ \E l \in Offers, q \in Quantities : Buy(h, l, q)
       \/ \E l \in Auctions, who \in Bidders, a \in Amounts :
            PlaceBid(h, l, who, a) \/ BidOrRaise(h, l, who, a)
       \/ \E i \in DOMAIN bids : CancelBid(h, i)
       \/ CloseFind(h)
       \/ CommitStep(h)
       \/ Abort(h)

Spec == Init /\ [][Next]_vars

(* The database runs the transactions it has begun, the cron runs every    *)
(* minute.                                                                 *)
FairSpec == /\ Spec
            /\ \A h \in Handlers : WF_vars(CommitStep(h))
            /\ WF_vars(\E h \in Handlers : CloseFind(h))

-----------------------------------------------------------------------------
(* An offer on which no two transactions overlapped sells what it has:     *)
(* what is left and what the transactions say was bought add up, whatever  *)
(* its seller does to its status meanwhile.  And a certificate, which is   *)
(* announced before the commit, is for a purchase that is recorded or      *)
(* about to be, unless a transaction is rolled back after its event.       *)
NotOversold ==
  /\ \A l \in Offers \ torn : Exists(l) =>
       listing[l].left + sold[l] = Co2[l] /\ listing[l].left >= 0
  /\ aborts = 0 =>
       announced \subseteq paid \cup {work[h].what : h \in {g \in Handlers : work[g].op = "bought"}}

(* Auctions whose requests do not overlap keep the promise of module       *)
(* Auction: bids only rise, the highest wins, and an auction with a bid is *)
(* not deleted.                                                            *)
House == INSTANCE Auction WITH
  high <- [l \in Auctions |-> HighestAmount(bids, l)],
  leader <- [l \in Auctions |-> IF On(bids, l) = {} THEN None
               ELSE bids[CHOOSE i \in Highest(bids, l) : TRUE].bidder],
  status <- [l \in Auctions |-> listing[l].status],
  winner <- [l \in Auctions |-> listing[l].winner],
  torn <- torn \cap Auctions
ImplementsAuction == House!Spec

(* An auction that has ended is closed in the end, even if transactions    *)
(* fail or overlap, unless the highest bid has been made under an id that  *)
(* is not a UUID.                                                          *)
EndedIsClosed ==
  \A l \in Auctions :
    l \in ended ~> \/ listing[l].status # "ACTIVE"
                   \/ \E i \in Highest(bids, l) : bids[i].bidder \notin Uuids

=============================================================================
