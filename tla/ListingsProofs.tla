--------------------------- MODULE ListingsProofs ---------------------------
(***************************************************************************)
(* Theorems about the listings sold at a fixed price and about auctions,   *)
(* for every set of listings, bidders and handlers, all quantities and     *)
(* amounts, and any number of transactions that overlap or are rolled      *)
(* back.                                                                   *)
(***************************************************************************)
EXTENDS Listings, SequenceTheorems, FiniteSetTheorems, TLAPS

OfferRow == [status : Status, winner : {None}, left : Int]
OfferOps == {"update", "delete", "buy", "bought"}
Others == {"place", "bid", "cancel", "close"}

OfferType ==
  /\ listing = [l \in Listings |-> listing[l]]
  /\ \A l \in Offers : listing[l] \in OfferRow
  /\ sold \in [Offers -> Nat] /\ paid \subseteq Nat /\ announced \subseteq Nat
  /\ ended \subseteq Auctions
  /\ work = [h \in Handlers |-> work[h]]
  /\ calls \in Nat /\ aborts \in Nat

(* What a transaction works on, and what it has read of an offer.          *)
Holds(h) ==
  /\ work[h].op \in {"idle"} \cup Others \cup OfferOps
  /\ work[h].op = "idle" => work[h].on = {}
  /\ work[h].op \in Others => work[h].on \cap Offers = {}
  /\ work[h].op \in OfferOps => \E l \in Listings : work[h].on = {l}
  /\ \A l \in Offers \cap work[h].on :
       /\ work[h].listing[l] \in OfferRow /\ listing[l].status # "NONE"
       /\ work[h].op = "update" => work[h].what \in Status \ Gone
  /\ work[h].op \in {"buy", "bought"} =>
       work[h].on \subseteq Offers /\ work[h].amount \in Nat /\ work[h].what \in Nat

(* As long as no two transactions overlapped on an offer, what the one at  *)
(* work has read is what is there.                                         *)
Fresh(h) ==
  \A l \in (Offers \cap work[h].on) \ torn :
    /\ work[h].listing[l] = listing[l]
    /\ work[h].op \in {"buy", "bought"} => work[h].amount <= listing[l].left
    /\ \A g \in Handlers : l \in work[g].on => g = h

(* What is announced is recorded, or about to be.                          *)
Recorded ==
  announced \subseteq paid \cup {work[h].what : h \in {g \in Handlers : work[g].op = "bought"}}

StockInv ==
  /\ NotOversold
  /\ \A l \in Offers : listing[l].status = "NONE" => sold[l] = 0

OfferInv == OfferType /\ (\A h \in Handlers : Holds(h) /\ Fresh(h)) /\ StockInv

LEMMA OfferInit == Init => OfferInv
<1> SUFFICES ASSUME Init PROVE OfferInv
  OBVIOUS
<1>1. \A h \in Handlers : work[h].op = "idle" /\ work[h].on = {}
  BY DEF Init, Idle
<1>2. OfferType
  BY ListingAssumption DEF Init, OfferType, OfferRow, Status, Gone, Listings, ListingAssumption
<1>3. \A h \in Handlers : Holds(h) /\ Fresh(h)
  BY <1>1 DEF Holds, Fresh, Others, OfferOps
<1>4. StockInv
  BY DEF Init, StockInv, NotOversold, Exists, Gone, Listings
<1> QED
  BY <1>2, <1>3, <1>4 DEF OfferInv

(* A transaction begins.                                                   *)
LEMMA BeginStep ==
  ASSUME OfferInv, NEW h \in Handlers, NEW op, NEW on, NEW who, NEW amount, NEW what,
         Begin(h, op, on, who, amount, what), calls' \in Nat,
         \/ op \in Others /\ on \cap Offers = {}
         \/ /\ op \in {"update", "delete", "buy"}
            /\ \E l \in Listings : on = {l} /\ listing[l].status # "NONE"
            /\ op = "update" => what \in Status \ Gone
            /\ op = "buy" => /\ on \subseteq Offers /\ amount \in Nat /\ what \in Nat
                             /\ \A l \in on : amount <= listing[l].left
  PROVE  OfferInv'
<1> DEFINE job == [op |-> op, on |-> on, who |-> who, amount |-> amount, what |-> what,
                   listing |-> [l \in on |-> listing[l]], bids |-> bids]
<1>1. /\ work[h] = Idle /\ work' = [work EXCEPT ![h] = job]
      /\ torn' = torn \cup UNION {on \cap work[g].on : g \in Handlers}
      /\ UNCHANGED <<listing, sold, paid, announced, ended, aborts>>
  BY DEF Begin, tables
<1>2. /\ job.op = op /\ job.on = on /\ job.amount = amount /\ job.what = what
      /\ \A l \in on : job.listing[l] = listing[l]
  OBVIOUS
<1> HIDE DEF job
<1>3. work'[h] = job /\ \A g \in Handlers : g # h => work'[g] = work[g]
  BY <1>1 DEF OfferInv, OfferType
<1>4. OfferType' /\ StockInv'
  <2>1. torn \subseteq torn'
    BY <1>1
  <2>2. \A g \in Handlers : work[g].op = "bought" => g # h /\ work'[g] = work[g]
    BY <1>1, <1>3 DEF Idle
  <2>3. Recorded => Recorded'
    BY <1>1, <2>2 DEF Recorded
  <2>4. NotOversold'
    BY <1>1, <2>1, <2>3 DEF OfferInv, StockInv, NotOversold, Exists, Recorded
  <2> QED
    BY <1>1, <2>4 DEF OfferInv, OfferType, StockInv
<1>5. ASSUME NEW g \in Handlers
      PROVE  Holds(g)'
  <2>1. CASE g = h
    BY <1>1, <1>2, <1>3, <2>1 DEF OfferInv, OfferType, Holds, Others, OfferOps
  <2>2. CASE g # h
    BY <1>1, <1>3, <2>2 DEF OfferInv, Holds
  <2> QED
    BY <2>1, <2>2
<1>6. ASSUME NEW g \in Handlers
      PROVE  Fresh(g)'
  <2> SUFFICES ASSUME NEW l \in Offers, l \in work'[g].on, l \notin torn'
               PROVE  /\ work'[g].listing[l] = listing[l]
                      /\ work'[g].op \in {"buy", "bought"} => work'[g].amount <= listing[l].left
                      /\ \A k \in Handlers : l \in work'[k].on => k = g
    BY <1>1 DEF Fresh
  <2>1. l \notin torn /\ \A k \in Handlers : ~ (l \in on /\ l \in work[k].on)
    BY <1>1
  <2>2. CASE g = h
    BY <1>1, <1>2, <1>3, <2>1, <2>2 DEF Others, OfferOps
  <2>3. CASE g # h
    BY <1>1, <1>2, <1>3, <2>1, <2>3 DEF OfferInv, Fresh
  <2> QED
    BY <2>2, <2>3
<1> QED
  BY <1>4, <1>5, <1>6 DEF OfferInv

(* A transaction ends that has recorded no purchase.  It may have written  *)
(* the row of one offer, and left its quantity alone.                      *)
LEMMA WriteStep ==
  ASSUME OfferInv, NEW h \in Handlers, work' = [work EXCEPT ![h] = Idle],
         listing' = [l \in Listings |-> listing'[l]],
         \A l \in Offers \ work[h].on : listing'[l] = listing[l],
         \A l \in Offers \cap work[h].on :
           \/ listing'[l] = listing[l]
           \/ /\ listing'[l] \in OfferRow /\ listing'[l].status # "NONE"
              /\ Exists(l)' => Exists(l)
              /\ l \notin torn => listing'[l].left = listing[l].left,
         UNCHANGED <<sold, paid, announced, ended, torn, calls>>,
         aborts' = aborts + 1 \/ (aborts' = aborts /\ work[h].op # "bought")
  PROVE  OfferInv'
<1>1. /\ work'[h].op = "idle" /\ work'[h].on = {}
      /\ \A g \in Handlers : g # h => work'[g] = work[g]
  BY DEF OfferInv, OfferType, Idle
<1>2. \A l \in Offers : listing'[l].status = "NONE" => listing'[l] = listing[l]
  OBVIOUS
<1>3. OfferType'
  BY DEF OfferInv, OfferType
<1>4. StockInv'
  <2>1. ASSUME aborts' = 0
        PROVE  Recorded'
    <3>1. aborts = 0 /\ aborts' = aborts /\ work[h].op # "bought"
      BY <2>1 DEF OfferInv, OfferType
    <3>2. Recorded
      BY <3>1 DEF OfferInv, StockInv, NotOversold, Recorded
    <3> QED
      BY <1>1, <3>1, <3>2 DEF Recorded
  <2>2. \A l \in Offers : listing'[l].status = "NONE" => sold'[l] = 0
    BY <1>2 DEF OfferInv, StockInv
  <2>3. ASSUME NEW l \in Offers \ torn, Exists(l)'
        PROVE  listing'[l].left + sold[l] = Co2[l] /\ listing'[l].left >= 0
    <3>1. Exists(l) /\ listing'[l].left = listing[l].left
      BY <2>3 DEF Exists
    <3> QED
      BY <2>3, <3>1 DEF OfferInv, StockInv, NotOversold
  <2> QED
    BY <2>1, <2>2, <2>3 DEF StockInv, NotOversold, Recorded
<1>5. ASSUME NEW g \in Handlers
      PROVE  Holds(g)' /\ Fresh(g)'
  <2>1. CASE g = h
    BY <1>1, <2>1 DEF Holds, Fresh, Others, OfferOps
  <2>2. CASE g # h
    <3>1. Holds(g)'
      BY <1>1, <1>2, <2>2 DEF OfferInv, Holds
    <3>2. \A k \in (Offers \cap work[g].on) \ torn : k \notin work[h].on
      BY <2>2 DEF OfferInv, Fresh
    <3>3. Fresh(g)'
      BY <1>1, <2>2, <3>2 DEF OfferInv, Fresh
    <3> QED
      BY <3>1, <3>3
  <2> QED
    BY <2>1, <2>2
<1> QED
  BY <1>3, <1>4, <1>5 DEF OfferInv

LEMMA TheOne ==
  ASSUME NEW h, NEW l, work[h].on = {l}
  PROVE  The(h) = l
BY DEF The

(* The seller's update writes the row it has read, with another status.    *)
LEMMA UpdateStep ==
  ASSUME OfferInv, NEW h \in Handlers, UpdateCommit(h)
  PROVE  OfferInv'
<1>1. PICK l \in Listings : work[h].on = {l}
  BY DEF UpdateCommit, Commit, OfferInv, Holds, OfferOps
<1>2. /\ work' = [work EXCEPT ![h] = Idle] /\ work[h].op = "update"
      /\ UNCHANGED <<sold, paid, announced, ended, torn, calls, aborts>>
  BY DEF UpdateCommit, Commit
<1>3. The(h) = l
  BY <1>1, TheOne
<1>4. PICK row : row = [work[h].listing[l] EXCEPT !.status = work[h].what]
  OBVIOUS
<1>5. listing' = listing \/ (Exists(l) /\ listing' = [listing EXCEPT ![l] = row])
  BY <1>3, <1>4 DEF UpdateCommit
<1>6. /\ listing' = [k \in Listings |-> listing'[k]]
      /\ \A k \in Listings \ {l} : listing'[k] = listing[k]
      /\ listing'[l] = listing[l] \/ (Exists(l) /\ listing'[l] = row)
  BY <1>5 DEF OfferInv, OfferType
<1>7. l \in Offers => /\ row \in OfferRow /\ row.status \notin Gone
                      /\ l \notin torn => row.left = listing[l].left
  <2> SUFFICES ASSUME l \in Offers
               PROVE  /\ row \in OfferRow /\ row.status \notin Gone
                      /\ l \notin torn => row.left = listing[l].left
    OBVIOUS
  <2>1. work[h].listing[l] \in OfferRow /\ work[h].what \in Status \ Gone
    BY <1>1, <1>2 DEF OfferInv, Holds
  <2>2. l \notin torn => work[h].listing[l] = listing[l]
    BY <1>1 DEF OfferInv, Fresh
  <2>3. /\ row \in OfferRow /\ row.status = work[h].what
        /\ row.left = work[h].listing[l].left
    BY <1>4, <2>1 DEF OfferRow
  <2> QED
    BY <2>1, <2>2, <2>3
<1> QED
  BY <1>1, <1>2, <1>6, <1>7, WriteStep DEF Gone, Listings

(* A listing that is deleted keeps what was left of it.                    *)
LEMMA DeleteStep ==
  ASSUME OfferInv, NEW h \in Handlers, DeleteCommit(h)
  PROVE  OfferInv'
<1>1. PICK l \in Listings : work[h].on = {l}
  BY DEF DeleteCommit, Commit, OfferInv, Holds, OfferOps
<1>2. /\ work' = [work EXCEPT ![h] = Idle] /\ work[h].op = "delete"
      /\ UNCHANGED <<sold, paid, announced, ended, torn, calls, aborts>>
  BY DEF DeleteCommit, Commit
<1>3. The(h) = l
  BY <1>1, TheOne
<1>4. PICK row : row = [listing[l] EXCEPT !.status = "DELETED"]
  OBVIOUS
<1>5. listing' = listing \/ (Exists(l) /\ listing' = [listing EXCEPT ![l] = row])
  BY <1>3, <1>4 DEF DeleteCommit
<1>6. /\ listing' = [k \in Listings |-> listing'[k]]
      /\ \A k \in Listings \ {l} : listing'[k] = listing[k]
      /\ listing'[l] = listing[l] \/ (Exists(l) /\ listing'[l] = row)
  BY <1>5 DEF OfferInv, OfferType
<1>7. l \in Offers => row \in OfferRow /\ row.status = "DELETED" /\ row.left = listing[l].left
  BY <1>4 DEF OfferInv, OfferType, OfferRow, Status, Gone
<1> QED
  BY <1>1, <1>2, <1>6, <1>7, WriteStep DEF Listings

(* What the transactions in progress and the table of bids hold.           *)
Job(w) == w = [op |-> w.op, on |-> w.on, who |-> w.who, amount |-> w.amount, what |-> w.what,
               listing |-> w.listing, bids |-> w.bids]

BidType ==
  /\ bids \in Seq(Bid)
  /\ work = [h \in Handlers |-> work[h]]
  /\ \A h \in Handlers :
       /\ Job(work[h])
       /\ work[h].bids \in Seq(Bid)
       /\ work[h].op \in {"place", "bid"} =>
            /\ \E l \in Auctions : work[h].on = {l}
            /\ work[h].who \in Bidders /\ work[h].amount \in Amounts

LEMMA Publishes ==
  ASSUME BidType, NEW h \in Handlers, BuyPublish(h)
  PROVE  /\ work[h].op = "buy" /\ work'[h].op = "bought"
         /\ work'[h].on = work[h].on /\ work'[h].who = work[h].who
         /\ work'[h].amount = work[h].amount /\ work'[h].what = work[h].what
         /\ work'[h].listing = work[h].listing /\ work'[h].bids = work[h].bids
         /\ Job(work'[h]) /\ \A g \in Handlers : g # h => work'[g] = work[g]
         /\ work' = [g \in Handlers |-> work'[g]]
<1>1. PICK w : w = work[h] /\ Job(w)
  BY DEF BidType
<1>2. PICK v : v = [w EXCEPT !.op = "bought"]
  OBVIOUS
<1>3. /\ v.op = "bought" /\ v.on = w.on /\ v.who = w.who /\ v.amount = w.amount
      /\ v.what = w.what /\ v.listing = w.listing /\ v.bids = w.bids /\ Job(v)
  <2>1. v = [op |-> "bought", on |-> w.on, who |-> w.who, amount |-> w.amount, what |-> w.what,
             listing |-> w.listing, bids |-> w.bids]
    BY <1>1, <1>2 DEF Job
  <2> QED
    BY <2>1 DEF Job
<1>4. work[h].op = "buy" /\ work' = [work EXCEPT ![h] = v]
  BY <1>1, <1>2 DEF BuyPublish
<1>5. /\ work'[h] = v /\ \A g \in Handlers : g # h => work'[g] = work[g]
      /\ work' = [g \in Handlers |-> work'[g]]
  BY <1>4 DEF BidType
<1> QED
  BY <1>1, <1>3, <1>4, <1>5

(* The event of a purchase, before the purchase is recorded.               *)
LEMMA PublishStep ==
  ASSUME OfferInv, BidType, NEW h \in Handlers, BuyPublish(h)
  PROVE  OfferInv'
<1>1. /\ work[h].op = "buy" /\ work'[h].op = "bought"
      /\ work'[h].on = work[h].on /\ work'[h].amount = work[h].amount
      /\ work'[h].what = work[h].what /\ work'[h].listing = work[h].listing
      /\ \A g \in Handlers : g # h => work'[g] = work[g]
      /\ work' = [g \in Handlers |-> work'[g]]
  BY Publishes
<1>2. /\ announced' = announced \/ announced' = announced \cup {work[h].what}
      /\ UNCHANGED <<listing, sold, paid, ended, torn, calls, aborts>>
  BY DEF BuyPublish
<1>3. OfferType'
  <2>1. work[h].what \in Nat
    BY <1>1 DEF OfferInv, Holds
  <2> QED
    BY <1>1, <1>2, <2>1 DEF OfferInv, OfferType
<1>4. StockInv'
  <2>1. Recorded => Recorded'
    <3>1. {work[g].what : g \in {k \in Handlers : work[k].op = "bought"}} \cup {work[h].what}
            \subseteq {work'[g].what : g \in {k \in Handlers : work'[k].op = "bought"}}
      <4>1. \A g \in Handlers : work[g].op = "bought" =>
              work'[g].op = "bought" /\ work'[g].what = work[g].what
        BY <1>1
      <4> QED
        BY <1>1, <4>1
    <3> QED
      BY <1>2, <3>1 DEF Recorded
  <2> QED
    BY <1>2, <2>1 DEF OfferInv, StockInv, NotOversold, Exists, Recorded
<1>5. ASSUME NEW g \in Handlers
      PROVE  Holds(g)' /\ Fresh(g)'
  <2>1. \A k \in Handlers : work'[k].on = work[k].on
    BY <1>1
  <2>2. Fresh(g)'
    BY <1>1, <1>2, <2>1 DEF OfferInv, Fresh
  <2>3. Holds(g)'
    BY <1>1, <1>2 DEF OfferInv, Holds, Others, OfferOps
  <2> QED
    BY <2>2, <2>3
<1> QED
  BY <1>3, <1>4, <1>5 DEF OfferInv

(* The buyer's transaction writes what is left of what it has read.        *)
LEMMA BuyStep ==
  ASSUME OfferInv, NEW h \in Handlers, BuyCommit(h)
  PROVE  OfferInv'
<1>1. PICK l \in Offers : work[h].on = {l}
  BY DEF BuyCommit, Commit, OfferInv, Holds, OfferOps, Listings
<1>2. /\ work' = [work EXCEPT ![h] = Idle] /\ work[h].op = "bought"
      /\ paid' = paid \cup {work[h].what}
      /\ UNCHANGED <<announced, ended, torn, calls, aborts>>
  BY DEF BuyCommit, Commit
<1>3. The(h) = l
  BY <1>1, TheOne
<1>4. PICK n \in Nat : n = work[h].amount
  BY <1>2 DEF OfferInv, Holds
<1>5. PICK left \in Int : left = work[h].listing[l].left - n
  BY <1>1, <1>4 DEF OfferInv, Holds, OfferRow
<1>6. PICK s : s = IF left <= 0 THEN "SOLD" ELSE listing[l].status
  OBVIOUS
<1>7. PICK row : row = IF Exists(l) THEN [listing[l] EXCEPT !.left = left, !.status = s]
                       ELSE listing[l]
  OBVIOUS
<1>8. /\ row \in OfferRow /\ row.status # "NONE" /\ listing[l].status # "NONE"
      /\ row.status \notin Gone => Exists(l) /\ row.left = left
  <2>1. listing[l] \in OfferRow /\ listing[l].status # "NONE"
    BY <1>1 DEF OfferInv, OfferType, Holds
  <2>2. s \in Status /\ s # "NONE"
    BY <1>6, <2>1 DEF OfferRow, Status
  <2>3. CASE Exists(l)
    BY <1>7, <2>1, <2>2, <2>3 DEF OfferRow
  <2>4. CASE ~ Exists(l)
    BY <1>7, <2>1, <2>4 DEF Exists
  <2> QED
    BY <2>3, <2>4
<1>9. /\ listing' = [listing EXCEPT ![l] = row]
      /\ sold' = [sold EXCEPT ![l] = @ + n]
  <2>1. CASE Exists(l)
    BY <1>3, <1>4, <1>5, <1>6, <1>7, <2>1 DEF BuyCommit, OfferInv, OfferType, Listings
  <2>2. CASE ~ Exists(l)
    BY <1>3, <1>4, <1>5, <1>6, <1>7, <2>2 DEF BuyCommit, OfferInv, OfferType, Listings
  <2> QED
    BY <2>1, <2>2
<1>10. /\ listing'[l] = row /\ \A k \in Listings : k # l => listing'[k] = listing[k]
       /\ listing' = [k \in Listings |-> listing'[k]]
  BY <1>9 DEF OfferInv, OfferType, Listings
<1>11. /\ work'[h].op = "idle" /\ work'[h].on = {}
       /\ \A g \in Handlers : g # h => work'[g] = work[g]
  BY <1>2 DEF OfferInv, OfferType, Idle
<1>12. OfferType'
  <2>1. work[h].what \in Nat
    BY <1>2 DEF OfferInv, Holds
  <2> QED
    BY <1>2, <1>8, <1>9, <1>10, <2>1 DEF OfferInv, OfferType, Listings
<1>13. l \notin torn => left = listing[l].left - n /\ n <= listing[l].left
  BY <1>1, <1>2, <1>4, <1>5 DEF OfferInv, Fresh
<1>14. StockInv'
  <2>1. sold'[l] = sold[l] + n /\ \A k \in Offers : k # l => sold'[k] = sold[k]
    BY <1>9 DEF OfferInv, OfferType
  <2>2. l \notin torn /\ Exists(l) => left + sold'[l] = Co2[l] /\ left >= 0
    <3>1. l \notin torn /\ Exists(l) => listing[l].left + sold[l] = Co2[l]
      BY DEF OfferInv, StockInv, NotOversold
    <3>2. listing[l].left \in Int /\ sold[l] \in Nat
      BY DEF OfferInv, OfferType, OfferRow
    <3> QED
      BY <1>13, <2>1, <3>1, <3>2
  <2>3. \A k \in Offers \ torn' : Exists(k)' =>
          listing'[k].left + sold'[k] = Co2[k] /\ listing'[k].left >= 0
    BY <1>2, <1>8, <1>10, <2>1, <2>2 DEF OfferInv, StockInv, NotOversold, Listings, Exists
  <2>4. \A k \in Offers : listing'[k].status = "NONE" => sold'[k] = 0
    BY <1>8, <1>10, <2>1 DEF OfferInv, StockInv, Listings
  <2>5. Recorded => Recorded'
    <3>1. \A g \in Handlers : work[g].op = "bought" => g = h \/ work'[g] = work[g]
      BY <1>11
    <3> QED
      BY <1>2, <3>1 DEF Recorded
  <2>6. aborts' = 0 => Recorded'
    BY <1>2, <2>5 DEF OfferInv, StockInv, NotOversold, Recorded
  <2> QED
    BY <2>3, <2>4, <2>6 DEF StockInv, NotOversold, Recorded
<1>15. ASSUME NEW g \in Handlers
       PROVE  Holds(g)' /\ Fresh(g)'
  <2>1. CASE g = h
    BY <1>11, <2>1 DEF Holds, Fresh, Others, OfferOps
  <2>2. CASE g # h
    <3>1. Holds(g)'
      BY <1>8, <1>10, <1>11, <2>2 DEF OfferInv, Holds, Listings
    <3>2. \A k \in (Offers \cap work[g].on) \ torn : k # l
      BY <1>1, <2>2 DEF OfferInv, Fresh
    <3>3. Fresh(g)'
      BY <1>2, <1>10, <1>11, <2>2, <3>2 DEF OfferInv, Fresh, Listings
    <3> QED
      BY <3>1, <3>3
  <2> QED
    BY <2>1, <2>2
<1> QED
  BY <1>12, <1>14, <1>15 DEF OfferInv

(* Bids and the closing of auctions change no offer.                       *)
LEMMA AuctionStep ==
  ASSUME OfferInv, NEW h \in Handlers,
         PlaceCommit(h) \/ BidCommit(h) \/ CancelCommit(h) \/ CloseCommit(h)
  PROVE  OfferInv'
<1>1. /\ work' = [work EXCEPT ![h] = Idle] /\ work[h].op \in Others
      /\ UNCHANGED <<sold, paid, announced, ended, torn, calls, aborts>>
  BY DEF PlaceCommit, BidCommit, CancelCommit, CloseCommit, Commit, Others
<1>2. listing' = [l \in Listings |-> listing'[l]] /\ \A l \in Offers : listing'[l] = listing[l]
  <2>1. CASE listing' = listing
    BY <2>1 DEF OfferInv, OfferType
  <2>2. CASE CloseCommit(h) /\ listing' # listing
    <3>1. PICK top : LET closed == {l \in work[h].on : ~Stuck(work[h].bids, l, top[l])}
                     IN  listing' = [l \in Listings |-> IF l \in closed
                           THEN ClosedListing(work[h].listing[l], work[h].bids, l, top[l])
                           ELSE listing[l]]
      BY <2>2 DEF CloseCommit
    <3>2. work[h].on \cap Offers = {}
      BY <1>1 DEF OfferInv, Holds
    <3> QED
      BY <3>1, <3>2 DEF Listings
  <2> QED
    BY <2>1, <2>2 DEF PlaceCommit, BidCommit, CancelCommit
<1> QED
  BY <1>1, <1>2, WriteStep DEF Others

LEMMA AbortStep ==
  ASSUME OfferInv, NEW h \in Handlers, Abort(h)
  PROVE  OfferInv'
<1>1. /\ work' = [work EXCEPT ![h] = Idle] /\ aborts' = aborts + 1
      /\ UNCHANGED <<listing, sold, paid, announced, ended, torn, calls>>
  BY DEF Abort, tables
<1>2. listing' = [l \in Listings |-> listing'[l]]
  BY <1>1 DEF OfferInv, OfferType
<1> QED
  BY <1>1, <1>2, WriteStep

LEMMA CreateStep ==
  ASSUME OfferInv, NEW l \in Listings, CreateListing(l)
  PROVE  OfferInv'
<1>1. /\ listing[l].status = "NONE" /\ listing' = [listing EXCEPT ![l] = NewListing(l)]
      /\ UNCHANGED <<sold, paid, announced, ended, work, torn, calls, aborts>>
  BY DEF CreateListing
<1>2. /\ listing'[l] = NewListing(l) /\ \A k \in Listings : k # l => listing'[k] = listing[k]
      /\ listing' = [k \in Listings |-> listing'[k]]
  BY <1>1 DEF OfferInv, OfferType
<1>3. /\ NewListing(l).status = "ACTIVE"
      /\ l \in Offers => NewListing(l) \in OfferRow /\ NewListing(l).left = Co2[l] /\ Co2[l] >= 0
  BY ListingAssumption DEF NewListing, OfferRow, Status, ListingAssumption
<1>4. OfferType'
  BY <1>1, <1>2, <1>3 DEF OfferInv, OfferType, Listings
<1>5. StockInv'
  <2>1. l \in Offers => listing'[l].left + sold[l] = Co2[l] /\ listing'[l].left >= 0
    <3>1. l \in Offers => sold[l] = 0 /\ Co2[l] \in Nat
      BY <1>1, ListingAssumption DEF OfferInv, StockInv, ListingAssumption
    <3> QED
      BY <1>2, <1>3, <3>1
  <2>2. \A k \in Offers \ torn' : Exists(k)' =>
          listing'[k].left + sold'[k] = Co2[k] /\ listing'[k].left >= 0
    BY <1>1, <1>2, <2>1 DEF OfferInv, StockInv, NotOversold, Exists, Listings
  <2>3. \A k \in Offers : listing'[k].status = "NONE" => sold'[k] = 0
    BY <1>1, <1>2, <1>3 DEF OfferInv, StockInv, Listings
  <2>4. aborts' = 0 => Recorded'
    BY <1>1 DEF OfferInv, StockInv, NotOversold, Recorded
  <2> QED
    BY <2>2, <2>3, <2>4 DEF StockInv, NotOversold, Recorded
<1>6. ASSUME NEW h \in Handlers
      PROVE  Holds(h)' /\ Fresh(h)'
  <2>1. \A k \in Offers \cap work[h].on : k # l
    BY <1>1 DEF OfferInv, Holds
  <2> QED
    BY <1>1, <1>2, <2>1 DEF OfferInv, Holds, Fresh, Listings
<1> QED
  BY <1>4, <1>5, <1>6 DEF OfferInv

----------------------------------------------------------------------------
(* Bids are about auctions, so that what is done to them is too.           *)

LEMMA RewrittenRows ==
  ASSUME NEW S, NEW s \in Seq(S), NEW f, f = [i \in DOMAIN s |-> f[i]], \A i \in DOMAIN s : f[i] \in S
  PROVE  f \in Seq(S)
<1>1. PICK n \in Nat : DOMAIN s = 1 .. n
  BY LenProperties
<1>2. f \in [1 .. n -> S]
  BY <1>1
<1> QED
  BY <1>2, SeqDef

LEMMA AppendedRow ==
  ASSUME NEW s \in Seq(Bid), NEW row \in Bid
  PROVE  Append(s, row) \in Seq(Bid)
BY AppendProperties

LEMMA RewrittenBid ==
  ASSUME NEW row \in Bid, NEW status \in BidStatus, NEW wins \in BOOLEAN
  PROVE  /\ [row EXCEPT !.status = status, !.isWinning = wins] \in Bid
         /\ [row EXCEPT !.status = status] \in Bid
BY DEF Bid

LEMMA NewBidType ==
  ASSUME NEW l \in Auctions, NEW who \in Bidders, NEW amount \in Amounts
  PROVE  NewBid(l, who, amount) \in Bid
BY DEF NewBid, Bid, BidStatus

LEMMA OutbidType ==
  ASSUME NEW row \in Bid
  PROVE  Outbid(row) \in Bid
BY RewrittenBid DEF Outbid, BidStatus

LEMMA BidInit == Init => BidType
<1> SUFFICES ASSUME Init PROVE BidType
  OBVIOUS
<1>1. <<>> \in Seq(Bid)
  OBVIOUS
<1>2. Idle.op = "idle" /\ Idle.bids = <<>> /\ Job(Idle)
  BY DEF Idle, Job
<1>3. work = [h \in Handlers |-> work[h]] /\ \A h \in Handlers : work[h] = Idle
  BY DEF Init
<1> QED
  BY <1>1, <1>2, <1>3 DEF Init, BidType

LEMMA BidBegins ==
  ASSUME BidType, NEW h \in Handlers, NEW op, NEW on, NEW who, NEW amount, NEW what,
         Begin(h, op, on, who, amount, what),
         op \in {"place", "bid"} => /\ \E l \in Auctions : on = {l}
                                   /\ who \in Bidders /\ amount \in Amounts
  PROVE  BidType'
<1> DEFINE job == [op |-> op, on |-> on, who |-> who, amount |-> amount, what |-> what,
                   listing |-> [l \in on |-> listing[l]], bids |-> bids]
<1>1. work' = [work EXCEPT ![h] = job] /\ UNCHANGED bids
  BY DEF Begin, tables
<1>2. /\ Job(job) /\ job.op = op /\ job.on = on /\ job.who = who /\ job.amount = amount
      /\ job.bids = bids
  BY DEF Job
<1> HIDE DEF job
<1>3. /\ work'[h] = job /\ \A g \in Handlers : g # h => work'[g] = work[g]
      /\ work' = [g \in Handlers |-> work'[g]]
  BY <1>1 DEF BidType
<1> QED
  BY <1>1, <1>2, <1>3 DEF BidType

(* A transaction ends and leaves rows of bids behind.                      *)
LEMMA BidEnds ==
  ASSUME BidType, NEW h \in Handlers, work' = [work EXCEPT ![h] = Idle], bids' \in Seq(Bid)
  PROVE  BidType'
<1>1. Idle.op = "idle" /\ Idle.bids = <<>> /\ Job(Idle)
  BY DEF Idle, Job
<1>2. work'[h] = Idle /\ \A g \in Handlers : g # h => work'[g] = work[g]
  BY DEF BidType
<1>3. work' = [g \in Handlers |-> work'[g]]
  BY DEF BidType
<1>4. <<>> \in Seq(Bid)
  OBVIOUS
<1> QED
  BY <1>1, <1>2, <1>3, <1>4 DEF BidType

LEMMA PlaceType ==
  ASSUME BidType, NEW h \in Handlers, PlaceCommit(h)
  PROVE  bids' \in Seq(Bid)
<1>1. PICK l \in Auctions : work[h].on = {l} /\ work[h].who \in Bidders /\ work[h].amount \in Amounts
  BY DEF PlaceCommit, Commit, BidType
<1>2. The(h) = l
  BY <1>1, TheOne
<1>3. NewBid(l, work[h].who, work[h].amount) \in Bid
  BY <1>1, NewBidType
<1>4. ASSUME NEW top \in Highest(work[h].bids, l)
      PROVE  Dethrone(work[h].bids, top) \in Seq(Bid)
  <2>1. work[h].bids[top] \in Bid
    BY <1>4, ElementOfSeq, LenProperties DEF Highest, On, BidType
  <2>2. Outbid(work[h].bids[top]) \in Bid
    BY <2>1, OutbidType
  <2> DEFINE f == [bids EXCEPT ![top] = Outbid(work[h].bids[top])]
  <2>3. f = [i \in DOMAIN bids |-> f[i]] /\ \A i \in DOMAIN bids : f[i] \in Bid
    BY <2>2, ElementOfSeq, LenProperties DEF BidType
  <2>4. f \in Seq(Bid)
    BY <2>3, RewrittenRows DEF BidType
  <2> QED
    BY <2>4 DEF Dethrone, BidType
<1>5. bids \in Seq(Bid)
  BY DEF BidType
<1> DEFINE new == NewBid(l, work[h].who, work[h].amount)
<1>6. \/ bids' = bids
      \/ bids' = Append(bids, new)
      \/ \E top \in Highest(work[h].bids, l) : bids' = Append(Dethrone(work[h].bids, top), new)
  BY <1>2 DEF PlaceCommit
<1>7. new \in Bid
  BY <1>3
<1> HIDE DEF new
<1> QED
  BY <1>4, <1>5, <1>6, <1>7, AppendedRow

LEMMA BidTypeKept ==
  ASSUME BidType, NEW h \in Handlers, BidCommit(h)
  PROVE  bids' \in Seq(Bid)
<1>1. PICK l \in Auctions : work[h].on = {l} /\ work[h].who \in Bidders /\ work[h].amount \in Amounts
  BY DEF BidCommit, Commit, BidType
<1>2. The(h) = l
  BY <1>1, TheOne
<1>3. NewBid(l, work[h].who, work[h].amount) \in Bid
  BY <1>1, NewBidType
<1> DEFINE new == NewBid(l, work[h].who, work[h].amount)
           own == On(work[h].bids, l)
           f == [i \in DOMAIN bids |-> IF i \in own THEN new ELSE bids[i]]
<1>4. bids' = bids \/ bids' = Append(bids, new) \/ bids' = f
  BY <1>2 DEF BidCommit
<1>5. new \in Bid
  BY <1>3
<1> HIDE DEF new, own
<1>6. f \in Seq(Bid)
  BY <1>5, ElementOfSeq, LenProperties, RewrittenRows DEF BidType
<1>7. bids \in Seq(Bid)
  BY DEF BidType
<1> HIDE DEF f
<1> QED
  BY <1>4, <1>5, <1>6, <1>7, AppendedRow

LEMMA CancelType ==
  ASSUME BidType, NEW h \in Handlers, CancelCommit(h)
  PROVE  bids' \in Seq(Bid)
<1> DEFINE i == work[h].amount
           c == [bids EXCEPT ![i].status = "CANCELLED"]
           m == MarkOthers(c, The(h), {i})
<1>1. c = [j \in DOMAIN bids |-> c[j]] /\ \A j \in DOMAIN bids : c[j] \in Bid
  <2>1. \A j \in DOMAIN bids : bids[j] \in Bid
    BY ElementOfSeq, LenProperties DEF BidType
  <2>2. \A j \in DOMAIN bids : [bids[j] EXCEPT !.status = "CANCELLED"] \in Bid
    BY <2>1, RewrittenBid DEF BidStatus
  <2> QED
    BY <2>1, <2>2
<1>2. bids' = c \/ bids' = m
  BY DEF CancelCommit
<1> HIDE DEF i, c
<1>3. c \in Seq(Bid)
  BY <1>1, RewrittenRows DEF BidType
<1>4. m = [j \in DOMAIN c |-> m[j]] /\ \A j \in DOMAIN c : m[j] \in Bid
  <2>1. \A j \in DOMAIN c : c[j] \in Bid /\ Outbid(c[j]) \in Bid
    BY <1>1, OutbidType
  <2> QED
    BY <2>1 DEF MarkOthers
<1> HIDE DEF m
<1>5. m \in Seq(Bid)
  BY <1>3, <1>4, RewrittenRows
<1> QED
  BY <1>2, <1>3, <1>5

LEMMA CloseType ==
  ASSUME BidType, NEW h \in Handlers, CloseCommit(h)
  PROVE  bids' \in Seq(Bid)
<1> DEFINE old == work[h].bids
<1>0. CASE bids' = bids
  BY <1>0 DEF BidType
<1> SUFFICES ASSUME bids' # bids PROVE bids' \in Seq(Bid)
  BY <1>0
<1>1. PICK top : LET closed == {l \in work[h].on : ~Stuck(old, l, top[l])}
                 IN  bids' = [i \in DOMAIN bids |-> IF i \in DOMAIN old /\ bids[i].of \in closed
                                THEN ClosedBid(old, bids[i].of, top[bids[i].of], i) ELSE bids[i]]
  BY DEF CloseCommit
<1>2. \A i \in DOMAIN bids : bids[i] \in Bid
  BY ElementOfSeq, LenProperties DEF BidType
<1>3. \A i \in DOMAIN old : old[i] \in Bid
  BY ElementOfSeq, LenProperties DEF BidType
<1>4. ASSUME NEW i \in DOMAIN bids, i \in DOMAIN old, NEW l, NEW t
      PROVE  ClosedBid(old, l, t, i) \in Bid
  <2>1. PICK won \in BOOLEAN : won = Won(old, l)
    BY DEF Won
  <2> QED
    BY <1>2, <1>3, <1>4, <2>1, RewrittenBid DEF ClosedBid, BidStatus
<1>5. bids' = [i \in DOMAIN bids |-> bids'[i]] /\ \A i \in DOMAIN bids : bids'[i] \in Bid
  BY <1>1, <1>2, <1>4
<1> QED
  BY <1>5, RewrittenRows DEF BidType

LEMMA RequestStep ==
  ASSUME OfferInv, NEW h \in Handlers,
         \/ \E e \in Edits : UpdateListing(h, e[1], e[2])
         \/ \E l \in Listings : DeleteListing(h, l)
         \/ \E l \in Offers, q \in Quantities : Buy(h, l, q)
         \/ \E l \in Auctions, who \in Bidders, a \in Amounts :
              PlaceBid(h, l, who, a) \/ BidOrRaise(h, l, who, a)
         \/ \E i \in DOMAIN bids : bids[i].of \in Auctions /\ CancelBid(h, i)
         \/ CloseFind(h)
  PROVE  OfferInv'
<1> USE ListingAssumption DEF ListingAssumption
<1>0. calls \in Nat /\ calls + 1 \in Nat
  BY DEF OfferInv, OfferType
<1>1. ASSUME NEW e \in Edits, UpdateListing(h, e[1], e[2])
      PROVE  OfferInv'
  <2>1. /\ e[1] \in Listings /\ e[2] \in Status \ Gone /\ listing[e[1]].status # "NONE"
        /\ Begin(h, "update", {e[1]}, None, 0, e[2]) /\ calls' \in Nat
    BY <1>0, <1>1 DEF UpdateListing, Request, Exists, Gone
  <2> QED
    BY <2>1, BeginStep
<1>9. ASSUME NEW l \in Listings, DeleteListing(h, l)
      PROVE  OfferInv'
  <2>1. /\ listing[l].status # "NONE" /\ calls' \in Nat
        /\ Begin(h, "delete", {l}, None, 0, None)
    BY <1>0, <1>9 DEF DeleteListing, Request, Exists, Gone
  <2> QED
    BY <2>1, BeginStep
<1>2. ASSUME NEW l \in Offers, NEW q \in Quantities, Buy(h, l, q)
      PROVE  OfferInv'
  <2>1. /\ l \in Listings /\ q \in Nat /\ listing[l].status # "NONE" /\ q <= listing[l].left
        /\ Begin(h, "buy", {l}, None, q, calls + 1) /\ calls' \in Nat
    BY <1>0, <1>2 DEF Buy, Request, ForSale, Listings
  <2> QED
    BY <1>0, <2>1, BeginStep
<1>3. ASSUME NEW l \in Auctions, NEW who, NEW a, PlaceBid(h, l, who, a) \/ BidOrRaise(h, l, who, a)
      PROVE  OfferInv'
  <2>1. {l} \cap Offers = {}
    OBVIOUS
  <2>2. /\ Begin(h, "place", {l}, who, a, None) \/ Begin(h, "bid", {l}, who, a, None)
        /\ calls' \in Nat
    BY <1>0, <1>3 DEF PlaceBid, BidOrRaise, Request
  <2> QED
    BY <2>1, <2>2, BeginStep DEF Others
<1>4. ASSUME NEW i \in DOMAIN bids, bids[i].of \in Auctions, CancelBid(h, i)
      PROVE  OfferInv'
  <2>1. {bids[i].of} \cap Offers = {}
    BY <1>4
  <2>2. Begin(h, "cancel", {bids[i].of}, bids[i].bidder, i, None) /\ calls' \in Nat
    BY <1>0, <1>4 DEF CancelBid, Request
  <2> QED
    BY <2>1, <2>2, BeginStep DEF Others
<1>5. CASE CloseFind(h)
  <2>1. ExpiredAuctions \cap Offers = {}
    BY DEF ExpiredAuctions, OfferInv, OfferType
  <2>2. Begin(h, "close", ExpiredAuctions, None, 0, None) /\ calls' \in Nat
    BY <1>0, <1>5 DEF CloseFind
  <2> QED
    BY <2>1, <2>2, BeginStep DEF Others
<1> QED
  BY <1>1, <1>2, <1>3, <1>4, <1>5, <1>9

LEMMA BidStep == BidType /\ [Next]_vars => BidType'
<1> SUFFICES ASSUME BidType, [Next]_vars PROVE BidType'
  OBVIOUS
<1>1. ASSUME NEW h \in Handlers, CommitStep(h)
      PROVE  BidType'
  <2>4. CASE BuyPublish(h)
    <3>1. /\ bids' = bids /\ work'[h].op = "bought" /\ work'[h].bids = work[h].bids
          /\ Job(work'[h]) /\ \A g \in Handlers : g # h => work'[g] = work[g]
          /\ work' = [g \in Handlers |-> work'[g]]
      BY <2>4, Publishes DEF BuyPublish
    <3> QED
      BY <3>1 DEF BidType
  <2>2. CASE UpdateCommit(h) \/ DeleteCommit(h) \/ BuyCommit(h)
    <3>1. work' = [work EXCEPT ![h] = Idle] /\ bids' = bids
      BY <2>2 DEF UpdateCommit, DeleteCommit, BuyCommit, Commit
    <3> QED
      BY <3>1, BidEnds DEF BidType
  <2>3. CASE PlaceCommit(h) \/ BidCommit(h) \/ CancelCommit(h) \/ CloseCommit(h)
    <3>1. work' = [work EXCEPT ![h] = Idle]
      BY <2>3 DEF PlaceCommit, BidCommit, CancelCommit, CloseCommit, Commit
    <3> QED
      BY <2>3, <3>1, BidEnds, PlaceType, BidTypeKept, CancelType, CloseType
  <2> QED
    BY <1>1, <2>2, <2>3, <2>4 DEF CommitStep
<1>2. ASSUME NEW h \in Handlers, NEW e \in Edits, UpdateListing(h, e[1], e[2])
      PROVE  BidType'
  BY <1>2, BidBegins DEF UpdateListing, Request
<1>8. ASSUME NEW h \in Handlers, NEW l \in Listings, DeleteListing(h, l)
      PROVE  BidType'
  BY <1>8, BidBegins DEF DeleteListing, Request
<1>3. ASSUME NEW h \in Handlers, NEW l \in Offers, NEW q, Buy(h, l, q)
      PROVE  BidType'
  BY <1>3, BidBegins DEF Buy, Request
<1>4. ASSUME NEW h \in Handlers, NEW l \in Auctions, NEW who \in Bidders, NEW a \in Amounts,
             PlaceBid(h, l, who, a) \/ BidOrRaise(h, l, who, a)
      PROVE  BidType'
  BY <1>4, BidBegins DEF PlaceBid, BidOrRaise, Request
<1>5. ASSUME NEW h \in Handlers, (\E i \in DOMAIN bids : CancelBid(h, i)) \/ CloseFind(h)
      PROVE  BidType'
  BY <1>5, BidBegins DEF CancelBid, CloseFind, Request
<1>6. ASSUME NEW h \in Handlers, Abort(h)
      PROVE  BidType'
  BY <1>6, BidEnds DEF Abort, tables, BidType
<1>7. CASE (\E l \in Listings : CreateListing(l)) \/ (\E l \in Auctions : EndAuction(l))
             \/ UNCHANGED vars
  BY <1>7 DEF CreateListing, EndAuction, vars, tables, BidType
<1> QED
  BY <1>1, <1>2, <1>3, <1>4, <1>5, <1>6, <1>7, <1>8 DEF Next

LEMMA BidsAreTyped == Spec => []BidType
BY BidInit, BidStep, PTL DEF Spec

----------------------------------------------------------------------------
LEMMA OfferStep == OfferInv /\ BidType /\ [Next]_vars => OfferInv'
<1> SUFFICES ASSUME OfferInv, BidType, [Next]_vars PROVE OfferInv'
  OBVIOUS
<1>1. ASSUME NEW h \in Handlers, CommitStep(h) \/ Abort(h)
      PROVE  OfferInv'
  BY <1>1, UpdateStep, DeleteStep, PublishStep, BuyStep, AuctionStep, AbortStep DEF CommitStep
<1>2. \A i \in DOMAIN bids : bids[i].of \in Auctions
  <2>1. \A i \in DOMAIN bids : bids[i] \in Bid
    BY ElementOfSeq, LenProperties DEF BidType
  <2> QED
    BY <2>1 DEF Bid
<1>3. ASSUME NEW h \in Handlers,
             \/ \E e \in Edits : UpdateListing(h, e[1], e[2])
             \/ \E l \in Listings : DeleteListing(h, l)
             \/ \E l \in Offers, q \in Quantities : Buy(h, l, q)
             \/ \E l \in Auctions, who \in Bidders, a \in Amounts :
                  PlaceBid(h, l, who, a) \/ BidOrRaise(h, l, who, a)
             \/ \E i \in DOMAIN bids : CancelBid(h, i)
             \/ CloseFind(h)
      PROVE  OfferInv'
  BY <1>2, <1>3, RequestStep
<1>4. ASSUME NEW l \in Listings, CreateListing(l)
      PROVE  OfferInv'
  BY <1>4, CreateStep
<1>5. CASE (\E l \in Auctions : EndAuction(l)) \/ UNCHANGED vars
  <2>1. UNCHANGED <<tables, work, torn, calls, aborts>> /\ ended' \subseteq Auctions
    BY <1>5 DEF EndAuction, vars, tables, OfferInv, OfferType
  <2>2. OfferType' /\ StockInv'
    <3>1. OfferType'
      BY <2>1 DEF tables, OfferInv, OfferType
    <3>2. StockInv'
      BY <2>1 DEF tables, OfferInv, StockInv, NotOversold, Exists
    <3> QED
      BY <3>1, <3>2
  <2>3. \A h \in Handlers : Holds(h)' /\ Fresh(h)'
    BY <2>1 DEF tables, OfferInv, Holds, Fresh
  <2> QED
    BY <2>2, <2>3 DEF OfferInv
<1> QED
  BY <1>1, <1>3, <1>4, <1>5 DEF Next

(***************************************************************************)
(* An offer on which no two transactions overlapped never sells more than  *)
(* it has, whatever its seller makes of its status meanwhile; and as long  *)
(* as no transaction was rolled back an event tells of a purchase that is  *)
(* recorded, or whose transaction is about to commit.                      *)
(***************************************************************************)
THEOREM OffersAddUp == Spec => []NotOversold
<1>1. Spec => []OfferInv
  BY OfferInit, OfferStep, BidsAreTyped, PTL DEF Spec
<1>2. OfferInv => NotOversold
  BY DEF OfferInv, StockInv
<1> QED
  BY <1>1, <1>2, PTL

----------------------------------------------------------------------------
(* Auctions.                                                               *)

Leader(rows, l) ==
  IF On(rows, l) = {} THEN None ELSE rows[CHOOSE i \in Highest(rows, l) : TRUE].bidder

SameRows(a, b, l) == On(a, l) = On(b, l) /\ \A i \in On(b, l) : a[i] = b[i]

(* One bid is higher than all others.                                      *)
OneHighest(rows, l) ==
  On(rows, l) # {} => \E i \in On(rows, l) : \A j \in On(rows, l) \ {i} :
                        rows[j].amount < rows[i].amount

(* What a transaction has seen to before it began, of the rows it has      *)
(* read.                                                                   *)
Seen(h) ==
  LET w == work[h] IN
  /\ \A l \in w.on : l \in Auctions => w.listing[l] \in ListingRow
  /\ w.op \in {"place", "bid", "cancel"} => \E l \in Auctions : w.on = {l}
  /\ w.op = "close" => w.on \subseteq Auctions
  /\ w.op \in {"place", "bid", "close"} => \A l \in w.on : w.listing[l].status = "ACTIVE"
  /\ w.op = "place" => \A l \in w.on : On(w.bids, l) # {} =>
       w.amount >= HighestAmount(w.bids, l) + MinIncrement
  /\ w.op = "bid" => \A l \in w.on :
       w.amount > HighestAmount(w.bids, l) /\ \A i, j \in On(w.bids, l) : i = j
  /\ w.op = "cancel" => \A l \in w.on : w.amount \in On(w.bids, l)
  /\ w.op = "update" => /\ w.what \in Status \ Gone
                         /\ \A l \in w.on : w.listing[l].status \notin Final
  /\ w.op = "delete" => \A l \in w.on : w.listing[l].status # "SOLD"

(* Bids are never deleted or moved to another auction, and a listing that  *)
(* has been deleted is not created again.                                  *)
Linked(h) ==
  /\ \A i \in DOMAIN work[h].bids : i \in DOMAIN bids /\ bids[i].of = work[h].bids[i].of
  /\ \A l \in work[h].on : l \in Auctions => listing[l].status # "NONE"

(* As long as no two transactions overlapped on an auction, what the one   *)
(* at work has read of it is what is there.                                *)
Current(h) ==
  \A l \in (Auctions \cap work[h].on) \ torn :
    /\ work[h].listing[l] = listing[l]
    /\ SameRows(work[h].bids, bids, l)
    /\ \A g \in Handlers : l \in work[g].on => g = h

HouseRows ==
  /\ \A l \in Auctions : listing[l] \in ListingRow
  /\ \A i \in DOMAIN bids : listing[bids[i].of].status # "NONE"
  /\ \A l \in Auctions : listing[l].status = "NONE" => listing[l].winner = None
  /\ \A l \in Auctions \ torn : OneHighest(bids, l)

HouseInv == HouseRows /\ \A h \in Handlers : Seen(h) /\ Linked(h) /\ Current(h)

LEMMA RowTypes ==
  ASSUME NEW rows \in Seq(Bid)
  PROVE  /\ Len(rows) \in Nat /\ DOMAIN rows = 1 .. Len(rows)
         /\ \A i \in DOMAIN rows : /\ rows[i] \in Bid /\ rows[i].of \in Auctions
                                   /\ rows[i].bidder \in Bidders
                                   /\ rows[i].amount \in Nat /\ rows[i].amount >= 1
<1>1. Len(rows) \in Nat /\ DOMAIN rows = 1 .. Len(rows)
  BY LenProperties
<1>2. \A i \in DOMAIN rows : rows[i] \in Bid
  BY <1>1, ElementOfSeq
<1>3. \A a \in Amounts : a \in Nat /\ a >= 1
  BY ListingAssumption DEF ListingAssumption
<1>4. \A i \in DOMAIN rows : rows[i].of \in Auctions /\ rows[i].bidder \in Bidders
                               /\ rows[i].amount \in Amounts
  BY <1>2 DEF Bid
<1> QED
  BY <1>1, <1>2, <1>3, <1>4

(* The bid that is higher than all others.                                 *)
LEMMA TheHighest ==
  ASSUME NEW rows \in Seq(Bid), NEW l, NEW i \in On(rows, l),
         \A j \in On(rows, l) \ {i} : rows[j].amount < rows[i].amount
  PROVE  /\ Highest(rows, l) = {i} /\ HighestAmount(rows, l) = rows[i].amount
         /\ Leader(rows, l) = rows[i].bidder /\ OneHighest(rows, l)
<1>1. \A j \in On(rows, l) : rows[j].amount \in Nat
  BY RowTypes DEF On
<1>2. Highest(rows, l) = {i}
  BY <1>1 DEF Highest
<1>3. (CHOOSE j \in Highest(rows, l) : TRUE) = i
  BY <1>2
<1> QED
  BY <1>2, <1>3 DEF HighestAmount, Leader, OneHighest

LEMMA HasHighest ==
  ASSUME NEW rows \in Seq(Bid), NEW l, OneHighest(rows, l), On(rows, l) # {}
  PROVE  \E i \in On(rows, l) : /\ \A j \in On(rows, l) \ {i} : rows[j].amount < rows[i].amount
                                /\ Highest(rows, l) = {i}
                                /\ HighestAmount(rows, l) = rows[i].amount
                                /\ Leader(rows, l) = rows[i].bidder
                                /\ rows[i].amount \in Nat /\ rows[i].amount >= 1
<1>1. PICK i \in On(rows, l) : \A j \in On(rows, l) \ {i} : rows[j].amount < rows[i].amount
  BY DEF OneHighest
<1>2. rows[i].amount \in Nat /\ rows[i].amount >= 1
  BY RowTypes DEF On
<1> QED
  BY <1>1, <1>2, TheHighest

(* Rows whose bidders and amounts are the same have the same highest bid.  *)
LEMMA SameHighest ==
  ASSUME NEW a \in Seq(Bid), NEW b \in Seq(Bid), NEW l, On(a, l) = On(b, l),
         \A i \in On(b, l) : a[i].amount = b[i].amount /\ a[i].bidder = b[i].bidder,
         OneHighest(b, l)
  PROVE  /\ Highest(a, l) = Highest(b, l) /\ HighestAmount(a, l) = HighestAmount(b, l)
         /\ Leader(a, l) = Leader(b, l) /\ OneHighest(a, l)
<1>1. CASE On(b, l) = {}
  BY <1>1 DEF Highest, HighestAmount, Leader, OneHighest
<1>2. CASE On(b, l) # {}
  <2>1. PICK i \in On(b, l) : /\ \A j \in On(b, l) \ {i} : b[j].amount < b[i].amount
                              /\ Highest(b, l) = {i} /\ HighestAmount(b, l) = b[i].amount
                              /\ Leader(b, l) = b[i].bidder
    BY <1>2, HasHighest
  <2>2. /\ Highest(a, l) = {i} /\ HighestAmount(a, l) = a[i].amount
        /\ Leader(a, l) = a[i].bidder /\ OneHighest(a, l)
    BY <2>1, TheHighest
  <2> QED
    BY <2>1, <2>2
<1> QED
  BY <1>1, <1>2

(* A higher bid at the end becomes the highest.                            *)
LEMMA HigherBid ==
  ASSUME NEW rows \in Seq(Bid), NEW new \in Seq(Bid), NEW l, NEW row \in Bid, row.of = l,
         Len(new) = Len(rows) + 1, new[Len(new)] = row,
         \A i \in DOMAIN rows : new[i].of = rows[i].of /\ new[i].amount = rows[i].amount,
         \A i \in On(rows, l) : rows[i].amount < row.amount
  PROVE  /\ HighestAmount(new, l) = row.amount /\ Leader(new, l) = row.bidder
         /\ OneHighest(new, l)
<1>1. /\ DOMAIN new = DOMAIN rows \cup {Len(new)} /\ Len(new) \notin DOMAIN rows
      /\ Len(new) \in DOMAIN new
  BY RowTypes
<1>2. On(new, l) = On(rows, l) \cup {Len(new)}
  BY <1>1 DEF On
<1>3. \A j \in On(new, l) \ {Len(new)} : new[j].amount < row.amount
  BY <1>1, <1>2 DEF On
<1> QED
  BY <1>2, <1>3, TheHighest

(* What a transaction leaves behind of the auctions it works on, and of    *)
(* the others.                                                             *)
Effect(h) ==
  /\ bids' \in Seq(Bid)
  /\ \A i \in DOMAIN bids : /\ i \in DOMAIN bids' /\ bids'[i].of = bids[i].of
                            /\ bids[i].of \notin work[h].on => bids'[i] = bids[i]
  /\ \A i \in DOMAIN bids' \ DOMAIN bids : bids'[i].of \in work[h].on
  /\ \A l \in Auctions : listing'[l] \in ListingRow
  /\ \A l \in Auctions \ work[h].on : listing'[l] = listing[l]
  /\ \A l \in Auctions : listing'[l].status = "NONE" => listing'[l] = listing[l]
  /\ \A l \in (Auctions \cap work[h].on) \ torn : OneHighest(bids', l)

LEMMA HouseInit == Init => HouseInv
<1> SUFFICES ASSUME Init PROVE HouseInv
  OBVIOUS
<1>1. \A h \in Handlers : work[h].op = "idle" /\ work[h].on = {} /\ work[h].bids = <<>>
  BY DEF Init, Idle
<1>2. \A h \in Handlers : Seen(h) /\ Linked(h) /\ Current(h)
  BY <1>1 DEF Seen, Linked, Current
<1>3. HouseRows
  <2>1. \A l \in Auctions : On(bids, l) = {}
    BY DEF Init, On
  <2> QED
    BY <2>1 DEF Init, HouseRows, OneHighest, Listings, ListingRow, Status, Gone
<1> QED
  BY <1>2, <1>3 DEF HouseInv

(* A transaction begins.                                                   *)
LEMMA HouseBegins ==
  ASSUME HouseInv, BidType,
         NEW h \in Handlers, NEW op, NEW on, NEW who, NEW amount, NEW what,
         Begin(h, op, on, who, amount, what),
         op \in {"place", "bid", "cancel"} => \E l \in Auctions : on = {l},
         op = "close" => on \subseteq Auctions,
         \A l \in on : l \in Auctions => listing[l].status # "NONE",
         op \in {"place", "bid", "close"} => \A l \in on : listing[l].status = "ACTIVE",
         op = "place" => \A l \in on : On(bids, l) # {} =>
           amount >= HighestAmount(bids, l) + MinIncrement,
         op = "bid" => \A l \in on :
           amount > HighestAmount(bids, l) /\ \A i, j \in On(bids, l) : i = j,
         op = "cancel" => \A l \in on : amount \in On(bids, l),
         op = "update" => what \in Status \ Gone /\ \A l \in on : listing[l].status \notin Final,
         op = "delete" => \A l \in on : listing[l].status # "SOLD"
  PROVE  HouseInv'
<1> DEFINE job == [op |-> op, on |-> on, who |-> who, amount |-> amount, what |-> what,
                   listing |-> [l \in on |-> listing[l]], bids |-> bids]
<1>1. /\ work[h] = Idle /\ work' = [work EXCEPT ![h] = job]
      /\ torn' = torn \cup UNION {on \cap work[g].on : g \in Handlers}
      /\ UNCHANGED <<listing, bids>>
  BY DEF Begin, tables
<1>2. /\ job.op = op /\ job.on = on /\ job.amount = amount /\ job.what = what /\ job.bids = bids
      /\ \A l \in on : job.listing[l] = listing[l]
  OBVIOUS
<1> HIDE DEF job
<1>3. work'[h] = job /\ \A g \in Handlers : g # h => work'[g] = work[g]
  BY <1>1 DEF BidType
<1>4. torn \subseteq torn'
  BY <1>1
<1>5. HouseRows'
  BY <1>1, <1>4 DEF HouseInv, HouseRows
<1>6. ASSUME NEW g \in Handlers
      PROVE  Seen(g)' /\ Linked(g)'
  <2>1. CASE g = h
    <3>1. Linked(h)'
      BY <1>1, <1>2, <1>3 DEF Linked
    <3>2. \A l \in on : l \in Auctions => job.listing[l] \in ListingRow
      BY <1>2 DEF HouseInv, HouseRows
    <3>3. Seen(h)'
      BY <1>2, <1>3, <3>2 DEF Seen
    <3> QED
      BY <2>1, <3>1, <3>3
  <2>2. CASE g # h
    <3>1. work'[g] = work[g] /\ Seen(g) /\ Linked(g)
      BY <1>3, <2>2 DEF HouseInv
    <3>2. Seen(g)'
      BY <3>1 DEF Seen
    <3>3. Linked(g)'
      BY <1>1, <3>1 DEF Linked
    <3> QED
      BY <3>2, <3>3
  <2> QED
    BY <2>1, <2>2
<1>7. ASSUME NEW g \in Handlers
      PROVE  Current(g)'
  <2> SUFFICES ASSUME NEW l \in Auctions, l \in work'[g].on, l \notin torn'
               PROVE  /\ work'[g].listing[l] = listing[l]
                      /\ SameRows(work'[g].bids, bids, l)
                      /\ \A k \in Handlers : l \in work'[k].on => k = g
    BY <1>1 DEF Current
  <2>1. l \notin torn /\ \A k \in Handlers : ~ (l \in on /\ l \in work[k].on)
    BY <1>1
  <2>2. CASE g = h
    BY <1>1, <1>2, <1>3, <2>1, <2>2 DEF SameRows
  <2>3. CASE g # h
    BY <1>1, <1>2, <1>3, <2>1, <2>3 DEF HouseInv, Current
  <2> QED
    BY <2>2, <2>3
<1> QED
  BY <1>5, <1>6, <1>7 DEF HouseInv

LEMMA OtherRows ==
  ASSUME NEW h \in Handlers, Effect(h), NEW l, l \notin work[h].on
  PROVE  On(bids', l) = On(bids, l) /\ \A i \in On(bids, l) : bids'[i] = bids[i]
BY DEF Effect, On

(* A transaction ends.                                                     *)
LEMMA HouseEnds ==
  ASSUME HouseInv, BidType, OfferInv, NEW h \in Handlers, work' = [work EXCEPT ![h] = Idle],
         UNCHANGED torn, Effect(h)
  PROVE  HouseInv'
<1>1. Idle.op = "idle" /\ Idle.on = {} /\ Idle.bids = <<>>
  BY DEF Idle
<1>2. work'[h] = Idle /\ \A g \in Handlers : g # h => work'[g] = work[g]
  BY DEF BidType
<1>3. \A l \in Auctions : listing[l].status # "NONE" => listing'[l].status # "NONE"
  BY DEF Effect
<1>4. HouseRows'
  <2>1. ASSUME NEW i \in DOMAIN bids'
        PROVE  listing'[bids'[i].of].status # "NONE"
    <3>1. bids'[i].of \in Auctions
      BY RowTypes DEF Effect
    <3>2. CASE i \in DOMAIN bids
      BY <1>3, <3>1, <3>2 DEF Effect, HouseInv, HouseRows
    <3>3. CASE i \notin DOMAIN bids
      BY <1>3, <3>1, <3>3 DEF Effect, HouseInv, Linked
    <3> QED
      BY <3>2, <3>3
  <2>2. \A l \in Auctions : listing'[l].status = "NONE" => listing'[l].winner = None
    BY DEF Effect, HouseInv, HouseRows
  <2>3. ASSUME NEW l \in Auctions \ torn, l \notin work[h].on
        PROVE  OneHighest(bids', l)
    <3>1. OneHighest(bids, l)
      BY <2>3 DEF HouseInv, HouseRows
    <3> QED
      BY <2>3, <3>1, OtherRows DEF OneHighest
  <2> QED
    BY <2>1, <2>2, <2>3 DEF Effect, HouseRows
<1>5. ASSUME NEW g \in Handlers
      PROVE  Seen(g)' /\ Linked(g)' /\ Current(g)'
  <2>1. CASE g = h
    <3>1. Seen(h)'
      BY <1>1, <1>2 DEF Seen
    <3>2. Linked(h)' /\ Current(h)'
      BY <1>1, <1>2 DEF Linked, Current
    <3> QED
      BY <2>1, <3>1, <3>2
  <2>2. CASE g # h
    <3>1. Seen(g)'
      <4>1. work'[g] = work[g] /\ Seen(g)
        BY <1>2, <2>2 DEF HouseInv
      <4> QED
        BY <4>1 DEF Seen
    <3>2. Linked(g)'
      BY <1>2, <1>3, <2>2 DEF HouseInv, Linked, Effect
    <3>3. Current(g)'
      <4> SUFFICES ASSUME NEW l \in Auctions, l \in work[g].on, l \notin torn
                   PROVE  /\ work[g].listing[l] = listing'[l]
                          /\ SameRows(work[g].bids, bids', l)
                          /\ \A k \in Handlers : l \in work'[k].on => k = g
        BY <1>2, <2>2 DEF Current
      <4>1. /\ work[g].listing[l] = listing[l] /\ SameRows(work[g].bids, bids, l)
            /\ \A k \in Handlers : l \in work[k].on => k = g
        BY DEF HouseInv, Current
      <4>2. l \notin work[h].on
        BY <2>2, <4>1
      <4>3. listing'[l] = listing[l]
        BY <4>2 DEF Effect
      <4>4. SameRows(work[g].bids, bids', l)
        BY <4>1, <4>2, OtherRows DEF SameRows
      <4> QED
        BY <1>1, <1>2, <4>1, <4>3, <4>4
    <3> QED
      BY <3>1, <3>2, <3>3
  <2> QED
    BY <2>1, <2>2
<1> QED
  BY <1>4, <1>5 DEF HouseInv

Steady(l) == HighestAmount(bids', l) = HighestAmount(bids, l) /\ Leader(bids', l) = Leader(bids, l)

Sells(l) == HighestAmount(bids, l) > 0 /\ HighestAmount(bids, l) >= Floor[l]

(* What module Auction lets happen to an auction, in terms of the tables.  *)
Promised(l) ==
  \/ /\ listing[l].status = "ACTIVE" /\ listing'[l] = listing[l]
     /\ HighestAmount(bids', l) > HighestAmount(bids, l) /\ Leader(bids', l) \in Bidders
  \/ /\ listing[l].status = "ACTIVE" /\ Steady(l)
     /\ listing'[l].status = IF Sells(l) THEN "PENDING_PAYMENT" ELSE "CANCELLED"
     /\ listing'[l].winner = IF Sells(l) THEN Leader(bids, l) ELSE listing[l].winner
  \/ /\ listing[l].status \notin Final \cup {"DELETED"} /\ listing'[l].status # "DELETED"
     /\ listing'[l].winner = listing[l].winner /\ Steady(l)
  \/ /\ listing[l].status \notin Gone \cup {"SOLD"} /\ HighestAmount(bids, l) = 0 /\ Steady(l)
     /\ listing'[l].status = "DELETED" /\ listing'[l].winner = listing[l].winner
  \/ listing'[l] = listing[l] /\ Steady(l)

KeepsPromise(h) == \A l \in (Auctions \cap work[h].on) \ torn : Promised(l)

(* A transaction that writes a bid higher than all others at the end.      *)
LEMMA NewHighest ==
  ASSUME HouseInv, BidType, NEW h \in Handlers, NEW l \in Auctions, work[h].on = {l},
         listing' = listing, NEW row \in Bid, row.of = l, NEW d \in Seq(Bid),
         Len(d) = Len(bids), bids' = Append(d, row),
         \A i \in DOMAIN bids : /\ d[i].of = bids[i].of
                                /\ bids[i].of # l => d[i] = bids[i]
                                /\ l \notin torn => d[i].amount = bids[i].amount,
         l \notin torn => listing[l].status = "ACTIVE" /\ row.amount > HighestAmount(bids, l)
  PROVE  Effect(h) /\ KeepsPromise(h)
<1>1. bids \in Seq(Bid)
  BY DEF BidType
<1>2. /\ bids' \in Seq(Bid) /\ Len(bids') = Len(bids) + 1 /\ bids'[Len(bids')] = row
      /\ \A i \in 1 .. Len(bids) : bids'[i] = d[i]
  BY AppendProperties
<1>3. /\ Len(bids) \in Nat /\ DOMAIN bids = 1 .. Len(bids) /\ DOMAIN bids' = 1 .. Len(bids')
  BY <1>1, <1>2, RowTypes
<1>4. l \notin torn => /\ HighestAmount(bids', l) = row.amount /\ Leader(bids', l) = row.bidder
                       /\ OneHighest(bids', l)
  <2> SUFFICES ASSUME l \notin torn
               PROVE  /\ HighestAmount(bids', l) = row.amount /\ Leader(bids', l) = row.bidder
                      /\ OneHighest(bids', l)
    OBVIOUS
  <2>1. \A i \in On(bids, l) : bids[i].amount < row.amount
    <3>1. CASE On(bids, l) = {}
      BY <3>1
    <3>2. CASE On(bids, l) # {}
      <4>1. OneHighest(bids, l)
        BY DEF HouseInv, HouseRows
      <4>2. PICK i \in On(bids, l) : /\ \A j \in On(bids, l) \ {i} : bids[j].amount < bids[i].amount
                                     /\ HighestAmount(bids, l) = bids[i].amount
        BY <1>1, <3>2, <4>1, HasHighest
      <4>3. \A j \in On(bids, l) : bids[j].amount \in Nat
        BY <1>1, RowTypes DEF On
      <4>4. row.amount \in Nat
        BY ListingAssumption DEF ListingAssumption, Bid
      <4> QED
        BY <4>2, <4>3, <4>4
    <3> QED
      BY <3>1, <3>2
  <2>2. \A i \in DOMAIN bids : bids'[i].of = bids[i].of /\ bids'[i].amount = bids[i].amount
    BY <1>2, <1>3
  <2>3. PICK new \in Seq(Bid) : new = bids'
    BY <1>2
  <2>4. /\ HighestAmount(new, l) = row.amount /\ Leader(new, l) = row.bidder
        /\ OneHighest(new, l)
    <3>1. /\ Len(new) = Len(bids) + 1 /\ new[Len(new)] = row
          /\ \A i \in DOMAIN bids : new[i].of = bids[i].of /\ new[i].amount = bids[i].amount
      BY <1>2, <2>2, <2>3
    <3>2. row \in Bid /\ row.of = l /\ new \in Seq(Bid) /\ bids \in Seq(Bid)
      BY <1>1
    <3> QED
      BY ONLY <2>1, <3>1, <3>2, HigherBid
  <2> QED
    BY <2>3, <2>4
<1>5. Effect(h)
  BY <1>2, <1>3, <1>4 DEF Effect, HouseInv, HouseRows
<1>6. KeepsPromise(h)
  BY <1>4 DEF KeepsPromise, Promised, Bid
<1> QED
  BY <1>5, <1>6

(* A transaction that leaves bidders and amounts alone.                    *)
LEMMA SameBids ==
  ASSUME HouseInv, BidType, NEW h \in Handlers,
         bids' \in Seq(Bid), DOMAIN bids' = DOMAIN bids,
         \A i \in DOMAIN bids :
           /\ bids'[i].of = bids[i].of
           /\ bids[i].of \notin work[h].on => bids'[i] = bids[i]
           /\ bids[i].of \notin torn =>
                bids'[i].amount = bids[i].amount /\ bids'[i].bidder = bids[i].bidder,
         \A l \in Auctions : listing'[l] \in ListingRow,
         \A l \in Auctions \ work[h].on : listing'[l] = listing[l],
         \A l \in Auctions : listing'[l].status = "NONE" => listing'[l] = listing[l]
  PROVE  Effect(h) /\ \A l \in (Auctions \cap work[h].on) \ torn : Steady(l)
<1>1. bids \in Seq(Bid)
  BY DEF BidType
<1>2. ASSUME NEW l \in Auctions \ torn
      PROVE  OneHighest(bids', l) /\ Steady(l)
  <2>1. OneHighest(bids, l)
    BY <1>2 DEF HouseInv, HouseRows
  <2>2. /\ On(bids', l) = On(bids, l)
        /\ \A i \in On(bids, l) : bids'[i].amount = bids[i].amount /\ bids'[i].bidder = bids[i].bidder
    BY <1>2 DEF On
  <2> QED
    BY <1>1, <2>1, <2>2, SameHighest DEF Steady
<1> QED
  BY <1>2 DEF Effect

LEMMA OutbidIs ==
  ASSUME NEW row \in Bid
  PROVE  /\ Outbid(row).of = row.of /\ Outbid(row).amount = row.amount
         /\ Outbid(row).bidder = row.bidder
BY DEF Outbid, Bid

LEMMA NewBidIs ==
  ASSUME NEW l \in Auctions, NEW who \in Bidders, NEW amount \in Amounts
  PROVE  /\ NewBid(l, who, amount) \in Bid /\ NewBid(l, who, amount).of = l
         /\ NewBid(l, who, amount).amount = amount /\ NewBid(l, who, amount).bidder = who
BY NewBidType DEF NewBid

LEMMA SameLength ==
  ASSUME NEW a \in Seq(Bid), NEW b \in Seq(Bid), DOMAIN a = DOMAIN b
  PROVE  Len(a) = Len(b)
<1>1. PICK m \in Nat, n \in Nat : m = Len(a) /\ n = Len(b) /\ 1 .. m = 1 .. n
  BY LenProperties
<1>2. ~ (m < n) /\ ~ (n < m)
  <2>1. (m >= 1 => m \in 1 .. m) /\ (n >= 1 => n \in 1 .. n)
    OBVIOUS
  <2>2. (m >= 1 => m \in 1 .. n) /\ (n >= 1 => n \in 1 .. m)
    BY <1>1, <2>1
  <2> QED
    BY <2>2
<1> QED
  BY <1>1, <1>2

LEMMA Unchanged ==
  ASSUME HouseInv, BidType, NEW h \in Handlers, bids' = bids, listing' = listing
  PROVE  Effect(h) /\ KeepsPromise(h)
<1>1. bids' \in Seq(Bid)
  BY DEF BidType
<1>2. Effect(h)
  BY <1>1 DEF Effect, HouseInv, HouseRows
<1>3. KeepsPromise(h)
  BY DEF KeepsPromise, Promised, Steady
<1> QED
  BY <1>2, <1>3

LEMMA HousePlace ==
  ASSUME HouseInv, BidType, NEW h \in Handlers, PlaceCommit(h)
  PROVE  Effect(h) /\ KeepsPromise(h)
<1>1. PICK l \in Auctions, who \in Bidders, amount \in Amounts :
        work[h].on = {l} /\ work[h].who = who /\ work[h].amount = amount
  BY DEF PlaceCommit, Commit, BidType
<1>2. The(h) = l
  BY <1>1, TheOne
<1>3. PICK old \in Seq(Bid) : old = work[h].bids
  BY DEF BidType
<1>4. PICK row \in Bid : row = NewBid(l, who, amount) /\ row.of = l /\ row.amount = amount
  BY NewBidIs
<1>5. /\ \/ bids' = bids
         \/ On(old, l) = {} /\ bids' = Append(bids, row)
         \/ \E top \in Highest(old, l) : bids' = Append(Dethrone(old, top), row)
      /\ listing' = listing
  BY <1>1, <1>2, <1>3, <1>4 DEF PlaceCommit
<1>6. bids \in Seq(Bid) /\ \A i \in DOMAIN bids : bids[i] \in Bid
  BY RowTypes DEF BidType
<1>7. l \notin torn => listing[l].status = "ACTIVE" /\ amount > HighestAmount(bids, l)
  <2> SUFFICES ASSUME l \notin torn
               PROVE  listing[l].status = "ACTIVE" /\ amount > HighestAmount(bids, l)
    OBVIOUS
  <2>1. work[h].op = "place"
    BY DEF PlaceCommit, Commit
  <2>2. work[h].listing[l] = listing[l] /\ SameRows(old, bids, l) /\ OneHighest(bids, l)
    BY <1>1, <1>3 DEF HouseInv, HouseRows, Current
  <2>3. /\ work[h].listing[l].status = "ACTIVE"
        /\ On(old, l) # {} => amount >= HighestAmount(old, l) + MinIncrement
    BY <1>1, <1>3, <2>1 DEF HouseInv, Seen
  <2>4. amount \in Nat /\ amount >= 1 /\ MinIncrement \in Nat /\ MinIncrement >= 1
    BY ListingAssumption DEF ListingAssumption
  <2>5. On(old, l) = On(bids, l) /\ HighestAmount(old, l) = HighestAmount(bids, l)
    BY <1>6, <2>2, SameHighest DEF SameRows
  <2>6. CASE On(bids, l) = {}
    BY <2>2, <2>3, <2>4, <2>6 DEF HighestAmount
  <2>7. CASE On(bids, l) # {}
    <3>1. HighestAmount(bids, l) \in Nat
      BY <1>6, <2>2, <2>7, HasHighest
    <3> QED
      BY <2>2, <2>3, <2>4, <2>5, <2>7, <3>1
  <2> QED
    BY <2>6, <2>7
<1>8. CASE bids' = Append(bids, row)
  BY <1>1, <1>4, <1>5, <1>6, <1>7, <1>8, NewHighest
<1>9. ASSUME NEW top \in Highest(old, l), bids' = Append(Dethrone(old, top), row)
      PROVE  Effect(h) /\ KeepsPromise(h)
  <2>1. PICK d : d = Dethrone(old, top)
    OBVIOUS
  <2>2. top \in DOMAIN old /\ old[top].of = l /\ old[top] \in Bid
    BY RowTypes DEF Highest, On
  <2>3. top \in DOMAIN bids /\ bids[top].of = l
    BY <1>3, <2>2 DEF HouseInv, Linked
  <2>4. l \notin torn => old[top] = bids[top]
    BY <1>1, <1>3, <2>3 DEF HouseInv, Current, SameRows, On
  <2>5. d = bids \/ d = [bids EXCEPT ![top] = Outbid(old[top])]
    BY <2>1 DEF Dethrone
  <2>6. PICK out \in Bid : /\ out = Outbid(old[top]) /\ out.of = l
                           /\ out.amount = old[top].amount
    BY <2>2, OutbidType, OutbidIs
  <2>7. /\ d \in Seq(Bid) /\ DOMAIN d = DOMAIN bids
        /\ \A i \in DOMAIN bids : d[i] = bids[i] \/ (i = top /\ d[i] = out)
    <3>1. CASE d = bids
      BY <1>6, <3>1
    <3>2. CASE d = [bids EXCEPT ![top] = out]
      <4>1. d = [i \in DOMAIN bids |-> d[i]] /\ \A i \in DOMAIN bids : d[i] \in Bid
        BY <1>6, <3>2
      <4> QED
        BY <1>6, <3>2, <4>1, RewrittenRows
    <3> QED
      BY <2>5, <2>6, <3>1, <3>2
  <2>8. Len(d) = Len(bids)
    BY <1>6, <2>7, SameLength
  <2>9. \A i \in DOMAIN bids : /\ d[i].of = bids[i].of
                               /\ bids[i].of # l => d[i] = bids[i]
                               /\ l \notin torn => d[i].amount = bids[i].amount
    BY <2>3, <2>4, <2>6, <2>7
  <2> QED
    BY <1>1, <1>4, <1>5, <1>7, <1>9, <2>1, <2>7, <2>8, <2>9, NewHighest
<1>10. CASE bids' = bids
  BY <1>5, <1>10, Unchanged
<1> QED
  BY <1>5, <1>8, <1>9, <1>10

(* The only bid of an auction is raised by who made it.                    *)
LEMMA RaisedBid ==
  ASSUME HouseInv, BidType, NEW h \in Handlers, NEW l \in Auctions, work[h].on = {l},
         listing' = listing, NEW row \in Bid, row.of = l, NEW own, own # {},
         own \subseteq DOMAIN bids, \A i \in own : bids[i].of = l,
         bids' = [i \in DOMAIN bids |-> IF i \in own THEN row ELSE bids[i]],
         \A i, j \in own : i = j,
         l \notin torn => /\ listing[l].status = "ACTIVE" /\ row.amount > HighestAmount(bids, l)
                          /\ On(bids, l) = own
  PROVE  Effect(h) /\ KeepsPromise(h)
<1>1. bids \in Seq(Bid) /\ \A i \in DOMAIN bids : bids[i] \in Bid
  BY RowTypes DEF BidType
<1>2. PICK new : new = bids'
  OBVIOUS
<1>3. new = [i \in DOMAIN bids |-> IF i \in own THEN row ELSE bids[i]]
  BY <1>2
<1>4. /\ DOMAIN new = DOMAIN bids /\ \A i \in own : new[i] = row
      /\ \A i \in DOMAIN bids \ own : new[i] = bids[i]
  BY <1>3
<1>5. new \in Seq(Bid)
  <2>1. new = [i \in DOMAIN bids |-> new[i]] /\ \A i \in DOMAIN bids : new[i] \in Bid
    BY <1>1, <1>3
  <2> QED
    BY <1>1, <2>1, RewrittenRows
<1>6. PICK i \in own : own = {i}
  OBVIOUS
<1>7. l \notin torn => /\ HighestAmount(new, l) = row.amount /\ Leader(new, l) = row.bidder
                       /\ OneHighest(new, l)
  <2> SUFFICES ASSUME l \notin torn
               PROVE  /\ HighestAmount(new, l) = row.amount /\ Leader(new, l) = row.bidder
                      /\ OneHighest(new, l)
    OBVIOUS
  <2>1. On(bids, l) = {i}
    BY <1>6
  <2>2. On(new, l) = {i} /\ new[i] = row
    BY <1>4, <1>6, <2>1 DEF On
  <2>3. i \in On(new, l) /\ \A j \in On(new, l) \ {i} : new[j].amount < new[i].amount
    BY <2>2
  <2> QED
    BY ONLY <1>5, <2>2, <2>3, TheHighest
<1>8. Effect(h)
  BY <1>2, <1>4, <1>5, <1>7 DEF Effect, HouseInv, HouseRows
<1>9. row.bidder \in Bidders
  BY DEF Bid
<1>10. KeepsPromise(h)
  BY <1>2, <1>7, <1>9 DEF KeepsPromise, Promised
<1> QED
  BY <1>8, <1>10

LEMMA HouseBid ==
  ASSUME HouseInv, BidType, NEW h \in Handlers, BidCommit(h)
  PROVE  Effect(h) /\ KeepsPromise(h)
<1>1. PICK l \in Auctions, who \in Bidders, amount \in Amounts :
        work[h].on = {l} /\ work[h].who = who /\ work[h].amount = amount
  BY DEF BidCommit, Commit, BidType
<1>2. The(h) = l
  BY <1>1, TheOne
<1>3. PICK old \in Seq(Bid) : old = work[h].bids
  BY DEF BidType
<1>4. PICK row \in Bid : row = NewBid(l, who, amount) /\ row.of = l /\ row.amount = amount
  BY NewBidIs
<1>5. PICK own : own = On(old, l)
  OBVIOUS
<1>6. /\ \/ bids' = bids
         \/ own = {} /\ bids' = Append(bids, row)
         \/ own # {} /\ bids' = [i \in DOMAIN bids |-> IF i \in own THEN row ELSE bids[i]]
      /\ listing' = listing
  BY <1>1, <1>2, <1>3, <1>4, <1>5 DEF BidCommit
<1>7. bids \in Seq(Bid)
  BY DEF BidType
<1>8. own \subseteq DOMAIN bids /\ \A i \in own : bids[i].of = l
  BY <1>3, <1>5 DEF HouseInv, Linked, On
<1>9. work[h].op = "bid"
  BY DEF BidCommit, Commit
<1>10. \A i, j \in own : i = j
  BY <1>1, <1>3, <1>5, <1>9 DEF HouseInv, Seen
<1>11. l \notin torn => /\ listing[l].status = "ACTIVE" /\ row.amount > HighestAmount(bids, l)
                        /\ On(bids, l) = own
  <2> SUFFICES ASSUME l \notin torn
               PROVE  /\ listing[l].status = "ACTIVE" /\ amount > HighestAmount(bids, l)
                      /\ On(bids, l) = own
    BY <1>4
  <2>1. work[h].listing[l] = listing[l] /\ SameRows(old, bids, l) /\ OneHighest(bids, l)
    BY <1>1, <1>3 DEF HouseInv, HouseRows, Current
  <2>2. work[h].listing[l].status = "ACTIVE" /\ amount > HighestAmount(old, l)
    BY <1>1, <1>3, <1>9 DEF HouseInv, Seen
  <2>3. On(old, l) = On(bids, l) /\ HighestAmount(old, l) = HighestAmount(bids, l)
    BY <1>7, <2>1, SameHighest DEF SameRows
  <2> QED
    BY <1>5, <2>1, <2>2, <2>3
<1>12. CASE bids' = bids
  BY <1>6, <1>12, Unchanged
<1>13. CASE bids' = Append(bids, row)
  BY <1>1, <1>4, <1>6, <1>7, <1>11, <1>13, NewHighest
<1>14. CASE own # {} /\ bids' = [i \in DOMAIN bids |-> IF i \in own THEN row ELSE bids[i]]
  BY <1>1, <1>4, <1>6, <1>8, <1>10, <1>11, <1>14, RaisedBid
<1> QED
  BY <1>6, <1>12, <1>13, <1>14

LEMMA HouseCancel ==
  ASSUME HouseInv, BidType, NEW h \in Handlers, CancelCommit(h)
  PROVE  Effect(h) /\ KeepsPromise(h)
<1>1. work[h].op = "cancel" /\ listing' = listing
  BY DEF CancelCommit, Commit
<1>2. PICK l \in Auctions : work[h].on = {l}
  BY <1>1 DEF HouseInv, Seen
<1>3. The(h) = l
  BY <1>2, TheOne
<1>4. PICK k : k = work[h].amount /\ k \in DOMAIN bids /\ bids[k].of = l
  BY <1>1, <1>2 DEF HouseInv, Seen, Linked, On
<1>5. PICK c : c = [bids EXCEPT ![k].status = "CANCELLED"]
  OBVIOUS
<1>6. bids' = c \/ bids' = MarkOthers(c, l, {k})
  BY <1>3, <1>4, <1>5 DEF CancelCommit
<1>7. bids' \in Seq(Bid)
  BY CancelType
<1>8. \A i \in DOMAIN bids : bids[i] \in Bid
  BY RowTypes DEF BidType
<1>9. /\ DOMAIN c = DOMAIN bids /\ \A i \in DOMAIN bids \ {k} : c[i] = bids[i]
      /\ c[k] \in Bid /\ c[k].of = l /\ c[k].amount = bids[k].amount /\ c[k].bidder = bids[k].bidder
  BY <1>4, <1>5, <1>8 DEF Bid, BidStatus
<1>10. \A i \in DOMAIN bids : Outbid(c[i]).of = bids[i].of /\ Outbid(c[i]).amount = bids[i].amount
                              /\ Outbid(c[i]).bidder = bids[i].bidder
  BY <1>4, <1>8, <1>9, OutbidIs
<1>11. /\ DOMAIN bids' = DOMAIN bids
       /\ \A i \in DOMAIN bids :
            /\ bids'[i].of = bids[i].of /\ bids'[i].amount = bids[i].amount
            /\ bids'[i].bidder = bids[i].bidder
            /\ bids[i].of # l => bids'[i] = bids[i]
  <2>1. CASE bids' = c
    BY <1>4, <1>9, <2>1
  <2>2. CASE bids' = MarkOthers(c, l, {k})
    BY <1>4, <1>9, <1>10, <2>2 DEF MarkOthers, On
  <2> QED
    BY <1>6, <2>1, <2>2
<1>12. Effect(h) /\ \A m \in (Auctions \cap work[h].on) \ torn : Steady(m)
  BY <1>1, <1>2, <1>7, <1>11, SameBids DEF HouseInv, HouseRows
<1> QED
  BY <1>1, <1>12 DEF KeepsPromise, Promised

LEMMA HouseUpdate ==
  ASSUME HouseInv, BidType, OfferInv, NEW h \in Handlers,
         UpdateCommit(h) \/ DeleteCommit(h) \/ BuyCommit(h)
  PROVE  Effect(h) /\ KeepsPromise(h)
<1>1. bids' = bids /\ bids' \in Seq(Bid) /\ work[h].op \in {"update", "delete", "bought"}
  BY DEF UpdateCommit, DeleteCommit, BuyCommit, Commit, BidType
<1>2. PICK l \in Listings : work[h].on = {l}
  BY <1>1 DEF OfferInv, Holds, OfferOps
<1>3. The(h) = l
  BY <1>2, TheOne
<1>4. CASE listing' = listing
  BY <1>1, <1>4, Unchanged
<1>5. CASE l \notin Auctions
  <2>1. \A m \in Listings \ {l} : listing'[m] = listing[m]
    <3>1. CASE UpdateCommit(h)
      BY <1>3, <3>1 DEF UpdateCommit, OfferInv, OfferType
    <3>2. CASE DeleteCommit(h)
      BY <1>3, <3>2 DEF DeleteCommit, OfferInv, OfferType
    <3>3. CASE BuyCommit(h)
      BY <1>3, <3>3 DEF BuyCommit, OfferInv, OfferType
    <3> QED
      BY <3>1, <3>2, <3>3
  <2>2. \A m \in Auctions : listing'[m] = listing[m]
    BY <1>5, <2>1 DEF Listings
  <2>3. Effect(h)
    BY <1>1, <2>2 DEF Effect, HouseInv, HouseRows
  <2> QED
    BY <1>2, <1>5, <2>3 DEF KeepsPromise
<1>6. CASE l \in Auctions /\ listing' # listing /\ UpdateCommit(h)
  <2>2. Exists(l) /\ listing' = [listing EXCEPT ![l] = [work[h].listing[l] EXCEPT !.status = work[h].what]]
    BY <1>3, <1>6 DEF UpdateCommit
  <2>3. /\ \A m \in Auctions \ {l} : listing'[m] = listing[m]
        /\ listing'[l] = [work[h].listing[l] EXCEPT !.status = work[h].what]
    BY <1>6, <2>2 DEF OfferInv, OfferType, Listings
  <2>4. /\ work[h].listing[l] \in ListingRow /\ work[h].what \in Status \ Gone
        /\ work[h].listing[l].status \notin Final
    BY <1>2, <1>6 DEF UpdateCommit, Commit, HouseInv, Seen
  <2>5. /\ listing'[l] \in ListingRow /\ listing'[l].status \notin Gone
        /\ listing'[l].winner = work[h].listing[l].winner
    BY <2>3, <2>4 DEF ListingRow
  <2>6. Effect(h) /\ \A m \in (Auctions \cap work[h].on) \ torn : Steady(m)
    <3>1. \A m \in Auctions : listing'[m] \in ListingRow
      BY <2>3, <2>5 DEF HouseInv, HouseRows
    <3> QED
      BY <1>1, <1>2, <2>3, <2>5, <3>1, SameBids DEF Gone
  <2>7. l \notin torn => work[h].listing[l] = listing[l]
    BY <1>2, <1>6 DEF HouseInv, Current
  <2> QED
    BY <1>2, <2>2, <2>4, <2>5, <2>6, <2>7 DEF KeepsPromise, Promised, Exists, Gone
<1>7. CASE l \in Auctions /\ listing' # listing /\ DeleteCommit(h)
  <2>1. /\ Exists(l) /\ On(bids, l) = {} /\ work[h].op = "delete"
        /\ listing' = [listing EXCEPT ![l].status = "DELETED"]
    BY <1>3, <1>7 DEF DeleteCommit, Commit
  <2>2. listing[l] \in ListingRow
    BY <1>7 DEF HouseInv, HouseRows
  <2>3. /\ \A m \in Auctions \ {l} : listing'[m] = listing[m]
        /\ listing'[l] \in ListingRow /\ listing'[l].status = "DELETED"
        /\ listing'[l].winner = listing[l].winner
    BY <1>7, <2>1, <2>2 DEF OfferInv, OfferType, Listings, ListingRow, Status, Gone
  <2>4. Effect(h) /\ \A m \in (Auctions \cap work[h].on) \ torn : Steady(m)
    <3>1. \A m \in Auctions : listing'[m] \in ListingRow
      BY <2>3 DEF HouseInv, HouseRows
    <3> QED
      BY <1>1, <1>2, <2>3, <3>1, SameBids
  <2>5. l \notin torn => listing[l].status # "SOLD"
    BY <1>2, <1>7, <2>1 DEF HouseInv, Current, Seen
  <2>6. HighestAmount(bids, l) = 0
    BY <2>1 DEF HighestAmount
  <2> QED
    BY <1>2, <2>1, <2>3, <2>4, <2>5, <2>6 DEF KeepsPromise, Promised, Exists
<1>8. CASE l \in Auctions /\ BuyCommit(h)
  BY <1>2, <1>8, ListingAssumption DEF BuyCommit, Commit, OfferInv, Holds, ListingAssumption
<1> QED
  BY <1>4, <1>5, <1>6, <1>7, <1>8

LEMMA HouseClose ==
  ASSUME HouseInv, BidType, OfferInv, NEW h \in Handlers, CloseCommit(h)
  PROVE  Effect(h) /\ KeepsPromise(h)
<1>1. work[h].op = "close"
  BY DEF CloseCommit, Commit
<1>2. PICK old \in Seq(Bid) : old = work[h].bids
  BY DEF BidType
<1>3. PICK on : on = work[h].on /\ on \subseteq Auctions
  BY <1>1 DEF HouseInv, Seen
<1>4. PICK row : row = work[h].listing
  OBVIOUS
<1>0. CASE listing' = listing /\ bids' = bids
  BY <1>0, Unchanged
<1> SUFFICES ASSUME ~ (listing' = listing /\ bids' = bids)
             PROVE  Effect(h) /\ KeepsPromise(h)
  BY <1>0
<1>5. PICK top \in TopChoices(work[h]) :
        LET closed == {l \in on : ~Stuck(old, l, top[l])}
        IN  /\ listing' = [l \in Listings |-> IF l \in closed
                             THEN ClosedListing(row[l], old, l, top[l]) ELSE listing[l]]
            /\ bids' = [i \in DOMAIN bids |-> IF i \in DOMAIN old /\ bids[i].of \in closed
                          THEN ClosedBid(old, bids[i].of, top[bids[i].of], i) ELSE bids[i]]
  BY <1>2, <1>3, <1>4 DEF CloseCommit
<1>6. PICK closed : /\ closed = {l \in on : ~Stuck(old, l, top[l])}
                    /\ listing' = [l \in Listings |-> IF l \in closed
                             THEN ClosedListing(row[l], old, l, top[l]) ELSE listing[l]]
                    /\ bids' = [i \in DOMAIN bids |-> IF i \in DOMAIN old /\ bids[i].of \in closed
                          THEN ClosedBid(old, bids[i].of, top[bids[i].of], i) ELSE bids[i]]
  BY <1>5
<1>7. bids' \in Seq(Bid)
  BY CloseType
<1>8. /\ \A i \in DOMAIN bids : bids[i] \in Bid
      /\ \A i \in DOMAIN old : old[i] \in Bid /\ i \in DOMAIN bids /\ bids[i].of = old[i].of
  BY <1>2, RowTypes DEF BidType, HouseInv, Linked
<1>9. ASSUME NEW i \in DOMAIN old, NEW l, NEW t
      PROVE  LET r == ClosedBid(old, l, t, i)
             IN  r = bids[i] \/ (/\ r.of = old[i].of /\ r.amount = old[i].amount
                                 /\ r.bidder = old[i].bidder)
  <2>1. PICK won \in BOOLEAN : won = Won(old, l)
    BY DEF Won
  <2> QED
    BY <1>8, <2>1 DEF ClosedBid, Bid
<1>10. /\ DOMAIN bids' = DOMAIN bids
       /\ \A i \in DOMAIN bids :
            \/ bids'[i] = bids[i]
            \/ /\ i \in DOMAIN old /\ bids[i].of \in closed /\ bids'[i].of = old[i].of
               /\ bids'[i].amount = old[i].amount /\ bids'[i].bidder = old[i].bidder
  BY <1>6, <1>9
<1>11. ASSUME NEW l \in on
       PROVE  /\ row[l] \in ListingRow
              /\ l \notin torn => row[l] = listing[l] /\ listing[l].status = "ACTIVE"
              /\ l \notin torn => SameRows(old, bids, l) /\ OneHighest(bids, l)
  BY <1>1, <1>2, <1>3, <1>4 DEF HouseInv, HouseRows, Seen, Current
<1>12. \A i \in DOMAIN bids :
         /\ bids'[i].of = bids[i].of
         /\ bids[i].of \notin work[h].on => bids'[i] = bids[i]
         /\ bids[i].of \notin torn =>
              bids'[i].amount = bids[i].amount /\ bids'[i].bidder = bids[i].bidder
  <2>1. \A i \in DOMAIN old : bids[i].of \in on /\ bids[i].of \notin torn => old[i] = bids[i]
    BY <1>8, <1>11 DEF SameRows, On
  <2> QED
    BY <1>3, <1>6, <1>8, <1>10, <2>1
<1>13. ASSUME NEW l \in on, NEW t, Won(old, l) => old[t].bidder \in Bidders
       PROVE  /\ ClosedListing(row[l], old, l, t) \in ListingRow
              /\ ClosedListing(row[l], old, l, t).status =
                   IF Won(old, l) THEN "PENDING_PAYMENT" ELSE "CANCELLED"
              /\ ClosedListing(row[l], old, l, t).winner =
                   IF Won(old, l) THEN old[t].bidder ELSE row[l].winner
  <2>1. PICK r \in ListingRow : r = row[l]
    BY <1>11
  <2>2. PICK who : who = old[t].bidder
    OBVIOUS
  <2>3. CASE Won(old, l)
    <3>1. ClosedListing(row[l], old, l, t) = [r EXCEPT !.status = "PENDING_PAYMENT", !.winner = who]
      BY <2>1, <2>2, <2>3 DEF ClosedListing
    <3> QED
      BY <1>13, <2>1, <2>2, <2>3, <3>1 DEF ListingRow, Status
  <2>4. CASE ~Won(old, l)
    <3>1. ClosedListing(row[l], old, l, t) = [r EXCEPT !.status = "CANCELLED"]
      BY <2>1, <2>4 DEF ClosedListing
    <3> QED
      BY <2>1, <2>4, <3>1 DEF ListingRow, Status
  <2> QED
    BY <2>3, <2>4
<1>14. ASSUME NEW l \in on, On(old, l) # {}
       PROVE  top[l] \in Highest(old, l) /\ old[top[l]].bidder \in Bidders
  <2>1. top[l] \in Highest(old, l)
    BY <1>2, <1>3, <1>14 DEF TopChoices
  <2> QED
    BY <1>8, <2>1 DEF Highest, On, Bid
<1>15. /\ \A l \in Auctions \ work[h].on : listing'[l] = listing[l]
       /\ \A l \in Auctions : listing'[l] \in ListingRow
       /\ \A l \in Auctions : listing'[l].status = "NONE" => listing'[l] = listing[l]
  <2>1. \A l \in Auctions : listing'[l] = IF l \in closed THEN ClosedListing(row[l], old, l, top[l])
                                          ELSE listing[l]
    BY <1>6 DEF Listings
  <2>2. \A l \in Auctions : listing[l] \in ListingRow
    BY DEF HouseInv, HouseRows
  <2>3. ASSUME NEW l \in on
        PROVE  /\ ClosedListing(row[l], old, l, top[l]) \in ListingRow
               /\ ClosedListing(row[l], old, l, top[l]).status # "NONE"
    <3>1. /\ ClosedListing(row[l], old, l, top[l]) \in ListingRow
          /\ ClosedListing(row[l], old, l, top[l]).status =
               IF Won(old, l) THEN "PENDING_PAYMENT" ELSE "CANCELLED"
      BY <1>13, <1>14 DEF Won
    <3> QED
      BY <3>1
  <2> QED
    BY <1>3, <1>6, <2>1, <2>2, <2>3
<1>16. Effect(h) /\ \A l \in (Auctions \cap work[h].on) \ torn : Steady(l)
  BY <1>7, <1>10, <1>12, <1>15, SameBids
<1>17. ASSUME NEW l \in on \ torn
       PROVE  Promised(l)
  <2>1. CASE l \notin closed
    BY <1>3, <1>6, <1>16, <1>17, <2>1 DEF Promised, Listings
  <2>2. CASE l \in closed
    <3>1. listing'[l] = ClosedListing(listing[l], old, l, top[l])
      BY <1>3, <1>6, <1>11, <1>17, <2>2 DEF Listings
    <3>2. SameRows(old, bids, l) /\ OneHighest(bids, l) /\ listing[l].status = "ACTIVE"
      BY <1>11, <1>17
    <3>3. bids \in Seq(Bid)
      BY DEF BidType
    <3>4. /\ On(old, l) = On(bids, l) /\ HighestAmount(old, l) = HighestAmount(bids, l)
          /\ Highest(old, l) = Highest(bids, l)
      BY <1>8, <3>2, <3>3, SameHighest DEF SameRows
    <3>5. Won(old, l) <=> Sells(l)
      <4>1. CASE On(bids, l) = {}
        BY <3>4, <4>1 DEF Won, Sells, HighestAmount
      <4>2. CASE On(bids, l) # {}
        <5>1. HighestAmount(bids, l) \in Nat /\ HighestAmount(bids, l) >= 1
          BY <3>2, <3>3, <4>2, HasHighest
        <5> QED
          BY <3>4, <4>2, <5>1 DEF Won, Sells
      <4> QED
        BY <4>1, <4>2
    <3>6. Won(old, l) => old[top[l]].bidder = Leader(bids, l)
      <4> SUFFICES ASSUME Won(old, l) PROVE old[top[l]].bidder = Leader(bids, l)
        OBVIOUS
      <4>1. On(bids, l) # {}
        BY <3>4 DEF Won
      <4>2. PICK i \in On(bids, l) : Highest(bids, l) = {i} /\ Leader(bids, l) = bids[i].bidder
        BY <3>2, <3>3, <4>1, HasHighest
      <4>3. top[l] = i
        BY <1>14, <3>4, <4>1, <4>2
      <4> QED
        BY <3>2, <4>2, <4>3 DEF SameRows
    <3>7. row[l] = listing[l]
      BY <1>11, <1>17
    <3>8. /\ listing'[l].status = IF Won(old, l) THEN "PENDING_PAYMENT" ELSE "CANCELLED"
          /\ listing'[l].winner = IF Won(old, l) THEN old[top[l]].bidder ELSE listing[l].winner
      <4>1. Won(old, l) => old[top[l]].bidder \in Bidders
        BY <1>14, <1>17 DEF Won
      <4>2. /\ ClosedListing(row[l], old, l, top[l]).status =
                 IF Won(old, l) THEN "PENDING_PAYMENT" ELSE "CANCELLED"
            /\ ClosedListing(row[l], old, l, top[l]).winner =
                 IF Won(old, l) THEN old[top[l]].bidder ELSE row[l].winner
        BY <1>13, <1>17, <4>1
      <4>3. listing'[l] = ClosedListing(row[l], old, l, top[l])
        BY <3>1, <3>7
      <4> QED
        BY <3>7, <4>2, <4>3
    <3>9. Steady(l)
      BY <1>3, <1>16, <1>17
    <3> QED
      BY <3>2, <3>5, <3>6, <3>8, <3>9 DEF Promised
  <2> QED
    BY <2>1, <2>2
<1> QED
  BY <1>3, <1>16, <1>17 DEF KeepsPromise

(* What every step does to an auction on which no two transactions         *)
(* overlapped.                                                             *)
Faithful == \A l \in Auctions \ torn' : Promised(l)

LEMMA FaithfulEnd ==
  ASSUME HouseInv, BidType, NEW h \in Handlers, UNCHANGED torn, Effect(h), KeepsPromise(h)
  PROVE  Faithful
<1> SUFFICES ASSUME NEW l \in Auctions \ torn PROVE Promised(l)
  BY DEF Faithful
<1>1. CASE l \in work[h].on
  BY <1>1 DEF KeepsPromise
<1>2. CASE l \notin work[h].on
  <2>1. listing'[l] = listing[l]
    BY <1>2 DEF Effect
  <2>2. /\ bids \in Seq(Bid) /\ bids' \in Seq(Bid) /\ OneHighest(bids, l)
        /\ On(bids', l) = On(bids, l) /\ \A i \in On(bids, l) : bids'[i] = bids[i]
    BY <1>2, OtherRows DEF Effect, BidType, HouseInv, HouseRows
  <2>3. Steady(l)
    BY <2>2, SameHighest DEF Steady
  <2> QED
    BY <2>1, <2>3 DEF Promised
<1> QED
  BY <1>1, <1>2

LEMMA FaithfulRest ==
  ASSUME UNCHANGED <<listing, bids>>
  PROVE  Faithful
BY DEF Faithful, Promised, Steady

LEMMA FewBids ==
  ASSUME NEW rows \in Seq(Bid), NEW l, Cardinality(On(rows, l)) <= 1
  PROVE  \A i, j \in On(rows, l) : i = j
<1>1. IsFiniteSet(On(rows, l))
  <2>1. PICK n \in Nat : DOMAIN rows = 1 .. n
    BY RowTypes
  <2>2. IsFiniteSet(1 .. n)
    BY FS_Interval
  <2>3. On(rows, l) \subseteq 1 .. n
    BY <2>1 DEF On
  <2> QED
    BY <2>2, <2>3, FS_Subset
<1> SUFFICES ASSUME NEW i \in On(rows, l), NEW j \in On(rows, l), i # j PROVE FALSE
  OBVIOUS
<1>2. PICK S : S = {i} \cup {j}
  OBVIOUS
<1>3. IsFiniteSet({i}) /\ Cardinality({i}) = 1 /\ j \notin {i}
  BY FS_Singleton
<1>4. Cardinality(S) = Cardinality({i}) + 1
  BY <1>2, <1>3, FS_AddElement
<1>5. S \subseteq On(rows, l)
  BY <1>2
<1>6. Cardinality(S) <= Cardinality(On(rows, l)) /\ Cardinality(On(rows, l)) \in Nat
  BY <1>1, <1>5, FS_Subset, FS_CardinalityType
<1> QED
  BY <1>3, <1>4, <1>6

LEMMA HouseRequest ==
  ASSUME HouseInv, BidType, OfferInv, NEW h \in Handlers,
         \/ \E e \in Edits : UpdateListing(h, e[1], e[2])
         \/ \E l \in Listings : DeleteListing(h, l)
         \/ \E l \in Offers, q \in Quantities : Buy(h, l, q)
         \/ \E l \in Auctions, who \in Bidders, a \in Amounts :
              PlaceBid(h, l, who, a) \/ BidOrRaise(h, l, who, a)
         \/ \E i \in DOMAIN bids : CancelBid(h, i)
         \/ CloseFind(h)
  PROVE  HouseInv'
<1> USE ListingAssumption DEF ListingAssumption
<1>1. ASSUME NEW e \in Edits, UpdateListing(h, e[1], e[2])
      PROVE  HouseInv'
  <2>1. /\ e[2] \in Status \ Gone /\ listing[e[1]].status \notin Final \cup {"NONE"}
        /\ Begin(h, "update", {e[1]}, None, 0, e[2])
    BY <1>1 DEF UpdateListing, Request, Exists, Gone
  <2> QED
    BY <2>1, HouseBegins
<1>7. ASSUME NEW l \in Listings, DeleteListing(h, l)
      PROVE  HouseInv'
  <2>1. listing[l].status \notin {"SOLD", "NONE"} /\ Begin(h, "delete", {l}, None, 0, None)
    BY <1>7 DEF DeleteListing, Request, Exists, Gone
  <2> QED
    BY <2>1, HouseBegins
<1>2. ASSUME NEW l \in Offers, NEW q \in Quantities, Buy(h, l, q)
      PROVE  HouseInv'
  <2>1. l \notin Auctions /\ Begin(h, "buy", {l}, None, q, calls + 1)
    BY <1>2 DEF Buy, Request
  <2> QED
    BY <2>1, HouseBegins
<1>3. ASSUME NEW l \in Auctions, NEW who \in Bidders, NEW a \in Amounts, PlaceBid(h, l, who, a)
      PROVE  HouseInv'
  <2>1. /\ Begin(h, "place", {l}, who, a, None) /\ listing[l].status = "ACTIVE"
        /\ On(bids, l) # {} => a >= HighestAmount(bids, l) + MinIncrement
    BY <1>3 DEF PlaceBid, Request, CanPlaceBid, EnoughToPlace
  <2> QED
    BY <2>1, HouseBegins
<1>4. ASSUME NEW l \in Auctions, NEW who \in Bidders, NEW a \in Amounts, BidOrRaise(h, l, who, a)
      PROVE  HouseInv'
  <2>1. /\ Begin(h, "bid", {l}, who, a, None) /\ listing[l].status = "ACTIVE"
        /\ a > HighestAmount(bids, l) /\ Cardinality(On(bids, l)) <= 1
    BY <1>4 DEF BidOrRaise, Request, CanPlaceBid, ValidBidAmount
  <2>2. \A i, j \in On(bids, l) : i = j
    BY <2>1, FewBids DEF BidType
  <2> QED
    BY <2>1, <2>2, HouseBegins
<1>5. ASSUME NEW i \in DOMAIN bids, CancelBid(h, i)
      PROVE  HouseInv'
  <2>1. PICK l \in Auctions : l = bids[i].of
    BY RowTypes DEF BidType
  <2>2. Begin(h, "cancel", {l}, bids[i].bidder, i, None)
    BY <1>5, <2>1 DEF CancelBid, Request
  <2>3. i \in On(bids, l) /\ listing[l].status # "NONE"
    BY <2>1 DEF On, HouseInv, HouseRows
  <2> QED
    BY <2>2, <2>3, HouseBegins
<1>6. CASE CloseFind(h)
  <2>1. /\ Begin(h, "close", ExpiredAuctions, None, 0, None) /\ ExpiredAuctions \subseteq Auctions
        /\ \A l \in ExpiredAuctions : listing[l].status = "ACTIVE"
    BY <1>6 DEF CloseFind, ExpiredAuctions, OfferInv, OfferType
  <2> QED
    BY <2>1, HouseBegins
<1> QED
  BY <1>1, <1>2, <1>3, <1>4, <1>5, <1>6, <1>7

(* The tables stay, and a purchase is announced at most.                   *)
LEMMA HouseSame ==
  ASSUME HouseInv, UNCHANGED <<listing, bids, torn>>,
         \A g \in Handlers :
           \/ work'[g] = work[g]
           \/ /\ work[g].op = "buy" /\ work'[g].op = "bought" /\ work'[g].on = work[g].on
              /\ work'[g].listing = work[g].listing /\ work'[g].bids = work[g].bids
  PROVE  HouseInv' /\ Faithful
<1>1. HouseRows'
  BY DEF HouseInv, HouseRows
<1>2. \A g \in Handlers : work'[g].on = work[g].on
  OBVIOUS
<1>3. ASSUME NEW h \in Handlers
      PROVE  Seen(h)' /\ Linked(h)' /\ Current(h)'
  <2>1. Seen(h) /\ Linked(h) /\ Current(h)
    BY DEF HouseInv
  <2>2. Seen(h)'
    BY <2>1 DEF Seen
  <2>3. Linked(h)'
    BY <1>2, <2>1 DEF Linked
  <2>4. Current(h)'
    BY <1>2, <2>1 DEF Current
  <2> QED
    BY <2>2, <2>3, <2>4
<1> QED
  BY <1>1, <1>3, FaithfulRest DEF HouseInv

LEMMA HouseStep ==
  HouseInv /\ BidType /\ OfferInv /\ [Next]_vars => HouseInv' /\ Faithful
<1> SUFFICES ASSUME HouseInv, BidType, OfferInv, [Next]_vars PROVE HouseInv' /\ Faithful
  OBVIOUS
<1>1. ASSUME NEW h \in Handlers, CommitStep(h)
      PROVE  HouseInv' /\ Faithful
  <2>1. CASE BuyPublish(h)
    <3>1. UNCHANGED <<listing, bids, torn>>
      BY <2>1 DEF BuyPublish
    <3>2. /\ work[h].op = "buy" /\ work'[h].op = "bought" /\ work'[h].on = work[h].on
          /\ work'[h].listing = work[h].listing /\ work'[h].bids = work[h].bids
          /\ \A g \in Handlers : g # h => work'[g] = work[g]
      BY <2>1, Publishes
    <3> QED
      BY <3>1, <3>2, HouseSame
  <2>2. CASE ~ BuyPublish(h)
    <3>1. work' = [work EXCEPT ![h] = Idle] /\ UNCHANGED torn
      BY <1>1, <2>2 DEF CommitStep, UpdateCommit, DeleteCommit, BuyCommit, PlaceCommit,
                        BidCommit, CancelCommit, CloseCommit, Commit
    <3>2. Effect(h) /\ KeepsPromise(h)
      BY <1>1, <2>2, HouseUpdate, HousePlace, HouseBid, HouseCancel, HouseClose DEF CommitStep
    <3> QED
      BY <3>1, <3>2, HouseEnds, FaithfulEnd
  <2> QED
    BY <2>1, <2>2
<1>2. ASSUME NEW h \in Handlers, Abort(h)
      PROVE  HouseInv' /\ Faithful
  <2>1. work' = [work EXCEPT ![h] = Idle] /\ UNCHANGED <<torn, listing, bids>>
    BY <1>2 DEF Abort, tables
  <2>2. Effect(h)
    BY <2>1, Unchanged
  <2> QED
    BY <2>1, <2>2, HouseEnds, FaithfulRest
<1>3. ASSUME NEW h \in Handlers,
             \/ \E e \in Edits : UpdateListing(h, e[1], e[2])
             \/ \E l \in Listings : DeleteListing(h, l)
             \/ \E l \in Offers, q \in Quantities : Buy(h, l, q)
             \/ \E l \in Auctions, who \in Bidders, a \in Amounts :
                  PlaceBid(h, l, who, a) \/ BidOrRaise(h, l, who, a)
             \/ \E i \in DOMAIN bids : CancelBid(h, i)
             \/ CloseFind(h)
      PROVE  HouseInv' /\ Faithful
  <2>1. UNCHANGED <<listing, bids>>
    BY <1>3 DEF UpdateListing, DeleteListing, Buy, PlaceBid, BidOrRaise, CancelBid, CloseFind,
                Request, Begin, tables
  <2> QED
    BY <1>3, <2>1, HouseRequest, FaithfulRest
<1>4. ASSUME NEW l \in Listings, CreateListing(l)
      PROVE  HouseInv' /\ Faithful
  <2>1. /\ listing[l].status = "NONE" /\ UNCHANGED <<bids, work, torn>>
        /\ \A m \in Listings : listing'[m] = IF m = l THEN NewListing(l) ELSE listing[m]
    BY <1>4 DEF CreateListing, OfferInv, OfferType
  <2>2. NewListing(l).status = "ACTIVE" /\ NewListing(l).winner = None
    BY DEF NewListing
  <2>3. l \in Auctions => NewListing(l) \in ListingRow
    BY ListingAssumption DEF NewListing, ListingRow, Status, ListingAssumption
  <2>4. HouseRows'
    <3>1. \A i \in DOMAIN bids : bids[i].of \in Auctions
      BY RowTypes DEF BidType
    <3> QED
      BY <2>1, <2>2, <2>3, <3>1 DEF HouseInv, HouseRows, Listings
  <2>5. ASSUME NEW h \in Handlers
        PROVE  Seen(h)' /\ Linked(h)' /\ Current(h)'
    <3>1. Seen(h) /\ Linked(h) /\ Current(h)
      BY DEF HouseInv
    <3>2. \A m \in work[h].on : m \in Auctions => m # l /\ listing'[m] = listing[m]
      BY <2>1, <3>1 DEF Linked, Listings
    <3>3. Seen(h)'
      BY <2>1, <3>1 DEF Seen
    <3>4. Linked(h)'
      BY <2>1, <3>1, <3>2 DEF Linked
    <3>5. Current(h)'
      BY <2>1, <3>1, <3>2 DEF Current
    <3> QED
      BY <3>3, <3>4, <3>5
  <2>6. Faithful
    <3>1. ASSUME NEW m \in Auctions
          PROVE  Promised(m)
      BY <2>1, <2>2 DEF Promised, Steady, HouseInv, HouseRows, Listings, Final
    <3> QED
      BY <3>1 DEF Faithful
  <2> QED
    BY <2>4, <2>5, <2>6 DEF HouseInv
<1>5. CASE (\E l \in Auctions : EndAuction(l)) \/ UNCHANGED vars
  <2>1. UNCHANGED <<listing, bids, work, torn>>
    BY <1>5 DEF EndAuction, vars, tables
  <2> QED
    BY <2>1, HouseSame
<1> QED
  BY <1>1, <1>2, <1>3, <1>4, <1>5 DEF Next

(* A step that keeps the promise in terms of the tables is a step of       *)
(* module Auction, or leaves it alone.                                     *)
LEMMA FaithfulIsAuction ==
  ASSUME Faithful
  PROVE  [House!Next]_(House!vars)
<1> SUFFICES ASSUME NEW l \in Auctions, l \notin (torn \cap Auctions)'
             PROVE  \/ House!Raise(l) \/ House!Close(l) \/ House!SetStatus(l) \/ House!Delete(l)
                    \/ UNCHANGED <<HighestAmount(bids, l), Leader(bids, l),
                                   listing[l].status, listing[l].winner>>
  BY DEF House!Next, Leader
<1>1. Promised(l)
  BY DEF Faithful
<1> QED
  BY <1>1 DEF Promised, Steady, Sells, Leader, Final, Gone, House!Raise, House!Close,
     House!SetStatus, House!Delete, House!Sold

(***************************************************************************)
(* An auction on which no two transactions overlapped keeps the promise of *)
(* module Auction: while it is open bids only rise, it is closed for       *)
(* whoever made the highest one, and it is not deleted once it has a bid.  *)
(***************************************************************************)
THEOREM AuctionImplemented == Spec => ImplementsAuction
<1>1. Init => House!Init
  <2> SUFFICES ASSUME Init PROVE House!Init
    OBVIOUS
  <2>1. \A l \in Auctions : On(bids, l) = {}
    BY DEF Init, On
  <2> QED
    BY <2>1 DEF Init, House!Init, HighestAmount, Listings
<1>2. Spec => []OfferInv
  BY OfferInit, OfferStep, BidsAreTyped, PTL DEF Spec
<1>3. Spec => []HouseInv
  BY <1>2, HouseInit, HouseStep, BidsAreTyped, PTL DEF Spec
<1>4. HouseInv /\ BidType /\ OfferInv /\ [Next]_vars => [House!Next]_(House!vars)
  BY HouseStep, FaithfulIsAuction
<1> QED
  BY <1>1, <1>2, <1>3, <1>4, BidsAreTyped, PTL DEF Spec, ImplementsAuction, House!Spec

----------------------------------------------------------------------------
(* Types.                                                                  *)

(* A transaction has read the row of every listing it works on, and of no  *)
(* other.                                                                  *)
ReadInv ==
  /\ \A h \in Handlers :
       /\ work[h].on \subseteq Listings
       /\ work[h].listing = [l \in work[h].on |-> work[h].listing[l]]
  /\ torn \subseteq Listings
  /\ calls \in 0 .. MaxCalls /\ aborts \in 0 .. MaxAborts

LEMMA ReadInit == Init => ReadInv
<1> SUFFICES ASSUME Init PROVE ReadInv
  OBVIOUS
<1>1. <<>> = [l \in {} |-> <<>>[l]]
  OBVIOUS
<1>2. Idle.on = {} /\ Idle.listing = <<>>
  BY DEF Idle
<1>3. \A h \in Handlers : work[h] = Idle
  BY DEF Init
<1>4. calls \in 0 .. MaxCalls /\ aborts \in 0 .. MaxAborts
  BY ListingAssumption DEF Init, ListingAssumption
<1> QED
  BY <1>1, <1>2, <1>3, <1>4 DEF Init, ReadInv

LEMMA ReadBegins ==
  ASSUME ReadInv, BidType, NEW h \in Handlers, NEW op, NEW on, NEW who, NEW amount, NEW what,
         Begin(h, op, on, who, amount, what), on \subseteq Listings, calls' \in 0 .. MaxCalls
  PROVE  ReadInv'
<1> DEFINE job == [op |-> op, on |-> on, who |-> who, amount |-> amount, what |-> what,
                   listing |-> [l \in on |-> listing[l]], bids |-> bids]
<1>1. /\ work' = [work EXCEPT ![h] = job]
      /\ torn' = torn \cup UNION {on \cap work[g].on : g \in Handlers}
      /\ UNCHANGED aborts
  BY DEF Begin
<1>2. job.on = on /\ job.listing = [l \in on |-> job.listing[l]]
  OBVIOUS
<1> HIDE DEF job
<1>3. work'[h] = job /\ \A g \in Handlers : g # h => work'[g] = work[g]
  BY <1>1 DEF BidType
<1>4. torn' \subseteq Listings
  BY <1>1 DEF ReadInv
<1> QED
  BY <1>1, <1>2, <1>3, <1>4 DEF ReadInv

LEMMA ReadEnds ==
  ASSUME ReadInv, BidType, NEW h \in Handlers, work' = [work EXCEPT ![h] = Idle],
         UNCHANGED <<torn, calls>>, aborts' \in 0 .. MaxAborts
  PROVE  ReadInv'
<1>1. <<>> = [l \in {} |-> <<>>[l]]
  OBVIOUS
<1>2. Idle.on = {} /\ Idle.listing = <<>>
  BY DEF Idle
<1>3. work'[h] = Idle /\ \A g \in Handlers : g # h => work'[g] = work[g]
  BY DEF BidType
<1> QED
  BY <1>1, <1>2, <1>3 DEF ReadInv

LEMMA ReadStep ==
  ASSUME ReadInv, BidType, OfferInv, [Next]_vars
  PROVE  ReadInv'
<1>0. /\ calls \in Nat /\ aborts \in Nat /\ calls <= MaxCalls /\ aborts <= MaxAborts
      /\ MaxCalls \in Nat /\ MaxAborts \in Nat
  BY ListingAssumption DEF ReadInv, ListingAssumption
<1>1. ASSUME NEW h \in Handlers, NEW op, NEW l \in Listings, NEW who, NEW amount, NEW what,
             Request(h, op, {l}, who, amount, what)
      PROVE  ReadInv'
  <2>1. calls' \in 0 .. MaxCalls
    BY <1>0, <1>1 DEF Request
  <2> QED
    BY <1>1, <2>1, ReadBegins DEF Request
<1>2. ASSUME NEW h \in Handlers, NEW i \in DOMAIN bids, CancelBid(h, i)
      PROVE  ReadInv'
  <2>1. bids[i].of \in Listings
    BY RowTypes DEF BidType, Listings
  <2> QED
    BY <1>1, <1>2, <2>1 DEF CancelBid
<1>3. ASSUME NEW h \in Handlers, CloseFind(h)
      PROVE  ReadInv'
  <2>1. ExpiredAuctions \subseteq Listings
    BY DEF ExpiredAuctions, OfferInv, OfferType, Listings
  <2> QED
    BY <1>3, <2>1, ReadBegins DEF CloseFind, ReadInv
<1>4. ASSUME NEW h \in Handlers, CommitStep(h) \/ Abort(h)
      PROVE  ReadInv'
  <2>1. CASE BuyPublish(h)
    <3>1. /\ work'[h].on = work[h].on /\ work'[h].listing = work[h].listing
          /\ \A g \in Handlers : g # h => work'[g] = work[g]
      BY <2>1, Publishes
    <3> QED
      BY <2>1, <3>1 DEF BuyPublish, ReadInv
  <2>2. CASE ~ BuyPublish(h)
    <3>1. work' = [work EXCEPT ![h] = Idle] /\ UNCHANGED <<torn, calls>>
      BY <1>4, <2>2 DEF CommitStep, UpdateCommit, DeleteCommit, BuyCommit, PlaceCommit,
                        BidCommit, CancelCommit, CloseCommit, Commit, Abort
    <3>2. aborts' = aborts \/ (aborts < MaxAborts /\ aborts' = aborts + 1)
      BY <1>4, <2>2 DEF CommitStep, UpdateCommit, DeleteCommit, BuyCommit, PlaceCommit,
                        BidCommit, CancelCommit, CloseCommit, Commit, Abort
    <3>3. aborts' \in 0 .. MaxAborts
      BY <1>0, <3>2
    <3> QED
      BY <3>1, <3>3, ReadEnds
  <2> QED
    BY <2>1, <2>2
<1>5. ASSUME NEW h \in Handlers,
             \/ \E e \in Edits : UpdateListing(h, e[1], e[2])
             \/ \E l \in Listings : DeleteListing(h, l)
             \/ \E l \in Offers, q \in Quantities : Buy(h, l, q)
             \/ \E l \in Auctions, who \in Bidders, a \in Amounts :
                  PlaceBid(h, l, who, a) \/ BidOrRaise(h, l, who, a)
      PROVE  ReadInv'
  <2>4. ASSUME NEW l \in Listings, DeleteListing(h, l)
        PROVE  ReadInv'
    BY <1>1, <2>4 DEF DeleteListing
  <2>1. ASSUME NEW e \in Edits, UpdateListing(h, e[1], e[2])
        PROVE  ReadInv'
    <3>1. e[1] \in Listings
      BY ListingAssumption DEF ListingAssumption
    <3> QED
      BY <1>1, <2>1, <3>1 DEF UpdateListing
  <2>2. ASSUME NEW l \in Offers, NEW q \in Quantities, Buy(h, l, q)
        PROVE  ReadInv'
    BY <1>1, <2>2 DEF Buy, Listings
  <2>3. ASSUME NEW l \in Auctions, NEW who \in Bidders, NEW a \in Amounts,
               PlaceBid(h, l, who, a) \/ BidOrRaise(h, l, who, a)
        PROVE  ReadInv'
    BY <1>1, <2>3 DEF PlaceBid, BidOrRaise, Listings
  <2> QED
    BY <1>5, <2>1, <2>2, <2>3, <2>4
<1>6. CASE (\E l \in Listings : CreateListing(l)) \/ (\E l \in Auctions : EndAuction(l))
             \/ UNCHANGED vars
  BY <1>6 DEF CreateListing, EndAuction, vars, tables, ReadInv
<1> QED
  BY <1>2, <1>3, <1>4, <1>5, <1>6 DEF Next

LEMMA ReadTypes ==
  ASSUME ReadInv, BidType, OfferInv, HouseInv
  PROVE  TypeOK
<1>1. \A l \in Offers : listing[l] \in ListingRow
  BY DEF OfferInv, OfferType, OfferRow, ListingRow
<1>2. listing \in [Listings -> ListingRow]
  BY <1>1 DEF OfferInv, OfferType, HouseInv, HouseRows, Listings
<1>3. ASSUME NEW h \in Handlers
      PROVE  /\ work[h].op \in {"idle", "place", "bid", "cancel", "close", "update", "delete",
                               "buy", "bought"}
             /\ work[h].on \subseteq Listings
             /\ work[h].bids \in Seq(Bid)
             /\ work[h].listing \in [work[h].on -> ListingRow]
  <2>1. \A l \in work[h].on : work[h].listing[l] \in ListingRow
    <3>1. \A l \in Offers \cap work[h].on : work[h].listing[l] \in ListingRow
      BY DEF OfferInv, Holds, OfferRow, ListingRow
    <3>2. \A l \in Auctions \cap work[h].on : work[h].listing[l] \in ListingRow
      BY DEF HouseInv, Seen
    <3> QED
      BY <3>1, <3>2 DEF ReadInv, Listings
  <2>2. work[h].listing \in [work[h].on -> ListingRow]
    BY <2>1 DEF ReadInv
  <2>3. work[h].op \in {"idle"} \cup Others \cup OfferOps
    BY DEF OfferInv, Holds
  <2> QED
    BY <2>2, <2>3 DEF ReadInv, BidType, Others, OfferOps
<1> QED
  BY <1>2, <1>3 DEF TypeOK, ReadInv, BidType, OfferInv, OfferType

(***************************************************************************)
(* Listings, bids, and what transactions have read of them keep their      *)
(* types: a transaction has the row of every listing it works on, and an   *)
(* auction that is closed has a bidder, or nobody, for a winner.           *)
(***************************************************************************)
THEOREM TypeCorrect == Spec => []TypeOK
<1>1. Spec => []OfferInv
  BY OfferInit, OfferStep, BidsAreTyped, PTL DEF Spec
<1>2. Spec => []HouseInv
  BY <1>1, HouseInit, HouseStep, BidsAreTyped, PTL DEF Spec
<1>3. ReadInv /\ BidType /\ OfferInv /\ [Next]_vars => ReadInv'
  BY ReadStep
<1>4. Spec => []ReadInv
  BY <1>1, <1>3, ReadInit, BidsAreTyped, PTL DEF Spec
<1>5. ReadInv /\ BidType /\ OfferInv /\ HouseInv => TypeOK
  BY ReadTypes
<1> QED
  BY <1>1, <1>2, <1>4, <1>5, BidsAreTyped, PTL
=============================================================================
