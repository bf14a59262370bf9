------------------------------ MODULE Reserves ------------------------------
(***************************************************************************)
(* The escrow of Wallet_Service: ReservesService (reserveFunds,            *)
(* releaseFunds, settleFunds), the transaction.* consumers and internal    *)
(* endpoints that call it, and the cron job that releases expired          *)
(* reserves.                                                               *)
(*                                                                         *)
(* A call is a handler that awaits the database between its reads and its  *)
(* saves.  Every await is a step of its own, no database transaction or    *)
(* row lock spans two of them, and a save writes the whole row the handler *)
(* holds in memory, so a save can undo what another handler wrote.         *)
(***************************************************************************)
EXTENDS Integers, FiniteSets

CONSTANTS
  Users,      \* owners of wallets
  Tx,         \* purchases; a transaction's events always carry the same data
  None,       \* the transaction of an idle handler
  Buyer, Seller, Amount,    \* functions of Tx: the payload of its events
  Total,      \* Total[S] is the sum of Amount over the set S of transactions
  Opening,    \* balance of each user when the behaviour starts
  Funded,     \* the users whose wallet exists when the behaviour starts
  Handlers,   \* calls the service can have in flight at once
  Cron,       \* the slot of the cleanup job
  MaxCalls,   \* bound: calls about one transaction, redeliveries included
  MaxAborts   \* bound: calls cut short by a crash or a failing database

ASSUME PurchaseAssumption ==
  /\ Buyer \in [Tx -> Users]
  /\ Seller \in [Tx -> Users]
  /\ \A t \in Tx : Buyer[t] # Seller[t]
  /\ Amount \in [Tx -> Nat \ {0}]

ASSUME TotalAssumption ==
  /\ Total \in [SUBSET Tx -> Nat]
  /\ Total[{}] = 0
  /\ \A S \in SUBSET Tx : \A t \in Tx \ S :
        Total[S \cup {t}] = Total[S] + Amount[t]

ASSUME OpeningAssumption ==
  /\ Opening \in [Users -> Nat]
  /\ Funded \subseteq Users
  /\ \A u \in Users \ Funded : Opening[u] = 0

ASSUME SlotAssumption ==
  /\ Cron \notin Handlers
  /\ None \notin Tx
  /\ MaxCalls \in Nat
  /\ MaxAborts \in Nat

VARIABLES
  wallets,   \* users with a row in the wallets table
  balance,   \* column balance
  locked,    \* column locked_balance
  reserve,   \* status of the transaction's row in reserves, "NONE" if absent
  log,       \* rows of wallet_transactions: <<type, transaction>>
  overdue,   \* transactions whose reserve is past expires_at
  sweep,     \* expired reserves the running cleanup still has to visit
  calls,     \* calls made so far about each transaction
  aborts,    \* calls cut short so far
  crossed,   \* history: wallets of calls that ran while another call was
             \* on one of them
  pc, job,   \* where each handler stands and what it works on
  mine,      \* the buyer's wallet as the handler holds it in memory
  theirs     \* the seller's wallet as the handler holds it in memory

tables == <<wallets, balance, locked, reserve, log>>
history == <<calls, aborts, crossed>>   \* nothing in the code reads these
vars == <<tables, overdue, sweep, history, pc, job, mine, theirs>>

Slots == Handlers \cup {Cron}
Ops == {"reserve", "release", "settle"}
Row == [balance : Int, locked : Int]
NoRow == [balance |-> 0, locked |-> 0]
NoJob == [op |-> "none", tx |-> None]
Status == {"NONE", "ACTIVE", "RELEASED", "SETTLED"}
LogTypes == {"RESERVE", "RELEASE", "SETTLE_OUT", "SETTLE_IN"}
Labels == {"idle", "findReserve", "readWallet", "refresh", "reconcile",
           "saveReconciled", "readSeller", "createSeller", "saveReserve",
           "saveWallet", "saveSeller", "saveLog", "saveSellerLog"}

TypeOK ==
  /\ wallets \subseteq Users
  /\ balance \in [Users -> Int]
  /\ locked \in [Users -> Int]
  /\ reserve \in [Tx -> Status]
  /\ log \subseteq LogTypes \X Tx
  /\ overdue \subseteq Tx
  /\ sweep \subseteq Tx
  /\ calls \in [Tx -> 0 .. MaxCalls]
  /\ aborts \in 0 .. MaxAborts
  /\ crossed \subseteq Users
  /\ pc \in [Slots -> Labels]
  /\ job \in [Slots -> [op : Ops, tx : Tx] \cup {NoJob}]
  /\ \A h \in Slots : pc[h] = "idle" <=> job[h] = NoJob
  /\ mine \in [Slots -> Row]
  /\ theirs \in [Slots -> Row]

Init ==
  /\ wallets = Funded
  /\ balance = Opening
  /\ locked = [u \in Users |-> 0]
  /\ reserve = [t \in Tx |-> "NONE"]
  /\ log = {}
  /\ overdue = {}
  /\ sweep = {}
  /\ calls = [t \in Tx |-> 0]
  /\ aborts = 0
  /\ crossed = {}
  /\ pc = [h \in Slots |-> "idle"]
  /\ job = [h \in Slots |-> NoJob]
  /\ mine = [h \in Slots |-> NoRow]
  /\ theirs = [h \in Slots |-> NoRow]

-----------------------------------------------------------------------------
(* Helpers.                                                                *)

ActiveOf(u) == {t \in Tx : Buyer[t] = u /\ reserve[t] = "ACTIVE"}

TouchesOf(j) == IF j.op = "settle" THEN {Buyer[j.tx], Seller[j.tx]}
                                   ELSE {Buyer[j.tx]}

Touches(h) == IF pc[h] = "idle" THEN {} ELSE TouchesOf(job[h])

At(h, op, label) == pc[h] = label /\ job[h].op = op

Goto(h, label) == /\ pc' = [pc EXCEPT ![h] = label]
                  /\ UNCHANGED job

(* Nothing keeps a call waiting for another one on the same wallet.        *)
Crossing(j) ==
  UNION {Touches(g) \cup TouchesOf(j) :
           g \in {g \in Slots : Touches(g) \cap TouchesOf(j) # {}}}

(* The handler returns or throws: either way it writes nothing more.       *)
Finish(h) == /\ pc' = [pc EXCEPT ![h] = "idle"]
             /\ job' = [job EXCEPT ![h] = NoJob]
             /\ mine' = [mine EXCEPT ![h] = NoRow]
             /\ theirs' = [theirs EXCEPT ![h] = NoRow]

Start(h, o, t) ==
  LET j == [op |-> o, tx |-> t]
  IN /\ pc[h] = "idle"
     /\ pc' = [pc EXCEPT ![h] = "findReserve"]
     /\ job' = [job EXCEPT ![h] = j]
     /\ crossed' = crossed \cup Crossing(j)
     /\ UNCHANGED <<mine, theirs>>

RowOf(u) == [balance |-> balance[u], locked |-> locked[u]]

SaveRow(u, row) == /\ balance' = [balance EXCEPT ![u] = row.balance]
                   /\ locked' = [locked EXCEPT ![u] = row.locked]

(* Inserting a second row with the same (wallet, reference, type) violates *)
(* the unique index and throws.                                            *)
AppendLog(type, t) == log' = log \cup {<<type, t>>}

-----------------------------------------------------------------------------
(* A message or an HTTP request starts a handler.  Any of the three calls  *)
(* can arrive for any transaction, in any order and more than once: the    *)
(* events sit in separate queues and are redelivered until acknowledged.   *)

Request(h, o, t) ==
  /\ calls[t] < MaxCalls
  /\ Start(h, o, t)
  /\ calls' = [calls EXCEPT ![t] = @ + 1]
  /\ UNCHANGED <<tables, overdue, sweep, aborts>>

-----------------------------------------------------------------------------
(* reserveFunds                                                            *)

CanCover(row, t) == row.balance - row.locked >= Amount[t]

(* Fault: no unique index on transaction_id.                               *)
MayInsertTwice(t) == TRUE

MayInsert(t) == reserve[t] = "NONE"

ReserveFind(h) ==
  /\ At(h, "reserve", "findReserve")
  /\ IF reserve[job[h].tx] = "NONE"
     THEN Goto(h, "readWallet") /\ UNCHANGED <<mine, theirs>>
     ELSE Finish(h)
  /\ UNCHANGED <<tables, overdue, sweep, history>>

ReserveReadWallet(h) ==
  LET t == job[h].tx
      row == RowOf(Buyer[t])
  IN /\ At(h, "reserve", "readWallet")
     /\ IF Buyer[t] \in wallets /\ CanCover(row, t)
        THEN /\ Goto(h, "saveReserve")
             /\ mine' = [mine EXCEPT ![h] = [row EXCEPT !.locked = @ + Amount[t]]]
             /\ UNCHANGED theirs
        ELSE Finish(h)
     /\ UNCHANGED <<tables, overdue, sweep, history>>

ReserveSaveReserve(h) ==
  LET t == job[h].tx
  IN /\ At(h, "reserve", "saveReserve")
     /\ IF MayInsert(t)
        THEN /\ reserve' = [reserve EXCEPT ![t] = "ACTIVE"]
             /\ Goto(h, "saveWallet")
             /\ UNCHANGED <<mine, theirs>>
        ELSE Finish(h) /\ UNCHANGED reserve
     /\ UNCHANGED <<wallets, balance, locked, log, overdue, sweep, history>>

ReserveSaveWallet(h) ==
  /\ At(h, "reserve", "saveWallet")
  /\ SaveRow(Buyer[job[h].tx], mine[h])
  /\ Goto(h, "saveLog")
  /\ UNCHANGED <<wallets, reserve, log, overdue, sweep, history, mine, theirs>>

ReserveSaveLog(h) ==
  /\ At(h, "reserve", "saveLog")
  /\ AppendLog("RESERVE", job[h].tx)
  /\ Finish(h)
  /\ UNCHANGED <<wallets, balance, locked, reserve, overdue, sweep, history>>

-----------------------------------------------------------------------------
(* releaseFunds                                                            *)

ReleaseFind(h) ==
  /\ At(h, "release", "findReserve")
  /\ IF reserve[job[h].tx] = "ACTIVE"
     THEN Goto(h, "readWallet") /\ UNCHANGED <<mine, theirs>>
     ELSE Finish(h)
  /\ UNCHANGED <<tables, overdue, sweep, history>>

(* Fault: the release is refused when less than the amount is locked.      *)
ReleaseRefusesUnlocked(h) ==
  LET t == job[h].tx
  IN /\ At(h, "release", "readWallet")
     /\ IF locked[Buyer[t]] >= Amount[t]
        THEN /\ mine' = [mine EXCEPT ![h] =
                           [RowOf(Buyer[t]) EXCEPT !.locked = @ - Amount[t]]]
             /\ Goto(h, "saveReserve")
             /\ UNCHANGED theirs
        ELSE Finish(h)
     /\ UNCHANGED <<tables, overdue, sweep, history>>

ReleaseReadWallet(h) ==
  LET t == job[h].tx
  IN /\ At(h, "release", "readWallet")
     /\ mine' = [mine EXCEPT ![h] =
                   [RowOf(Buyer[t]) EXCEPT !.locked = @ - Amount[t]]]
     /\ Goto(h, "saveReserve")
     /\ UNCHANGED <<tables, overdue, sweep, history, theirs>>

(* Fault: a status outside the three this service uses.                    *)
ReleaseSavesExpired(h) ==
  /\ At(h, "release", "saveReserve")
  /\ reserve' = [reserve EXCEPT ![job[h].tx] = "EXPIRED"]
  /\ Goto(h, "saveWallet")
  /\ UNCHANGED <<wallets, balance, locked, log, overdue, sweep, history,
                 mine, theirs>>

ReleaseSaveReserve(h) ==
  /\ At(h, "release", "saveReserve")
  /\ reserve' = [reserve EXCEPT ![job[h].tx] = "RELEASED"]
  /\ Goto(h, "saveWallet")
  /\ UNCHANGED <<wallets, balance, locked, log, overdue, sweep, history,
                 mine, theirs>>

ReleaseSaveWallet(h) ==
  /\ At(h, "release", "saveWallet")
  /\ SaveRow(Buyer[job[h].tx], mine[h])
  /\ Goto(h, "saveLog")
  /\ UNCHANGED <<wallets, reserve, log, overdue, sweep, history, mine, theirs>>

ReleaseSaveLog(h) ==
  /\ At(h, "release", "saveLog")
  /\ AppendLog("RELEASE", job[h].tx)
  /\ Finish(h)
  /\ UNCHANGED <<wallets, balance, locked, reserve, overdue, sweep, history>>

-----------------------------------------------------------------------------
(* settleFunds.  The reserve is searched for up to four times, 300 ms      *)
(* apart; only the last search matters, so a search that finds nothing and *)
(* will be repeated is a stuttering step.                                  *)

(* Fault: no 'Reserve not in ACTIVE state' check.                          *)
SettleFindReleased(h) ==
  /\ At(h, "settle", "findReserve")
  /\ IF reserve[job[h].tx] \in {"ACTIVE", "RELEASED"}
     THEN Goto(h, "readWallet") /\ UNCHANGED <<mine, theirs>>
     ELSE Finish(h)
  /\ UNCHANGED <<tables, overdue, sweep, history>>

SettleFind(h) ==
  /\ At(h, "settle", "findReserve")
  /\ IF reserve[job[h].tx] = "ACTIVE"
     THEN Goto(h, "readWallet") /\ UNCHANGED <<mine, theirs>>
     ELSE Finish(h)
  /\ UNCHANGED <<tables, overdue, sweep, history>>

EnoughLocked(row, t) == row.locked >= Amount[t]

SettleReadWallet(h) ==
  LET t == job[h].tx
      row == RowOf(Buyer[t])
  IN /\ At(h, "settle", "readWallet")
     /\ mine' = [mine EXCEPT ![h] = row]
     /\ Goto(h, IF EnoughLocked(row, t) THEN "readSeller" ELSE "refresh")
     /\ UNCHANGED <<tables, overdue, sweep, history, theirs>>

(* The last of the three re-reads of locked_balance; the balance read      *)
(* before stays as it was.                                                 *)
SettleRefresh(h) ==
  LET t == job[h].tx
      row == [mine[h] EXCEPT !.locked = locked[Buyer[t]]]
  IN /\ At(h, "settle", "refresh")
     /\ mine' = [mine EXCEPT ![h] = row]
     /\ Goto(h, IF EnoughLocked(row, t) THEN "readSeller" ELSE "reconcile")
     /\ UNCHANGED <<tables, overdue, sweep, history, theirs>>

(* Recompute the locked amount from the ACTIVE reserves of the wallet.     *)
SettleReconcile(h) ==
  LET sum == Total[ActiveOf(Buyer[job[h].tx])]
  IN /\ At(h, "settle", "reconcile")
     /\ IF sum > mine[h].locked
        THEN /\ mine' = [mine EXCEPT ![h].locked = sum]
             /\ Goto(h, "saveReconciled")
             /\ UNCHANGED theirs
        ELSE Finish(h)
     /\ UNCHANGED <<tables, overdue, sweep, history>>

SettleSaveReconciled(h) ==
  LET t == job[h].tx
  IN /\ At(h, "settle", "saveReconciled")
     /\ SaveRow(Buyer[t], mine[h])
     /\ IF EnoughLocked(mine[h], t)
        THEN Goto(h, "readSeller") /\ UNCHANGED <<mine, theirs>>
        ELSE Finish(h)
     /\ UNCHANGED <<wallets, reserve, log, overdue, sweep, history>>

(* The amounts the settlement will write, computed in memory.              *)
(* Fault: the buyer pays but the amount stays locked.                      *)
BuyerRowStillLocked(row, t) == [row EXCEPT !.balance = @ - Amount[t]]

BuyerRow(row, t) == [balance |-> row.balance - Amount[t],
                     locked |-> row.locked - Amount[t]]

SellerRow(row, t) == [row EXCEPT !.balance = @ + Amount[t]]

SettleReadSeller(h) ==
  LET t == job[h].tx
  IN /\ At(h, "settle", "readSeller")
     /\ IF Seller[t] \in wallets
        THEN /\ Goto(h, "saveReserve")
             /\ mine' = [mine EXCEPT ![h] = BuyerRow(@, t)]
             /\ theirs' = [theirs EXCEPT ![h] = SellerRow(RowOf(Seller[t]), t)]
        ELSE Goto(h, "createSeller") /\ UNCHANGED <<mine, theirs>>
     /\ UNCHANGED <<tables, overdue, sweep, history>>

(* The wallet of a first-time seller is inserted with zero amounts; if     *)
(* another call inserted it meanwhile the unique user_id makes this throw. *)
SettleCreateSeller(h) ==
  LET t == job[h].tx
  IN /\ At(h, "settle", "createSeller")
     /\ IF Seller[t] \in wallets
        THEN Finish(h) /\ UNCHANGED wallets
        ELSE /\ wallets' = wallets \cup {Seller[t]}
             /\ Goto(h, "saveReserve")
             /\ mine' = [mine EXCEPT ![h] = BuyerRow(@, t)]
             /\ theirs' = [theirs EXCEPT ![h] = SellerRow(NoRow, t)]
     /\ UNCHANGED <<balance, locked, reserve, log, overdue, sweep, history>>

(* Fault: settledAt is saved but the status is not.                        *)
SettleForgetsReserve(h) ==
  /\ At(h, "settle", "saveReserve")
  /\ Goto(h, "saveWallet")
  /\ UNCHANGED <<tables, overdue, sweep, history, mine, theirs>>

SettleSaveReserve(h) ==
  /\ At(h, "settle", "saveReserve")
  /\ reserve' = [reserve EXCEPT ![job[h].tx] = "SETTLED"]
  /\ Goto(h, "saveWallet")
  /\ UNCHANGED <<wallets, balance, locked, log, overdue, sweep, history,
                 mine, theirs>>

SettleSaveWallet(h) ==
  /\ At(h, "settle", "saveWallet")
  /\ SaveRow(Buyer[job[h].tx], mine[h])
  /\ Goto(h, "saveSeller")
  /\ UNCHANGED <<wallets, reserve, log, overdue, sweep, history, mine, theirs>>

(* Fault: the seller's record is written before the buyer's.               *)
SettleSaveSellerLogsIn(h) ==
  /\ At(h, "settle", "saveSeller")
  /\ SaveRow(Seller[job[h].tx], theirs[h])
  /\ Goto(h, "saveSellerLog")
  /\ UNCHANGED <<wallets, reserve, log, overdue, sweep, history, mine, theirs>>

SettleSaveSeller(h) ==
  /\ At(h, "settle", "saveSeller")
  /\ SaveRow(Seller[job[h].tx], theirs[h])
  /\ Goto(h, "saveLog")
  /\ UNCHANGED <<wallets, reserve, log, overdue, sweep, history, mine, theirs>>

SettleSaveLog(h) ==
  LET t == job[h].tx
  IN /\ At(h, "settle", "saveLog")
     /\ IF <<"SETTLE_OUT", t>> \in log
        THEN Finish(h)
        ELSE Goto(h, "saveSellerLog") /\ UNCHANGED <<mine, theirs>>
     /\ AppendLog("SETTLE_OUT", t)
     /\ UNCHANGED <<wallets, balance, locked, reserve, overdue, sweep, history>>

SettleSaveSellerLog(h) ==
  /\ At(h, "settle", "saveSellerLog")
  /\ AppendLog("SETTLE_IN", job[h].tx)
  /\ Finish(h)
  /\ UNCHANGED <<wallets, balance, locked, reserve, overdue, sweep, history>>

-----------------------------------------------------------------------------
(* Time, and the cleanup job: it lists the reserves that are ACTIVE and    *)
(* past their expiry once, then calls releaseFunds for each in turn.       *)

Expire(t) ==
  /\ reserve[t] = "ACTIVE"
  /\ t \notin overdue
  /\ overdue' = overdue \cup {t}
  /\ UNCHANGED <<tables, sweep, history, pc, job, mine, theirs>>

Expired == {t \in overdue : reserve[t] = "ACTIVE"}

CleanupFind ==
  /\ pc[Cron] = "idle"
  /\ sweep = {}
  /\ Expired # {}
  /\ sweep' = Expired
  /\ UNCHANGED <<tables, overdue, history, pc, job, mine, theirs>>

CleanupRelease(t) ==
  /\ t \in sweep
  /\ Start(Cron, "release", t)
  /\ sweep' = sweep \ {t}
  /\ UNCHANGED <<tables, overdue, calls, aborts>>

-----------------------------------------------------------------------------
(* A database call of one handler fails, or the process dies with all its  *)
(* handlers: what had not been saved yet is never saved, and the message   *)
(* is delivered again, as another Request.                                 *)

Abort(h) ==
  /\ pc[h] # "idle"
  /\ aborts < MaxAborts
  /\ aborts' = aborts + 1
  /\ Finish(h)
  /\ UNCHANGED <<tables, overdue, sweep, calls, crossed>>

Crash ==
  /\ aborts < MaxAborts
  /\ \E h \in Slots : pc[h] # "idle"
  /\ aborts' = aborts + 1
  /\ sweep' = {}
  /\ pc' = [h \in Slots |-> "idle"]
  /\ job' = [h \in Slots |-> NoJob]
  /\ mine' = [h \in Slots |-> NoRow]
  /\ theirs' = [h \in Slots |-> NoRow]
  /\ UNCHANGED <<tables, overdue, calls, crossed>>

ReserveFunds(h) ==
  \/ ReserveFind(h) \/ ReserveReadWallet(h) \/ ReserveSaveReserve(h)
  \/ ReserveSaveWallet(h) \/ ReserveSaveLog(h)

ReleaseFunds(h) ==
  \/ ReleaseFind(h) \/ ReleaseReadWallet(h) \/ ReleaseSaveReserve(h)
  \/ ReleaseSaveWallet(h) \/ ReleaseSaveLog(h)

SettleFunds(h) ==
  \/ SettleFind(h) \/ SettleReadWallet(h) \/ SettleRefresh(h)
  \/ SettleReconcile(h) \/ SettleSaveReconciled(h) \/ SettleReadSeller(h)
  \/ SettleCreateSeller(h) \/ SettleSaveReserve(h) \/ SettleSaveWallet(h)
  \/ SettleSaveSeller(h) \/ SettleSaveLog(h) \/ SettleSaveSellerLog(h)

Step(h) == ReserveFunds(h) \/ ReleaseFunds(h) \/ SettleFunds(h)

Next ==
  \/ \E h \in Handlers, o \in Ops, t \in Tx : Request(h, o, t)
  \/ \E h \in Slots : Step(h) \/ Abort(h)
  \/ \E t \in Tx : Expire(t) \/ CleanupRelease(t)
  \/ CleanupFind
  \/ Crash

Spec == Init /\ [][Next]_vars

(* Node keeps running the handlers it started, and the scheduler keeps     *)
(* starting the cleanup every five minutes.                                *)
Fairness == /\ \A h \in Slots : WF_vars(Step(h))
            /\ WF_vars(CleanupFind)
            /\ \A t \in Tx : WF_vars(CleanupRelease(t))

FairSpec == Spec /\ Fairness

-----------------------------------------------------------------------------
(* Vocabulary of the properties.                                           *)

OutOf(u) == {t \in Tx : Buyer[t] = u /\ reserve[t] = "SETTLED"}
InTo(u) == {t \in Tx : Seller[t] = u /\ reserve[t] = "SETTLED"}
Logged(type) == {t \in Tx : <<type, t>> \in log}

(* The users whose row the handler still has to save to finish what it     *)
(* began by saving the reserve, and the row it will save.                  *)
Pending(h) ==
  IF pc[h] = "saveWallet"
  THEN TouchesOf(job[h])
  ELSE IF At(h, "settle", "saveSeller") THEN {Seller[job[h].tx]} ELSE {}

PendingRow(h, u) == IF u = Buyer[job[h].tx] THEN mine[h] ELSE theirs[h]

(* The row of u once every save in progress is done.                       *)
SettledRow(u) ==
  IF \E h \in Slots : u \in Pending(h)
  THEN PendingRow(CHOOSE h \in Slots : u \in Pending(h), u)
  ELSE RowOf(u)

-----------------------------------------------------------------------------
(* Properties of every interleaving, crashes included.                     *)

(* However often transaction.created is delivered and however the          *)
(* deliveries overlap, only one reserveFunds call gets to add the amount   *)
(* to locked_balance: the unique index on reserves.transaction_id stops    *)
(* the others before they save the wallet.                                 *)
LockAppliedOnce ==
  \A g, h \in Slots :
    /\ At(g, "reserve", "saveWallet")
    /\ job[h] = job[g]
    /\ pc[h] \in {"saveWallet", "saveLog"}
    => g = h /\ job[h].tx \notin Logged("RESERVE")

(* The audit trail never runs ahead of the tables it describes: a          *)
(* wallet_transactions row is written last, so RELEASE or SETTLE_OUT of a  *)
(* reserve still ACTIVE, or SETTLE_IN without its SETTLE_OUT, is never     *)
(* seen, whatever calls overlap or die.                                    *)
LogFollowsTables ==
  /\ \A t \in Logged("RESERVE") : reserve[t] # "NONE"
  /\ \A t \in Logged("RELEASE") \cup Logged("SETTLE_OUT") :
        reserve[t] \in {"RELEASED", "SETTLED"}
  /\ \A t \in Logged("SETTLE_IN") :
        t \in Logged("SETTLE_OUT") /\ Seller[t] \in wallets

(* A reserve that was released or settled is never made ACTIVE again, so   *)
(* a redelivered transaction.created cannot lock funds for a transaction   *)
(* that is over.                                                           *)
ReserveNeverReopens ==
  [][\A t \in Tx : reserve[t] \in {"RELEASED", "SETTLED"} =>
                     reserve'[t] \in {"RELEASED", "SETTLED"}]_vars

-----------------------------------------------------------------------------
(* Properties of the wallets whose calls have not overlapped.  Nothing in  *)
(* the service keeps two calls on one wallet apart; when they meet, either *)
(* may save a row it read before the other's save, or both may act on a    *)
(* reserve they found ACTIVE, and the parties of both are "crossed" from   *)
(* then on.  The other wallets keep these promises all the same.           *)

(* Of a wallet no overlap has touched, with no save in progress on it:     *)
(* locked_balance is the sum of its ACTIVE reserves, the balance is the    *)
(* opening balance less what it bought plus what it sold, and it can pay   *)
(* all that is locked, whatever happens to other wallets.  Until a call is *)
(* cut short.                                                              *)
BooksBalance ==
  aborts = 0 =>
    \A u \in Users \ crossed : (\A h \in Slots : u \notin Pending(h)) =>
      /\ locked[u] = Total[ActiveOf(u)]
      /\ balance[u] = Opening[u] - Total[OutOf(u)] + Total[InTo(u)]
      /\ locked[u] <= balance[u]

(* The service implements the escrow: each call takes effect in one step,  *)
(* when it saves the reserve, until a call is cut short or two calls       *)
(* overlap on a wallet.                                                    *)
Promise == INSTANCE Escrow WITH
             balance <- [u \in Users |-> SettledRow(u).balance],
             locked <- [u \in Users |-> SettledRow(u).locked],
             intact <- aborts = 0 /\ crossed = {}

ImplementsEscrow == Promise!Spec

(* A crash can lose money but not make any: the balance of a wallet no     *)
(* overlap has touched never exceeds what the settled reserves brought in  *)
(* less what the recorded settlements took, and is never below what they   *)
(* account for, so no purchase is charged or paid out twice by a           *)
(* redelivery.  (Two settlements that overlap do charge twice.)            *)
BalanceWithinRecords ==
  \A u \in Users \ crossed :
    /\ balance[u] <= Opening[u] + Total[InTo(u)]
                       - Total[OutOf(u) \cap Logged("SETTLE_OUT")]
    /\ balance[u] >= Opening[u] - Total[OutOf(u)]
                       + Total[InTo(u) \cap Logged("SETTLE_IN")]

(* The cleanup job sees to it that no reserve outlives its expiry for      *)
(* good, even when calls overlap or fail or the service restarts.          *)
ExpiredReserveReclaimed ==
  \A t \in Tx : t \in Expired ~> t \notin Expired

=============================================================================
