------------------------------- MODULE Funds --------------------------------
(***************************************************************************)
(* Money entering, leaving and moving between the wallets of               *)
(* Wallet_Service: deposits from payment.completed and internal refunds    *)
(* (WalletsService.addBalance, through the wallet cache), transfers        *)
(* between users (transferFunds, in a database transaction with row        *)
(* locks), and withdrawals requested by users and decided by admins        *)
(* (WithdrawalsService).  The escrow of module Reserves acts on the same   *)
(* rows, here in one step.                                                 *)
(*                                                                         *)
(* Every reference moves one unit of money.  An await is a step; a save    *)
(* writes the whole row the call holds, and waits while a transfer has     *)
(* the row locked.                                                         *)
(***************************************************************************)
EXTENDS Integers, FiniteSets

CONSTANTS
  Users,
  Payments,     \* references of deposits, those of refunds included
  Withdrawals,
  Transfers,
  None,
  Owner,        \* the user of a payment or withdrawal, the sender of a transfer
  To,           \* the recipient of a transfer
  Buyers,       \* the users who also buy through the escrow
  Opening,      \* balances when the behaviour starts
  Funded,       \* users whose wallet exists then
  Handlers,     \* calls in flight at once
  Regimes,      \* deployments considered: <<cached, apart>>; cached: the cache
                \* works and is not the no-op fallback; apart: calls that touch
                \* a common wallet do not overlap, transfers excepted
  MaxCalls,     \* bound: calls made
  MaxAborts     \* bound: calls cut short

Refs == Payments \cup Withdrawals \cup Transfers

ASSUME FundsAssumption ==
  /\ Payments \cap Withdrawals = {} /\ Payments \cap Transfers = {}
  /\ Withdrawals \cap Transfers = {}
  /\ None \notin Refs \cup Users \cup Handlers /\ Refs \cap Users = {}
  /\ Owner \in [Refs -> Users]
  /\ To \in [Transfers -> Users]
  /\ Buyers \subseteq Users
  /\ Opening \in [Users -> Nat]
  /\ Funded \subseteq Users
  /\ \A u \in Users \ Funded : Opening[u] = 0
  /\ Regimes \subseteq BOOLEAN \X BOOLEAN
  /\ MaxCalls \in Nat /\ MaxAborts \in Nat

VARIABLES
  wallets,      \* users with a row in wallets
  row,          \* its balance and locked_balance
  ledger,       \* rows of wallet_transactions: <<type, reference>>
  withdrawal,   \* status of each withdrawals row, "NONE" if absent
  escrow,       \* each user's purchase, by the escrow service
  cache,        \* the wallet cached for each user
  rowLock,      \* the transfer that holds each wallet's row lock
  told,         \* events published about withdrawals
  credited,     \* history: how often each reference changed a balance
  cached, apart,   \* the deployment, constant
  pc, job, mine,   \* where each handler stands, for which call, its row
  calls, aborts

tables == <<wallets, row, ledger, withdrawal, escrow>>
deployment == <<cached, apart>>
bounds == <<calls, aborts>>
control == <<pc, job, mine>>
vars == <<tables, cache, rowLock, told, credited, deployment, control, bounds>>

Row == [balance : Int, locked : 0 .. 1]
NoRow == [balance |-> 0, locked |-> 0]
Idle == [op |-> "none", ref |-> None]
Ops == {"view", "deposit", "request", "approve", "reject", "transfer"}
Jobs == [op : Ops, ref : Refs \cup Users]
Labels == {"idle", "readCache", "read", "create", "fill", "find", "saveWallet",
           "saveLog", "saveRow", "forget", "lockFrom", "lockTo", "commit",
           "forgetFrom", "forgetTo", "tell"}
WithdrawalStatus == {"NONE", "PENDING", "APPROVED", "REJECTED"}

TypeOK ==
  /\ wallets \subseteq Users
  /\ row \in [Users -> Row]
  /\ ledger \subseteq {"DEPOSIT", "WITHDRAWAL", "TRANSFER"} \X Refs
  /\ withdrawal \in [Withdrawals -> WithdrawalStatus]
  /\ escrow \in [Users -> {"none", "held", "paid"}]
  /\ cache \in [Users -> Row \cup {None}]
  /\ rowLock \in [Users -> Handlers \cup {None}]
  /\ told \subseteq {"APPROVED", "REJECTED"} \X Withdrawals
  /\ credited \in [Refs -> Nat]
  /\ cached \in BOOLEAN /\ apart \in BOOLEAN
  /\ pc \in [Handlers -> Labels]
  /\ job \in [Handlers -> Jobs \cup {Idle}]
  /\ \A h \in Handlers : pc[h] = "idle" <=> job[h] = Idle
  /\ mine \in [Handlers -> Row]
  /\ calls \in 0 .. MaxCalls
  /\ aborts \in 0 .. MaxAborts

Init ==
  /\ wallets = Funded
  /\ row = [u \in Users |-> [balance |-> Opening[u], locked |-> 0]]
  /\ ledger = {}
  /\ withdrawal = [w \in Withdrawals |-> "NONE"]
  /\ escrow = [u \in Users |-> "none"]
  /\ cache = [u \in Users |-> None]
  /\ rowLock = [u \in Users |-> None]
  /\ told = {}
  /\ credited = [r \in Refs |-> 0]
  /\ \E r \in Regimes : cached = r[1] /\ apart = r[2]
  /\ pc = [h \in Handlers |-> "idle"]
  /\ job = [h \in Handlers |-> Idle]
  /\ mine = [h \in Handlers |-> NoRow]
  /\ calls = 0
  /\ aborts = 0

-----------------------------------------------------------------------------
(* Helpers.                                                                *)

At(h, op, label) == pc[h] = label /\ job[h].op = op

UserOf(r) == IF r \in Users THEN r ELSE Owner[r]
UsersOf(j) == IF j.op = "transfer" THEN {Owner[j.ref], To[j.ref]}
                                   ELSE {UserOf(j.ref)}

Goto(h, label) == pc' = [pc EXCEPT ![h] = label] /\ UNCHANGED job

Finish(h) == /\ pc' = [pc EXCEPT ![h] = "idle"]
             /\ job' = [job EXCEPT ![h] = Idle]
             /\ mine' = [mine EXCEPT ![h] = NoRow]

Hold(h, r) == mine' = [mine EXCEPT ![h] = r]

Working(u) == {h \in Handlers : pc[h] # "idle" /\ u \in UsersOf(job[h])}

Unused(r) == credited[r] = 0 /\ \A h \in Handlers : job[h].ref # r

Unlocked(u) == rowLock[u] = None

Request(h, op, ref, label) ==
  LET j == [op |-> op, ref |-> ref]
      rivals == {g \in UNION {Working(u) : u \in UsersOf(j)} :
                   ~(op = "transfer" /\ job[g].op = "transfer")}
  IN /\ pc[h] = "idle"
     /\ apart => rivals = {}
     /\ calls < MaxCalls
     /\ calls' = calls + 1
     /\ pc' = [pc EXCEPT ![h] = label]
     /\ job' = [job EXCEPT ![h] = j]
     /\ UNCHANGED <<tables, cache, rowLock, told, credited, deployment, mine, aborts>>

-----------------------------------------------------------------------------
(* getOrCreateWallet, for a balance query or a deposit.                    *)

AskBalance(h, u) == Request(h, "view", u, "readCache")
PaymentCompleted(h, p) == Request(h, "deposit", p, "readCache")

(* What follows once the wallet is known.                                  *)
Proceed(h) == IF job[h].op = "deposit" THEN Goto(h, "find") /\ UNCHANGED mine
                                       ELSE Finish(h)

ReadCache(h) ==
  LET u == UserOf(job[h].ref)
  IN /\ pc[h] = "readCache"
     /\ IF cached /\ cache[u] # None
        THEN IF job[h].op = "deposit" THEN Goto(h, "find") /\ Hold(h, cache[u])
                                      ELSE Finish(h)
        ELSE Goto(h, "read") /\ UNCHANGED mine
     /\ UNCHANGED <<tables, cache, rowLock, told, credited, deployment, bounds>>

ReadWallet(h) ==
  LET u == UserOf(job[h].ref)
  IN /\ pc[h] = "read" /\ job[h].op \in {"view", "deposit"}
     /\ IF u \in wallets THEN Goto(h, "fill") /\ Hold(h, row[u])
                         ELSE Goto(h, "create") /\ UNCHANGED mine
     /\ UNCHANGED <<tables, cache, rowLock, told, credited, deployment, bounds>>

(* A second insert for the user violates the unique user_id and throws.    *)
CreateWallet(h) ==
  LET u == UserOf(job[h].ref)
  IN /\ pc[h] = "create" /\ Unlocked(u)
     /\ IF u \in wallets THEN Finish(h) /\ UNCHANGED wallets
        ELSE /\ wallets' = wallets \cup {u}
             /\ Goto(h, "fill") /\ Hold(h, NoRow)
     /\ UNCHANGED <<row, ledger, withdrawal, escrow, cache, rowLock, told, credited,
                    deployment, bounds>>

FillCache(h) ==
  /\ pc[h] = "fill"
  /\ cache' = IF cached THEN [cache EXCEPT ![UserOf(job[h].ref)] = mine[h]] ELSE cache
  /\ Proceed(h)
  /\ UNCHANGED <<tables, rowLock, told, credited, deployment, bounds>>

(* The entry's time to live ends, or the cache evicts it.                  *)
CacheExpires(u) ==
  /\ cache[u] # None
  /\ cache' = [cache EXCEPT ![u] = None]
  /\ UNCHANGED <<tables, rowLock, told, credited, deployment, control, bounds>>

-----------------------------------------------------------------------------
(* addBalance                                                              *)

DepositFind(h) ==
  /\ At(h, "deposit", "find")
  /\ IF <<"DEPOSIT", job[h].ref>> \in ledger
     THEN Finish(h)
     ELSE Goto(h, "saveWallet") /\ Hold(h, [mine[h] EXCEPT !.balance = @ + 1])
  /\ UNCHANGED <<tables, cache, rowLock, told, credited, deployment, bounds>>

DepositSaveWallet(h) ==
  LET p == job[h].ref
  IN /\ At(h, "deposit", "saveWallet") /\ Unlocked(Owner[p])
     /\ row' = [row EXCEPT ![Owner[p]] = mine[h]]
     /\ credited' = [credited EXCEPT ![p] = @ + 1]
     /\ Goto(h, "saveLog")
     /\ UNCHANGED <<wallets, ledger, withdrawal, escrow, cache, rowLock, told,
                    deployment, mine, bounds>>

(* The unique index on the reference makes a second insert throw.  The     *)
(* audit row saved next is read by nothing.                                *)
DepositSaveLog(h) ==
  LET entry == <<"DEPOSIT", job[h].ref>>
  IN /\ At(h, "deposit", "saveLog")
     /\ IF entry \in ledger THEN Finish(h) ELSE Goto(h, "forget") /\ UNCHANGED mine
     /\ ledger' = ledger \cup {entry}
     /\ UNCHANGED <<wallets, row, withdrawal, escrow, cache, rowLock, told, credited,
                    deployment, bounds>>

DepositForget(h) ==
  /\ At(h, "deposit", "forget")
  /\ cache' = [cache EXCEPT ![Owner[job[h].ref]] = None]
  /\ Finish(h)
  /\ UNCHANGED <<tables, rowLock, told, credited, deployment, bounds>>

-----------------------------------------------------------------------------
(* transferFunds, once the password is verified.  Both rows are read with  *)
(* a pessimistic lock, and what is written appears when the transaction    *)
(* commits.                                                                *)

(* Each request is a transfer of its own.                                  *)
TransferFunds(h, t) == Unused(t) /\ Request(h, "transfer", t, "lockFrom")

(* Fault: the sender's row is read without a lock.                         *)
TransferReadSender(h) ==
  LET u == Owner[job[h].ref]
  IN /\ At(h, "transfer", "lockFrom") /\ Unlocked(u)
     /\ IF u \in wallets /\ row[u].balance >= 1
        THEN Goto(h, "lockTo") /\ Hold(h, row[u])
        ELSE Finish(h)
     /\ UNCHANGED <<tables, cache, rowLock, told, credited, deployment, bounds>>

TransferLockSender(h) ==
  LET u == Owner[job[h].ref]
  IN /\ At(h, "transfer", "lockFrom") /\ Unlocked(u)
     /\ IF u \in wallets /\ row[u].balance >= 1
        THEN /\ rowLock' = [rowLock EXCEPT ![u] = h]
             /\ Goto(h, "lockTo") /\ Hold(h, row[u])
        ELSE Finish(h) /\ UNCHANGED rowLock
     /\ UNCHANGED <<tables, cache, told, credited, deployment, bounds>>

TransferLockRecipient(h) ==
  LET u == To[job[h].ref]
  IN /\ At(h, "transfer", "lockTo") /\ rowLock[u] \in {None, h}
     /\ rowLock' = [rowLock EXCEPT ![u] = h]
     /\ Goto(h, "commit")
     /\ UNCHANGED <<tables, cache, told, credited, deployment, mine, bounds>>

(* Fault: the connection is released with its transaction open.            *)
UnlockNone(h) == UNCHANGED rowLock

Unlock(h) == rowLock' = [u \in Users |-> IF rowLock[u] = h THEN None ELSE rowLock[u]]

(* The recipient's new balance is computed from the balance read before    *)
(* the sender's was changed, and saved after it.                           *)
TransferCommit(h) ==
  LET t == job[h].ref
      sent == [row EXCEPT ![Owner[t]].balance = mine[h].balance - 1]
  IN /\ At(h, "transfer", "commit")
     /\ wallets' = wallets \cup {To[t]}
     /\ row' = [sent EXCEPT ![To[t]].balance = row[To[t]].balance + 1]
     /\ ledger' = ledger \cup {<<"TRANSFER", t>>}
     /\ credited' = [credited EXCEPT ![t] = @ + 1]
     /\ Unlock(h)
     /\ Goto(h, "forgetFrom")
     /\ UNCHANGED <<withdrawal, escrow, cache, told, deployment, mine, bounds>>

TransferForgetSender(h) ==
  /\ At(h, "transfer", "forgetFrom")
  /\ cache' = [cache EXCEPT ![Owner[job[h].ref]] = None]
  /\ Goto(h, "forgetTo")
  /\ UNCHANGED <<tables, rowLock, told, credited, deployment, mine, bounds>>

TransferForgetRecipient(h) ==
  /\ At(h, "transfer", "forgetTo")
  /\ cache' = [cache EXCEPT ![To[job[h].ref]] = None]
  /\ Finish(h)
  /\ UNCHANGED <<tables, rowLock, told, credited, deployment, bounds>>

(* The database rolls back one of two transfers that wait for each other.  *)
TransferDeadlocked(h) ==
  /\ At(h, "transfer", "lockTo")
  /\ LET g == rowLock[To[job[h].ref]]
     IN /\ g \notin {None, h}
        /\ At(g, "transfer", "lockTo")
        /\ rowLock[To[job[g].ref]] = h
  /\ Unlock(h)
  /\ Finish(h)
  /\ UNCHANGED <<tables, cache, told, credited, deployment, bounds>>

-----------------------------------------------------------------------------
(* requestWithdrawal, approveWithdrawal, rejectWithdrawal.                 *)

(* Each request is a withdrawal of its own.                                *)
RequestWithdrawal(h, w) ==
  withdrawal[w] = "NONE" /\ Unused(w) /\ Request(h, "request", w, "read")

ApproveWithdrawal(h, w) == withdrawal[w] # "NONE" /\ Request(h, "approve", w, "find")
RejectWithdrawal(h, w) == withdrawal[w] # "NONE" /\ Request(h, "reject", w, "find")

(* Nothing is set aside for the request.                                   *)
RequestReadWallet(h) ==
  LET u == Owner[job[h].ref]
  IN /\ At(h, "request", "read")
     /\ IF u \in wallets /\ row[u].balance - row[u].locked >= 1
        THEN Goto(h, "saveRow") /\ UNCHANGED mine
        ELSE Finish(h)
     /\ UNCHANGED <<tables, cache, rowLock, told, credited, deployment, bounds>>

RequestSave(h) ==
  /\ At(h, "request", "saveRow")
  /\ withdrawal' = [withdrawal EXCEPT ![job[h].ref] = "PENDING"]
  /\ Finish(h)
  /\ UNCHANGED <<wallets, row, ledger, escrow, cache, rowLock, told, credited,
                 deployment, bounds>>

(* An admin's call finds the withdrawal PENDING or throws.                 *)
DecisionFind(h) ==
  /\ pc[h] = "find" /\ job[h].op \in {"approve", "reject"}
  /\ IF withdrawal[job[h].ref] = "PENDING"
     THEN /\ Goto(h, IF job[h].op = "approve" THEN "read" ELSE "saveRow")
          /\ UNCHANGED mine
     ELSE Finish(h)
  /\ UNCHANGED <<tables, cache, rowLock, told, credited, deployment, bounds>>

ApproveReadWallet(h) ==
  LET u == Owner[job[h].ref]
  IN /\ At(h, "approve", "read")
     /\ IF u \in wallets /\ row[u].balance >= 1
        THEN Goto(h, "saveLog") /\ Hold(h, [row[u] EXCEPT !.balance = @ - 1])
        ELSE Finish(h)
     /\ UNCHANGED <<tables, cache, rowLock, told, credited, deployment, bounds>>

(* Fault: no unique index on the reference.                                *)
ApproveSaveLogAgain(h) ==
  /\ At(h, "approve", "saveLog")
  /\ ledger' = ledger \cup {<<"WITHDRAWAL", job[h].ref>>}
  /\ Goto(h, "saveWallet")
  /\ UNCHANGED <<wallets, row, withdrawal, escrow, cache, rowLock, told, credited,
                 deployment, mine, bounds>>

(* Fault: an amount already in the ledger is taken for deducted.           *)
ApproveTrustsLog(h) ==
  LET entry == <<"WITHDRAWAL", job[h].ref>>
  IN /\ At(h, "approve", "saveLog")
     /\ Goto(h, IF entry \in ledger THEN "saveRow" ELSE "saveWallet")
     /\ ledger' = ledger \cup {entry}
     /\ UNCHANGED <<wallets, row, withdrawal, escrow, cache, rowLock, told, credited,
                    deployment, mine, bounds>>

ApproveSaveLog(h) ==
  LET entry == <<"WITHDRAWAL", job[h].ref>>
  IN /\ At(h, "approve", "saveLog")
     /\ IF entry \in ledger THEN Finish(h)
                             ELSE Goto(h, "saveWallet") /\ UNCHANGED mine
     /\ ledger' = ledger \cup {entry}
     /\ UNCHANGED <<wallets, row, withdrawal, escrow, cache, rowLock, told, credited,
                    deployment, bounds>>

ApproveSaveWallet(h) ==
  LET w == job[h].ref
  IN /\ At(h, "approve", "saveWallet") /\ Unlocked(Owner[w])
     /\ row' = [row EXCEPT ![Owner[w]] = mine[h]]
     /\ credited' = [credited EXCEPT ![w] = @ + 1]
     /\ Goto(h, "saveRow")
     /\ UNCHANGED <<wallets, ledger, withdrawal, escrow, cache, rowLock, told,
                    deployment, mine, bounds>>

Decision(h) == IF job[h].op = "approve" THEN "APPROVED" ELSE "REJECTED"

DecisionSave(h) ==
  /\ pc[h] = "saveRow" /\ job[h].op \in {"approve", "reject"}
  /\ withdrawal' = [withdrawal EXCEPT ![job[h].ref] = Decision(h)]
  /\ Goto(h, "tell")
  /\ UNCHANGED <<wallets, row, ledger, escrow, cache, rowLock, told, credited,
                 deployment, mine, bounds>>

(* The publisher swallows its errors.                                      *)
DecisionTell(h) ==
  /\ pc[h] = "tell"
  /\ told' = told \cup {<<Decision(h), job[h].ref>>}
  /\ Finish(h)
  /\ UNCHANGED <<tables, cache, rowLock, credited, deployment, bounds>>

-----------------------------------------------------------------------------
(* The escrow service on the same row: a purchase is held for, then paid   *)
(* or given back.                                                          *)

Escrow(u, from, to, r) ==
  /\ escrow[u] = from
  /\ Unlocked(u)
  /\ apart => Working(u) = {}
  /\ escrow' = [escrow EXCEPT ![u] = to]
  /\ row' = [row EXCEPT ![u] = r]
  /\ UNCHANGED <<wallets, ledger, withdrawal, cache, rowLock, told, credited,
                 deployment, control, bounds>>

EscrowHolds(u) == /\ u \in wallets /\ row[u].balance - row[u].locked >= 1
                  /\ Escrow(u, "none", "held", [row[u] EXCEPT !.locked = 1])
EscrowPays(u) == /\ row[u].locked = 1
                 /\ Escrow(u, "held", "paid",
                           [balance |-> row[u].balance - 1, locked |-> 0])
EscrowReturns(u) == Escrow(u, "held", "none", [row[u] EXCEPT !.locked = 0])

-----------------------------------------------------------------------------
(* A call is cut short by a failing database or broker; the database rolls *)
(* a transfer back.  A cut deposit is delivered again.                     *)
Abort(h) ==
  /\ pc[h] # "idle"
  /\ aborts < MaxAborts
  /\ aborts' = aborts + 1
  /\ Unlock(h)
  /\ Finish(h)
  /\ UNCHANGED <<tables, cache, told, credited, deployment, calls>>

Step(h) ==
  \/ ReadCache(h) \/ ReadWallet(h) \/ CreateWallet(h) \/ FillCache(h)
  \/ DepositFind(h) \/ DepositSaveWallet(h) \/ DepositSaveLog(h) \/ DepositForget(h)
  \/ TransferLockSender(h) \/ TransferLockRecipient(h) \/ TransferCommit(h)
  \/ TransferForgetSender(h) \/ TransferForgetRecipient(h) \/ TransferDeadlocked(h)
  \/ RequestReadWallet(h) \/ RequestSave(h)
  \/ DecisionFind(h) \/ ApproveReadWallet(h) \/ ApproveSaveLog(h)
  \/ ApproveSaveWallet(h) \/ DecisionSave(h) \/ DecisionTell(h)

Receive(h) ==
  \/ \E u \in Users : AskBalance(h, u)
  \/ \E p \in Payments : PaymentCompleted(h, p)
  \/ \E t \in Transfers : TransferFunds(h, t)
  \/ \E w \in Withdrawals :
       RequestWithdrawal(h, w) \/ ApproveWithdrawal(h, w) \/ RejectWithdrawal(h, w)

Next ==
  \/ \E h \in Handlers : Receive(h) \/ Step(h) \/ Abort(h)
  \/ \E u \in Users : CacheExpires(u)
  \/ \E u \in Buyers : EscrowHolds(u) \/ EscrowPays(u) \/ EscrowReturns(u)

Spec == Init /\ [][Next]_vars

(* Node runs the calls it started, and a lock is granted once it is free.  *)
FairSpec == Spec /\ \A h \in Handlers : WF_vars(Step(h))

-----------------------------------------------------------------------------
(* Properties of every interleaving.                                       *)

(* Two admins may approve one withdrawal at a time and calls may be cut    *)
(* short anywhere, but its amount leaves the wallet at most once, and only *)
(* with a ledger row: the insert before the wallet is saved and the unique *)
(* index on its reference decide.                                          *)
WithdrawnOnce ==
  \A w \in Withdrawals :
    credited[w] <= (IF <<"WITHDRAWAL", w>> \in ledger THEN 1 ELSE 0)

(* A withdrawal recorded, or announced, as APPROVED has been deducted from *)
(* the wallet.                                                             *)
ApprovedIsDeducted ==
  \A w \in Withdrawals :
    withdrawal[w] = "APPROVED" \/ <<"APPROVED", w>> \in told => credited[w] = 1

(* Locks are released: transfers that wait for each other do not do so for *)
(* good.                                                                   *)
RowsGetUnlocked == \A u \in Users : rowLock[u] # None ~> rowLock[u] = None

-----------------------------------------------------------------------------
(* Properties of calls that do not overlap on a wallet, except transfers.  *)

Entries(type, R) == Cardinality({r \in R : <<type, r>> \in ledger})

(* What the ledger and the escrow say the balance of u is, a transfer to   *)
(* oneself being counted as money received: its two rows cancel out, but   *)
(* the recipient's copy of the wallet, read before the sender's was        *)
(* changed, is saved last, and the balance grows.                          *)
Booked(u) ==
  Opening[u]
  + Entries("DEPOSIT", {p \in Payments : Owner[p] = u})
  + Entries("TRANSFER", {t \in Transfers : To[t] = u})
  - Entries("TRANSFER", {t \in Transfers : Owner[t] = u /\ To[t] # u})
  - Entries("WITHDRAWAL", {w \in Withdrawals : Owner[w] = u})
  - (IF escrow[u] = "paid" THEN 1 ELSE 0)

(* A wallet nobody is working on holds what its ledger adds up to, as long *)
(* as the cache is the no-op fallback and no call was cut short: to the    *)
(* unit, with what users made by sending money to themselves.              *)
LedgerAddsUp ==
  apart /\ aborts = 0 /\ ~cached =>
    \A u \in Users : Working(u) = {} => row[u].balance = Booked(u)

=============================================================================
