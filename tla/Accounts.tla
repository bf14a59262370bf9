------------------------------- MODULE Accounts -------------------------------
(***************************************************************************)
(* One user's account in the three services that keep a row for it: the    *)
(* managed user of Admin_Service, the user of User_Service, the wallet of  *)
(* Wallet_Service.  What an administrator decides travels from one to the  *)
(* next in two events.                                                     *)
(*                                                                         *)
(* All three services work in the same way: read the row, save the whole   *)
(* row, publish.  A worker is a request or the delivery of a message; a    *)
(* service runs several deliveries of one queue at once.  Requests that    *)
(* are refused, and handlers that find nothing to do, change nothing.      *)
(***************************************************************************)
EXTENDS Integers, Sequences

CONSTANTS
  Handlers,    \* requests in progress, of all three services
  Consumers,   \* deliveries in progress, of all three services
  Requests,    \* what is asked of User_Service
  MaxCalls,    \* bound: requests that change the account
  MaxMoves,    \* bound: movements of money saved when another one starts
  MaxFailures  \* bound: failed saves and publications, workers that die

VARIABLES
  user,       \* row of User_Service
  managed,    \* row of Admin_Service
  wallet,     \* row of Wallet_Service
  seen,       \* rows the wallet has had, which its cache may still hold
  work,       \* what each worker is doing, and the row it read
  created,    \* user.created is on its way to Admin_Service
  toUser,     \* queue of User_Service: admin.user.status_changed
  toWallet,   \* the five queues of Wallet_Service, in the order of publication
  trouble,    \* history: what happened that can set the rows apart
  calls, moves, failures

rows == <<user, managed, wallet, seen>>
queues == <<created, toUser, toWallet>>
accountsVars == <<rows, work, queues, trouble, calls, moves, failures>>

Workers == Handlers \cup Consumers
Decisions == {"LOCK", "UNLOCK", "SUSPEND", "ACTIVATE", "DELETE"}
UserStatus == {"PENDING", "ACTIVE", "SUSPENDED", "DELETED"}
OwnRequests == {"login", "verifyEmail", "resetPassword"}

ASSUME AccountsAssumption ==
  /\ Handlers \cap Consumers = {}
  /\ Requests \subseteq Decisions \cup UserStatus \cup OwnRequests
  /\ MaxCalls \in Nat /\ MaxMoves \in Nat /\ MaxFailures \in Nat

Tables == {"user", "managed", "wallet"}
Table == [user |-> user, managed |-> managed, wallet |-> wallet]

(* What Wallet_Service is told of each decision.                           *)
EventOf == [LOCK |-> "locked", UNLOCK |-> "unlocked", SUSPEND |-> "suspended",
            ACTIVATE |-> "activated", DELETE |-> "deleted"]
Events == {EventOf[d] : d \in Decisions}

Idle == [table |-> "none"]

AccountsTypeOK ==
  /\ user \in [status : UserStatus \cup {"NONE"}, verified : BOOLEAN,
               locked : BOOLEAN, suspended : BOOLEAN, deleted : BOOLEAN]
  /\ managed \in [status : {"NONE", "ACTIVE", "LOCKED", "SUSPENDED", "DELETED"},
                  linked : BOOLEAN]
  /\ wallet \in [status : {"NONE", "ACTIVE", "SUSPENDED", "CLOSED"}, moves : Nat]
  /\ seen \subseteq [status : {"ACTIVE", "SUSPENDED", "CLOSED"}, moves : Nat]
  /\ \A w \in Workers : work[w] = Idle \/
       /\ work[w].table \in Tables
       /\ work[w].by \in {"request", "event"}
       /\ work[w].stage \in {"read", "saved"}
       /\ work[w].op \in Decisions \cup UserStatus \cup OwnRequests \cup Events \cup {"UPDATE", "move"}
  /\ created \in BOOLEAN
  /\ toUser \in Seq(Decisions \ {"DELETE"}) /\ toWallet \in Seq(Events)
  /\ trouble \subseteq Tables \cup {"mixed", "internal", "crossed", "skipped", "lost", "again", "stale"}
  /\ calls \in 0 .. MaxCalls /\ moves \in Nat /\ failures \in 0 .. MaxFailures

AccountsInit ==
  /\ user = [status |-> "NONE", verified |-> FALSE, locked |-> FALSE,
             suspended |-> FALSE, deleted |-> FALSE]
  /\ managed = [status |-> "NONE", linked |-> FALSE]
  /\ wallet = [status |-> "NONE", moves |-> 0] /\ seen = {}
  /\ work = [w \in Workers |-> Idle]
  /\ created = FALSE /\ toUser = <<>> /\ toWallet = <<>>
  /\ trouble = {}
  /\ calls = 0 /\ moves = 0 /\ failures = 0

-----------------------------------------------------------------------------
(* Reading a row and saving it.                                            *)

Busy(t) == \E w \in Workers : work[w].table = t

Open(w, t, by, op) ==
  /\ work[w] = Idle
  /\ work' = [work EXCEPT ![w] = [table |-> t, by |-> by, op |-> op,
                                  stage |-> "read", row |-> Table[t]]]

(* Two workers on one row: the later save restores what the earlier one    *)
(* changed, and their events may be published in the other order.          *)
Overlap(t) == IF Busy(t) THEN {t} ELSE {}

Close(w) == work' = [work EXCEPT ![w] = Idle]

Call(op) ==
  IF op \in OwnRequests \cup {"UPDATE"} THEN UNCHANGED calls
  ELSE calls < MaxCalls /\ calls' = calls + 1

Without(s, i) == SubSeq(s, 1, i - 1) \o SubSeq(s, i + 1, Len(s))

-----------------------------------------------------------------------------
(* Admin_Service.                                                          *)

(* createUser, for someone who has not registered: no externalUserId.      *)
CreateManaged ==
  /\ managed.status = "NONE"
  /\ managed' = [status |-> "ACTIVE", linked |-> FALSE]
  /\ UNCHANGED <<user, wallet, seen, work, queues, trouble, calls, moves, failures>>

(* handleUserCreated.  An existing row is left as it is.                   *)
HandleUserCreated ==
  /\ created /\ created' = FALSE
  /\ managed' = IF managed.status = "NONE" THEN [status |-> "ACTIVE", linked |-> TRUE]
                                           ELSE managed
  /\ UNCHANGED <<user, wallet, seen, work, toUser, toWallet, trouble, calls, moves, failures>>

(* lockUser, unlockUser, suspendUser, activateUser, deleteUser, updateUser *)
AdminRequest(w, op) ==
  /\ managed.status # "NONE" /\ Call(op)
  /\ Open(w, "managed", "request", op)
  /\ trouble' = trouble \cup Overlap("managed")
  /\ UNCHANGED <<rows, queues, moves, failures>>

Becomes == [LOCK |-> "LOCKED", UNLOCK |-> "ACTIVE", SUSPEND |-> "SUSPENDED",
            ACTIVATE |-> "ACTIVE", DELETE |-> "DELETED"]

ManagedAfter(op, row) ==
  IF op \in Decisions THEN [row EXCEPT !.status = Becomes[op]] ELSE row

-----------------------------------------------------------------------------
(* User_Service.                                                           *)

(* register, and then one attempt to publish user.created.                 *)
Register ==
  /\ user.status = "NONE"
  /\ user' = [user EXCEPT !.status = "PENDING"]
  /\ created' = TRUE
  /\ UNCHANGED <<managed, wallet, seen, work, toUser, toWallet, trouble, calls, moves, failures>>

CanLogin(row) == row.verified /\ ~row.locked /\ row.status # "SUSPENDED"

(* The guards of the internal API and of the user's own requests.          *)
Accepts(op, row) ==
  CASE op = "LOCK"        -> ~row.locked /\ ~row.deleted
    [] op = "UNLOCK"      -> row.locked
    [] op = "SUSPEND"     -> ~row.suspended /\ ~row.deleted
    [] op = "ACTIVATE"    -> row.suspended
    [] op = "DELETE"      -> ~row.deleted
    [] op = "login"       -> CanLogin(row)
    [] op = "verifyEmail" -> ~row.verified
    [] OTHER              -> TRUE

(* A change of the status column keeps nobody from going on as before, and *)
(* Admin_Service is not told of what the internal API decides.             *)
UserRequest(w, op) ==
  /\ user.status # "NONE" /\ Accepts(op, user) /\ Call(op)
  /\ Open(w, "user", "request", op)
  /\ trouble' = trouble \cup Overlap("user")
                  \cup (IF op \in Decisions THEN {"internal"} ELSE {})
  /\ UNCHANGED <<rows, queues, moves, failures>>

(* handleAdminUserStatusChanged                                            *)
HandleStatusChanged(w) ==
  /\ toUser # <<>> /\ toUser' = Tail(toUser)
  /\ Open(w, "user", "event", Head(toUser))
  /\ trouble' = trouble \cup Overlap("user")
  /\ UNCHANGED <<rows, created, toWallet, calls, moves, failures>>

(* Fault: the administrator's unlock sets the status only.                 *)
UserAfterStatusOnly(by, op, row) ==
  CASE op = "LOCK"    -> [row EXCEPT !.locked = TRUE, !.status = "SUSPENDED"]
    [] op = "UNLOCK"  -> [row EXCEPT !.status = "ACTIVE"]
    [] op = "SUSPEND" -> [row EXCEPT !.suspended = TRUE, !.status = "SUSPENDED"]
    [] OTHER          -> row

(* Only the event of an administrator ties the status to the lock.         *)
UserAfter(by, op, row) ==
  CASE op = "LOCK" ->
         [row EXCEPT !.locked = TRUE, !.status = IF by = "event" THEN "SUSPENDED" ELSE @]
    [] op = "UNLOCK" ->
         [row EXCEPT !.locked = FALSE, !.status = IF by = "event" THEN "ACTIVE" ELSE @]
    [] op = "SUSPEND" -> [row EXCEPT !.suspended = TRUE, !.status = "SUSPENDED"]
    [] op = "ACTIVATE" -> [row EXCEPT !.suspended = FALSE, !.status = "ACTIVE"]
    [] op = "DELETE" -> [row EXCEPT !.deleted = TRUE, !.status = "DELETED"]
    [] op = "verifyEmail" -> [row EXCEPT !.verified = TRUE, !.status = "ACTIVE"]
    [] op \in UserStatus -> [row EXCEPT !.status = op]
    [] OTHER -> row

(* Every block has its own column, but they share the status of the user   *)
(* and of the wallet: a decision is in place if no other block is in force.*)
InPlace(op, row) ==
  CASE op \in {"LOCK", "UNLOCK"}      -> ~row.suspended /\ ~row.deleted
    [] op \in {"SUSPEND", "ACTIVATE"} -> ~row.locked /\ ~row.deleted
    [] OTHER                          -> TRUE

-----------------------------------------------------------------------------
(* Wallet_Service.                                                         *)

(* getOrCreateWallet                                                       *)
CreateWallet ==
  /\ user.status # "NONE" /\ wallet.status = "NONE"
  /\ wallet' = [wallet EXCEPT !.status = "ACTIVE"]
  /\ seen' = {wallet'}
  /\ UNCHANGED <<user, managed, work, queues, trouble, calls, moves, failures>>

(* A deposit, withdrawal or purchase (modules Funds and Reserves) reads    *)
(* the row, or for a deposit or withdrawal the cache, which no event about *)
(* the user clears; none looks at the status.  Later it saves the row.     *)
StartMove(w) ==
  /\ work[w] = Idle
  /\ moves < MaxMoves
  /\ \E row \in seen :
       /\ work' = [work EXCEPT ![w] = [table |-> "wallet", by |-> "request", op |-> "move",
                                        stage |-> "read", row |-> row]]
       /\ trouble' = trouble \cup Overlap("wallet")
                       \cup (IF row = wallet THEN {} ELSE {"stale"})
  /\ UNCHANGED <<rows, queues, calls, moves, failures>>

(* Fault: unlocking is forgotten.                                          *)
ReactivatesOnce(e) == e = "activated"

Reactivates(e) == e \in {"unlocked", "activated"}

(* Each type of event has a queue: the first of its type can be taken.     *)
First(i) == \A j \in 1 .. i - 1 : toWallet[j] # toWallet[i]

(* handleUserLocked, ...Unlocked, ...Suspended, ...Activated, ...Deleted   *)
HandleWalletEvent(w, i) ==
  LET e == toWallet[i]
      crossed == IF i > 1 THEN {"crossed"} ELSE {}
  IN /\ First(i) /\ toWallet' = Without(toWallet, i)
     /\ IF wallet.status = "NONE" \/ (Reactivates(e) /\ wallet.status # "SUSPENDED")
        THEN /\ work[w] = Idle /\ UNCHANGED work
             /\ trouble' = trouble \cup crossed \cup Overlap("wallet")
                  \cup (IF wallet.status = "NONE" THEN {"skipped"} ELSE {})
        ELSE /\ Open(w, "wallet", "event", e)
             /\ trouble' = trouble \cup crossed \cup Overlap("wallet")
     /\ UNCHANGED <<rows, created, toUser, calls, moves, failures>>

WalletAfter(e, row) ==
  [row EXCEPT !.status = CASE Reactivates(e) -> "ACTIVE"
                           [] e = "deleted"  -> "CLOSED"
                           [] OTHER          -> "SUSPENDED"]

-----------------------------------------------------------------------------
(* The second half of every handler: save, then publish.                   *)

(* Fault: only the end of a block is announced.                            *)
AnnouncesLifting(w) == work[w].op \in {"UNLOCK", "ACTIVATE"}

(* A row without externalUserId is nobody's account in User_Service.       *)
Announces(w) ==
  \/ work[w].table = "managed" /\ work[w].op \in Decisions \ {"DELETE"} /\ work[w].row.linked
  \/ work[w].table = "user" /\ work[w].op \in Decisions

Saved(w) ==
  IF Announces(w)
  THEN work' = [work EXCEPT ![w] = [table |-> @.table, by |-> @.by, op |-> @.op,
                                    stage |-> "saved"]]
  ELSE Close(w)

SaveUser(w) ==
  LET job == work[w] IN
  /\ job.table = "user" /\ job.stage = "read"
  /\ user' = UserAfter(job.by, job.op, job.row)
  /\ trouble' = IF InPlace(job.op, job.row) THEN trouble ELSE trouble \cup {"mixed"}
  /\ Saved(w)
  /\ UNCHANGED <<managed, wallet, seen, queues, calls, moves, failures>>

SaveManaged(w) ==
  /\ work[w].table = "managed" /\ work[w].stage = "read"
  /\ managed' = ManagedAfter(work[w].op, work[w].row)
  /\ Saved(w)
  /\ UNCHANGED <<user, wallet, seen, queues, trouble, calls, moves, failures>>

SaveWallet(w) ==
  /\ work[w].table = "wallet" /\ work[w].by = "event"
  /\ wallet' = WalletAfter(work[w].op, work[w].row)
  /\ seen' = seen \cup {wallet'}
  /\ Close(w)
  /\ UNCHANGED <<user, managed, queues, trouble, calls, moves, failures>>

SaveMove(w) ==
  /\ work[w].table = "wallet" /\ work[w].by = "request"
  /\ wallet' = [work[w].row EXCEPT !.moves = @ + 1]
  /\ seen' = seen \cup {wallet'}
  /\ moves' = moves + 1
  /\ Close(w)
  /\ UNCHANGED <<user, managed, queues, trouble, calls, failures>>

Publish(w) ==
  /\ work[w] # Idle /\ work[w].stage = "saved"
  /\ IF work[w].table = "managed"
     THEN toUser' = Append(toUser, work[w].op) /\ UNCHANGED toWallet
     ELSE toWallet' = Append(toWallet, EventOf[work[w].op]) /\ UNCHANGED toUser
  /\ Close(w)
  /\ UNCHANGED <<rows, created, trouble, calls, moves, failures>>

-----------------------------------------------------------------------------
(* Failures.                                                               *)

Failure == failures < MaxFailures /\ failures' = failures + 1

(* A save fails, and a request with it; a publication fails, which is only *)
(* logged; or a delivery fails, which is logged and acknowledged.          *)
FailJob(w) ==
  /\ work[w] # Idle /\ Failure
  /\ Close(w)
  /\ trouble' = IF work[w].by = "request" /\ work[w].stage = "read"
                THEN trouble ELSE trouble \cup {"lost"}
  /\ UNCHANGED <<rows, queues, calls, moves>>

(* user.created is not published, or the handler fails.                    *)
LoseCreated ==
  /\ created /\ Failure
  /\ created' = FALSE
  /\ UNCHANGED <<rows, work, toUser, toWallet, trouble, calls, moves>>

(* A service dies in the middle of a delivery: the message comes back.     *)
Redeliver(w) ==
  /\ work[w] # Idle /\ Failure
  /\ Close(w)
  /\ IF work[w].table = "user"
     THEN toUser' = <<work[w].op>> \o toUser /\ UNCHANGED toWallet
     ELSE toWallet' = <<work[w].op>> \o toWallet /\ UNCHANGED toUser
  /\ trouble' = IF work[w].stage = "read" THEN trouble ELSE trouble \cup {"again"}
  /\ UNCHANGED <<rows, created, calls, moves>>

Finish(w) == SaveUser(w) \/ SaveManaged(w) \/ SaveWallet(w) \/ SaveMove(w) \/ Publish(w)

Deliver(w) == HandleStatusChanged(w) \/ \E i \in DOMAIN toWallet : HandleWalletEvent(w, i)

AccountsNext ==
  \/ Register \/ CreateManaged \/ HandleUserCreated \/ CreateWallet
  \/ \E h \in Handlers : \/ \E op \in Decisions \cup {"UPDATE"} : AdminRequest(h, op)
                         \/ \E op \in Requests : UserRequest(h, op)
                         \/ StartMove(h)
  \/ \E c \in Consumers : Deliver(c) \/ Redeliver(c)
  \/ \E w \in Workers : Finish(w) \/ FailJob(w)
  \/ LoseCreated

AccountsSpec == AccountsInit /\ [][AccountsNext]_accountsVars

(* A handler that runs, runs on; a queue is served when a consumer is free.*)
Fairness ==
  /\ \A w \in Workers : WF_accountsVars(Finish(w))
  /\ WF_accountsVars(\E c \in Consumers : Deliver(c))

AccountsFairSpec == AccountsSpec /\ Fairness

-----------------------------------------------------------------------------
(* Properties.                                                             *)

Quiet == /\ \A w \in Workers : work[w] = Idle
         /\ toUser = <<>> /\ toWallet = <<>>

(* When everything has been delivered, the user is locked or suspended if  *)
(* and only if the administrator left the account so, whatever the user    *)
(* did meanwhile (logins and password resets save the same row), unless    *)
(* handlers overlapped, an event was lost, a second block was set on top   *)
(* of the first, or the internal API was used, which Admin_Service is not  *)
(* told of.  Nor does it tell of a deletion.                               *)
UserFollowsAdmin ==
  Quiet /\ trouble \subseteq {"wallet", "stale", "crossed", "skipped"}
        /\ managed.linked /\ managed.status # "DELETED" =>
    /\ user.locked <=> managed.status = "LOCKED"
    /\ user.suspended <=> managed.status = "SUSPENDED"

(* The wallet is suspended or closed as its user is, although five queues  *)
(* without a common order tell of it and deposits and purchases save the   *)
(* same row: unless two types of event crossed, an event came before the   *)
(* wallet, was lost or repeated, two handlers had read the row at once     *)
(* (the save of a deposit then restores the status), or a deposit took a   *)
(* row out of the cache that was not the current one.  Neither is a        *)
(* movement of money undone, with the last two exceptions.                 *)
WalletFollowsUser ==
  /\ Quiet /\ wallet.status # "NONE" /\ trouble \subseteq {"managed", "internal"} =>
       wallet.status = IF user.deleted THEN "CLOSED"
                       ELSE IF user.locked \/ user.suspended THEN "SUSPENDED" ELSE "ACTIVE"
  /\ trouble \cap {"wallet", "stale"} = {} => wallet.moves = moves

(* An administrator's lock reaches the wallet, unless it is lifted again   *)
(* or something goes wrong on the way.                                     *)
LockReachesWallet ==
  managed.linked /\ managed.status = "LOCKED" /\ wallet.status = "ACTIVE" /\ trouble = {}
    ~> wallet.status # "ACTIVE" \/ managed.status # "LOCKED" \/ trouble # {}

=============================================================================
