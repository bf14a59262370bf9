----------------------------- MODULE FundsProofs ----------------------------
(***************************************************************************)
(* Theorems about the wallets outside the escrow, for every set of users,  *)
(* handlers, payments, withdrawals and transfers, and every bound.  First  *)
(* withdrawals: in every deployment, however calls overlap or are cut      *)
(* short.  Then the ledger: where the cache is the no-op fallback, only    *)
(* transfers overlap on a wallet and no call is cut short, a wallet is at  *)
(* most one unit ahead of its ledger, and only while a deposit or an       *)
(* approval is between its two saves.                                      *)
(***************************************************************************)
EXTENDS Funds, FiniteSetTheorems, TLAPS

AnyJob == [op : Ops \cup {"none"}, ref : Refs \cup Users \cup {None}]

(* A handler's call fits the place where it stands.                        *)
Fits(h) ==
  /\ job[h].op \in {"request", "approve", "reject"} => job[h].ref \in Withdrawals
  /\ job[h].op = "view" => job[h].ref \in Users
  /\ job[h].op = "deposit" => job[h].ref \in Payments
  /\ job[h].op = "transfer" => job[h].ref \in Transfers
  /\ pc[h] \in {"readCache", "create", "fill"} => job[h].op \in {"view", "deposit"}
  /\ pc[h] = "tell" => job[h].op \in {"approve", "reject"}

(* The types the argument needs: rows and caches are not among them.       *)
CallType ==
  /\ withdrawal \in [Withdrawals -> WithdrawalStatus]
  /\ credited \in [Refs -> Nat]
  /\ pc \in [Handlers -> Labels]
  /\ job \in [Handlers -> AnyJob]
  /\ \A h \in Handlers : Fits(h)

Others(h) == \A g \in Handlers : g # h => pc'[g] = pc[g] /\ job'[g] = job[g]

----------------------------------------------------------------------------
(* How a handler moves.                                                    *)

LEMMA GotoMoves ==
  ASSUME CallType, NEW h \in Handlers, NEW label \in Labels, Goto(h, label)
  PROVE  /\ pc' \in [Handlers -> Labels] /\ job' = job /\ job' \in [Handlers -> AnyJob]
         /\ pc'[h] = label /\ Others(h)
BY DEF CallType, Goto, Others

LEMMA FinishMoves ==
  ASSUME CallType, NEW h \in Handlers, Finish(h)
  PROVE  /\ pc' \in [Handlers -> Labels] /\ job' \in [Handlers -> AnyJob]
         /\ pc'[h] = "idle" /\ job'[h].op = "none" /\ Others(h)
<1>1. Idle \in AnyJob /\ Idle.op = "none"
  BY DEF Idle, AnyJob
<1> HIDE DEF AnyJob
<1> QED
  BY <1>1 DEF CallType, Finish, Others, Labels

LEMMA RequestMoves ==
  ASSUME CallType, NEW h \in Handlers, NEW op \in Ops, NEW ref \in Refs \cup Users,
         NEW label \in Labels, Request(h, op, ref, label)
  PROVE  /\ pc' \in [Handlers -> Labels] /\ job' \in [Handlers -> AnyJob]
         /\ pc'[h] = label /\ job'[h].op = op /\ job'[h].ref = ref /\ Others(h)
         /\ UNCHANGED <<tables, told, credited>>
<1> DEFINE j == [op |-> op, ref |-> ref]
<1>1. j \in AnyJob /\ j.op = op /\ j.ref = ref
  BY DEF AnyJob
<1>2. /\ pc' = [pc EXCEPT ![h] = label] /\ job' = [job EXCEPT ![h] = j]
      /\ UNCHANGED <<tables, told, credited>>
  BY DEF Request
<1> HIDE DEF AnyJob, j
<1> QED
  BY <1>1, <1>2 DEF CallType, Others

LEMMA OneFits ==
  ASSUME CallType, NEW h \in Handlers, Others(h), Fits(h)',
         withdrawal' \in [Withdrawals -> WithdrawalStatus], credited' \in [Refs -> Nat],
         pc' \in [Handlers -> Labels], job' \in [Handlers -> AnyJob]
  PROVE  CallType'
BY DEF CallType, Others, Fits

(* What a handler does after one of its steps: it stands somewhere else,   *)
(* or its call is over.                                                    *)
LEMMA MovesOn ==
  ASSUME CallType, NEW h \in Handlers, NEW label \in Labels,
         Goto(h, label) \/ Finish(h),
         label \in {"readCache", "create", "fill"} => job[h].op \in {"view", "deposit"},
         label = "tell" => job[h].op \in {"approve", "reject"},
         withdrawal' \in [Withdrawals -> WithdrawalStatus], credited' \in [Refs -> Nat]
  PROVE  CallType' /\ Others(h)
<1>1. CASE Goto(h, label)
  <2>1. Fits(h)'
    BY <1>1, GotoMoves DEF CallType, Fits
  <2> QED
    BY <1>1, <2>1, GotoMoves, OneFits
<1>2. CASE Finish(h)
  <2>1. Fits(h)'
    BY <1>2, FinishMoves DEF Fits
  <2> QED
    BY <1>2, <2>1, FinishMoves, OneFits
<1> QED
  BY <1>1, <1>2

LEMMA RequestType ==
  ASSUME CallType, NEW h \in Handlers, Receive(h)
  PROVE  /\ CallType' /\ Others(h) /\ UNCHANGED <<tables, told, credited>>
         /\ pc'[h] \in {"readCache", "lockFrom", "read", "find"}
<1>1. ASSUME NEW op \in Ops, NEW ref \in Refs \cup Users, NEW label \in Labels,
             Request(h, op, ref, label),
             op \in {"request", "approve", "reject"} => ref \in Withdrawals,
             op = "view" => ref \in Users,
             op = "deposit" => ref \in Payments,
             op = "transfer" => ref \in Transfers,
             label \in {"readCache", "create", "fill"} => op \in {"view", "deposit"},
             label # "tell"
      PROVE  /\ CallType' /\ Others(h) /\ UNCHANGED <<tables, told, credited>>
             /\ pc'[h] = label
  <2>1. Fits(h)'
    BY <1>1, RequestMoves DEF Fits
  <2>2. UNCHANGED <<tables, told, credited>>
    BY <1>1, RequestMoves
  <2>3. withdrawal' \in [Withdrawals -> WithdrawalStatus] /\ credited' \in [Refs -> Nat]
    BY <2>2 DEF tables, CallType
  <2> QED
    BY <1>1, <2>1, <2>2, <2>3, RequestMoves, OneFits
<1>2. {"view", "deposit", "request", "approve", "reject", "transfer"} = Ops
      /\ {"readCache", "lockFrom", "read", "find"} \subseteq Labels
  BY DEF Ops, Labels
<1>3. Payments \subseteq Refs /\ Transfers \subseteq Refs /\ Withdrawals \subseteq Refs
  BY DEF Refs
<1>4. ASSUME NEW u \in Users, AskBalance(h, u)
      PROVE  CallType' /\ Others(h) /\ UNCHANGED <<tables, told, credited>> /\ pc'[h] = "readCache"
  BY <1>1, <1>2, <1>4 DEF AskBalance
<1>5. ASSUME NEW p \in Payments, PaymentCompleted(h, p)
      PROVE  CallType' /\ Others(h) /\ UNCHANGED <<tables, told, credited>> /\ pc'[h] = "readCache"
  BY <1>1, <1>2, <1>3, <1>5 DEF PaymentCompleted
<1>6. ASSUME NEW t \in Transfers, TransferFunds(h, t)
      PROVE  CallType' /\ Others(h) /\ UNCHANGED <<tables, told, credited>> /\ pc'[h] = "lockFrom"
  BY <1>1, <1>2, <1>3, <1>6 DEF TransferFunds
<1>7. ASSUME NEW w \in Withdrawals,
             RequestWithdrawal(h, w) \/ ApproveWithdrawal(h, w) \/ RejectWithdrawal(h, w)
      PROVE  /\ CallType' /\ Others(h) /\ UNCHANGED <<tables, told, credited>>
             /\ pc'[h] \in {"read", "find"}
  BY <1>1, <1>2, <1>3, <1>7 DEF RequestWithdrawal, ApproveWithdrawal, RejectWithdrawal
<1> QED
  BY <1>4, <1>5, <1>6, <1>7 DEF Receive

----------------------------------------------------------------------------
(* An amount is deducted once.                                             *)

Recorded(w) == <<"WITHDRAWAL", w>> \in ledger

(* The three places in approveWithdrawal behind the ledger's insert.       *)
Deducting(h) == At(h, "approve", "saveWallet")
Deducted(h) == At(h, "approve", "saveRow") \/ At(h, "approve", "tell")

DeductInv ==
  /\ \A w \in Withdrawals : credited[w] <= 1 /\ (credited[w] # 0 => Recorded(w))
  /\ \A h \in Handlers : Deducting(h) => Recorded(job[h].ref) /\ credited[job[h].ref] = 0
  /\ \A g, h \in Handlers :
       Deducting(g) /\ Deducting(h) /\ job[g].ref = job[h].ref => g = h
  /\ \A h \in Handlers : Deducted(h) => credited[job[h].ref] = 1
  /\ \A w \in Withdrawals :
       withdrawal[w] = "APPROVED" \/ <<"APPROVED", w>> \in told => credited[w] = 1

(* A step that takes no handler behind the insert, deducts nothing and     *)
(* approves nothing.                                                       *)
LEMMA QuietStep ==
  ASSUME CallType, DeductInv, NEW h \in Handlers, Others(h),
         ~ Deducting(h)', ~ Deducted(h)',
         ledger \subseteq ledger', told' = told,
         \A w \in Withdrawals : credited'[w] = credited[w],
         \A w \in Withdrawals : withdrawal'[w] = "APPROVED" => withdrawal[w] = "APPROVED"
  PROVE  DeductInv'
<1>1. \A g \in Handlers : Deducting(g)' => g # h /\ Deducting(g) /\ job'[g].ref = job[g].ref
  BY DEF Deducting, At, Others
<1>2. \A g \in Handlers : Deducted(g)' => g # h /\ Deducted(g) /\ job'[g].ref = job[g].ref
  BY DEF Deducted, At, Others
<1>3. \A g \in Handlers : Deducting(g) \/ Deducted(g) => job[g].ref \in Withdrawals
  BY DEF CallType, Fits, Deducting, Deducted, At
<1>4. \A w : Recorded(w) => Recorded(w)'
  BY DEF Recorded
<1> HIDE DEF Deducting, Deducted, Recorded
<1> QED
  BY <1>1, <1>2, <1>3, <1>4 DEF DeductInv

Safe == CallType /\ DeductInv

LEMMA SafeInit == Init => Safe
<1> SUFFICES ASSUME Init PROVE Safe
  OBVIOUS
<1>1. Idle \in AnyJob /\ Idle.op = "none"
  BY DEF Idle, AnyJob
<1> HIDE DEF AnyJob
<1> QED
  BY <1>1 DEF Init, Safe, CallType, DeductInv, Fits, Labels, WithdrawalStatus,
              Deducting, Deducted, At, Refs

(* Steps for a balance query or a deposit.                                 *)
LEMMA DepositIsSafe ==
  ASSUME Safe, NEW h \in Handlers,
         \/ ReadCache(h) \/ ReadWallet(h) \/ CreateWallet(h) \/ FillCache(h)
         \/ DepositFind(h) \/ DepositSaveWallet(h) \/ DepositSaveLog(h) \/ DepositForget(h)
  PROVE  Safe'
<1> USE DEF tables
<1>1. CallType /\ DeductInv /\ Fits(h)
  BY DEF Safe, CallType
<1>2. job[h].op \in {"view", "deposit"}
  BY <1>1 DEF Fits, ReadCache, ReadWallet, CreateWallet, FillCache, DepositFind,
              DepositSaveWallet, DepositSaveLog, DepositForget, At
<1>3. PICK label \in {"find", "read", "fill", "create", "saveWallet", "saveLog", "forget"} :
        Goto(h, label) \/ Finish(h)
  BY DEF ReadCache, ReadWallet, CreateWallet, FillCache, Proceed, DepositFind,
         DepositSaveWallet, DepositSaveLog, DepositForget
<1>4. /\ withdrawal' = withdrawal /\ told' = told /\ ledger \subseteq ledger'
  BY DEF ReadCache, ReadWallet, CreateWallet, FillCache, DepositFind,
         DepositSaveWallet, DepositSaveLog, DepositForget
<1>5. /\ credited' \in [Refs -> Nat]
      /\ \A w \in Withdrawals : credited'[w] = credited[w]
  <2>1. CASE DepositSaveWallet(h)
    <3>1. job[h].ref \in Payments
      BY <1>1, <2>1 DEF DepositSaveWallet, At, Fits
    <3> QED
      BY <1>1, <2>1, <3>1, FundsAssumption DEF DepositSaveWallet, CallType, Refs
  <2>2. CASE ~ DepositSaveWallet(h)
    <3>1. credited' = credited
      BY <2>2 DEF ReadCache, ReadWallet, CreateWallet, FillCache, DepositFind,
                  DepositSaveLog, DepositForget
    <3> QED
      BY <1>1, <3>1 DEF CallType
  <2> QED
    BY <2>1, <2>2
<1>6. label \in Labels /\ label # "tell"
  BY DEF Labels
<1>7. CallType' /\ Others(h)
  BY <1>1, <1>2, <1>3, <1>4, <1>5, <1>6, MovesOn DEF CallType
<1>8. job'[h].op # "approve"
  BY <1>1, <1>2, <1>3, <1>6, GotoMoves, FinishMoves
<1> QED
  BY <1>1, <1>4, <1>5, <1>7, <1>8, QuietStep DEF Safe, Deducting, Deducted, At

LEMMA TransferIsSafe ==
  ASSUME Safe, NEW h \in Handlers,
         \/ TransferLockSender(h) \/ TransferLockRecipient(h) \/ TransferCommit(h)
         \/ TransferForgetSender(h) \/ TransferForgetRecipient(h) \/ TransferDeadlocked(h)
  PROVE  Safe'
<1> USE DEF tables
<1>1. CallType /\ DeductInv /\ Fits(h)
  BY DEF Safe, CallType
<1>2. job[h].op = "transfer"
  BY DEF TransferLockSender, TransferLockRecipient, TransferCommit,
         TransferForgetSender, TransferForgetRecipient, TransferDeadlocked, At
<1>3. PICK label \in {"lockTo", "commit", "forgetFrom", "forgetTo"} :
        Goto(h, label) \/ Finish(h)
  BY DEF TransferLockSender, TransferLockRecipient, TransferCommit,
         TransferForgetSender, TransferForgetRecipient, TransferDeadlocked
<1>4. /\ withdrawal' = withdrawal /\ told' = told /\ ledger \subseteq ledger'
  BY DEF TransferLockSender, TransferLockRecipient, TransferCommit,
         TransferForgetSender, TransferForgetRecipient, TransferDeadlocked
<1>5. /\ credited' \in [Refs -> Nat]
      /\ \A w \in Withdrawals : credited'[w] = credited[w]
  <2>1. CASE TransferCommit(h)
    <3>1. job[h].ref \in Transfers
      BY <1>1, <1>2 DEF Fits
    <3> QED
      BY <1>1, <2>1, <3>1, FundsAssumption DEF TransferCommit, CallType, Refs
  <2>2. CASE ~ TransferCommit(h)
    <3>1. credited' = credited
      BY <2>2 DEF TransferLockSender, TransferLockRecipient,
                  TransferForgetSender, TransferForgetRecipient, TransferDeadlocked
    <3> QED
      BY <1>1, <3>1 DEF CallType
  <2> QED
    BY <2>1, <2>2
<1>6. label \in Labels /\ label \notin {"tell", "readCache", "create", "fill"}
  BY DEF Labels
<1>7. CallType' /\ Others(h)
  BY <1>1, <1>3, <1>4, <1>5, <1>6, MovesOn DEF CallType
<1>8. job'[h].op # "approve"
  BY <1>1, <1>2, <1>3, <1>6, GotoMoves, FinishMoves
<1> QED
  BY <1>1, <1>4, <1>5, <1>7, <1>8, QuietStep DEF Safe, Deducting, Deducted, At

(* Steps about a withdrawal before its amount is in the ledger.            *)
LEMMA AskingIsSafe ==
  ASSUME Safe, NEW h \in Handlers,
         RequestReadWallet(h) \/ RequestSave(h) \/ DecisionFind(h) \/ ApproveReadWallet(h)
  PROVE  Safe'
<1> USE DEF tables
<1>1. CallType /\ DeductInv /\ Fits(h)
  BY DEF Safe, CallType
<1>2. PICK label \in {"saveRow", "read", "saveLog"} :
        /\ Goto(h, label) \/ Finish(h)
        /\ label = "saveRow" => job[h].op # "approve"
  <2>1. RequestReadWallet(h) => job[h].op = "request" /\ (Goto(h, "saveRow") \/ Finish(h))
    BY DEF RequestReadWallet, At
  <2>2. RequestSave(h) => Finish(h)
    BY DEF RequestSave
  <2>3. DecisionFind(h) => \/ Finish(h)
                           \/ job[h].op = "approve" /\ Goto(h, "read")
                           \/ job[h].op = "reject" /\ Goto(h, "saveRow")
    BY DEF DecisionFind
  <2>4. ApproveReadWallet(h) => Goto(h, "saveLog") \/ Finish(h)
    BY DEF ApproveReadWallet
  <2> QED
    BY <2>1, <2>2, <2>3, <2>4
<1>3. /\ credited' = credited /\ told' = told /\ ledger' = ledger
      /\ withdrawal' \in [Withdrawals -> WithdrawalStatus]
      /\ \A w \in Withdrawals : withdrawal'[w] = "APPROVED" => withdrawal[w] = "APPROVED"
  BY <1>1 DEF RequestReadWallet, RequestSave, DecisionFind, ApproveReadWallet,
              CallType, WithdrawalStatus
<1>4. label \in Labels /\ label \notin {"tell", "readCache", "create", "fill"}
  BY DEF Labels
<1>5. CallType' /\ Others(h)
  BY <1>1, <1>2, <1>3, <1>4, MovesOn DEF CallType
<1>6. ~ Deducting(h)' /\ ~ Deducted(h)'
  BY <1>1, <1>2, <1>4, GotoMoves, FinishMoves DEF Deducting, Deducted, At
<1> QED
  BY <1>1, <1>3, <1>5, <1>6, QuietStep DEF Safe

(* The unique index lets one of several approvals pass.                    *)
LEMMA RecordingIsSafe ==
  ASSUME Safe, NEW h \in Handlers, ApproveSaveLog(h)
  PROVE  Safe'
<1> USE DEF tables
<1>0. PICK w \in Withdrawals : w = job[h].ref
  BY DEF Safe, CallType, Fits, ApproveSaveLog, At
<1>1. CallType /\ DeductInv /\ job[h].op = "approve"
  BY DEF Safe, ApproveSaveLog, At
<1>2. /\ UNCHANGED <<withdrawal, told, credited>> /\ ledger \subseteq ledger' /\ Recorded(w)'
  BY <1>0 DEF ApproveSaveLog, Recorded
<1>3. CallType' /\ Others(h)
  <2>1. Goto(h, "saveWallet") \/ Finish(h)
    BY DEF ApproveSaveLog
  <2> QED
    BY <1>1, <1>2, <2>1, MovesOn DEF CallType, Labels
<1>4. CASE Finish(h)
  BY <1>1, <1>2, <1>3, <1>4, FinishMoves, QuietStep DEF Safe, Deducting, Deducted, At
<1>5. CASE Goto(h, "saveWallet") /\ ~ Recorded(w)
  <2>1. /\ Deducting(h)' /\ ~ Deducted(h)' /\ job' = job
    BY <1>1, <1>5, GotoMoves DEF Deducting, Deducted, At, Labels
  <2>2. \A g \in Handlers : g # h =>
          (Deducting(g)' <=> Deducting(g)) /\ (Deducted(g)' <=> Deducted(g))
    BY <1>3 DEF Others, Deducting, Deducted, At
  <2>3. \A g \in Handlers : Deducting(g) => job[g].ref # w
    BY <1>0, <1>1, <1>5 DEF DeductInv
  <2>4. credited[w] = 0
    BY <1>0, <1>1, <1>5 DEF DeductInv
  <2>5. \A v : Recorded(v) => Recorded(v)'
    BY <1>2 DEF Recorded
  <2>6. w = job'[h].ref
    BY <1>0, <2>1
  <2>7. DeductInv'
    BY <1>1, <1>2, <2>1, <2>2, <2>3, <2>4, <2>5, <2>6 DEF DeductInv
  <2> QED
    BY <1>3, <2>7 DEF Safe
<1> QED
  BY <1>0, <1>4, <1>5 DEF ApproveSaveLog, Recorded

LEMMA DeductingIsSafe ==
  ASSUME Safe, NEW h \in Handlers, ApproveSaveWallet(h)
  PROVE  Safe'
<1>0. PICK w \in Withdrawals : w = job[h].ref
  BY DEF Safe, CallType, Fits, ApproveSaveWallet, At
<1>1. CallType /\ DeductInv /\ w \in Refs
  BY DEF Safe, Refs
<1>2. /\ UNCHANGED <<withdrawal, told, ledger>> /\ Goto(h, "saveRow") /\ Deducting(h)
      /\ credited' = [credited EXCEPT ![w] = @ + 1]
  BY <1>0 DEF ApproveSaveWallet, Deducting
<1>3. Recorded(w) /\ credited[w] = 0
  BY <1>0, <1>1, <1>2 DEF DeductInv
<1>4. /\ credited' \in [Refs -> Nat] /\ credited'[w] = 1
      /\ \A v \in Withdrawals : v # w => credited'[v] = credited[v]
  BY <1>1, <1>2, <1>3 DEF CallType, Refs
<1>5. CallType' /\ Others(h)
  BY <1>1, <1>2, <1>4, MovesOn DEF CallType, Labels
<1>6. /\ ~ Deducting(h)' /\ Deducted(h)' /\ job' = job
      /\ \A g \in Handlers : g # h =>
           (Deducting(g)' <=> Deducting(g)) /\ (Deducted(g)' <=> Deducted(g))
  BY <1>1, <1>2, <1>5, GotoMoves DEF Others, Deducting, Deducted, At, Labels, ApproveSaveWallet
<1>7. \A g \in Handlers : Deducting(g) \/ Deducted(g) => job[g].ref \in Withdrawals
  BY <1>1 DEF CallType, Fits, Deducting, Deducted, At
<1>8. \A g \in Handlers : Deducting(g) /\ g # h => job[g].ref # w
  BY <1>0, <1>1, <1>2 DEF DeductInv
<1>9. \A v : Recorded(v)' <=> Recorded(v)
  BY <1>2 DEF Recorded
<1>10. DeductInv'
  BY <1>0, <1>1, <1>2, <1>3, <1>4, <1>6, <1>7, <1>8, <1>9 DEF DeductInv
<1> QED
  BY <1>5, <1>10 DEF Safe

(* Only an approval behind the deduction writes APPROVED and announces it. *)
LEMMA DecidingIsSafe ==
  ASSUME Safe, NEW h \in Handlers, DecisionSave(h) \/ DecisionTell(h)
  PROVE  Safe'
<1> USE DEF tables
<1>0. PICK w \in Withdrawals : w = job[h].ref
  BY DEF Safe, CallType, Fits, DecisionSave, DecisionTell, At
<1>1. CallType /\ DeductInv /\ job[h].op \in {"approve", "reject"}
  BY DEF Safe, CallType, Fits, DecisionSave, DecisionTell, At
<1>2. credited' = credited /\ ledger' = ledger
  BY DEF DecisionSave, DecisionTell
<1>3. job[h].op = "approve" => credited[w] = 1
  BY <1>0, <1>1 DEF DeductInv, Deducted, At, DecisionSave, DecisionTell
<1>4. Decision(h) = "APPROVED" => job[h].op = "approve"
  BY DEF Decision
<1>5. Decision(h) \in WithdrawalStatus
  BY DEF Decision, WithdrawalStatus
<1>6. /\ withdrawal' \in [Withdrawals -> WithdrawalStatus]
      /\ \A v \in Withdrawals :
           withdrawal'[v] = "APPROVED" \/ <<"APPROVED", v>> \in told' => credited[v] = 1
  <2>1. CASE DecisionSave(h)
    <3> HIDE DEF Decision
    <3> QED
      BY <1>0, <1>1, <1>3, <1>4, <1>5, <2>1 DEF DecisionSave, CallType, DeductInv
  <2>2. CASE DecisionTell(h)
    <3> HIDE DEF Decision
    <3>1. withdrawal' = withdrawal /\ told' = told \cup {<<Decision(h), w>>}
      BY <1>0, <2>2 DEF DecisionTell
    <3>2. \A v : <<"APPROVED", v>> \in told' =>
                 <<"APPROVED", v>> \in told \/ (v = w /\ Decision(h) = "APPROVED")
      BY <3>1
    <3> QED
      BY <1>1, <1>3, <1>4, <3>1, <3>2 DEF CallType, DeductInv
  <2> QED
    BY <2>1, <2>2
<1>7. CallType' /\ Others(h)
  <2>1. Goto(h, "tell") \/ Finish(h)
    BY DEF DecisionSave, DecisionTell
  <2> QED
    BY <1>1, <1>2, <1>6, <2>1, MovesOn DEF CallType, Labels
<1>8. /\ ~ Deducting(h)' /\ (Deducted(h)' => job'[h].ref = w /\ credited[w] = 1)
  BY <1>0, <1>1, <1>3, GotoMoves, FinishMoves
     DEF DecisionSave, DecisionTell, Deducting, Deducted, At, Labels
<1>9. \A g \in Handlers : g # h =>
        /\ Deducting(g)' <=> Deducting(g)
        /\ Deducted(g)' <=> Deducted(g)
        /\ job'[g] = job[g]
  BY <1>7 DEF Others, Deducting, Deducted, At
<1>10. \A v : Recorded(v)' <=> Recorded(v)
  BY <1>2 DEF Recorded
<1>11. DeductInv'
  BY <1>0, <1>1, <1>2, <1>6, <1>8, <1>9, <1>10 DEF DeductInv
<1> QED
  BY <1>7, <1>11 DEF Safe

LEMMA SafeStep == Safe /\ [Next]_vars => Safe'
<1> SUFFICES ASSUME Safe, [Next]_vars PROVE Safe'
  OBVIOUS
<1> USE DEF tables, deployment, control, bounds
<1>1. ASSUME NEW h \in Handlers, Receive(h) PROVE Safe'
  <2>1. /\ CallType /\ DeductInv
        /\ CallType' /\ Others(h) /\ UNCHANGED <<tables, told, credited>>
        /\ ~ Deducting(h)' /\ ~ Deducted(h)'
    BY <1>1, RequestType DEF Safe, Deducting, Deducted, At
  <2> QED
    BY <2>1, QuietStep DEF Safe
<1>2. ASSUME NEW h \in Handlers, Step(h) PROVE Safe'
  BY <1>2, DepositIsSafe, TransferIsSafe, AskingIsSafe, RecordingIsSafe, DeductingIsSafe,
     DecidingIsSafe DEF Step
<1>3. ASSUME NEW h \in Handlers, Abort(h) PROVE Safe'
  <2>1. CallType /\ DeductInv /\ Finish(h) /\ UNCHANGED <<tables, told, credited>>
    BY <1>3 DEF Abort, Safe
  <2>2. CallType' /\ Others(h)
    BY <2>1, MovesOn DEF CallType, Labels
  <2>3. ~ Deducting(h)' /\ ~ Deducted(h)'
    BY <2>1, FinishMoves DEF Deducting, Deducted, At
  <2> QED
    BY <2>1, <2>2, <2>3, QuietStep DEF Safe
<1>4. CASE \/ \E u \in Users : CacheExpires(u)
           \/ \E u \in Buyers : EscrowHolds(u) \/ EscrowPays(u) \/ EscrowReturns(u)
           \/ UNCHANGED vars
  <2>1. UNCHANGED <<withdrawal, ledger, told, credited, pc, job>>
    BY <1>4 DEF CacheExpires, EscrowHolds, EscrowPays, EscrowReturns, Escrow, vars
  <2>2. CallType'
    BY <2>1 DEF Safe, CallType, Fits
  <2> QED
    BY <2>1, <2>2 DEF Safe, DeductInv, Deducting, Deducted, Recorded, At
<1> QED
  BY <1>1, <1>2, <1>3, <1>4 DEF Next

LEMMA SafeHolds == Spec => []Safe
BY SafeInit, SafeStep, PTL DEF Spec

(* However many admins decide on a withdrawal at once, and wherever their  *)
(* calls are cut short, its amount leaves the wallet at most once, and     *)
(* never without a ledger row.                                             *)
THEOREM DeductedOnce == Spec => []WithdrawnOnce
<1>1. Safe => WithdrawnOnce
  <2> SUFFICES ASSUME Safe, NEW w \in Withdrawals
               PROVE  credited[w] <= (IF <<"WITHDRAWAL", w>> \in ledger THEN 1 ELSE 0)
    BY DEF WithdrawnOnce
  <2>1. credited[w] \in Nat /\ credited[w] <= 1 /\ (credited[w] # 0 => Recorded(w))
    BY DEF Safe, CallType, DeductInv, Refs
  <2> QED
    BY <2>1 DEF Recorded
<1> QED
  BY <1>1, SafeHolds, PTL

(* APPROVED, in the row or in an event, means deducted.                    *)
THEOREM ApprovalIsDeduction == Spec => []ApprovedIsDeducted
<1>1. Safe => ApprovedIsDeducted
  BY DEF Safe, DeductInv, ApprovedIsDeducted
<1> QED
  BY <1>1, SafeHolds, PTL

----------------------------------------------------------------------------
(* Wallets and the ledger, where no call is cut short.                     *)

Quiet == apart /\ aborts = 0 /\ ~ cached

AnyRow == [balance : Int, locked : Int]

(* Calls on a common wallet are transfers.                                 *)
Apart ==
  \A g, h \in Handlers :
    g # h /\ pc[g] # "idle" /\ pc[h] # "idle" =>
      \/ job[g].op = "transfer" /\ job[h].op = "transfer"
      \/ UsersOf(job[g]) \cap UsersOf(job[h]) = {}

Entry(type, r) == <<type, r>> \in ledger

(* Each transfer is asked for once.                                        *)
TransfersDiffer ==
  /\ \A g, h \in Handlers :
       job[g].op = "transfer" /\ job[h].op = "transfer" /\ job[g].ref = job[h].ref => g = h
  /\ \A t \in Transfers : Entry("TRANSFER", t) => credited[t] # 0

(* What a call holds, by the place where it stands: the wallet as it is,   *)
(* or as it is about to be.                                                *)
Place(h) ==
  LET r == job[h].ref
      u == Owner[r]
      has(n) == u \in wallets /\ mine[h].balance = row[u].balance + n
  IN /\ job[h].op = "deposit" =>
          /\ pc[h] \in {"fill", "find"} => has(0)
          /\ pc[h] = "saveWallet" => has(1)
          /\ pc[h] \in {"saveWallet", "saveLog"} => ~ Entry("DEPOSIT", r)
     /\ job[h].op = "approve" => (pc[h] \in {"saveLog", "saveWallet"} => has(-1))
     /\ job[h].op = "transfer" =>
          /\ pc[h] \in {"lockTo", "commit"} => has(0) /\ rowLock[u] = h
          /\ pc[h] = "commit" => rowLock[To[r]] = h
          /\ pc[h] \in {"lockFrom", "lockTo", "commit"} => ~ Entry("TRANSFER", r)

(* A deposit saves the wallet and then the ledger, an approval the other   *)
(* way round.  In between the wallet is ahead of the ledger.               *)
Ahead(h, u) ==
  /\ At(h, "deposit", "saveLog") \/ At(h, "approve", "saveWallet")
  /\ Owner[job[h].ref] = u

Settled(u) ==
  row[u].balance = Booked(u) + (IF \E h \in Handlers : Ahead(h, u) THEN 1 ELSE 0)

LedgerInv ==
  /\ row \in [Users -> AnyRow] /\ mine \in [Handlers -> AnyRow]
  /\ rowLock \in [Users -> Handlers \cup {None}]
  /\ escrow \in [Users -> {"none", "held", "paid"}]
  /\ wallets \subseteq Users /\ IsFiniteSet(ledger)
  /\ \A u \in Users :
       /\ u \notin wallets => row[u].balance = 0 /\ escrow[u] # "held"
       /\ Settled(u)
  /\ \A h \in Handlers : Place(h)
  /\ Apart /\ TransfersDiffer

QuietInv == aborts \in Nat /\ (Quiet => LedgerInv)

----------------------------------------------------------------------------
(* What a row of the ledger adds.                                          *)

CountOf(L, type, R) == Cardinality({r \in R : <<type, r>> \in L})

SumsOf(L, u) ==
  Opening[u]
  + CountOf(L, "DEPOSIT", {p \in Payments : Owner[p] = u})
  + CountOf(L, "TRANSFER", {t \in Transfers : To[t] = u})
  - CountOf(L, "TRANSFER", {t \in Transfers : Owner[t] = u /\ To[t] # u})
  - CountOf(L, "WITHDRAWAL", {w \in Withdrawals : Owner[w] = u})

Paid(u) == IF escrow[u] = "paid" THEN 1 ELSE 0

LEMMA CountFinite ==
  ASSUME NEW L, IsFiniteSet(L), NEW type, NEW R
  PROVE  IsFiniteSet({r \in R : <<type, r>> \in L}) /\ CountOf(L, type, R) \in Nat
<1>1. PICK S : S = {r \in R : <<type, r>> \in L}
  OBVIOUS
<1>2. PICK f : f = [r \in S |-> <<type, r>>]
  OBVIOUS
<1>3. f \in [S -> L] /\ \A q, r \in S : f[q] = f[r] => q = r
  BY <1>1, <1>2
<1>4. f \in Injection(S, L)
  BY <1>3 DEF Injection, IsInjective
<1>5. IsFiniteSet(S)
  BY <1>4, FS_Injection
<1> QED
  BY <1>1, <1>5, FS_CardinalityType DEF CountOf

LEMMA BookedIs ==
  ASSUME NEW u \in Users, IsFiniteSet(ledger)
  PROVE  SumsOf(ledger, u) \in Int /\ Booked(u) = SumsOf(ledger, u) - Paid(u)
<1>1. PICK L : L = ledger
  OBVIOUS
<1>2. \A type, R : CountOf(L, type, R) \in Nat
  BY <1>1, CountFinite
<1>3. \A type, R : Entries(type, R) = CountOf(L, type, R)
  BY <1>1 DEF Entries, CountOf
<1>4. Opening[u] \in Nat
  BY FundsAssumption
<1> QED
  BY <1>1, <1>2, <1>3, <1>4 DEF Booked, SumsOf, Paid

LEMMA CountGrows ==
  ASSUME NEW L, IsFiniteSet(L), NEW kind, NEW x, <<kind, x>> \notin L,
         NEW M, M = L \cup {<<kind, x>>},
         NEW type, NEW R
  PROVE  /\ CountOf(L, type, R) \in Nat
         /\ CountOf(M, type, R) = CountOf(L, type, R) + (IF type = kind /\ x \in R THEN 1 ELSE 0)
<1>1. PICK S : S = {r \in R : <<type, r>> \in L}
  OBVIOUS
<1>2. PICK T : T = {r \in R : <<type, r>> \in M}
  OBVIOUS
<1>3. IsFiniteSet(S) /\ CountOf(L, type, R) = Cardinality(S) /\ Cardinality(S) \in Nat
  BY <1>1, CountFinite DEF CountOf
<1>4. CountOf(M, type, R) = Cardinality(T)
  BY <1>2 DEF CountOf
<1>5. CASE type = kind /\ x \in R
  <2>1. T = S \cup {x} /\ x \notin S
    BY <1>1, <1>2, <1>5
  <2>2. Cardinality(T) = Cardinality(S) + 1
    BY <1>3, <2>1, FS_AddElement
  <2> QED
    BY <1>3, <1>4, <1>5, <2>2
<1>6. CASE ~ (type = kind /\ x \in R)
  <2>1. T = S
    BY <1>1, <1>2, <1>6
  <2> QED
    BY <1>3, <1>4, <1>6, <2>1
<1> QED
  BY <1>5, <1>6

(* By how much the sums of u change with a row of a type for a reference.  *)
Moves(type, r, u) ==
  CASE type = "DEPOSIT" -> IF Owner[r] = u THEN 1 ELSE 0
    [] type = "WITHDRAWAL" -> IF Owner[r] = u THEN -1 ELSE 0
    [] type = "TRANSFER" -> IF To[r] = u THEN 1 ELSE IF Owner[r] = u THEN -1 ELSE 0

LEMMA SumsGrow ==
  ASSUME NEW L, IsFiniteSet(L), NEW type, NEW x, <<type, x>> \notin L,
         NEW M, M = L \cup {<<type, x>>},
         \/ type = "DEPOSIT" /\ x \in Payments
         \/ type = "WITHDRAWAL" /\ x \in Withdrawals
         \/ type = "TRANSFER" /\ x \in Transfers,
         NEW u \in Users
  PROVE  SumsOf(L, u) \in Int /\ SumsOf(M, u) = SumsOf(L, u) + Moves(type, x, u)
<1> DEFINE D == {p \in Payments : Owner[p] = u}
           In == {t \in Transfers : To[t] = u}
           Out == {t \in Transfers : Owner[t] = u /\ To[t] # u}
           W == {w \in Withdrawals : Owner[w] = u}
<1>1. \A K, R : /\ CountOf(L, K, R) \in Nat
                /\ CountOf(M, K, R) = CountOf(L, K, R) + (IF K = type /\ x \in R THEN 1 ELSE 0)
  BY ONLY IsFiniteSet(L), <<type, x>> \notin L, M = L \cup {<<type, x>>}, CountGrows
<1>2. Opening[u] \in Nat
  BY FundsAssumption
<1>3. PICK a \in Nat, b \in Nat, d \in Nat, e \in Nat :
        /\ a = CountOf(L, "DEPOSIT", D) /\ b = CountOf(L, "TRANSFER", In)
        /\ d = CountOf(L, "TRANSFER", Out) /\ e = CountOf(L, "WITHDRAWAL", W)
  BY <1>1
<1>4. SumsOf(L, u) = Opening[u] + a + b - d - e
  BY <1>3 DEF SumsOf
<1>5. SumsOf(M, u) = Opening[u] + CountOf(M, "DEPOSIT", D) + CountOf(M, "TRANSFER", In)
                     - CountOf(M, "TRANSFER", Out) - CountOf(M, "WITHDRAWAL", W)
  BY DEF SumsOf
<1> HIDE DEF D, In, Out, W
<1>6. CASE type = "DEPOSIT" /\ x \in Payments
  <2>1. /\ CountOf(M, "DEPOSIT", D) = a + (IF Owner[x] = u THEN 1 ELSE 0)
        /\ CountOf(M, "TRANSFER", In) = b /\ CountOf(M, "TRANSFER", Out) = d
        /\ CountOf(M, "WITHDRAWAL", W) = e
    BY <1>1, <1>3, <1>6 DEF D
  <2>2. Moves(type, x, u) = IF Owner[x] = u THEN 1 ELSE 0
    BY <1>6 DEF Moves
  <2> QED
    BY <1>2, <1>4, <1>5, <2>1, <2>2
<1>7. CASE type = "WITHDRAWAL" /\ x \in Withdrawals
  <2>1. /\ CountOf(M, "WITHDRAWAL", W) = e + (IF Owner[x] = u THEN 1 ELSE 0)
        /\ CountOf(M, "TRANSFER", In) = b /\ CountOf(M, "TRANSFER", Out) = d
        /\ CountOf(M, "DEPOSIT", D) = a
    BY <1>1, <1>3, <1>7 DEF W
  <2>2. Moves(type, x, u) = IF Owner[x] = u THEN -1 ELSE 0
    BY <1>7 DEF Moves
  <2> QED
    BY <1>2, <1>4, <1>5, <2>1, <2>2
<1>8. CASE type = "TRANSFER" /\ x \in Transfers
  <2>1. /\ CountOf(M, "TRANSFER", In) = b + (IF To[x] = u THEN 1 ELSE 0)
        /\ CountOf(M, "TRANSFER", Out) = d + (IF Owner[x] = u /\ To[x] # u THEN 1 ELSE 0)
        /\ CountOf(M, "WITHDRAWAL", W) = e /\ CountOf(M, "DEPOSIT", D) = a
    <3>1. (x \in In <=> To[x] = u) /\ (x \in Out <=> Owner[x] = u /\ To[x] # u)
      BY <1>8 DEF In, Out
    <3>2. /\ CountOf(M, "TRANSFER", In) = b + (IF x \in In THEN 1 ELSE 0)
          /\ CountOf(M, "TRANSFER", Out) = d + (IF x \in Out THEN 1 ELSE 0)
      BY <1>1, <1>3, <1>8
    <3>3. CountOf(M, "WITHDRAWAL", W) = e /\ CountOf(M, "DEPOSIT", D) = a
      BY <1>1, <1>3, <1>8
    <3> QED
      BY <3>1, <3>2, <3>3
  <2>2. Moves(type, x, u) = IF To[x] = u THEN 1 ELSE IF Owner[x] = u THEN -1 ELSE 0
    BY <1>8 DEF Moves
  <2> QED
    BY <1>2, <1>4, <1>5, <2>1, <2>2
<1> QED
  BY <1>6, <1>7, <1>8

LEMMA SumsNone ==
  ASSUME NEW u \in Users
  PROVE  SumsOf({}, u) = Opening[u]
<1>1. \A type, R : CountOf({}, type, R) = 0
  BY FS_EmptySet DEF CountOf
<1>2. Opening[u] \in Nat
  BY FundsAssumption
<1> QED
  BY <1>1, <1>2 DEF SumsOf

----------------------------------------------------------------------------
(* Calls and the wallets they are about.                                   *)

LEMMA FundsFacts ==
  /\ Owner \in [Refs -> Users] /\ To \in [Transfers -> Users] /\ Refs \cap Users = {}
  /\ Payments \subseteq Refs /\ Withdrawals \subseteq Refs /\ Transfers \subseteq Refs
  /\ Payments \cap Withdrawals = {} /\ Payments \cap Transfers = {}
  /\ None \notin Handlers
BY FundsAssumption DEF FundsAssumption, Refs

LEMMA UsersOfCall ==
  ASSUME CallType, NEW h \in Handlers
  PROVE  /\ job[h].op \in {"deposit", "request", "approve", "reject"} =>
              /\ job[h].ref \in Refs /\ Owner[job[h].ref] \in Users
              /\ UserOf(job[h].ref) = Owner[job[h].ref]
              /\ UsersOf(job[h]) = {Owner[job[h].ref]}
         /\ job[h].op = "transfer" =>
              /\ job[h].ref \in Transfers
              /\ Owner[job[h].ref] \in Users /\ To[job[h].ref] \in Users
              /\ UsersOf(job[h]) = {Owner[job[h].ref], To[job[h].ref]}
<1>1. Fits(h)
  BY DEF CallType
<1>2. job[h].op \in {"deposit", "request", "approve", "reject"} => job[h].ref \in Refs
  BY <1>1, FundsFacts DEF Fits
<1>3. job[h].op = "transfer" => job[h].ref \in Transfers
  BY <1>1 DEF Fits
<1> QED
  BY <1>2, <1>3, FundsFacts DEF UsersOf, UserOf

(* A handler that stands still, and whose wallets stand still for it,      *)
(* holds what it held.                                                     *)
LEMMA PlaceKept ==
  ASSUME NEW g \in Handlers, Place(g),
         pc'[g] = pc[g], job'[g] = job[g], mine'[g] = mine[g], wallets \subseteq wallets',
         pc[g] # "idle" /\ job[g].op \in {"deposit", "approve", "transfer"} =>
           \/ row'[Owner[job[g].ref]].balance = row[Owner[job[g].ref]].balance
           \/ job[g].op = "transfer" /\ rowLock[Owner[job[g].ref]] # g,
         \A u \in Users : rowLock[u] = g => rowLock'[u] = g,
         job[g].op = "deposit" =>
           pc[g] = "idle" \/ (Entry("DEPOSIT", job[g].ref)' => Entry("DEPOSIT", job[g].ref)),
         job[g].op = "transfer" =>
           /\ Owner[job[g].ref] \in Users /\ To[job[g].ref] \in Users
           /\ Entry("TRANSFER", job[g].ref)' => Entry("TRANSFER", job[g].ref)
  PROVE  Place(g)'
<1>1. CASE job[g].op = "deposit"
  BY <1>1 DEF Place
<1>2. CASE job[g].op = "approve"
  BY <1>2 DEF Place
<1>3. CASE job[g].op = "transfer"
  BY <1>3 DEF Place
<1>4. CASE job[g].op \notin {"deposit", "approve", "transfer"}
  BY <1>4 DEF Place
<1> QED
  BY <1>1, <1>2, <1>3, <1>4

(* One handler h makes a step.  It touches the wallets of its call only,   *)
(* those of a transfer only when it holds their locks.                     *)
Touches(h) ==
  /\ Others(h)
  /\ \A g \in Handlers : g # h => mine'[g] = mine[g]
  /\ wallets \subseteq wallets'
  /\ \A g \in Handlers : g # h => \A u \in Users : rowLock[u] = g => rowLock'[u] = g
  /\ \A u \in Users : row'[u].balance # row[u].balance =>
       u \in UsersOf(job[h]) /\ (job[h].op = "transfer" => rowLock[u] = h)
  /\ \A type, r : Entry(type, r)' /\ ~ Entry(type, r) =>
       /\ r = job[h].ref
       /\ type = "DEPOSIT" => job[h].op = "deposit"
       /\ type = "TRANSFER" => job[h].op = "transfer"

LEMMA OthersPlaces ==
  ASSUME CallType, LedgerInv, NEW h \in Handlers, pc[h] # "idle", Touches(h),
         NEW g \in Handlers, g # h
  PROVE  Place(g)'
<1>1. pc'[g] = pc[g] /\ job'[g] = job[g] /\ mine'[g] = mine[g]
  BY DEF Touches, Others
<1>2. Place(g)
  BY DEF LedgerInv
<1>3. pc[g] = "idle" \/ (job[g].op = "transfer" /\ job[h].op = "transfer")
      \/ UsersOf(job[g]) \cap UsersOf(job[h]) = {}
  BY DEF LedgerInv, Apart
<1>4. job[g].op = "transfer" =>
        /\ Owner[job[g].ref] \in Users /\ To[job[g].ref] \in Users
        /\ Entry("TRANSFER", job[g].ref)' => Entry("TRANSFER", job[g].ref)
  <2> SUFFICES ASSUME job[g].op = "transfer", Entry("TRANSFER", job[g].ref)',
                      ~ Entry("TRANSFER", job[g].ref)
               PROVE  FALSE
    BY UsersOfCall
  <2>1. job[h].op = "transfer" /\ job[h].ref = job[g].ref
    BY <1>1 DEF Touches, Entry
  <2> QED
    BY <2>1 DEF LedgerInv, TransfersDiffer
<1>5. job[g].op = "deposit" =>
        pc[g] = "idle" \/ (Entry("DEPOSIT", job[g].ref)' => Entry("DEPOSIT", job[g].ref))
  <2> SUFFICES ASSUME job[g].op = "deposit", pc[g] # "idle",
                      Entry("DEPOSIT", job[g].ref)', ~ Entry("DEPOSIT", job[g].ref)
               PROVE  FALSE
    OBVIOUS
  <2>1. job[h].op = "deposit" /\ job[h].ref = job[g].ref
    BY <1>1 DEF Touches, Entry
  <2>2. UsersOf(job[g]) = {Owner[job[g].ref]} /\ UsersOf(job[h]) = {Owner[job[h].ref]}
    BY <2>1, UsersOfCall
  <2> QED
    BY <1>3, <2>1, <2>2
<1>6. pc[g] # "idle" /\ job[g].op \in {"deposit", "approve", "transfer"} =>
        \/ row'[Owner[job[g].ref]].balance = row[Owner[job[g].ref]].balance
        \/ job[g].op = "transfer" /\ rowLock[Owner[job[g].ref]] # g
  <2> SUFFICES ASSUME pc[g] # "idle", job[g].op \in {"deposit", "approve", "transfer"},
                      row'[Owner[job[g].ref]].balance # row[Owner[job[g].ref]].balance
               PROVE  job[g].op = "transfer" /\ rowLock[Owner[job[g].ref]] # g
    OBVIOUS
  <2> DEFINE u == Owner[job[g].ref]
  <2>1. u \in Users /\ u \in UsersOf(job[g])
    BY UsersOfCall
  <2>2. u \in UsersOf(job[h]) /\ (job[h].op = "transfer" => rowLock[u] = h)
    BY <2>1 DEF Touches
  <2>3. job[g].op = "transfer" /\ job[h].op = "transfer"
    BY <1>3, <2>1, <2>2
  <2> QED
    BY <2>2, <2>3
<1>7. wallets \subseteq wallets' /\ \A u \in Users : rowLock[u] = g => rowLock'[u] = g
  BY DEF Touches
<1> QED
  BY <1>1, <1>2, <1>4, <1>5, <1>6, <1>7, PlaceKept

LEMMA ApartKept ==
  ASSUME Apart, NEW h \in Handlers, Others(h),
         pc'[h] = "idle" \/ (pc[h] # "idle" /\ job'[h] = job[h])
  PROVE  Apart'
BY DEF Apart, Others

LEMMA TransfersKept ==
  ASSUME TransfersDiffer, NEW h \in Handlers, Others(h), job'[h].op = "none" \/ job'[h] = job[h],
         \A t \in Transfers : Entry("TRANSFER", t)' => credited'[t] # 0
  PROVE  TransfersDiffer'
BY DEF TransfersDiffer, Others

----------------------------------------------------------------------------
(* Where the balance stands.                                               *)

(* Nobody else is in the middle of changing a wallet that h works on.      *)
LEMMA AheadAlone ==
  ASSUME CallType, Apart, NEW h \in Handlers, pc[h] # "idle", NEW u \in UsersOf(job[h]),
         NEW g \in Handlers, Ahead(g, u)
  PROVE  g = h
<1>1. /\ pc[g] # "idle" /\ job[g].op \in {"deposit", "approve"} /\ u = Owner[job[g].ref]
  BY DEF Ahead, At
<1>2. u \in UsersOf(job[g])
  BY <1>1, UsersOfCall
<1> QED
  BY <1>1, <1>2 DEF Apart

(* What changes, for one user.                                             *)
LEMMA SettledMoves ==
  ASSUME NEW u \in Users, Settled(u), row \in [Users -> AnyRow],
         IsFiniteSet(ledger), IsFiniteSet(ledger'), NEW m \in Int,
         SumsOf(ledger', u) - Paid(u)' = SumsOf(ledger, u) - Paid(u) + m,
         row'[u].balance + (IF \E h \in Handlers : Ahead(h, u) THEN 1 ELSE 0)
           = row[u].balance + m + (IF \E h \in Handlers : Ahead(h, u)' THEN 1 ELSE 0),
         row'[u].balance \in Int
  PROVE  Settled(u)'
<1>1. SumsOf(ledger, u) \in Int /\ Booked(u) = SumsOf(ledger, u) - Paid(u)
  BY BookedIs
<1>2. SumsOf(ledger', u) \in Int /\ Booked(u)' = SumsOf(ledger', u) - Paid(u)'
  <2>1. \A L : IsFiniteSet(L) => SumsOf(L, u) \in Int /\ \A type, R : CountOf(L, type, R) \in Nat
    <3> SUFFICES ASSUME NEW L, IsFiniteSet(L)
                 PROVE  SumsOf(L, u) \in Int /\ \A type, R : CountOf(L, type, R) \in Nat
      OBVIOUS
    <3>1. \A type, R : CountOf(L, type, R) \in Nat
      BY CountFinite
    <3>2. Opening[u] \in Nat
      BY FundsAssumption
    <3> QED
      BY <3>1, <3>2 DEF SumsOf
  <2>2. PICK L : L = ledger'
    OBVIOUS
  <2>3. \A type, R : Entries(type, R)' = CountOf(L, type, R)
    BY <2>2 DEF Entries, CountOf
  <2>4. SumsOf(L, u) \in Int /\ \A type, R : CountOf(L, type, R) \in Nat
    BY <2>1, <2>2
  <2>5. Opening[u] \in Nat
    BY FundsAssumption
  <2>6. Booked(u)' = SumsOf(L, u) - Paid(u)'
    BY <2>3, <2>4, <2>5 DEF Booked, SumsOf, Paid
  <2> QED
    BY <2>2, <2>4, <2>6
<1>3. row[u].balance \in Int /\ Paid(u) \in Int /\ Paid(u)' \in Int
  BY DEF AnyRow, Paid
<1> DEFINE A == IF \E h \in Handlers : Ahead(h, u) THEN 1 ELSE 0
           B == IF \E h \in Handlers : Ahead(h, u)' THEN 1 ELSE 0
<1>4. A \in Int /\ B \in Int
  OBVIOUS
<1>5. row[u].balance = Booked(u) + A
  BY DEF Settled
<1>6. row'[u].balance + A = row[u].balance + m + B
  OBVIOUS
<1> HIDE DEF A, B
<1>7. row'[u].balance = Booked(u)' + B
  <2>1. Booked(u) \in Int /\ Booked(u)' \in Int /\ Booked(u)' = Booked(u) + m
    BY <1>1, <1>2, <1>3
  <2> QED
    BY ONLY <1>3, <1>4, <1>5, <1>6, <2>1, row'[u].balance \in Int, m \in Int
<1> QED
  BY <1>7 DEF Settled, B

LEMMA SettledSame ==
  ASSUME LedgerInv, NEW u \in Users, row'[u].balance = row[u].balance,
         UNCHANGED <<ledger, escrow>>, \A g \in Handlers : Ahead(g, u)' <=> Ahead(g, u)
  PROVE  Settled(u)'
<1>1. Settled(u)
  BY DEF LedgerInv
<1>2. Booked(u)' = Booked(u)
  BY DEF Booked, Entries
<1>3. (\E g \in Handlers : Ahead(g, u)') <=> (\E g \in Handlers : Ahead(g, u))
  OBVIOUS
<1> QED
  BY <1>1, <1>2, <1>3 DEF Settled

LEMMA OthersAhead ==
  ASSUME NEW h \in Handlers, Others(h), NEW g \in Handlers, g # h, NEW u
  PROVE  Ahead(g, u)' <=> Ahead(g, u)
BY DEF Ahead, At, Others

----------------------------------------------------------------------------
(* The steps of a call.                                                    *)

LEMMA Moved ==
  ASSUME CallType, NEW h \in Handlers, NEW label \in Labels, Goto(h, label) \/ Finish(h)
  PROVE  /\ Others(h)
         /\ \/ pc'[h] = label /\ job' = job
            \/ pc'[h] = "idle" /\ job'[h].op = "none"
BY GotoMoves, FinishMoves

LEMMA Held ==
  ASSUME LedgerInv, NEW h \in Handlers, NEW r \in AnyRow,
         UNCHANGED mine \/ Hold(h, r) \/ Finish(h)
  PROVE  /\ mine' \in [Handlers -> AnyRow]
         /\ \A g \in Handlers : g # h => mine'[g] = mine[g]
         /\ Hold(h, r) => mine'[h] = r
<1>1. NoRow \in AnyRow
  BY DEF NoRow, AnyRow
<1> HIDE DEF AnyRow, NoRow
<1> QED
  BY <1>1 DEF LedgerInv, Hold, Finish

NotAhead(h) == ~ At(h, "deposit", "saveLog") /\ ~ At(h, "approve", "saveWallet")

(* A step that changes no balance, and no row of the ledger.               *)
LEMMA StillStep ==
  ASSUME CallType, LedgerInv, NEW h \in Handlers, pc[h] # "idle",
         NEW label \in Labels \ {"idle"}, Goto(h, label) \/ Finish(h),
         NEW r \in AnyRow, UNCHANGED mine \/ Hold(h, r) \/ Finish(h),
         wallets \subseteq wallets', wallets' \subseteq Users,
         UNCHANGED <<row, ledger, escrow, credited>>,
         rowLock' \in [Users -> Handlers \cup {None}],
         \A g \in Handlers : g # h => \A u \in Users : rowLock[u] = g => rowLock'[u] = g,
         NotAhead(h), NotAhead(h)', pc'[h] = label => Place(h)'
  PROVE  LedgerInv'
<1>1. /\ Others(h)
      /\ \/ pc'[h] = label /\ job' = job
         \/ pc'[h] = "idle" /\ job'[h].op = "none"
  BY Moved
<1>2. mine' \in [Handlers -> AnyRow] /\ \A g \in Handlers : g # h => mine'[g] = mine[g]
  BY Held
<1>3. \A type, x : Entry(type, x)' <=> Entry(type, x)
  BY DEF Entry
<1>4. Touches(h)
  BY <1>1, <1>2, <1>3 DEF Touches
<1>5. Place(h)'
  <2>1. CASE pc'[h] = label
    BY <2>1
  <2>2. CASE job'[h].op = "none"
    BY <2>2 DEF Place
  <2> QED
    BY <1>1, <2>1, <2>2
<1>6. \A g \in Handlers : Place(g)'
  <2> TAKE g \in Handlers
  <2> QED
    BY <1>4, <1>5, OthersPlaces
<1>7. Apart'
  BY <1>1, ApartKept DEF LedgerInv
<1>8. TransfersDiffer'
  <2>1. TransfersDiffer
    BY DEF LedgerInv
  <2>2. \A t \in Transfers : Entry("TRANSFER", t)' => credited'[t] # 0
    BY <1>3, <2>1 DEF TransfersDiffer
  <2> QED
    BY <1>1, <2>1, <2>2, TransfersKept
<1>9. ASSUME NEW u \in Users
      PROVE  Settled(u)'
  <2>1. \A g \in Handlers : Ahead(g, u)' <=> Ahead(g, u)
    <3> TAKE g \in Handlers
    <3>1. CASE g = h
      BY <3>1 DEF Ahead, NotAhead
    <3>2. CASE g # h
      BY <1>1, <3>2, OthersAhead
    <3> QED
      BY <3>1, <3>2
  <2> QED
    BY <2>1, SettledSame
<1>10. /\ row' \in [Users -> AnyRow] /\ IsFiniteSet(ledger')
       /\ escrow' \in [Users -> {"none", "held", "paid"}]
       /\ \A u \in Users : u \notin wallets' => row'[u].balance = 0 /\ escrow'[u] # "held"
  BY DEF LedgerInv
<1> QED
  BY <1>2, <1>6, <1>7, <1>8, <1>9, <1>10 DEF LedgerInv

LEMMA RowChanged ==
  ASSUME NEW m \in AnyRow
  PROVE  /\ m.balance \in Int
         /\ [m EXCEPT !.balance = @ + 1] \in AnyRow
         /\ [m EXCEPT !.balance = @ + 1].balance = m.balance + 1
         /\ [m EXCEPT !.balance = @ - 1] \in AnyRow
         /\ [m EXCEPT !.balance = @ - 1].balance = m.balance - 1
BY DEF AnyRow

(* What the call of a user or for a reference reads is a row of a user.    *)
LEMMA ReadsRow ==
  ASSUME CallType, LedgerInv, NEW h \in Handlers, job[h].op \in {"view", "deposit"}
  PROVE  /\ UserOf(job[h].ref) \in Users
         /\ job[h].op = "deposit" => UserOf(job[h].ref) = Owner[job[h].ref]
         /\ row[UserOf(job[h].ref)] \in AnyRow /\ mine[h] \in AnyRow
<1>1. job[h].op = "deposit" => UserOf(job[h].ref) = Owner[job[h].ref] /\ Owner[job[h].ref] \in Users
  BY UsersOfCall
<1>2. job[h].op = "view" => UserOf(job[h].ref) \in Users
  BY DEF CallType, Fits, UserOf
<1> QED
  BY <1>1, <1>2 DEF LedgerInv

LEMMA WalletStill ==
  ASSUME CallType, LedgerInv, ~ cached, NEW h \in Handlers,
         ReadCache(h) \/ ReadWallet(h) \/ CreateWallet(h) \/ FillCache(h)
  PROVE  LedgerInv'
<1> DEFINE u == UserOf(job[h].ref)
<1> USE DEF tables
<1>1. job[h].op \in {"view", "deposit"} /\ pc[h] # "idle"
  BY DEF CallType, Fits, ReadCache, ReadWallet, CreateWallet, FillCache
<1>2. /\ u \in Users /\ row[u] \in AnyRow /\ mine[h] \in AnyRow
      /\ job[h].op = "deposit" => u = Owner[job[h].ref]
  BY <1>1, ReadsRow
<1>3. /\ wallets \subseteq Users /\ rowLock \in [Users -> Handlers \cup {None}] /\ Place(h)
      /\ \A v \in Users : v \notin wallets => row[v].balance = 0
  BY DEF LedgerInv
<1> HIDE DEF u
<1>4. CASE ReadCache(h)
  <2>1. Goto(h, "read") /\ UNCHANGED <<mine, tables, rowLock, credited>> /\ pc[h] = "readCache"
    BY <1>4 DEF ReadCache
  <2>2. Others(h) /\ pc'[h] = "read" /\ job' = job
    BY <2>1, GotoMoves DEF Labels
  <2>3. Place(h)' /\ NotAhead(h) /\ NotAhead(h)'
    BY <1>1, <2>1, <2>2 DEF Place, NotAhead, At
  <2> QED
    BY <1>1, <1>2, <1>3, <2>1, <2>3, StillStep DEF Labels
<1>5. CASE ReadWallet(h) /\ u \in wallets
  <2>1. /\ Goto(h, "fill") /\ Hold(h, row[u]) /\ pc[h] = "read"
        /\ UNCHANGED <<tables, rowLock, credited>>
    BY <1>5 DEF ReadWallet, u
  <2>2. Others(h) /\ pc'[h] = "fill" /\ job' = job
    BY <2>1, GotoMoves DEF Labels
  <2>3. mine'[h] = row[u]
    BY <1>2, <2>1, Held
  <2>4. Place(h)'
    <3>1. u \in wallets' /\ mine'[h].balance = row'[u].balance + 0
      <4>1. row[u].balance \in Int
        BY <1>2 DEF AnyRow
      <4> QED
        BY <1>5, <2>1, <2>3, <4>1
    <3> QED
      BY <1>1, <1>2, <2>2, <3>1 DEF Place
  <2>5. NotAhead(h) /\ NotAhead(h)'
    BY <1>1, <2>1, <2>2 DEF NotAhead, At
  <2> QED
    BY <1>1, <1>2, <1>3, <2>1, <2>4, <2>5, StillStep DEF Labels
<1>6. CASE ReadWallet(h) /\ u \notin wallets
  <2>1. /\ Goto(h, "create") /\ UNCHANGED <<mine, tables, rowLock, credited>> /\ pc[h] = "read"
    BY <1>6 DEF ReadWallet, u
  <2>2. Others(h) /\ pc'[h] = "create" /\ job' = job
    BY <2>1, GotoMoves DEF Labels
  <2>3. Place(h)' /\ NotAhead(h) /\ NotAhead(h)'
    BY <1>1, <2>1, <2>2 DEF Place, NotAhead, At
  <2> QED
    BY <1>1, <1>2, <1>3, <2>1, <2>3, StillStep DEF Labels
<1>7. CASE CreateWallet(h) /\ u \in wallets
  <2>1. Finish(h) /\ UNCHANGED <<tables, rowLock, credited>> /\ pc[h] = "create"
    BY <1>7 DEF CreateWallet, u
  <2>2. pc'[h] = "idle"
    BY <2>1, FinishMoves
  <2>3. NotAhead(h) /\ NotAhead(h)'
    BY <2>1, <2>2 DEF NotAhead, At
  <2> QED
    BY <1>1, <1>2, <1>3, <2>1, <2>2, <2>3, StillStep DEF Labels
<1>8. CASE CreateWallet(h) /\ u \notin wallets
  <2>1. /\ Goto(h, "fill") /\ Hold(h, NoRow) /\ wallets' = wallets \cup {u} /\ pc[h] = "create"
        /\ UNCHANGED <<row, ledger, escrow, rowLock, credited>>
    BY <1>8 DEF CreateWallet, u
  <2>2. Others(h) /\ pc'[h] = "fill" /\ job' = job
    BY <2>1, GotoMoves DEF Labels
  <2>3. NoRow \in AnyRow /\ NoRow.balance = 0
    BY DEF NoRow, AnyRow
  <2>4. mine'[h] = NoRow
    BY <2>1, <2>3, Held
  <2>5. row[u].balance = 0
    BY <1>2, <1>3, <1>8
  <2>6. Place(h)' /\ NotAhead(h) /\ NotAhead(h)'
    BY <1>1, <1>2, <2>1, <2>2, <2>3, <2>4, <2>5 DEF Place, NotAhead, At
  <2> QED
    BY <1>1, <1>2, <1>3, <2>1, <2>3, <2>6, StillStep DEF Labels
<1>9. CASE FillCache(h)
  <2>1. /\ UNCHANGED <<tables, rowLock, credited>> /\ pc[h] = "fill"
        /\ (job[h].op = "deposit" /\ Goto(h, "find") /\ UNCHANGED mine) \/ Finish(h)
    BY <1>9 DEF FillCache, Proceed
  <2>2. NotAhead(h)
    BY <2>1 DEF NotAhead, At
  <2>3. pc'[h] \in {"find", "idle"}
    BY <2>1, GotoMoves, FinishMoves DEF Labels
  <2>4. NotAhead(h)'
    BY <2>3 DEF NotAhead, At
  <2>5. pc'[h] = "find" => Place(h)'
    <3>1. CASE Finish(h)
      BY <3>1, FinishMoves
    <3>2. CASE Goto(h, "find") /\ UNCHANGED mine
      <4>1. job' = job
        BY <3>2, GotoMoves DEF Labels
      <4> QED
        BY <1>1, <1>3, <2>1, <3>2, <4>1 DEF Place
    <3> QED
      BY <2>1, <3>1, <3>2
  <2> QED
    BY <1>1, <1>2, <1>3, <2>1, <2>2, <2>4, <2>5, StillStep DEF Labels
<1> QED
  BY <1>4, <1>5, <1>6, <1>7, <1>8, <1>9

LEMMA DepositStill ==
  ASSUME CallType, LedgerInv, NEW h \in Handlers, DepositFind(h) \/ DepositForget(h)
  PROVE  LedgerInv'
<1> USE DEF tables
<1>1. job[h].op = "deposit" /\ pc[h] \in {"find", "forget"}
  BY DEF DepositFind, DepositForget, At
<1>2. /\ wallets \subseteq Users /\ rowLock \in [Users -> Handlers \cup {None}] /\ Place(h)
      /\ mine[h] \in AnyRow
  BY DEF LedgerInv
<1>3. PICK r \in AnyRow : r = [mine[h] EXCEPT !.balance = @ + 1]
  BY <1>2, RowChanged
<1>4. r.balance = mine[h].balance + 1 /\ mine[h].balance \in Int
  BY <1>2, <1>3, RowChanged
<1>5. /\ UNCHANGED <<tables, rowLock, credited>>
      /\ \/ Finish(h)
         \/ /\ pc[h] = "find" /\ Goto(h, "saveWallet") /\ Hold(h, r)
            /\ ~ Entry("DEPOSIT", job[h].ref)
  BY <1>3 DEF DepositFind, DepositForget, At, Entry
<1>6. NotAhead(h) /\ pc'[h] \in {"saveWallet", "idle"} /\ job'[h].op # "approve"
  BY <1>1, <1>5, GotoMoves, FinishMoves DEF Labels, NotAhead, At
<1>7. NotAhead(h)'
  BY <1>6 DEF NotAhead, At
<1>8. pc'[h] = "saveWallet" => Place(h)'
  <2>1. CASE Finish(h)
    BY <2>1, FinishMoves
  <2>2. CASE /\ pc[h] = "find" /\ Goto(h, "saveWallet") /\ Hold(h, r)
             /\ ~ Entry("DEPOSIT", job[h].ref)
    <3>1. job' = job /\ mine'[h] = r
      BY <1>3, <2>2, GotoMoves, Held DEF Labels
    <3>2. pc'[h] = "saveWallet"
      BY <2>2, GotoMoves DEF Labels
    <3>3. /\ Owner[job[h].ref] \in wallets
          /\ mine[h].balance = row[Owner[job[h].ref]].balance + 0
      BY <1>1, <1>2, <2>2 DEF Place
    <3>4. /\ wallets' = wallets /\ row' = row
          /\ mine'[h].balance = row[Owner[job[h].ref]].balance + 1
          /\ ~ Entry("DEPOSIT", job[h].ref)'
      <4>1. row[Owner[job[h].ref]].balance \in Int
        BY <1>1, UsersOfCall DEF LedgerInv, AnyRow
      <4> QED
        BY <1>4, <1>5, <2>2, <3>1, <3>3, <4>1 DEF Entry
    <3> QED
      BY <1>1, <3>1, <3>2, <3>3, <3>4 DEF Place
  <2> QED
    BY <1>5, <2>1, <2>2
<1> QED
  BY <1>1, <1>2, <1>5, <1>6, <1>7, <1>8, StillStep DEF Labels

LEMMA UnlockedRows ==
  ASSUME LedgerInv, NEW h \in Handlers, Unlock(h)
  PROVE  /\ rowLock' \in [Users -> Handlers \cup {None}]
         /\ \A g \in Handlers : g # h => \A u \in Users : rowLock[u] = g => rowLock'[u] = g
BY DEF LedgerInv, Unlock

LEMMA LockedRow ==
  ASSUME LedgerInv, NEW h \in Handlers, NEW u \in Users, rowLock[u] \in {None, h},
         rowLock' = [rowLock EXCEPT ![u] = h]
  PROVE  /\ rowLock' \in [Users -> Handlers \cup {None}] /\ rowLock'[u] = h
         /\ \A v \in Users : v # u => rowLock'[v] = rowLock[v]
         /\ \A g \in Handlers : g # h => \A v \in Users : rowLock[v] = g => rowLock'[v] = g
<1>1. /\ rowLock \in [Users -> Handlers \cup {None}]
      /\ rowLock' = [v \in Users |-> IF v = u THEN h ELSE rowLock[v]]
  BY DEF LedgerInv
<1> QED
  BY <1>1, FundsFacts

LEMMA TransferStill ==
  ASSUME CallType, LedgerInv, NEW h \in Handlers,
         \/ TransferLockSender(h) \/ TransferLockRecipient(h) \/ TransferForgetSender(h)
         \/ TransferForgetRecipient(h) \/ TransferDeadlocked(h)
  PROVE  LedgerInv'
<1> USE DEF tables
<1> DEFINE t == job[h].ref
           u == Owner[t]
<1>1. /\ job[h].op = "transfer" /\ NotAhead(h) /\ pc[h] # "idle"
  BY DEF TransferLockSender, TransferLockRecipient, TransferForgetSender,
         TransferForgetRecipient, TransferDeadlocked, At, NotAhead
<1>2. t \in Transfers /\ u \in Users /\ To[t] \in Users
  BY <1>1, UsersOfCall
<1>3. /\ wallets \subseteq Users /\ rowLock \in [Users -> Handlers \cup {None}] /\ Place(h)
      /\ row[u] \in AnyRow /\ mine[h] \in AnyRow
  BY <1>2 DEF LedgerInv
<1>4. UNCHANGED <<tables, credited>>
  BY DEF TransferLockSender, TransferLockRecipient, TransferForgetSender,
         TransferForgetRecipient, TransferDeadlocked
<1>5. job'[h].op # "transfer" => NotAhead(h)' \/ job'[h].op \notin {"none"}
  BY DEF NotAhead, At
<1>6. ASSUME NEW label \in {"lockTo", "commit", "forgetFrom", "forgetTo"},
             Goto(h, label) \/ Finish(h)
      PROVE  NotAhead(h)' /\ label \in Labels \ {"idle"} /\ (Finish(h) => pc'[h] # label)
             /\ (Goto(h, label) => pc'[h] = label /\ job' = job)
  BY <1>1, <1>6, GotoMoves, FinishMoves DEF Labels, NotAhead, At
<1>7. CASE TransferLockSender(h)
  <2>1. CASE Finish(h) /\ UNCHANGED rowLock
    BY <1>1, <1>3, <1>4, <1>6, <2>1, StillStep
  <2>2. CASE /\ u \in wallets /\ rowLock' = [rowLock EXCEPT ![u] = h]
             /\ Goto(h, "lockTo") /\ Hold(h, row[u])
    <3>1. rowLock[u] = None /\ pc[h] = "lockFrom"
      BY <1>7 DEF TransferLockSender, Unlocked, At
    <3>2. /\ rowLock' \in [Users -> Handlers \cup {None}] /\ rowLock'[u] = h
          /\ \A g \in Handlers : g # h => \A v \in Users : rowLock[v] = g => rowLock'[v] = g
      BY <1>2, <2>2, <3>1, LockedRow
    <3>3. pc'[h] = "lockTo" /\ job' = job /\ mine'[h] = row[u]
      BY <1>3, <1>6, <2>2, Held
    <3>4. row[u].balance \in Int /\ ~ Entry("TRANSFER", t)
      BY <1>1, <1>3, <3>1 DEF Place, AnyRow
    <3>5. Place(h)'
      <4>1. /\ u \in wallets' /\ mine'[h].balance = row'[u].balance + 0 /\ rowLock'[u] = h
            /\ ~ Entry("TRANSFER", t)'
        BY <1>4, <2>2, <3>2, <3>3, <3>4 DEF Entry
      <4> QED
        BY <1>1, <3>3, <4>1 DEF Place
    <3> QED
      BY <1>1, <1>3, <1>4, <1>6, <2>2, <3>2, <3>5, StillStep
  <2> QED
    BY <1>7, <2>1, <2>2 DEF TransferLockSender
<1>8. CASE TransferLockRecipient(h)
  <2>1. /\ rowLock[To[t]] \in {None, h} /\ rowLock' = [rowLock EXCEPT ![To[t]] = h]
        /\ Goto(h, "commit") /\ UNCHANGED mine /\ pc[h] = "lockTo"
    BY <1>8 DEF TransferLockRecipient, At
  <2>2. /\ rowLock' \in [Users -> Handlers \cup {None}] /\ rowLock'[To[t]] = h
        /\ \A v \in Users : v # To[t] => rowLock'[v] = rowLock[v]
        /\ \A g \in Handlers : g # h => \A v \in Users : rowLock[v] = g => rowLock'[v] = g
    BY <1>2, <2>1, LockedRow
  <2>3. pc'[h] = "commit" /\ job' = job
    BY <1>6, <2>1
  <2>4. /\ u \in wallets /\ mine[h].balance = row[u].balance + 0 /\ rowLock[u] = h
        /\ ~ Entry("TRANSFER", t)
    BY <1>1, <1>3, <2>1 DEF Place
  <2>5. /\ u \in wallets' /\ mine'[h].balance = row'[u].balance + 0 /\ rowLock'[u] = h
        /\ ~ Entry("TRANSFER", t)'
    BY <1>2, <1>4, <2>1, <2>2, <2>3, <2>4 DEF Entry
  <2>6. Place(h)'
    BY <1>1, <2>2, <2>3, <2>5 DEF Place
  <2> QED
    BY <1>1, <1>3, <1>4, <1>6, <2>1, <2>2, <2>6, StillStep
<1>9. CASE TransferForgetSender(h)
  <2>1. Goto(h, "forgetTo") /\ UNCHANGED <<mine, rowLock>>
    BY <1>9 DEF TransferForgetSender
  <2>2. pc'[h] = "forgetTo" /\ job' = job
    BY <1>6, <2>1
  <2>3. Place(h)'
    BY <1>1, <2>2 DEF Place
  <2> QED
    BY <1>1, <1>3, <1>4, <1>6, <2>1, <2>3, StillStep
<1>10. CASE TransferForgetRecipient(h)
  <2>1. Finish(h) /\ UNCHANGED rowLock
    BY <1>10 DEF TransferForgetRecipient
  <2> QED
    BY <1>1, <1>3, <1>4, <1>6, <2>1, StillStep
<1>11. CASE TransferDeadlocked(h)
  <2>1. Finish(h) /\ Unlock(h)
    BY <1>11 DEF TransferDeadlocked
  <2>2. /\ rowLock' \in [Users -> Handlers \cup {None}]
        /\ \A g \in Handlers : g # h => \A v \in Users : rowLock[v] = g => rowLock'[v] = g
    BY <2>1, UnlockedRows
  <2> QED
    BY <1>1, <1>3, <1>4, <1>6, <2>1, <2>2, StillStep
<1> QED
  BY <1>7, <1>8, <1>9, <1>10, <1>11

LEMMA DecisionStill ==
  ASSUME CallType, LedgerInv, NEW h \in Handlers,
         \/ RequestReadWallet(h) \/ RequestSave(h) \/ DecisionFind(h) \/ ApproveReadWallet(h)
         \/ DecisionSave(h) \/ DecisionTell(h)
         \/ ApproveSaveLog(h) /\ Entry("WITHDRAWAL", job[h].ref)
  PROVE  LedgerInv'
<1> USE DEF tables
<1> DEFINE u == Owner[job[h].ref]
<1>1. /\ job[h].op \in {"request", "approve", "reject"} /\ pc[h] # "idle" /\ NotAhead(h)
  BY DEF CallType, Fits, RequestReadWallet, RequestSave, DecisionFind, ApproveReadWallet,
         DecisionSave, DecisionTell, ApproveSaveLog, At, NotAhead
<1>2. u \in Users
  BY <1>1, UsersOfCall
<1>3. /\ wallets \subseteq Users /\ rowLock \in [Users -> Handlers \cup {None}]
      /\ row[u] \in AnyRow /\ mine[h] \in AnyRow
  BY <1>2 DEF LedgerInv
<1>4. UNCHANGED <<wallets, row, ledger, escrow, credited, rowLock>>
  BY DEF RequestReadWallet, RequestSave, DecisionFind, ApproveReadWallet,
         DecisionSave, DecisionTell, ApproveSaveLog, Entry
<1>5. CASE ~ ApproveReadWallet(h)
  <2>1. PICK label \in {"saveRow", "read", "tell"} : Goto(h, label) \/ Finish(h)
    BY <1>5 DEF RequestReadWallet, RequestSave, DecisionFind, DecisionSave, DecisionTell,
                ApproveSaveLog, Entry
  <2>2. UNCHANGED mine \/ Finish(h)
    BY <1>5 DEF RequestReadWallet, RequestSave, DecisionFind, DecisionSave, DecisionTell,
                ApproveSaveLog, Entry
  <2>3. label \in Labels \ {"idle"} /\ (pc'[h] = label \/ pc'[h] = "idle")
    BY <2>1, GotoMoves, FinishMoves DEF Labels
  <2>4. NotAhead(h)'
    BY <2>3 DEF NotAhead, At
  <2>5. pc'[h] = label => Place(h)'
    <3>1. job' = job \/ job'[h].op = "none"
      BY <2>1, <2>3, GotoMoves, FinishMoves
    <3> QED
      BY <1>1, <2>3, <3>1 DEF Place
  <2> QED
    BY <1>1, <1>3, <1>4, <2>1, <2>2, <2>3, <2>4, <2>5, StillStep
<1>6. CASE ApproveReadWallet(h)
  <2>1. PICK r \in AnyRow : r = [row[u] EXCEPT !.balance = @ - 1]
    BY <1>3, RowChanged
  <2>2. r.balance = row[u].balance - 1 /\ row[u].balance \in Int
    BY <1>3, <2>1, RowChanged
  <2>3. /\ job[h].op = "approve"
        /\ Finish(h) \/ (u \in wallets /\ Goto(h, "saveLog") /\ Hold(h, r))
    BY <1>6, <2>1 DEF ApproveReadWallet, At
  <2>4. pc'[h] = "saveLog" \/ pc'[h] = "idle"
    BY <2>3, GotoMoves, FinishMoves DEF Labels
  <2>5. NotAhead(h)'
    <3>1. job'[h].op # "deposit"
      BY <2>3, GotoMoves, FinishMoves DEF Labels
    <3> QED
      BY <2>4, <3>1 DEF NotAhead, At
  <2>6. pc'[h] = "saveLog" => Place(h)'
    <3>1. CASE Finish(h)
      BY <3>1, FinishMoves
    <3>2. CASE u \in wallets /\ Goto(h, "saveLog") /\ Hold(h, r)
      <4>1. job' = job /\ mine'[h] = r
        BY <3>2, GotoMoves, Held DEF Labels
      <4>2. u \in wallets' /\ mine'[h].balance = row'[u].balance + (-1)
        BY <1>4, <2>2, <3>2, <4>1
      <4> QED
        BY <2>3, <4>1, <4>2 DEF Place
    <3> QED
      BY <2>3, <3>1, <3>2
  <2> QED
    BY <1>1, <1>3, <1>4, <2>3, <2>4, <2>5, <2>6, StillStep DEF Labels
<1> QED
  BY <1>5, <1>6

----------------------------------------------------------------------------
(* The steps that write a balance or a row of the ledger.                  *)

LEMMA AheadOf ==
  ASSUME CallType, Apart, NEW h \in Handlers, pc[h] # "idle", Others(h), NEW u \in UsersOf(job[h])
  PROVE  /\ (\E g \in Handlers : Ahead(g, u)) <=> Ahead(h, u)
         /\ (\E g \in Handlers : Ahead(g, u)') <=> Ahead(h, u)'
<1>1. \A g \in Handlers : Ahead(g, u) => g = h
  BY AheadAlone
<1>2. \A g \in Handlers : g # h => (Ahead(g, u)' <=> Ahead(g, u))
  BY OthersAhead
<1> HIDE DEF Ahead
<1> QED
  BY <1>1, <1>2

LEMMA AheadElsewhere ==
  ASSUME CallType, NEW h \in Handlers, Others(h), job' = job, NEW u \in Users,
         u \notin UsersOf(job[h])
  PROVE  \A g \in Handlers : Ahead(g, u)' <=> Ahead(g, u)
<1> SUFFICES ASSUME NEW g \in Handlers PROVE Ahead(g, u)' <=> Ahead(g, u)
  OBVIOUS
<1>1. CASE g # h
  BY <1>1, OthersAhead
<1>2. CASE g = h
  <2>1. job[h].op \in {"deposit", "approve"} => Owner[job[h].ref] # u
    BY UsersOfCall
  <2> QED
    BY <1>2, <2>1 DEF Ahead, At
<1> QED
  BY <1>1, <1>2

LEMMA WriteStep ==
  ASSUME CallType, LedgerInv, NEW h \in Handlers, pc[h] # "idle", Touches(h), job' = job,
         Place(h)', mine' \in [Handlers -> AnyRow], wallets' \subseteq Users,
         row' \in [Users -> AnyRow], rowLock' \in [Users -> Handlers \cup {None}],
         IsFiniteSet(ledger'), escrow' = escrow,
         \A t \in Transfers : Entry("TRANSFER", t)' => credited'[t] # 0,
         \A u \in Users : u \notin wallets' => row'[u].balance = 0,
         \A u \in UsersOf(job[h]) : Settled(u)',
         \A u \in Users : u \notin UsersOf(job[h]) => SumsOf(ledger', u) = SumsOf(ledger, u)
  PROVE  LedgerInv'
<1>1. \A g \in Handlers : Place(g)'
  <2> TAKE g \in Handlers
  <2> QED
    BY OthersPlaces
<1>2. Others(h) /\ wallets \subseteq wallets'
  BY DEF Touches
<1>3. Apart' /\ TransfersDiffer'
  BY <1>2, ApartKept, TransfersKept DEF LedgerInv
<1>4. ASSUME NEW u \in Users
      PROVE  Settled(u)'
  <2>1. CASE u \notin UsersOf(job[h])
    <3>1. row'[u].balance = row[u].balance
      BY <2>1 DEF Touches
    <3>2. (\E g \in Handlers : Ahead(g, u)') <=> (\E g \in Handlers : Ahead(g, u))
      BY <1>2, <2>1, AheadElsewhere
    <3>3. PICK a \in Int : a = (IF \E g \in Handlers : Ahead(g, u) THEN 1 ELSE 0)
      OBVIOUS
    <3>4. a = (IF \E g \in Handlers : Ahead(g, u)' THEN 1 ELSE 0)
      BY <3>2, <3>3
    <3>5. /\ Settled(u) /\ row[u].balance \in Int /\ row \in [Users -> AnyRow]
          /\ IsFiniteSet(ledger)
      BY DEF LedgerInv, AnyRow
    <3>6. SumsOf(ledger, u) \in Int /\ Paid(u)' = Paid(u) /\ Paid(u) \in Int
      BY <3>5, BookedIs DEF Paid
    <3>7. SumsOf(ledger', u) - Paid(u)' = SumsOf(ledger, u) - Paid(u) + 0
      BY <2>1, <3>6
    <3>8. row'[u].balance + a = row[u].balance + 0 + a
      BY <3>1, <3>5
    <3>9. row'[u].balance + (IF \E g \in Handlers : Ahead(g, u) THEN 1 ELSE 0)
           = row[u].balance + 0 + (IF \E g \in Handlers : Ahead(g, u)' THEN 1 ELSE 0)
      BY <3>3, <3>4, <3>8
    <3>10. row'[u].balance \in Int
      BY <3>1, <3>5
    <3> QED
      BY <3>5, <3>7, <3>9, <3>10, SettledMoves
  <2> QED
    BY <2>1
<1>5. /\ escrow' \in [Users -> {"none", "held", "paid"}]
      /\ \A u \in Users : u \notin wallets' => row'[u].balance = 0 /\ escrow'[u] # "held"
  BY <1>2 DEF LedgerInv
<1> QED
  BY <1>1, <1>3, <1>4, <1>5 DEF LedgerInv

(* How the balance of a wallet of h's call and its sums move, when nobody  *)
(* but h is in the middle of changing it.                                  *)
LEMMA OneSettles ==
  ASSUME CallType, LedgerInv, NEW h \in Handlers, pc[h] # "idle", Others(h),
         NEW u \in UsersOf(job[h]), u \in Users, IsFiniteSet(ledger'), escrow' = escrow,
         NEW m \in Int, SumsOf(ledger', u) = SumsOf(ledger, u) + m,
         row'[u].balance \in Int,
         row'[u].balance + (IF Ahead(h, u) THEN 1 ELSE 0)
           = row[u].balance + m + (IF Ahead(h, u)' THEN 1 ELSE 0)
  PROVE  Settled(u)'
<1>1. /\ Settled(u) /\ row[u].balance \in Int /\ row \in [Users -> AnyRow]
      /\ IsFiniteSet(ledger) /\ Apart
  BY DEF LedgerInv, AnyRow
<1>2. SumsOf(ledger, u) \in Int /\ Paid(u)' = Paid(u) /\ Paid(u) \in Int
  BY <1>1, BookedIs DEF Paid
<1>3. SumsOf(ledger', u) - Paid(u)' = SumsOf(ledger, u) - Paid(u) + m
  BY <1>2
<1>4. /\ (\E g \in Handlers : Ahead(g, u)) <=> Ahead(h, u)
      /\ (\E g \in Handlers : Ahead(g, u)') <=> Ahead(h, u)'
  BY <1>1, AheadOf
<1>5. row'[u].balance + (IF \E g \in Handlers : Ahead(g, u) THEN 1 ELSE 0)
       = row[u].balance + m + (IF \E g \in Handlers : Ahead(g, u)' THEN 1 ELSE 0)
  BY <1>4
<1> QED
  BY <1>1, <1>3, <1>5, SettledMoves

LEMMA RowSaved ==
  ASSUME NEW u \in Users, row \in [Users -> AnyRow], NEW m \in AnyRow,
         row' = [row EXCEPT ![u] = m]
  PROVE  /\ row' \in [Users -> AnyRow] /\ row'[u] = m
         /\ \A v \in Users : v # u => row'[v] = row[v]
BY DEF AnyRow

(* addBalance saves the wallet, read as it was, with one unit more.        *)
LEMMA DepositWritesWallet ==
  ASSUME CallType, LedgerInv, NEW h \in Handlers, DepositSaveWallet(h)
  PROVE  LedgerInv'
<1> USE DEF tables
<1>0. PICK p \in Payments, u \in Users :
        p = job[h].ref /\ u = Owner[p] /\ UsersOf(job[h]) = {u}
  BY UsersOfCall DEF DepositSaveWallet, At, CallType, Fits
<1>1. /\ job[h].op = "deposit" /\ pc[h] = "saveWallet" /\ rowLock[u] = None
      /\ row' = [row EXCEPT ![u] = mine[h]] /\ credited' = [credited EXCEPT ![p] = @ + 1]
      /\ Goto(h, "saveLog") /\ UNCHANGED <<wallets, ledger, escrow, rowLock, mine>>
  BY <1>0 DEF DepositSaveWallet, At, Unlocked
<1>2. p = job[h].ref /\ u = Owner[p] /\ UsersOf(job[h]) = {u}
  BY <1>0
<1>3. pc'[h] = "saveLog" /\ job' = job /\ Others(h)
  BY <1>1, GotoMoves DEF Labels
<1>4. /\ row \in [Users -> AnyRow] /\ mine \in [Handlers -> AnyRow] /\ mine[h] \in AnyRow
      /\ rowLock \in [Users -> Handlers \cup {None}] /\ Place(h)
      /\ wallets \subseteq Users /\ IsFiniteSet(ledger) /\ TransfersDiffer
      /\ row[u].balance \in Int
  BY <1>2 DEF LedgerInv, AnyRow
<1>5. u \in wallets /\ mine[h].balance = row[u].balance + 1 /\ ~ Entry("DEPOSIT", p)
  BY <1>1, <1>2, <1>4 DEF Place
<1>6. row' \in [Users -> AnyRow] /\ row'[u] = mine[h] /\ \A v \in Users : v # u => row'[v] = row[v]
  BY <1>1, <1>2, <1>4, RowSaved
<1>7. \A type, r : Entry(type, r)' <=> Entry(type, r)
  BY <1>1 DEF Entry
<1>8. Touches(h)
  BY <1>1, <1>2, <1>3, <1>6, <1>7 DEF Touches
<1>9. Place(h)'
  <2>1. ~ Entry("DEPOSIT", p)'
    BY <1>5, <1>7
  <2> QED
    BY <1>1, <1>2, <1>3, <1>5, <2>1 DEF Place, Entry
<1>10. \A t \in Transfers : Entry("TRANSFER", t)' => credited'[t] # 0
  <2> TAKE t \in Transfers
  <2>1. t # p /\ t \in Refs
    BY <1>2, FundsFacts
  <2>2. credited'[t] = credited[t]
    BY <1>1, <2>1 DEF CallType
  <2> QED
    BY <1>4, <1>7, <2>2 DEF TransfersDiffer
<1>11. \A v \in Users : v \notin wallets' => row'[v].balance = 0
  BY <1>1, <1>5, <1>6 DEF LedgerInv
<1>12. Settled(u)'
  <2>1. ~ Ahead(h, u) /\ Ahead(h, u)'
    BY <1>1, <1>2, <1>3 DEF Ahead, At
  <2>2. SumsOf(ledger, u) \in Int
    BY <1>2, <1>4, BookedIs
  <2>3. SumsOf(ledger', u) = SumsOf(ledger, u) + 0
    BY <1>1, <2>2
  <2>4. row'[u].balance \in Int /\ row'[u].balance = row[u].balance + 1
    BY <1>4, <1>5, <1>6
  <2>5. row'[u].balance + (IF Ahead(h, u) THEN 1 ELSE 0)
          = row[u].balance + 0 + (IF Ahead(h, u)' THEN 1 ELSE 0)
    BY <1>4, <2>1, <2>4
  <2> QED
    <3>1. /\ CallType /\ LedgerInv /\ pc[h] # "idle" /\ Others(h) /\ u \in UsersOf(job[h])
          /\ IsFiniteSet(ledger') /\ escrow' = escrow /\ row'[u].balance \in Int
      BY <1>1, <1>2, <1>3, <1>4, <2>4
    <3> QED
      BY ONLY <3>1, <2>3, <2>5, OneSettles, h \in Handlers, u \in Users, 0 \in Int
<1>13. \A v \in Users : SumsOf(ledger', v) = SumsOf(ledger, v)
  BY <1>1
<1> QED
  BY <1>1, <1>2, <1>3, <1>4, <1>6, <1>8, <1>9, <1>10, <1>11, <1>12, <1>13, WriteStep

(* addBalance saves the row of the ledger that the wallet was ahead by.    *)
LEMMA DepositWritesLog ==
  ASSUME CallType, LedgerInv, NEW h \in Handlers, DepositSaveLog(h)
  PROVE  LedgerInv'
<1> USE DEF tables
<1>0. PICK p \in Payments, u \in Users :
        p = job[h].ref /\ u = Owner[p] /\ UsersOf(job[h]) = {u}
  BY UsersOfCall DEF DepositSaveLog, At, CallType, Fits
<1>1. /\ job[h].op = "deposit" /\ pc[h] = "saveLog"
      /\ ledger' = ledger \cup {<<"DEPOSIT", p>>}
      /\ UNCHANGED <<wallets, row, escrow, rowLock, credited>>
  BY <1>0 DEF DepositSaveLog, At
<1>2. p = job[h].ref /\ u = Owner[p] /\ UsersOf(job[h]) = {u}
  BY <1>0
<1>3. /\ row \in [Users -> AnyRow] /\ mine \in [Handlers -> AnyRow]
      /\ rowLock \in [Users -> Handlers \cup {None}] /\ Place(h)
      /\ wallets \subseteq Users /\ IsFiniteSet(ledger) /\ TransfersDiffer
      /\ row[u].balance \in Int
  BY <1>2 DEF LedgerInv, AnyRow
<1>4. <<"DEPOSIT", p>> \notin ledger
  BY <1>1, <1>2, <1>3 DEF Place, Entry
<1>5. Goto(h, "forget") /\ UNCHANGED mine
  BY <1>2, <1>4 DEF DepositSaveLog
<1>6. pc'[h] = "forget" /\ job' = job /\ Others(h)
  BY <1>5, GotoMoves DEF Labels
<1>7. IsFiniteSet(ledger')
  BY <1>1, <1>3, FS_AddElement
<1>8. \A type, r : Entry(type, r)' <=> (Entry(type, r) \/ (type = "DEPOSIT" /\ r = p))
  BY <1>1 DEF Entry
<1>9. Touches(h)
  BY <1>1, <1>2, <1>5, <1>6, <1>8 DEF Touches
<1>10. Place(h)'
  BY <1>1, <1>6 DEF Place
<1>11. \A t \in Transfers : Entry("TRANSFER", t)' => credited'[t] # 0
  BY <1>1, <1>3, <1>8 DEF TransfersDiffer
<1>12. \A v \in Users : /\ SumsOf(ledger, v) \in Int
                        /\ SumsOf(ledger', v) = SumsOf(ledger, v) + Moves("DEPOSIT", p, v)
  BY <1>1, <1>2, <1>3, <1>4, SumsGrow
<1>13. \A v \in Users : Moves("DEPOSIT", p, v) = IF v = u THEN 1 ELSE 0
  BY <1>2 DEF Moves
<1>14. Settled(u)'
  <2>1. Ahead(h, u) /\ ~ Ahead(h, u)'
    BY <1>1, <1>2, <1>6 DEF Ahead, At
  <2>2. SumsOf(ledger', u) = SumsOf(ledger, u) + 1
    BY <1>2, <1>12, <1>13
  <2>3. row'[u].balance = row[u].balance
    BY <1>1
  <2>4. row'[u].balance + (IF Ahead(h, u) THEN 1 ELSE 0)
          = row[u].balance + 1 + (IF Ahead(h, u)' THEN 1 ELSE 0)
    BY <1>3, <2>1, <2>3
  <2> QED
    <3>1. /\ CallType /\ LedgerInv /\ pc[h] # "idle" /\ Others(h) /\ u \in UsersOf(job[h])
          /\ IsFiniteSet(ledger') /\ escrow' = escrow /\ row'[u].balance \in Int
      BY <1>1, <1>2, <1>3, <1>6, <1>7, <2>3
    <3> QED
      BY ONLY <3>1, <2>2, <2>4, OneSettles, h \in Handlers, u \in Users, 1 \in Int
<1>15. \A v \in Users : v \notin UsersOf(job[h]) => SumsOf(ledger', v) = SumsOf(ledger, v)
  BY <1>2, <1>12, <1>13
<1>16. \A v \in Users : v \notin wallets' => row'[v].balance = 0
  BY <1>1 DEF LedgerInv
<1> QED
  BY <1>1, <1>2, <1>3, <1>5, <1>6, <1>7, <1>9, <1>10, <1>11, <1>14, <1>15, <1>16, WriteStep

(* approveWithdrawal puts the ledger ahead: a deduction that is not made.  *)
LEMMA ApprovalWritesLog ==
  ASSUME CallType, LedgerInv, NEW h \in Handlers, ApproveSaveLog(h),
         ~ Entry("WITHDRAWAL", job[h].ref)
  PROVE  LedgerInv'
<1> USE DEF tables
<1>0. PICK w \in Withdrawals, u \in Users :
        w = job[h].ref /\ u = Owner[w] /\ UsersOf(job[h]) = {u}
  BY UsersOfCall DEF ApproveSaveLog, At, CallType, Fits
<1>1. /\ job[h].op = "approve" /\ pc[h] = "saveLog" /\ <<"WITHDRAWAL", w>> \notin ledger
      /\ ledger' = ledger \cup {<<"WITHDRAWAL", w>>} /\ Goto(h, "saveWallet")
      /\ UNCHANGED <<wallets, row, escrow, rowLock, credited, mine>>
  BY <1>0 DEF ApproveSaveLog, At, Entry
<1>2. pc'[h] = "saveWallet" /\ job' = job /\ Others(h)
  BY <1>1, GotoMoves DEF Labels
<1>3. /\ row \in [Users -> AnyRow] /\ mine \in [Handlers -> AnyRow]
      /\ rowLock \in [Users -> Handlers \cup {None}] /\ Place(h)
      /\ wallets \subseteq Users /\ IsFiniteSet(ledger) /\ TransfersDiffer
      /\ row[u].balance \in Int
  BY DEF LedgerInv, AnyRow
<1>4. IsFiniteSet(ledger')
  BY <1>1, <1>3, FS_AddElement
<1>5. \A type, r : Entry(type, r)' <=> (Entry(type, r) \/ (type = "WITHDRAWAL" /\ r = w))
  BY <1>1 DEF Entry
<1>6. Touches(h)
  BY <1>0, <1>1, <1>2, <1>5 DEF Touches
<1>7. Place(h)'
  BY <1>1, <1>2, <1>3 DEF Place
<1>8. \A t \in Transfers : Entry("TRANSFER", t)' => credited'[t] # 0
  BY <1>1, <1>3, <1>5 DEF TransfersDiffer
<1>9. \A v \in Users : /\ SumsOf(ledger, v) \in Int
                       /\ SumsOf(ledger', v) = SumsOf(ledger, v) + Moves("WITHDRAWAL", w, v)
  BY <1>1, <1>3, SumsGrow
<1>10. \A v \in Users : Moves("WITHDRAWAL", w, v) = IF v = u THEN -1 ELSE 0
  BY <1>0 DEF Moves
<1>11. Settled(u)'
  <2>1. ~ Ahead(h, u) /\ Ahead(h, u)'
    BY <1>0, <1>1, <1>2 DEF Ahead, At
  <2>2. SumsOf(ledger', u) = SumsOf(ledger, u) + (-1)
    BY <1>9, <1>10
  <2>3. row'[u].balance = row[u].balance
    BY <1>1
  <2>4. row'[u].balance + (IF Ahead(h, u) THEN 1 ELSE 0)
          = row[u].balance + (-1) + (IF Ahead(h, u)' THEN 1 ELSE 0)
    BY <1>3, <2>1, <2>3
  <2>5. /\ CallType /\ LedgerInv /\ pc[h] # "idle" /\ Others(h) /\ u \in UsersOf(job[h])
        /\ IsFiniteSet(ledger') /\ escrow' = escrow /\ row'[u].balance \in Int
    BY <1>0, <1>1, <1>2, <1>3, <1>4, <2>3
  <2> QED
    BY ONLY <2>5, <2>2, <2>4, OneSettles, h \in Handlers, u \in Users, -1 \in Int
<1>12. \A v \in Users : v \notin UsersOf(job[h]) => SumsOf(ledger', v) = SumsOf(ledger, v)
  BY <1>0, <1>9, <1>10
<1>13. \A v \in Users : v \notin wallets' => row'[v].balance = 0
  BY <1>1 DEF LedgerInv
<1> QED
  BY <1>0, <1>1, <1>2, <1>3, <1>4, <1>6, <1>7, <1>8, <1>11, <1>12, <1>13, WriteStep

(* approveWithdrawal makes it.                                             *)
LEMMA ApprovalWritesWallet ==
  ASSUME CallType, LedgerInv, NEW h \in Handlers, ApproveSaveWallet(h)
  PROVE  LedgerInv'
<1> USE DEF tables
<1>0. PICK w \in Withdrawals, u \in Users :
        w = job[h].ref /\ u = Owner[w] /\ UsersOf(job[h]) = {u}
  BY UsersOfCall DEF ApproveSaveWallet, At, CallType, Fits
<1>1. /\ job[h].op = "approve" /\ pc[h] = "saveWallet" /\ rowLock[u] = None
      /\ row' = [row EXCEPT ![u] = mine[h]] /\ credited' = [credited EXCEPT ![w] = @ + 1]
      /\ Goto(h, "saveRow") /\ UNCHANGED <<wallets, ledger, escrow, rowLock, mine>>
  BY <1>0 DEF ApproveSaveWallet, At, Unlocked
<1>2. pc'[h] = "saveRow" /\ job' = job /\ Others(h)
  BY <1>1, GotoMoves DEF Labels
<1>3. /\ row \in [Users -> AnyRow] /\ mine \in [Handlers -> AnyRow] /\ mine[h] \in AnyRow
      /\ rowLock \in [Users -> Handlers \cup {None}] /\ Place(h)
      /\ wallets \subseteq Users /\ IsFiniteSet(ledger) /\ TransfersDiffer
      /\ row[u].balance \in Int
  BY DEF LedgerInv, AnyRow
<1>4. u \in wallets /\ mine[h].balance = row[u].balance + (-1)
  BY <1>0, <1>1, <1>3 DEF Place
<1>5. row' \in [Users -> AnyRow] /\ row'[u] = mine[h] /\ \A v \in Users : v # u => row'[v] = row[v]
  BY <1>1, <1>3, RowSaved
<1>6. \A type, r : Entry(type, r)' <=> Entry(type, r)
  BY <1>1 DEF Entry
<1>7. Touches(h)
  BY <1>0, <1>1, <1>2, <1>5, <1>6 DEF Touches
<1>8. Place(h)'
  BY <1>1, <1>2 DEF Place
<1>9. \A t \in Transfers : Entry("TRANSFER", t)' => credited'[t] # 0
  <2> TAKE t \in Transfers
  <2>1. t # w /\ t \in Refs
    BY FundsAssumption, FundsFacts
  <2>2. credited'[t] = credited[t]
    BY <1>1, <2>1 DEF CallType
  <2> QED
    BY <1>3, <1>6, <2>2 DEF TransfersDiffer
<1>10. \A v \in Users : v \notin wallets' => row'[v].balance = 0
  BY <1>1, <1>4, <1>5 DEF LedgerInv
<1>11. Settled(u)'
  <2>1. Ahead(h, u) /\ ~ Ahead(h, u)'
    BY <1>0, <1>1, <1>2 DEF Ahead, At
  <2>2. SumsOf(ledger, u) \in Int
    BY <1>3, BookedIs
  <2>3. SumsOf(ledger', u) = SumsOf(ledger, u) + 0
    BY <1>1, <2>2
  <2>4. row'[u].balance \in Int /\ row'[u].balance = row[u].balance + (-1)
    BY <1>3, <1>4, <1>5
  <2>5. row'[u].balance + (IF Ahead(h, u) THEN 1 ELSE 0)
          = row[u].balance + 0 + (IF Ahead(h, u)' THEN 1 ELSE 0)
    BY <1>3, <2>1, <2>4
  <2>6. /\ CallType /\ LedgerInv /\ pc[h] # "idle" /\ Others(h) /\ u \in UsersOf(job[h])
        /\ IsFiniteSet(ledger') /\ escrow' = escrow /\ row'[u].balance \in Int
    BY <1>0, <1>1, <1>2, <1>3, <2>4
  <2> QED
    BY ONLY <2>6, <2>3, <2>5, OneSettles, h \in Handlers, u \in Users, 0 \in Int
<1>12. \A v \in Users : SumsOf(ledger', v) = SumsOf(ledger, v)
  BY <1>1
<1> QED
  BY <1>0, <1>1, <1>2, <1>3, <1>5, <1>7, <1>8, <1>9, <1>10, <1>11, <1>12, WriteStep

LEMMA BothRowsSaved ==
  ASSUME NEW u \in Users, NEW v \in Users, row \in [Users -> AnyRow],
         NEW a \in Int, NEW b \in Int,
         row' = [[row EXCEPT ![u].balance = a] EXCEPT ![v].balance = b]
  PROVE  /\ row' \in [Users -> AnyRow] /\ row'[v].balance = b
         /\ u # v => row'[u].balance = a
         /\ \A x \in Users : x # u /\ x # v => row'[x] = row[x]
<1>1. \A x \in Users : row[x] \in AnyRow /\ [row[x] EXCEPT !.balance = a] \in AnyRow
                       /\ [row[x] EXCEPT !.balance = b] \in AnyRow
                       /\ [row[x] EXCEPT !.balance = a].balance = a
                       /\ [row[x] EXCEPT !.balance = b].balance = b
  BY DEF AnyRow
<1>3. PICK sent : sent = [row EXCEPT ![u].balance = a]
  OBVIOUS
<1>4. /\ sent \in [Users -> AnyRow] /\ sent[u].balance = a
      /\ \A x \in Users \ {u} : sent[x] = row[x]
  BY <1>1, <1>3
<1>5. [sent[v] EXCEPT !.balance = b] \in AnyRow /\ [sent[v] EXCEPT !.balance = b].balance = b
  BY <1>4 DEF AnyRow
<1>2. row' = [sent EXCEPT ![v] = [sent[v] EXCEPT !.balance = b]]
  BY <1>3
<1> HIDE DEF AnyRow
<1> QED
  BY <1>2, <1>4, <1>5

(* The transaction of a transfer, from one wallet to another or to itself. *)
LEMMA TransferWrites ==
  ASSUME CallType, LedgerInv, NEW h \in Handlers, TransferCommit(h)
  PROVE  LedgerInv'
<1> USE DEF tables
<1>0. PICK t \in Transfers, u \in Users, v \in Users :
        t = job[h].ref /\ u = Owner[t] /\ v = To[t] /\ UsersOf(job[h]) = {u, v}
  BY UsersOfCall DEF TransferCommit, At, CallType, Fits
<1>1. /\ job[h].op = "transfer" /\ pc[h] = "commit" /\ wallets' = wallets \cup {v}
      /\ row' = [[row EXCEPT ![u].balance = mine[h].balance - 1] EXCEPT
                   ![v].balance = row[v].balance + 1]
      /\ ledger' = ledger \cup {<<"TRANSFER", t>>}
      /\ credited' = [credited EXCEPT ![t] = @ + 1]
      /\ Unlock(h) /\ Goto(h, "forgetFrom") /\ UNCHANGED <<escrow, mine>>
  BY <1>0 DEF TransferCommit, At
<1>2. pc'[h] = "forgetFrom" /\ job' = job /\ Others(h)
  BY <1>1, GotoMoves DEF Labels
<1>3. /\ row \in [Users -> AnyRow] /\ mine \in [Handlers -> AnyRow] /\ mine[h] \in AnyRow
      /\ Place(h) /\ wallets \subseteq Users /\ IsFiniteSet(ledger) /\ TransfersDiffer
      /\ row[u].balance \in Int /\ row[v].balance \in Int
  BY DEF LedgerInv, AnyRow
<1>4. /\ u \in wallets /\ mine[h].balance = row[u].balance + 0 /\ rowLock[u] = h /\ rowLock[v] = h
      /\ <<"TRANSFER", t>> \notin ledger
  BY <1>0, <1>1, <1>3 DEF Place, Entry
<1>6. /\ row' \in [Users -> AnyRow] /\ (u # v => row'[u].balance = row[u].balance - 1)
      /\ row'[v].balance = row[v].balance + 1
      /\ \A x \in Users : x # u /\ x # v => row'[x] = row[x]
  <2>1. PICK a \in Int, b \in Int : a = mine[h].balance - 1 /\ b = row[v].balance + 1
    BY <1>3, <1>4
  <2>2. row' = [[row EXCEPT ![u].balance = a] EXCEPT ![v].balance = b]
    BY <1>1, <2>1
  <2>3. a = row[u].balance - 1
    BY <1>3, <1>4, <2>1
  <2>4. /\ row' \in [Users -> AnyRow] /\ (u # v => row'[u].balance = a) /\ row'[v].balance = b
        /\ \A x \in Users : x # u /\ x # v => row'[x] = row[x]
    <3>1. row \in [Users -> AnyRow]
      BY <1>3
    <3> QED
      BY ONLY <3>1, <2>2, BothRowsSaved, a \in Int, b \in Int, u \in Users, v \in Users
  <2> QED
    BY <2>1, <2>3, <2>4
<1>7. /\ rowLock' \in [Users -> Handlers \cup {None}]
      /\ \A g \in Handlers : g # h => \A x \in Users : rowLock[x] = g => rowLock'[x] = g
  BY <1>1, UnlockedRows
<1>8. IsFiniteSet(ledger')
  BY <1>1, <1>3, FS_AddElement
<1>9. \A type, r : Entry(type, r)' <=> (Entry(type, r) \/ (type = "TRANSFER" /\ r = t))
  BY <1>1 DEF Entry
<1>10. Touches(h)
  <2>1. \A x \in Users : row'[x].balance # row[x].balance =>
          x \in UsersOf(job[h]) /\ (job[h].op = "transfer" => rowLock[x] = h)
    BY <1>0, <1>4, <1>6
  <2> QED
    BY <1>0, <1>1, <1>2, <1>7, <1>9, <2>1 DEF Touches
<1>11. Place(h)'
  BY <1>1, <1>2 DEF Place
<1>12. \A x \in Transfers : Entry("TRANSFER", x)' => credited'[x] # 0
  <2> SUFFICES ASSUME NEW x \in Transfers, Entry("TRANSFER", x)' PROVE credited'[x] # 0
    OBVIOUS
  <2>1. x \in Refs /\ credited \in [Refs -> Nat]
    BY FundsFacts DEF CallType
  <2>2. CASE x = t
    BY <1>1, <2>1, <2>2
  <2>3. CASE x # t
    BY <1>1, <1>3, <1>9, <2>1, <2>3 DEF TransfersDiffer
  <2> QED
    BY <2>2, <2>3
<1>13. \A x \in Users : /\ SumsOf(ledger, x) \in Int
                        /\ SumsOf(ledger', x) = SumsOf(ledger, x) + Moves("TRANSFER", t, x)
  BY <1>1, <1>3, <1>4, SumsGrow
<1>14. \A x \in Users : Moves("TRANSFER", t, x) = IF x = v THEN 1 ELSE IF x = u THEN -1 ELSE 0
  BY <1>0 DEF Moves
<1>15. /\ pc[h] # "idle" /\ escrow' = escrow
       /\ \A x \in {u, v} : ~ Ahead(h, x) /\ ~ Ahead(h, x)'
  BY <1>1, <1>2 DEF Ahead, At
<1>16. u # v => Settled(u)'
  <2> SUFFICES ASSUME u # v PROVE Settled(u)'
    OBVIOUS
  <2>1. SumsOf(ledger', u) = SumsOf(ledger, u) + (-1)
    BY <1>13, <1>14
  <2>2. row'[u].balance + (IF Ahead(h, u) THEN 1 ELSE 0)
          = row[u].balance + (-1) + (IF Ahead(h, u)' THEN 1 ELSE 0)
    BY <1>3, <1>6, <1>15
  <2>3. row'[u].balance \in Int /\ u \in UsersOf(job[h])
    BY <1>0, <1>3, <1>6
  <2> QED
    BY ONLY <1>2, <1>8, <1>15, <2>1, <2>2, <2>3, CallType, LedgerInv, OneSettles,
            h \in Handlers, u \in Users, -1 \in Int
<1>17. Settled(v)'
  <2>1. SumsOf(ledger', v) = SumsOf(ledger, v) + 1
    BY <1>13, <1>14
  <2>2. row'[v].balance + (IF Ahead(h, v) THEN 1 ELSE 0)
          = row[v].balance + 1 + (IF Ahead(h, v)' THEN 1 ELSE 0)
    BY <1>3, <1>6, <1>15
  <2>3. row'[v].balance \in Int /\ v \in UsersOf(job[h])
    BY <1>0, <1>3, <1>6
  <2> QED
    BY ONLY <1>2, <1>8, <1>15, <2>1, <2>2, <2>3, CallType, LedgerInv, OneSettles,
            h \in Handlers, v \in Users, 1 \in Int
<1>18. \A x \in Users : x \notin UsersOf(job[h]) => SumsOf(ledger', x) = SumsOf(ledger, x)
  BY <1>0, <1>13, <1>14
<1>19. \A x \in Users : x \notin wallets' => row'[x].balance = 0
  BY <1>1, <1>4, <1>6 DEF LedgerInv
<1>20. /\ mine' \in [Handlers -> AnyRow] /\ wallets' \subseteq Users
       /\ \A x \in UsersOf(job[h]) : Settled(x)'
  BY <1>0, <1>1, <1>3, <1>16, <1>17
<1> QED
  BY <1>2, <1>6, <1>7, <1>8, <1>10, <1>11, <1>12, <1>15, <1>18, <1>19, <1>20, WriteStep

----------------------------------------------------------------------------
(* Calls received, and the escrow.                                         *)

LEMMA RequestKeeps ==
  ASSUME CallType, LedgerInv, apart, NEW h \in Handlers, NEW op \in Ops,
         NEW ref \in Refs \cup Users,
         NEW label \in {"readCache", "lockFrom", "read", "find"}, Request(h, op, ref, label),
         op = "deposit" => label = "readCache",
         op = "transfer" => ref \in Transfers /\ Unused(ref)
  PROVE  LedgerInv'
<1>1. label \in Labels
  BY DEF Labels
<1>2. /\ pc'[h] = label /\ job'[h].op = op /\ job'[h].ref = ref /\ Others(h)
      /\ UNCHANGED <<wallets, row, ledger, escrow, credited>>
  BY <1>1, RequestMoves DEF tables
<1>3. pc[h] = "idle" /\ UNCHANGED <<rowLock, mine>>
  BY DEF Request
<1>4. \A type, r : Entry(type, r)' <=> Entry(type, r)
  BY <1>2 DEF Entry
<1>5. op = "transfer" => ~ Entry("TRANSFER", ref)
  BY DEF LedgerInv, TransfersDiffer, Unused
<1>6. ASSUME NEW g \in Handlers
      PROVE  Place(g)'
  <2>1. CASE g = h
    BY <1>2, <1>4, <1>5, <2>1 DEF Place, Entry
  <2>2. CASE g # h
    <3>1. pc'[g] = pc[g] /\ job'[g] = job[g]
      BY <1>2, <2>2 DEF Others
    <3> QED
      BY <1>2, <1>3, <3>1 DEF LedgerInv, Place, Entry
  <2> QED
    BY <2>1, <2>2
<1>7. Apart'
  <2>1. PICK j : j = [op |-> op, ref |-> ref]
    OBVIOUS
  <2>2. job'[h] = j /\ j.op = op
    BY <2>1 DEF Request, CallType
  <2>3. ASSUME NEW g \in Handlers, g # h, pc[g] # "idle"
        PROVE  \/ op = "transfer" /\ job[g].op = "transfer"
               \/ UsersOf(job[g]) \cap UsersOf(j) = {}
    <3> SUFFICES ASSUME NEW u, u \in UsersOf(job[g]), u \in UsersOf(j)
                 PROVE  op = "transfer" /\ job[g].op = "transfer"
      OBVIOUS
    <3>1. g \in Working(u)
      BY <2>3 DEF Working
    <3>2. {x \in UNION {Working(v) : v \in UsersOf(j)} :
             ~(op = "transfer" /\ job[x].op = "transfer")} = {}
      BY <2>1 DEF Request
    <3> QED
      BY <3>1, <3>2
  <2>4. \A g \in Handlers : g # h => pc'[g] = pc[g] /\ job'[g] = job[g]
    BY <1>2 DEF Others
  <2>5. Apart
    BY DEF LedgerInv
  <2>6. \A g, k \in Handlers : g # h /\ k # h =>
          (g # k /\ pc'[g] # "idle" /\ pc'[k] # "idle" =>
            \/ job'[g].op = "transfer" /\ job'[k].op = "transfer"
            \/ UsersOf(job'[g]) \cap UsersOf(job'[k]) = {})
    BY <2>4, <2>5 DEF Apart
  <2>7. \A g \in Handlers : g # h /\ pc'[g] # "idle" =>
            \/ job'[g].op = "transfer" /\ job'[h].op = "transfer"
            \/ UsersOf(job'[g]) \cap UsersOf(job'[h]) = {}
    BY <2>2, <2>3, <2>4
  <2> HIDE DEF UsersOf
  <2> QED
    BY <2>6, <2>7 DEF Apart
<1>8. TransfersDiffer'
  <2>1. TransfersDiffer
    BY DEF LedgerInv
  <2>2. \A g \in Handlers : g # h => job'[g] = job[g] /\ (op = "transfer" => job[g].ref # ref)
    BY <1>2 DEF Others, Unused
  <2> QED
    BY <1>2, <1>4, <2>1, <2>2 DEF TransfersDiffer
<1>9. ASSUME NEW u \in Users
      PROVE  Settled(u)'
  <2>1. ASSUME NEW g \in Handlers PROVE Ahead(g, u)' <=> Ahead(g, u)
    <3>1. CASE g = h
      BY <1>2, <1>3, <3>1 DEF Ahead, At
    <3>2. CASE g # h
      BY <1>2, <3>2, OthersAhead
    <3> QED
      BY <3>1, <3>2
  <2> QED
    BY <1>2, <2>1, SettledSame
<1> QED
  BY <1>2, <1>3, <1>6, <1>7, <1>8, <1>9 DEF LedgerInv

LEMMA ReceiveKeeps ==
  ASSUME CallType, LedgerInv, apart, NEW h \in Handlers, Receive(h)
  PROVE  LedgerInv'
<1>1. Ops = {"view", "deposit", "request", "approve", "reject", "transfer"}
  BY DEF Ops
<1>2. Payments \subseteq Refs /\ Withdrawals \subseteq Refs /\ Transfers \subseteq Refs
  BY FundsFacts
<1>3. ASSUME NEW u \in Users, AskBalance(h, u) PROVE LedgerInv'
  BY <1>1, <1>3, RequestKeeps DEF AskBalance
<1>4. ASSUME NEW p \in Payments, PaymentCompleted(h, p) PROVE LedgerInv'
  BY <1>1, <1>2, <1>4, RequestKeeps DEF PaymentCompleted
<1>5. ASSUME NEW t \in Transfers, TransferFunds(h, t) PROVE LedgerInv'
  BY <1>1, <1>2, <1>5, RequestKeeps DEF TransferFunds
<1>6. ASSUME NEW w \in Withdrawals,
             RequestWithdrawal(h, w) \/ ApproveWithdrawal(h, w) \/ RejectWithdrawal(h, w)
      PROVE  LedgerInv'
  BY <1>1, <1>2, <1>6, RequestKeeps DEF RequestWithdrawal, ApproveWithdrawal, RejectWithdrawal
<1> QED
  BY <1>3, <1>4, <1>5, <1>6 DEF Receive

(* The escrow works on a wallet that no call works on.                     *)
LEMMA EscrowStep ==
  ASSUME CallType, LedgerInv, apart, NEW u \in Users, u \in wallets,
         NEW from, NEW to \in {"none", "held", "paid"}, NEW r \in AnyRow, Escrow(u, from, to, r),
         r.balance = row[u].balance - ((IF to = "paid" THEN 1 ELSE 0) - Paid(u))
  PROVE  LedgerInv'
<1>1. /\ Working(u) = {} /\ row' = [row EXCEPT ![u] = r] /\ escrow' = [escrow EXCEPT ![u] = to]
      /\ UNCHANGED <<wallets, ledger, rowLock, credited, pc, job, mine>>
  BY DEF Escrow, control
<1>2. /\ row \in [Users -> AnyRow] /\ escrow \in [Users -> {"none", "held", "paid"}]
      /\ IsFiniteSet(ledger)
  BY DEF LedgerInv
<1>3. row' \in [Users -> AnyRow] /\ row'[u] = r /\ \A v \in Users : v # u => row'[v] = row[v]
  BY <1>1, <1>2, RowSaved
<1>4. /\ escrow' \in [Users -> {"none", "held", "paid"}] /\ escrow'[u] = to
      /\ \A v \in Users : v # u => escrow'[v] = escrow[v]
  BY <1>1, <1>2
<1>5. \A g \in Handlers : pc[g] # "idle" => u \notin UsersOf(job[g])
  BY <1>1 DEF Working
<1>6. ASSUME NEW g \in Handlers
      PROVE  Place(g)'
  <2>1. pc'[g] = pc[g] /\ job'[g] = job[g] /\ mine'[g] = mine[g] /\ wallets' = wallets
        /\ rowLock' = rowLock
    BY <1>1
  <2>2. pc[g] # "idle" /\ job[g].op \in {"deposit", "approve", "transfer"} =>
          row'[Owner[job[g].ref]] = row[Owner[job[g].ref]]
    BY <1>3, <1>5, UsersOfCall
  <2>3. \A type : Entry(type, job[g].ref)' <=> Entry(type, job[g].ref)
    BY <1>1 DEF Entry
  <2>4. Place(g)
    BY DEF LedgerInv
  <2>5. job[g].op = "transfer" => Owner[job[g].ref] \in Users /\ To[job[g].ref] \in Users
    BY UsersOfCall
  <2> QED
    BY <2>1, <2>2, <2>3, <2>4, <2>5, PlaceKept
<1>7. Apart' /\ TransfersDiffer'
  BY <1>1 DEF LedgerInv, Apart, TransfersDiffer, Entry
<1>8. \A v \in Users, g \in Handlers : Ahead(g, v)' <=> Ahead(g, v)
  BY <1>1 DEF Ahead, At
<1>9. ASSUME NEW v \in Users
      PROVE  Settled(v)'
  <2>1. PICK a \in Int : a = (IF \E g \in Handlers : Ahead(g, v) THEN 1 ELSE 0)
    OBVIOUS
  <2>2. a = (IF \E g \in Handlers : Ahead(g, v)' THEN 1 ELSE 0)
    BY <1>8, <2>1
  <2>3. Settled(v) /\ row[v].balance \in Int /\ row'[v].balance \in Int
    BY <1>2, <1>3 DEF LedgerInv, AnyRow
  <2>4. SumsOf(ledger, v) \in Int
    BY <1>2, BookedIs
  <2>5. Paid(v) \in Int /\ Paid(v)' \in Int
    BY DEF Paid
  <2>6. PICK m \in Int : m = Paid(v) - Paid(v)'
    BY <2>5
  <2>7. SumsOf(ledger', v) - Paid(v)' = SumsOf(ledger, v) - Paid(v) + m
    <3>1. SumsOf(ledger', v) = SumsOf(ledger, v)
      BY <1>1
    <3> QED
      BY <2>4, <2>5, <2>6, <3>1
  <2>8. row'[v].balance = row[v].balance + m
    <3>1. CASE v = u
      <4>1. Paid(u)' = IF to = "paid" THEN 1 ELSE 0
        BY <1>4 DEF Paid
      <4> QED
        BY <1>3, <2>3, <2>5, <2>6, <3>1, <4>1
    <3>2. CASE v # u
      <4>1. Paid(v)' = Paid(v)
        BY <1>4, <3>2 DEF Paid
      <4> QED
        BY <1>3, <2>3, <2>5, <2>6, <3>2, <4>1
    <3> QED
      BY <3>1, <3>2
  <2>9. row'[v].balance + a = row[v].balance + m + a
    BY <2>3, <2>8
  <2>10. row'[v].balance + (IF \E g \in Handlers : Ahead(g, v) THEN 1 ELSE 0)
           = row[v].balance + m + (IF \E g \in Handlers : Ahead(g, v)' THEN 1 ELSE 0)
    BY <2>1, <2>2, <2>9
  <2>11. IsFiniteSet(ledger')
    BY <1>1, <1>2
  <2> QED
    BY <1>2, <2>3, <2>7, <2>10, <2>11, SettledMoves
<1>10. \A v \in Users : v \notin wallets' => row'[v].balance = 0 /\ escrow'[v] # "held"
  BY <1>1, <1>3, <1>4 DEF LedgerInv
<1> QED
  BY <1>1, <1>2, <1>3, <1>4, <1>6, <1>7, <1>9, <1>10 DEF LedgerInv

LEMMA RowMade ==
  ASSUME NEW m \in AnyRow
  PROVE  /\ [m EXCEPT !.locked = 0] \in AnyRow /\ [m EXCEPT !.locked = 0].balance = m.balance
         /\ [m EXCEPT !.locked = 1] \in AnyRow /\ [m EXCEPT !.locked = 1].balance = m.balance
         /\ [balance |-> m.balance - 1, locked |-> 0] \in AnyRow
         /\ [balance |-> m.balance - 1, locked |-> 0].balance = m.balance - 1
BY DEF AnyRow

LEMMA EscrowKeeps ==
  ASSUME CallType, LedgerInv, apart, NEW u \in Users,
         EscrowHolds(u) \/ EscrowPays(u) \/ EscrowReturns(u)
  PROVE  LedgerInv'
<1>1. /\ u \notin wallets => escrow[u] # "held"
      /\ row[u] \in AnyRow
  BY DEF LedgerInv
<1>2. row[u].balance \in Int
  BY <1>1 DEF AnyRow
<1>3. CASE EscrowHolds(u)
  <2>0. PICK r \in AnyRow : r = [row[u] EXCEPT !.locked = 1]
    BY <1>1, RowMade
  <2>1. r = [row[u] EXCEPT !.locked = 1] /\ r.balance = row[u].balance
    BY <1>1, <2>0, RowMade
  <2>2. Escrow(u, "none", "held", r) /\ u \in wallets /\ Paid(u) = 0
    BY <1>3, <2>1 DEF EscrowHolds, Escrow, Paid
  <2>3. r.balance = row[u].balance - (0 - Paid(u))
    BY <1>2, <2>1, <2>2
  <2> QED
    BY <2>2, <2>3, EscrowStep
<1>4. CASE EscrowPays(u)
  <2>0. PICK r \in AnyRow : r = [balance |-> row[u].balance - 1, locked |-> 0]
    BY <1>1, RowMade
  <2>1. /\ r = [balance |-> row[u].balance - 1, locked |-> 0]
        /\ r.balance = row[u].balance - 1
    BY <1>1, <2>0, RowMade
  <2>2. Escrow(u, "held", "paid", r) /\ u \in wallets /\ Paid(u) = 0
    BY <1>1, <1>4, <2>1 DEF EscrowPays, Escrow, Paid
  <2>3. r.balance = row[u].balance - (1 - Paid(u))
    BY <1>2, <2>1, <2>2
  <2> QED
    BY <2>2, <2>3, EscrowStep
<1>5. CASE EscrowReturns(u)
  <2>0. PICK r \in AnyRow : r = [row[u] EXCEPT !.locked = 0]
    BY <1>1, RowMade
  <2>1. r = [row[u] EXCEPT !.locked = 0] /\ r.balance = row[u].balance
    BY <1>1, <2>0, RowMade
  <2>2. Escrow(u, "held", "none", r) /\ u \in wallets /\ Paid(u) = 0
    BY <1>1, <1>5, <2>1 DEF EscrowReturns, Escrow, Paid
  <2>3. r.balance = row[u].balance - (0 - Paid(u))
    BY <1>2, <2>1, <2>2
  <2> QED
    BY <2>2, <2>3, EscrowStep
<1> QED
  BY <1>3, <1>4, <1>5

----------------------------------------------------------------------------
(* The books of a quiet deployment.                                        *)

LEMMA QuietInit == Init => QuietInv
<1> SUFFICES ASSUME Init PROVE QuietInv
  OBVIOUS
<1>1. aborts = 0 /\ Idle.op = "none" /\ NoRow \in AnyRow /\ NoRow.balance = 0
  BY DEF Init, Idle, NoRow, AnyRow
<1>2. /\ wallets = Funded /\ ledger = {} /\ escrow = [u \in Users |-> "none"]
      /\ pc = [h \in Handlers |-> "idle"] /\ job = [h \in Handlers |-> Idle]
      /\ mine = [h \in Handlers |-> NoRow] /\ rowLock = [u \in Users |-> None]
      /\ row = [u \in Users |-> [balance |-> Opening[u], locked |-> 0]]
  BY DEF Init
<1>3. /\ Funded \subseteq Users /\ Opening \in [Users -> Nat]
      /\ \A u \in Users \ Funded : Opening[u] = 0
  BY FundsAssumption
<1>4. row \in [Users -> AnyRow] /\ \A u \in Users : row[u].balance = Opening[u]
  BY <1>2, <1>3 DEF AnyRow
<1>5. mine \in [Handlers -> AnyRow]
  BY <1>1, <1>2
<1>6. \A h \in Handlers : Place(h)
  BY <1>1, <1>2 DEF Place
<1>7. Apart
  BY <1>2 DEF Apart
<1>8. TransfersDiffer
  BY <1>1, <1>2 DEF TransfersDiffer, Entry
<1>9. IsFiniteSet(ledger)
  BY <1>2, FS_EmptySet
<1>10. ASSUME NEW u \in Users
       PROVE  Settled(u)
  <2>1. ~ \E h \in Handlers : Ahead(h, u)
    BY <1>2 DEF Ahead, At
  <2>2. Booked(u) = Opening[u] /\ Opening[u] \in Int
    <3>1. SumsOf(ledger, u) = Opening[u]
      BY <1>2, SumsNone
    <3>2. Paid(u) = 0
      BY <1>2 DEF Paid
    <3> QED
      BY <1>3, <1>9, <3>1, <3>2, BookedIs
  <2> QED
    BY <1>4, <2>1, <2>2 DEF Settled
<1>11. \A u \in Users : u \notin wallets => row[u].balance = 0 /\ escrow[u] # "held"
  BY <1>2, <1>3, <1>4
<1>12. LedgerInv
  BY <1>2, <1>3, <1>4, <1>5, <1>6, <1>7, <1>8, <1>9, <1>10, <1>11 DEF LedgerInv
<1> QED
  BY <1>1, <1>12 DEF QuietInv

LEMMA StepKeeps ==
  ASSUME CallType, LedgerInv, ~ cached, NEW h \in Handlers, Step(h)
  PROVE  LedgerInv'
<1>1. CASE ReadCache(h) \/ ReadWallet(h) \/ CreateWallet(h) \/ FillCache(h)
  BY <1>1, WalletStill
<1>2. CASE \/ DepositFind(h) \/ DepositForget(h)
           \/ DepositSaveWallet(h) \/ DepositSaveLog(h)
  BY <1>2, DepositStill, DepositWritesWallet, DepositWritesLog
<1>3. CASE \/ TransferLockSender(h) \/ TransferLockRecipient(h) \/ TransferForgetSender(h)
           \/ TransferForgetRecipient(h) \/ TransferDeadlocked(h)
  BY <1>3, TransferStill
<1>4. CASE TransferCommit(h)
  BY <1>4, TransferWrites
<1>5. CASE \/ RequestReadWallet(h) \/ RequestSave(h) \/ DecisionFind(h) \/ ApproveReadWallet(h)
           \/ DecisionSave(h) \/ DecisionTell(h)
  BY <1>5, DecisionStill
<1>6. CASE ApproveSaveLog(h)
  BY <1>6, DecisionStill, ApprovalWritesLog
<1>7. CASE ApproveSaveWallet(h)
  BY <1>7, ApprovalWritesWallet
<1> QED
  BY <1>1, <1>2, <1>3, <1>4, <1>5, <1>6, <1>7 DEF Step

LEMMA QuietStays ==
  ASSUME NEW h \in Handlers, Receive(h) \/ Step(h)
  PROVE  UNCHANGED <<aborts, apart, cached>>
<1> USE DEF deployment, bounds
<1>1. CASE Receive(h)
  BY <1>1 DEF Receive, AskBalance, PaymentCompleted, TransferFunds, RequestWithdrawal,
              ApproveWithdrawal, RejectWithdrawal, Request
<1>2. CASE \/ ReadCache(h) \/ ReadWallet(h) \/ CreateWallet(h) \/ FillCache(h)
           \/ DepositFind(h) \/ DepositForget(h)
           \/ DepositSaveWallet(h) \/ DepositSaveLog(h)
  BY <1>2 DEF ReadCache, ReadWallet, CreateWallet, FillCache, DepositFind, DepositForget,
              DepositSaveWallet, DepositSaveLog
<1>3. CASE \/ TransferLockSender(h) \/ TransferLockRecipient(h) \/ TransferForgetSender(h)
           \/ TransferForgetRecipient(h) \/ TransferDeadlocked(h) \/ TransferCommit(h)
  BY <1>3 DEF TransferLockSender, TransferLockRecipient, TransferForgetSender,
              TransferForgetRecipient, TransferDeadlocked, TransferCommit
<1>4. CASE \/ RequestReadWallet(h) \/ RequestSave(h) \/ DecisionFind(h) \/ ApproveReadWallet(h)
           \/ DecisionSave(h) \/ DecisionTell(h) \/ ApproveSaveLog(h) \/ ApproveSaveWallet(h)
  BY <1>4 DEF RequestReadWallet, RequestSave, DecisionFind, ApproveReadWallet, DecisionSave,
              DecisionTell, ApproveSaveLog, ApproveSaveWallet
<1> QED
  BY <1>1, <1>2, <1>3, <1>4 DEF Step

LEMMA LedgerSame ==
  ASSUME LedgerInv, UNCHANGED <<wallets, row, ledger, escrow, rowLock, credited, pc, job, mine>>
  PROVE  LedgerInv'
<1>1. \A h \in Handlers : Place(h)' <=> Place(h)
  BY DEF Place, Entry
<1>2. \A u \in Users : Settled(u)'
  <2> TAKE u \in Users
  <2>1. \A h \in Handlers : Ahead(h, u)' <=> Ahead(h, u)
    BY DEF Ahead, At
  <2> QED
    BY <2>1, SettledSame
<1>3. Apart' /\ TransfersDiffer'
  BY DEF LedgerInv, Apart, TransfersDiffer, Entry
<1> QED
  BY <1>1, <1>2, <1>3 DEF LedgerInv

LEMMA QuietKept == Safe /\ QuietInv /\ [Next]_vars => QuietInv'
<1> SUFFICES ASSUME Safe, QuietInv, [Next]_vars
             PROVE  QuietInv'
  OBVIOUS
<1> USE DEF tables, deployment, control, bounds
<1>1. CallType
  BY DEF Safe
<1>2. aborts \in Nat /\ (apart /\ aborts = 0 /\ ~ cached => LedgerInv)
  BY DEF QuietInv, Quiet
<1>3. ASSUME UNCHANGED <<aborts, apart, cached>>,
             apart /\ ~ cached /\ LedgerInv => LedgerInv'
      PROVE  QuietInv'
  BY <1>2, <1>3 DEF QuietInv, Quiet
<1>4. ASSUME NEW h \in Handlers, Receive(h) PROVE QuietInv'
  BY <1>1, <1>3, <1>4, QuietStays, ReceiveKeeps
<1>5. ASSUME NEW h \in Handlers, Step(h) PROVE QuietInv'
  BY <1>1, <1>3, <1>5, QuietStays, StepKeeps
<1>6. ASSUME NEW h \in Handlers, Abort(h) PROVE QuietInv'
  <2>1. aborts' = aborts + 1
    BY <1>6 DEF Abort
  <2> QED
    BY <1>2, <2>1 DEF QuietInv, Quiet
<1>7. ASSUME NEW u \in Users, CacheExpires(u) PROVE QuietInv'
  <2>1. UNCHANGED <<wallets, row, ledger, escrow, rowLock, credited, pc, job, mine>>
        /\ UNCHANGED <<aborts, apart, cached>>
    BY <1>7 DEF CacheExpires
  <2> QED
    BY <1>3, <2>1, LedgerSame
<1>8. ASSUME NEW u \in Buyers, EscrowHolds(u) \/ EscrowPays(u) \/ EscrowReturns(u)
      PROVE  QuietInv'
  <2>1. u \in Users
    BY FundsAssumption
  <2>2. UNCHANGED <<aborts, apart, cached>>
    BY <1>8 DEF EscrowHolds, EscrowPays, EscrowReturns, Escrow
  <2> QED
    BY <1>1, <1>3, <1>8, <2>1, <2>2, EscrowKeeps
<1>9. CASE UNCHANGED vars
  <2>1. UNCHANGED <<wallets, row, ledger, escrow, rowLock, credited, pc, job, mine>>
        /\ UNCHANGED <<aborts, apart, cached>>
    BY <1>9 DEF vars
  <2> QED
    BY <1>3, <2>1, LedgerSame
<1> QED
  BY <1>4, <1>5, <1>6, <1>7, <1>8, <1>9 DEF Next

(* However many deposits, transfers, withdrawals and purchases there are,  *)
(* and however transfers overlap, a wallet nobody is working on holds what *)
(* its ledger adds up to, with the cache out of the way and no call cut    *)
(* short; what users make by sending money to themselves is counted.       *)
THEOREM LedgerAlwaysAddsUp == Spec => []LedgerAddsUp
<1>1. Init => QuietInv
  BY QuietInit
<1>2. Safe /\ QuietInv /\ [Next]_vars => QuietInv'
  BY QuietKept
<1>3. Safe /\ QuietInv => LedgerAddsUp
  <2> SUFFICES ASSUME Safe, QuietInv, apart, aborts = 0, ~ cached,
                      NEW u \in Users, Working(u) = {}
               PROVE  row[u].balance = Booked(u)
    BY DEF LedgerAddsUp
  <2>1. LedgerInv /\ CallType
    BY DEF QuietInv, Quiet, Safe
  <2>2. ASSUME NEW h \in Handlers, Ahead(h, u)
        PROVE  FALSE
    <3>1. /\ pc[h] # "idle" /\ job[h].op \in {"deposit", "approve"} /\ u = Owner[job[h].ref]
      BY <2>2 DEF Ahead, At
    <3>2. u \in UsersOf(job[h])
      BY <2>1, <3>1, UsersOfCall
    <3> QED
      BY <3>1, <3>2 DEF Working
  <2>3. IsFiniteSet(ledger) /\ Settled(u)
    BY <2>1 DEF LedgerInv
  <2>4. Booked(u) \in Int
    <3>1. SumsOf(ledger, u) \in Int /\ Booked(u) = SumsOf(ledger, u) - Paid(u)
      BY <2>3, BookedIs
    <3> QED
      BY <3>1 DEF Paid
  <2> QED
    BY <2>2, <2>3, <2>4 DEF Settled
<1> QED
  BY <1>1, <1>2, <1>3, SafeHolds, PTL DEF Spec

----------------------------------------------------------------------------
(* Types.                                                                  *)

TablesType ==
  /\ wallets \subseteq Users
  /\ row \in [Users -> Row]
  /\ ledger \subseteq {"DEPOSIT", "WITHDRAWAL", "TRANSFER"} \X Refs
  /\ escrow \in [Users -> {"none", "held", "paid"}]
  /\ cache \in [Users -> Row \cup {None}]
  /\ rowLock \in [Users -> Handlers \cup {None}]
  /\ told \subseteq {"APPROVED", "REJECTED"} \X Withdrawals

(* A handler rests, or is at one call with the row it holds for it.        *)
HandlersType ==
  /\ \A h \in Handlers : IF pc[h] = "idle" THEN job[h] = Idle ELSE job[h] \in Jobs
  /\ mine \in [Handlers -> Row]

BoundsType ==
  /\ cached \in BOOLEAN /\ apart \in BOOLEAN
  /\ calls \in 0 .. MaxCalls /\ aborts \in 0 .. MaxAborts

WholeType == TablesType /\ HandlersType /\ BoundsType

LEMMA RowOf ==
  ASSUME NEW r \in Row
  PROVE  /\ r.balance + 1 \in Int /\ r.balance - 1 \in Int
         /\ \A n \in Int : [r EXCEPT !.balance = n] \in Row
         /\ [r EXCEPT !.balance = @ + 1] \in Row /\ [r EXCEPT !.balance = @ - 1] \in Row
         /\ \A n \in 0 .. 1 : [r EXCEPT !.locked = n] \in Row
BY DEF Row

LEMMA RefOf ==
  ASSUME CallType, NEW h \in Handlers
  PROVE  /\ job[h].op \in {"view", "deposit"} => UserOf(job[h].ref) \in Users
         /\ job[h].op = "deposit" => job[h].ref \in Payments
         /\ job[h].op = "transfer" => job[h].ref \in Transfers
         /\ job[h].op \in {"request", "approve", "reject"} => job[h].ref \in Withdrawals
         /\ job[h].op \in {"deposit", "transfer", "request", "approve", "reject"} =>
              job[h].ref \in Refs /\ Owner[job[h].ref] \in Users
         /\ job[h].op = "transfer" => To[job[h].ref] \in Users
BY FundsAssumption DEF FundsAssumption, CallType, Fits, Refs, UserOf

(* How a step of a call leaves its handler.                                *)
Ends(h) ==
  \/ /\ \E label \in Labels \ {"idle"} : Goto(h, label)
     /\ UNCHANGED mine \/ \E r \in Row : Hold(h, r)
  \/ Finish(h)

LEMMA HandlerEnds ==
  ASSUME CallType, HandlersType, NEW h \in Handlers, pc[h] # "idle", Ends(h)
  PROVE  HandlersType'
<1>1. NoRow \in Row
  BY DEF NoRow, Row
<1>2. mine' \in [Handlers -> Row]
  <2> HIDE DEF Row
  <2> QED
    BY <1>1 DEF HandlersType, Ends, Hold, Finish
<1>3. CASE \E label \in Labels \ {"idle"} : Goto(h, label)
  <2> HIDE DEF Jobs
  <2> QED
    BY <1>2, <1>3 DEF HandlersType, CallType, Goto
<1>4. CASE Finish(h)
  <2> HIDE DEF Jobs, Idle
  <2> QED
    BY <1>2, <1>4 DEF HandlersType, CallType, Finish
<1> QED
  BY <1>3, <1>4 DEF Ends

(* The steps that read.                                                    *)
LEMMA ReadingTypes ==
  ASSUME CallType, WholeType, NEW h \in Handlers,
         \/ ReadCache(h) \/ ReadWallet(h) \/ DepositFind(h) \/ RequestReadWallet(h)
         \/ DecisionFind(h) \/ ApproveReadWallet(h)
  PROVE  WholeType'
<1>0. /\ row \in [Users -> Row] /\ mine \in [Handlers -> Row]
      /\ cache \in [Users -> Row \cup {None}]
  BY DEF WholeType, TablesType, HandlersType
<1> HIDE DEF Row
<1>1. UNCHANGED <<tables, cache, rowLock, told, deployment, bounds>> /\ pc[h] # "idle"
  BY DEF ReadCache, ReadWallet, DepositFind, RequestReadWallet, DecisionFind, ApproveReadWallet, At
<1>2. Ends(h)
  <2>1. CASE ReadCache(h)
    <3>1. job[h].op \in {"view", "deposit"}
      BY <2>1 DEF ReadCache, CallType, Fits
    <3>2. cache[UserOf(job[h].ref)] # None => cache[UserOf(job[h].ref)] \in Row
      BY <1>0, <3>1, RefOf
    <3> QED
      BY <2>1, <3>2 DEF ReadCache, Ends, Labels
  <2>2. CASE ReadWallet(h)
    <3>1. row[UserOf(job[h].ref)] \in Row
      BY <1>0, <2>2, RefOf DEF ReadWallet
    <3> QED
      BY <2>2, <3>1 DEF ReadWallet, Ends, Labels
  <2>3. CASE DepositFind(h)
    <3>1. [mine[h] EXCEPT !.balance = @ + 1] \in Row
      BY <1>0, RowOf
    <3> QED
      BY <2>3, <3>1 DEF DepositFind, Ends, Labels
  <2>4. CASE RequestReadWallet(h)
    BY <2>4 DEF RequestReadWallet, Ends, Labels
  <2>5. CASE DecisionFind(h)
    BY <2>5 DEF DecisionFind, Ends, Labels
  <2>6. CASE ApproveReadWallet(h)
    <3>1. row[Owner[job[h].ref]] \in Row
      BY <1>0, <2>6, RefOf DEF ApproveReadWallet, At
    <3>2. [row[Owner[job[h].ref]] EXCEPT !.balance = @ - 1] \in Row
      BY <3>1, RowOf
    <3> QED
      BY <2>6, <3>2 DEF ApproveReadWallet, Ends, Labels
  <2> QED
    BY <2>1, <2>2, <2>3, <2>4, <2>5, <2>6
<1>3. HandlersType'
  BY <1>1, <1>2, HandlerEnds DEF WholeType
<1> QED
  BY <1>1, <1>3 DEF WholeType, TablesType, BoundsType, tables, deployment, bounds

(* The steps that save, but for those of a transfer.                       *)
LEMMA SavingTypes ==
  ASSUME CallType, WholeType, NEW h \in Handlers,
         \/ CreateWallet(h) \/ FillCache(h) \/ DepositSaveWallet(h) \/ DepositSaveLog(h)
         \/ DepositForget(h) \/ RequestSave(h) \/ ApproveSaveLog(h) \/ ApproveSaveWallet(h)
         \/ DecisionSave(h) \/ DecisionTell(h)
  PROVE  WholeType'
<1>0. row \in [Users -> Row] /\ mine[h] \in Row /\ cache \in [Users -> Row \cup {None}]
  BY DEF WholeType, TablesType, HandlersType
<1> HIDE DEF Row
<1>1. /\ UNCHANGED <<escrow, rowLock, deployment, bounds>> /\ pc[h] # "idle"
  BY DEF CreateWallet, FillCache, DepositSaveWallet, DepositSaveLog, DepositForget, RequestSave,
         ApproveSaveLog, ApproveSaveWallet, DecisionSave, DecisionTell, At, tables
<1>2. Ends(h)
  <2>1. NoRow \in Row
    BY DEF NoRow, Row
  <2>2. CASE CreateWallet(h) \/ FillCache(h)
    BY <2>1, <2>2 DEF CreateWallet, FillCache, Proceed, Ends, Labels
  <2>3. CASE DepositSaveWallet(h) \/ DepositSaveLog(h) \/ DepositForget(h) \/ RequestSave(h)
    BY <2>3 DEF DepositSaveWallet, DepositSaveLog, DepositForget, RequestSave, Ends, Labels
  <2>4. CASE \/ ApproveSaveLog(h) \/ ApproveSaveWallet(h) \/ DecisionSave(h) \/ DecisionTell(h)
    BY <2>4 DEF ApproveSaveLog, ApproveSaveWallet, DecisionSave, DecisionTell, Ends, Labels
  <2> QED
    BY <2>2, <2>3, <2>4
<1>3. HandlersType'
  BY <1>1, <1>2, HandlerEnds DEF WholeType
<1>4. TablesType'
  <2>1. CASE CreateWallet(h)
    <3>1. UserOf(job[h].ref) \in Users
      BY <2>1, RefOf DEF CreateWallet, CallType, Fits
    <3> QED
      BY <1>1, <2>1, <3>1 DEF CreateWallet, WholeType, TablesType
  <2>2. CASE FillCache(h)
    <3>1. cache' \in [Users -> Row \cup {None}]
      BY <1>0, <2>2 DEF FillCache
    <3> QED
      BY <1>1, <2>2, <3>1 DEF FillCache, tables, WholeType, TablesType
  <2>3. CASE DepositSaveWallet(h) \/ ApproveSaveWallet(h)
    <3>1. row' \in [Users -> Row]
      BY <1>0, <2>3 DEF DepositSaveWallet, ApproveSaveWallet
    <3> QED
      BY <1>1, <2>3, <3>1 DEF DepositSaveWallet, ApproveSaveWallet, WholeType, TablesType
  <2>4. CASE DepositSaveLog(h) \/ ApproveSaveLog(h)
    <3>1. job[h].ref \in Refs
      BY <2>4, RefOf DEF DepositSaveLog, ApproveSaveLog, At
    <3> QED
      BY <1>1, <2>4, <3>1 DEF DepositSaveLog, ApproveSaveLog, WholeType, TablesType
  <2>5. CASE DepositForget(h)
    <3>1. cache' \in [Users -> Row \cup {None}]
      BY <1>0, <2>5 DEF DepositForget
    <3> QED
      BY <1>1, <2>5, <3>1 DEF DepositForget, tables, WholeType, TablesType
  <2>6. CASE RequestSave(h) \/ DecisionSave(h)
    BY <1>1, <2>6 DEF RequestSave, DecisionSave, WholeType, TablesType
  <2>7. CASE DecisionTell(h)
    <3>1. job[h].ref \in Withdrawals /\ Decision(h) \in {"APPROVED", "REJECTED"}
      BY <2>7, RefOf DEF DecisionTell, Decision, CallType, Fits
    <3> QED
      BY <1>1, <2>7, <3>1 DEF DecisionTell, tables, WholeType, TablesType
  <2> QED
    BY <2>1, <2>2, <2>3, <2>4, <2>5, <2>6, <2>7
<1> QED
  BY <1>1, <1>3, <1>4 DEF WholeType, BoundsType, deployment, bounds

LEMMA TransferTypes ==
  ASSUME CallType, WholeType, NEW h \in Handlers,
         \/ TransferLockSender(h) \/ TransferLockRecipient(h) \/ TransferCommit(h)
         \/ TransferForgetSender(h) \/ TransferForgetRecipient(h) \/ TransferDeadlocked(h)
  PROVE  WholeType'
<1>0. /\ row \in [Users -> Row] /\ mine[h] \in Row /\ cache \in [Users -> Row \cup {None}]
      /\ rowLock \in [Users -> Handlers \cup {None}]
  BY DEF WholeType, TablesType, HandlersType
<1> HIDE DEF Row
<1>1. /\ UNCHANGED <<escrow, told, deployment, bounds>> /\ pc[h] # "idle"
      /\ job[h].op = "transfer"
  BY DEF TransferLockSender, TransferLockRecipient, TransferCommit, TransferForgetSender,
         TransferForgetRecipient, TransferDeadlocked, At, tables
<1>2. /\ job[h].ref \in Transfers /\ job[h].ref \in Refs
      /\ Owner[job[h].ref] \in Users /\ To[job[h].ref] \in Users
  BY <1>1, RefOf
<1>3. Ends(h)
  <2>1. row[Owner[job[h].ref]] \in Row
    BY <1>0, <1>2
  <2> QED
    BY <2>1 DEF TransferLockSender, TransferLockRecipient, TransferCommit, TransferForgetSender,
                TransferForgetRecipient, TransferDeadlocked, Ends, Labels
<1>4. HandlersType'
  BY <1>1, <1>3, HandlerEnds DEF WholeType
<1>5. rowLock' \in [Users -> Handlers \cup {None}]
  BY <1>0 DEF TransferLockSender, TransferLockRecipient, TransferCommit, TransferForgetSender,
              TransferForgetRecipient, TransferDeadlocked, Unlock
<1>6. cache' \in [Users -> Row \cup {None}]
  BY <1>0 DEF TransferLockSender, TransferLockRecipient, TransferCommit, TransferForgetSender,
              TransferForgetRecipient, TransferDeadlocked
<1>7. row' \in [Users -> Row]
  <2>1. CASE TransferCommit(h)
    <3> DEFINE t == job[h].ref
               sent == [row EXCEPT ![Owner[t]].balance = mine[h].balance - 1]
    <3>1. /\ \A u \in Users : row[u] \in Row /\ row[u].balance + 1 \in Int
          /\ mine[h].balance - 1 \in Int
      BY <1>0, RowOf
    <3>2. sent \in [Users -> Row]
      BY <1>0, <3>1, RowOf
    <3>3. row' = [sent EXCEPT ![To[t]].balance = row[To[t]].balance + 1]
      BY <2>1 DEF TransferCommit
    <3> HIDE DEF sent
    <3>4. [sent[To[t]] EXCEPT !.balance = row[To[t]].balance + 1] \in Row
      BY <1>2, <3>1, <3>2, RowOf
    <3> QED
      BY <3>2, <3>3, <3>4
  <2>2. CASE ~ TransferCommit(h)
    BY <1>0, <2>2 DEF TransferLockSender, TransferLockRecipient, TransferForgetSender,
                      TransferForgetRecipient, TransferDeadlocked, tables
  <2> QED
    BY <2>1, <2>2
<1>8. wallets' \subseteq Users /\ ledger' \subseteq {"DEPOSIT", "WITHDRAWAL", "TRANSFER"} \X Refs
  <2>1. CASE TransferCommit(h)
    BY <1>2, <2>1 DEF TransferCommit, WholeType, TablesType
  <2>2. CASE ~ TransferCommit(h)
    BY <2>2 DEF TransferLockSender, TransferLockRecipient, TransferForgetSender,
                TransferForgetRecipient, TransferDeadlocked, tables, WholeType, TablesType
  <2> QED
    BY <2>1, <2>2
<1> QED
  BY <1>1, <1>4, <1>5, <1>6, <1>7, <1>8
     DEF WholeType, TablesType, BoundsType, deployment, bounds

LEMMA WholeStep ==
  ASSUME CallType, WholeType, [Next]_vars
  PROVE  WholeType'
<1>0. /\ row \in [Users -> Row] /\ cache \in [Users -> Row \cup {None}]
      /\ rowLock \in [Users -> Handlers \cup {None}]
      /\ calls \in Nat /\ calls <= MaxCalls /\ aborts \in Nat /\ aborts <= MaxAborts
      /\ MaxCalls \in Nat /\ MaxAborts \in Nat
  BY FundsAssumption DEF FundsAssumption, WholeType, TablesType, BoundsType
<1>1. ASSUME NEW h \in Handlers, Receive(h)
      PROVE  WholeType'
  <2>1. PICK op \in Ops, ref \in Refs \cup Users, label \in Labels \ {"idle"} :
               Request(h, op, ref, label)
    BY <1>1 DEF Receive, AskBalance, PaymentCompleted, TransferFunds, RequestWithdrawal,
                ApproveWithdrawal, RejectWithdrawal, Ops, Labels, Refs
  <2>2. /\ pc' = [pc EXCEPT ![h] = label]
        /\ job' = [job EXCEPT ![h] = [op |-> op, ref |-> ref]]
        /\ calls < MaxCalls /\ calls' = calls + 1
        /\ UNCHANGED <<tables, cache, rowLock, told, deployment, mine, aborts>>
    BY <2>1 DEF Request
  <2>3. [op |-> op, ref |-> ref] \in Jobs
    BY DEF Jobs
  <2>4. HandlersType'
    <3> HIDE DEF Jobs, Row
    <3> QED
      BY <2>2, <2>3 DEF WholeType, HandlersType, CallType
  <2>5. calls' \in 0 .. MaxCalls
    BY <1>0, <2>2
  <2> QED
    BY <2>2, <2>4, <2>5 DEF WholeType, TablesType, BoundsType, tables, deployment
<1>2. ASSUME NEW h \in Handlers, Step(h)
      PROVE  WholeType'
  BY <1>2, ReadingTypes, SavingTypes, TransferTypes DEF Step
<1>3. ASSUME NEW h \in Handlers, Abort(h)
      PROVE  WholeType'
  <2>1. HandlersType'
    BY <1>3, HandlerEnds DEF Abort, Ends, WholeType
  <2>2. rowLock' \in [Users -> Handlers \cup {None}]
    BY <1>0, <1>3 DEF Abort, Unlock
  <2>3. aborts' \in 0 .. MaxAborts /\ UNCHANGED <<tables, cache, told, deployment, calls>>
    BY <1>0, <1>3 DEF Abort
  <2> QED
    BY <2>1, <2>2, <2>3 DEF WholeType, TablesType, BoundsType, tables, deployment
<1>4. ASSUME NEW u \in Users, CacheExpires(u)
      PROVE  WholeType'
  <2>1. cache' \in [Users -> Row \cup {None}]
    <3> HIDE DEF Row
    <3> QED
      BY <1>0, <1>4 DEF CacheExpires
  <2> QED
    BY <1>4, <2>1 DEF CacheExpires, WholeType, TablesType, HandlersType, BoundsType, tables,
                      control, deployment, bounds
<1>5. ASSUME NEW u \in Buyers, EscrowHolds(u) \/ EscrowPays(u) \/ EscrowReturns(u)
      PROVE  WholeType'
  <2>1. u \in Users /\ row[u] \in Row
    BY <1>0, FundsAssumption DEF FundsAssumption
  <2>2. PICK r \in Row, to \in {"none", "held", "paid"} :
           escrow' = [escrow EXCEPT ![u] = to] /\ row' = [row EXCEPT ![u] = r]
    <3>1. /\ [row[u] EXCEPT !.locked = 1] \in Row /\ [row[u] EXCEPT !.locked = 0] \in Row
          /\ [balance |-> row[u].balance - 1, locked |-> 0] \in Row
      BY <2>1 DEF Row
    <3> HIDE DEF Row
    <3> QED
      BY <1>5, <3>1 DEF EscrowHolds, EscrowPays, EscrowReturns, Escrow
  <2>3. UNCHANGED <<wallets, ledger, withdrawal, cache, rowLock, told, deployment, control, bounds>>
    BY <1>5 DEF EscrowHolds, EscrowPays, EscrowReturns, Escrow
  <2>4. row' \in [Users -> Row] /\ escrow' \in [Users -> {"none", "held", "paid"}]
    <3> HIDE DEF Row
    <3> QED
      BY <1>0, <2>2 DEF WholeType, TablesType
  <2> QED
    BY <2>3, <2>4 DEF WholeType, TablesType, HandlersType, BoundsType, control, deployment, bounds
<1>6. CASE UNCHANGED vars
  BY <1>6 DEF vars, tables, control, deployment, bounds, WholeType, TablesType, HandlersType,
              BoundsType
<1> QED
  BY <1>1, <1>2, <1>3, <1>4, <1>5, <1>6 DEF Next

LEMMA WholeInit == Init => WholeType
<1> SUFFICES ASSUME Init PROVE WholeType
  OBVIOUS
<1>1. NoRow \in Row /\ \A n \in Nat : [balance |-> n, locked |-> 0] \in Row
  BY DEF NoRow, Row
<1>2. TablesType
  <2> HIDE DEF Row
  <2> QED
    BY <1>1, FundsAssumption DEF FundsAssumption, Init, TablesType
<1>3. HandlersType
  <2> HIDE DEF Row
  <2> QED
    BY <1>1 DEF Init, HandlersType
<1>4. BoundsType
  BY FundsAssumption DEF FundsAssumption, Init, BoundsType
<1> QED
  BY <1>2, <1>3, <1>4 DEF WholeType

(***************************************************************************)
(* Wallets, their caches and what calls hold of them keep their types: a   *)
(* wallet has at most one purchase's amount locked, a call that failed     *)
(* leaves no handler behind, and a row is locked by a handler or nobody.   *)
(***************************************************************************)
THEOREM TypeCorrect == Spec => []TypeOK
<1>1. CallType /\ WholeType /\ [Next]_vars => WholeType'
  BY WholeStep
<1>2. Spec => []WholeType
  BY <1>1, WholeInit, SafeHolds, PTL DEF Spec, Safe
<1>3. Safe /\ WholeType => TypeOK
  <2> SUFFICES ASSUME Safe, WholeType PROVE TypeOK
    OBVIOUS
  <2>1. Idle \notin Jobs
    BY DEF Idle, Jobs, Ops
  <2>2. /\ job \in [Handlers -> Jobs \cup {Idle}]
        /\ \A h \in Handlers : pc[h] = "idle" <=> job[h] = Idle
    <3> HIDE DEF Jobs, Idle
    <3> QED
      BY <2>1 DEF Safe, CallType, WholeType, HandlersType
  <2> QED
    BY <2>2 DEF TypeOK, Safe, CallType, WholeType, TablesType, HandlersType, BoundsType
<1> QED
  BY <1>2, <1>3, SafeHolds, PTL

=============================================================================
