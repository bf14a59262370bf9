--------------------------- MODULE ReservesProofs ---------------------------
(***************************************************************************)
(* Theorems about the escrow, for every set of users, transactions and     *)
(* handlers, and every bound.                                              *)
(***************************************************************************)
EXTENDS Reserves, TLAPS

(* What a handler's bookkeeping steps leave of the typing.                 *)
HandlerTypeOK ==
  /\ pc \in [Slots -> Labels]
  /\ job \in [Slots -> [op : Ops, tx : Tx] \cup {NoJob}]
  /\ \A h \in Slots : pc[h] = "idle" <=> job[h] = NoJob
  /\ mine \in [Slots -> Row]
  /\ theirs \in [Slots -> Row]

LEMMA IdleJob == NoJob \notin [op : Ops, tx : Tx]
BY SlotAssumption DEF NoJob, Ops

LEMMA FinishType ==
  ASSUME HandlerTypeOK, NEW h \in Slots, Finish(h)
  PROVE  HandlerTypeOK'
BY IdleJob DEF HandlerTypeOK, Finish, NoRow, Row, Labels

LEMMA GotoType ==
  ASSUME HandlerTypeOK, NEW h \in Slots, pc[h] # "idle",
         NEW l \in Labels \ {"idle"}, Goto(h, l)
  PROVE  /\ pc' \in [Slots -> Labels]
         /\ job' = job
         /\ \A g \in Slots : pc'[g] = "idle" <=> job'[g] = NoJob
BY DEF HandlerTypeOK, Goto

LEMMA StartType ==
  ASSUME HandlerTypeOK, NEW h \in Slots, NEW o \in Ops, NEW t \in Tx,
         Start(h, o, t)
  PROVE  HandlerTypeOK'
BY IdleJob DEF HandlerTypeOK, Start, Labels

(* A handler that is not idle works for one of the three calls.            *)
LEMMA BusyJob ==
  ASSUME HandlerTypeOK, NEW h \in Slots, pc[h] # "idle"
  PROVE  job[h] \in [op : Ops, tx : Tx] /\ job[h].tx \in Tx
BY DEF HandlerTypeOK

LEMMA TotalType == \A S \in SUBSET Tx : Total[S] \in Nat
BY TotalAssumption

LEMMA RowOfType ==
  ASSUME balance \in [Users -> Int], locked \in [Users -> Int], NEW u \in Users
  PROVE  RowOf(u) \in Row
BY DEF RowOf, Row

LEMMA SaveRowType ==
  ASSUME balance \in [Users -> Int], locked \in [Users -> Int],
         NEW u \in Users, NEW row \in Row, SaveRow(u, row)
  PROVE  balance' \in [Users -> Int] /\ locked' \in [Users -> Int]
BY DEF SaveRow, Row

-----------------------------------------------------------------------------
(* Type correctness.                                                       *)

LEMMA TypeInit == Init => TypeOK
BY OpeningAssumption, SlotAssumption
   DEF Init, TypeOK, Status, Labels, NoRow, Row

LEMMA CrossingType ==
  ASSUME TypeOK, NEW o \in Ops, NEW t \in Tx
  PROVE  Crossing([op |-> o, tx |-> t]) \subseteq Users
<1>1. TouchesOf([op |-> o, tx |-> t]) \subseteq Users
  BY PurchaseAssumption DEF TouchesOf
<1>2. ASSUME NEW g \in Slots PROVE Touches(g) \subseteq Users
  BY BusyJob, PurchaseAssumption DEF Touches, TouchesOf, TypeOK, HandlerTypeOK
<1> QED
  BY <1>1, <1>2 DEF Crossing

(* Each action, whatever the bounds and the amounts.                       *)
LEMMA TypeStep == TypeOK /\ [Next]_vars => TypeOK'
<1> SUFFICES ASSUME TypeOK, [Next]_vars PROVE TypeOK'
  OBVIOUS
<1>cross. \A o \in Ops, t \in Tx : Crossing([op |-> o, tx |-> t]) \subseteq Users
  BY CrossingType
<1> USE DEF TypeOK, tables, history
<1>h. HandlerTypeOK
  BY DEF HandlerTypeOK
<1>job. \A h \in Slots : pc[h] # "idle" =>
          job[h].tx \in Tx /\ Buyer[job[h].tx] \in Users /\ Seller[job[h].tx] \in Users
                           /\ Amount[job[h].tx] \in Nat
  BY <1>h, BusyJob, PurchaseAssumption
<1>busy. \A h \in Slots : \A o, l : At(h, o, l) /\ l # "idle" => pc[h] # "idle"
  BY DEF At
<1>1. ASSUME NEW h \in Handlers, NEW o \in Ops, NEW t \in Tx, Request(h, o, t)
      PROVE  TypeOK'
  <2>1. HandlerTypeOK'
    BY <1>1, <1>h, StartType DEF Request, Slots
  <2>2. calls' \in [Tx -> 0 .. MaxCalls]
    BY <1>1, SlotAssumption DEF Request
  <2>3. crossed' \subseteq Users
    BY <1>1, <1>cross DEF Request, Start
  <2> QED
    BY <1>1, <2>1, <2>2, <2>3 DEF Request, HandlerTypeOK
<1>2. ASSUME NEW h \in Slots, ReserveFunds(h) PROVE TypeOK'
  <2>1. CASE ReserveFind(h)
    BY <2>1, <1>h, GotoType, FinishType DEF ReserveFind, At, Labels, HandlerTypeOK
  <2>2. CASE ReserveReadWallet(h)
    <3> DEFINE t == job[h].tx
               row == [RowOf(Buyer[t]) EXCEPT !.locked = @ + Amount[t]]
    <3>0. RowOf(Buyer[t]) \in Row /\ Amount[t] \in Int
      BY <2>2, <1>job, RowOfType DEF ReserveReadWallet, At
    <3>1. row \in Row
      BY <3>0 DEF Row
    <3> QED
      BY <2>2, <3>1, <1>h, GotoType, FinishType
         DEF ReserveReadWallet, At, Labels, HandlerTypeOK
  <2>3. CASE ReserveSaveReserve(h)
    BY <2>3, <1>h, GotoType, FinishType
       DEF ReserveSaveReserve, At, Labels, HandlerTypeOK, Status
  <2>4. CASE ReserveSaveWallet(h)
    BY <2>4, <1>h, <1>job, GotoType, SaveRowType
       DEF ReserveSaveWallet, At, Labels, HandlerTypeOK
  <2>5. CASE ReserveSaveLog(h)
    BY <2>5, <1>h, <1>job, FinishType
       DEF ReserveSaveLog, At, HandlerTypeOK, AppendLog, LogTypes
  <2> QED
    BY <1>2, <2>1, <2>2, <2>3, <2>4, <2>5 DEF ReserveFunds
<1>3. ASSUME NEW h \in Slots, ReleaseFunds(h) PROVE TypeOK'
  <2>1. CASE ReleaseFind(h)
    BY <2>1, <1>h, GotoType, FinishType DEF ReleaseFind, At, Labels, HandlerTypeOK
  <2>2. CASE ReleaseReadWallet(h)
    <3> DEFINE t == job[h].tx
               row == [RowOf(Buyer[t]) EXCEPT !.locked = @ - Amount[t]]
    <3>0. RowOf(Buyer[t]) \in Row /\ Amount[t] \in Int
      BY <2>2, <1>job, RowOfType DEF ReleaseReadWallet, At
    <3>1. row \in Row
      BY <3>0 DEF Row
    <3> QED
      BY <2>2, <3>1, <1>h, GotoType DEF ReleaseReadWallet, At, Labels, HandlerTypeOK
  <2>3. CASE ReleaseSaveReserve(h)
    BY <2>3, <1>h, GotoType
       DEF ReleaseSaveReserve, At, Labels, HandlerTypeOK, Status
  <2>4. CASE ReleaseSaveWallet(h)
    BY <2>4, <1>h, <1>job, GotoType, SaveRowType
       DEF ReleaseSaveWallet, At, Labels, HandlerTypeOK
  <2>5. CASE ReleaseSaveLog(h)
    BY <2>5, <1>h, <1>job, FinishType
       DEF ReleaseSaveLog, At, HandlerTypeOK, AppendLog, LogTypes
  <2> QED
    BY <1>3, <2>1, <2>2, <2>3, <2>4, <2>5 DEF ReleaseFunds
<1>4. ASSUME NEW h \in Slots, SettleFunds(h) PROVE TypeOK'
  <2> DEFINE t == job[h].tx
  <2>1. CASE SettleFind(h)
    BY <2>1, <1>h, GotoType, FinishType DEF SettleFind, At, Labels, HandlerTypeOK
  <2>2. CASE SettleReadWallet(h)
    <3>1. RowOf(Buyer[t]) \in Row
      BY <2>2, <1>job, RowOfType DEF SettleReadWallet, At
    <3> QED
      BY <2>2, <3>1, <1>h, GotoType DEF SettleReadWallet, At, Labels, HandlerTypeOK
  <2>3. CASE SettleRefresh(h)
    <3>1. [mine[h] EXCEPT !.locked = locked[Buyer[t]]] \in Row
      BY <2>3, <1>job DEF SettleRefresh, At, Row
    <3> QED
      BY <2>3, <3>1, <1>h, GotoType DEF SettleRefresh, At, Labels, HandlerTypeOK
  <2>4. CASE SettleReconcile(h)
    <3>1. Total[ActiveOf(Buyer[t])] \in Int
      BY TotalType DEF ActiveOf
    <3>2. [mine[h] EXCEPT !.locked = Total[ActiveOf(Buyer[t])]] \in Row
      BY <3>1 DEF Row
    <3> QED
      BY <2>4, <3>2, <1>h, GotoType, FinishType
         DEF SettleReconcile, At, Labels, HandlerTypeOK
  <2>5. CASE SettleSaveReconciled(h)
    BY <2>5, <1>h, <1>job, GotoType, FinishType, SaveRowType
       DEF SettleSaveReconciled, At, Labels, HandlerTypeOK
  <2>6. CASE SettleReadSeller(h)
    <3>1. BuyerRow(mine[h], t) \in Row /\ SellerRow(RowOf(Seller[t]), t) \in Row
      BY <2>6, <1>job, RowOfType DEF SettleReadSeller, At, Row, BuyerRow, SellerRow
    <3> QED
      BY <2>6, <3>1, <1>h, GotoType
         DEF SettleReadSeller, At, Labels, HandlerTypeOK
  <2>7. CASE SettleCreateSeller(h)
    <3>1. BuyerRow(mine[h], t) \in Row /\ SellerRow(NoRow, t) \in Row
      BY <2>7, <1>job DEF SettleCreateSeller, At, Row, BuyerRow, SellerRow, NoRow
    <3> QED
      BY <2>7, <3>1, <1>h, <1>job, GotoType, FinishType
         DEF SettleCreateSeller, At, Labels, HandlerTypeOK
  <2>8. CASE SettleSaveReserve(h)
    BY <2>8, <1>h, GotoType DEF SettleSaveReserve, At, Labels, HandlerTypeOK, Status
  <2>9. CASE SettleSaveWallet(h)
    BY <2>9, <1>h, <1>job, GotoType, SaveRowType
       DEF SettleSaveWallet, At, Labels, HandlerTypeOK
  <2>10. CASE SettleSaveSeller(h)
    BY <2>10, <1>h, <1>job, GotoType, SaveRowType
       DEF SettleSaveSeller, At, Labels, HandlerTypeOK
  <2>11. CASE SettleSaveLog(h)
    BY <2>11, <1>h, <1>job, GotoType, FinishType
       DEF SettleSaveLog, At, Labels, HandlerTypeOK, AppendLog, LogTypes
  <2>12. CASE SettleSaveSellerLog(h)
    BY <2>12, <1>h, <1>job, FinishType
       DEF SettleSaveSellerLog, At, HandlerTypeOK, AppendLog, LogTypes
  <2> QED
    BY <1>4, <2>1, <2>2, <2>3, <2>4, <2>5, <2>6, <2>7, <2>8, <2>9, <2>10,
       <2>11, <2>12 DEF SettleFunds
<1>5. ASSUME NEW h \in Slots, Abort(h) PROVE TypeOK'
  BY <1>5, <1>h, FinishType, SlotAssumption DEF Abort, HandlerTypeOK
<1>6. ASSUME NEW t \in Tx, Expire(t) PROVE TypeOK'
  BY <1>6 DEF Expire
<1>7. ASSUME NEW t \in Tx, CleanupRelease(t) PROVE TypeOK'
  <2>1. HandlerTypeOK'
    BY <1>7, <1>h, StartType DEF CleanupRelease, Slots, Ops
  <2>2. crossed' \subseteq Users
    BY <1>7, <1>cross DEF CleanupRelease, Start, Ops
  <2> QED
    BY <1>7, <2>1, <2>2 DEF CleanupRelease, HandlerTypeOK
<1>8. CASE CleanupFind
  BY <1>8 DEF CleanupFind, Expired
<1>9. CASE Crash
  BY <1>9, SlotAssumption DEF Crash, Labels, NoRow, Row
<1>10. CASE UNCHANGED vars
  BY <1>10 DEF vars
<1> QED
  BY <1>1, <1>2, <1>3, <1>4, <1>5, <1>6, <1>7, <1>8, <1>9, <1>10 DEF Next, Step

(* Every table, handler and bound keeps its type, in every interleaving    *)
(* of reserveFunds, releaseFunds, settleFunds, the cleanup and crashes.    *)
THEOREM TypeCorrect == Spec => []TypeOK
<1>1. Init => TypeOK
  BY TypeInit
<1>2. TypeOK /\ [Next]_vars => TypeOK'
  BY TypeStep
<1> QED
  BY <1>1, <1>2, PTL DEF Spec

-----------------------------------------------------------------------------
(* Safety of every interleaving.  LockAppliedOnce and LogFollowsTables are *)
(* not inductive alone: what makes them so is what a handler knows from    *)
(* the saves it has behind it.                                             *)

Done == {"RELEASED", "SETTLED"}

Locking(h) == At(h, "reserve", "saveWallet") \/ At(h, "reserve", "saveLog")

HasClosed(h) ==
  \/ At(h, "release", "saveWallet") \/ At(h, "release", "saveLog")
  \/ At(h, "settle", "saveWallet") \/ At(h, "settle", "saveSeller")
  \/ At(h, "settle", "saveLog") \/ At(h, "settle", "saveSellerLog")

HasSeller(h) ==
  \/ At(h, "settle", "saveReserve") \/ At(h, "settle", "saveWallet")
  \/ At(h, "settle", "saveSeller") \/ At(h, "settle", "saveLog")
  \/ At(h, "settle", "saveSellerLog")

LockerKnows(h) ==
  Locking(h) => /\ reserve[job[h].tx] # "NONE"
                /\ <<"RESERVE", job[h].tx>> \notin log

CloserKnows(h) ==
  /\ HasClosed(h) => reserve[job[h].tx] \in Done
  /\ HasSeller(h) => Seller[job[h].tx] \in wallets
  /\ At(h, "settle", "saveSellerLog") => <<"SETTLE_OUT", job[h].tx>> \in log

LogInv ==
  \A t \in Tx :
    /\ <<"RESERVE", t>> \in log => reserve[t] # "NONE"
    /\ <<"RELEASE", t>> \in log => reserve[t] \in Done
    /\ <<"SETTLE_OUT", t>> \in log => reserve[t] \in Done
    /\ <<"SETTLE_IN", t>> \in log =>
         <<"SETTLE_OUT", t>> \in log /\ Seller[t] \in wallets

OneLocker ==
  \A g, h \in Slots :
    Locking(g) /\ Locking(h) /\ job[g].tx = job[h].tx => g = h

SafetyInv ==
  /\ \A h \in Slots : LockerKnows(h) /\ CloserKnows(h)
  /\ OneLocker
  /\ LogInv

(* A step that leaves the tables alone keeps the invariant if its handler  *)
(* gains no claim; most steps are of this kind.                            *)
NoClaim(h) == ~Locking(h) /\ ~HasClosed(h) /\ ~HasSeller(h)

LEMMA FinishedHasNoClaim ==
  ASSUME TypeOK, NEW h \in Slots, Finish(h)
  PROVE  /\ NoClaim(h)'
         /\ \A g \in Slots \ {h} : pc'[g] = pc[g] /\ job'[g] = job[g]
BY DEF TypeOK, Finish, NoClaim, Locking, HasClosed, HasSeller, At, NoJob

LEMMA OthersKeepStanding ==
  ASSUME NEW h \in Slots,
         \A g \in Slots \ {h} : pc'[g] = pc[g] /\ job'[g] = job[g]
  PROVE  \A g \in Slots \ {h} :
           /\ Locking(g)' <=> Locking(g)
           /\ HasClosed(g)' <=> HasClosed(g)
           /\ HasSeller(g)' <=> HasSeller(g)
           /\ At(g, "settle", "saveSellerLog")' <=> At(g, "settle", "saveSellerLog")
BY DEF Locking, HasClosed, HasSeller, At

LEMMA QuietStep ==
  ASSUME TypeOK, SafetyInv, NEW h \in Slots,
         \A g \in Slots \ {h} : pc'[g] = pc[g] /\ job'[g] = job[g],
         wallets' = wallets, reserve' = reserve, log' = log, NoClaim(h)'
  PROVE  SafetyInv'
<1>1. \A g \in Slots \ {h} : LockerKnows(g)' /\ CloserKnows(g)'
  BY OthersKeepStanding DEF SafetyInv, LockerKnows, CloserKnows
<1>2. LockerKnows(h)' /\ CloserKnows(h)'
  BY DEF NoClaim, LockerKnows, CloserKnows, HasSeller
<1>3. OneLocker'
  BY OthersKeepStanding DEF SafetyInv, OneLocker, NoClaim
<1>4. LogInv'
  BY DEF SafetyInv, LogInv
<1> QED
  BY <1>1, <1>2, <1>3, <1>4 DEF SafetyInv

LEMMA GotoKeepsOthers ==
  ASSUME TypeOK, NEW h \in Slots, NEW l, Goto(h, l)
  PROVE  /\ \A g \in Slots \ {h} : pc'[g] = pc[g] /\ job'[g] = job[g]
         /\ pc'[h] = l /\ job'[h] = job[h]
BY DEF TypeOK, Goto

LEMMA StartIsQuiet ==
  ASSUME TypeOK, NEW h \in Slots, NEW o, NEW t, Start(h, o, t)
  PROVE  /\ \A g \in Slots \ {h} : pc'[g] = pc[g] /\ job'[g] = job[g]
         /\ NoClaim(h)'
BY DEF TypeOK, Start, NoClaim, Locking, HasClosed, HasSeller, At

LEMMA SafetyInit == Init => SafetyInv
BY DEF Init, SafetyInv, LockerKnows, CloserKnows, OneLocker, LogInv, Locking,
       HasClosed, HasSeller, At, NoJob

LEMMA ReserveKeepsSafety ==
  ASSUME TypeOK, SafetyInv, NEW h \in Slots, ReserveFunds(h)
  PROVE  SafetyInv'
<1> USE DEF tables, history
<1>1. CASE ReserveFind(h)
  <2>1. NoClaim(h)'
    BY <1>1, FinishedHasNoClaim, GotoKeepsOthers
       DEF ReserveFind, At, NoClaim, Locking, HasClosed, HasSeller
  <2> QED
    BY <1>1, <2>1, QuietStep, FinishedHasNoClaim, GotoKeepsOthers DEF ReserveFind
<1>2. CASE ReserveReadWallet(h)
  <2>1. NoClaim(h)'
    BY <1>2, FinishedHasNoClaim, GotoKeepsOthers
       DEF ReserveReadWallet, At, NoClaim, Locking, HasClosed, HasSeller
  <2> QED
    BY <1>2, <2>1, QuietStep, FinishedHasNoClaim, GotoKeepsOthers
       DEF ReserveReadWallet
<1>3. CASE ReserveSaveReserve(h)
  <2> DEFINE t == job[h].tx
  <2>1. CASE ~MayInsert(t)
    BY <1>3, <2>1, QuietStep, FinishedHasNoClaim DEF ReserveSaveReserve
  <2>2. CASE MayInsert(t)
    <3>1. /\ reserve[t] = "NONE" /\ t \in Tx
          /\ reserve' = [reserve EXCEPT ![t] = "ACTIVE"]
          /\ wallets' = wallets /\ log' = log
          /\ pc'[h] = "saveWallet" /\ job'[h] = job[h] /\ job[h].op = "reserve"
          /\ \A g \in Slots \ {h} : pc'[g] = pc[g] /\ job'[g] = job[g]
      BY <1>3, <2>2, GotoKeepsOthers
         DEF ReserveSaveReserve, MayInsert, At, TypeOK, NoJob
    <3>2. /\ reserve'[t] = "ACTIVE"
          /\ \A s \in Tx \ {t} : reserve'[s] = reserve[s]
      BY <3>1 DEF TypeOK
    <3>3. \A g \in Slots : (Locking(g) \/ HasClosed(g)) => job[g].tx \in Tx \ {t}
      <4>1. \A g \in Slots : (Locking(g) \/ HasClosed(g)) => job[g].tx \in Tx
        BY DEF TypeOK, Locking, HasClosed, At, NoJob
      <4> QED
        BY <4>1, <3>1 DEF SafetyInv, LockerKnows, CloserKnows, Done
    <3>4. <<"RESERVE", t>> \notin log /\ <<"RELEASE", t>> \notin log
             /\ <<"SETTLE_OUT", t>> \notin log
      BY <3>1 DEF SafetyInv, LogInv, Done
    <3>5. \A g \in Slots \ {h} : LockerKnows(g)' /\ CloserKnows(g)'
      BY <3>1, <3>2, <3>3, OthersKeepStanding DEF SafetyInv, LockerKnows, CloserKnows
    <3>6. LockerKnows(h)' /\ CloserKnows(h)'
      BY <3>1, <3>2, <3>4 DEF LockerKnows, CloserKnows, HasClosed, HasSeller, At
    <3>7. OneLocker'
      BY <3>1, <3>3, OthersKeepStanding DEF SafetyInv, OneLocker
    <3>8. LogInv'
      BY <3>1, <3>2, <3>4 DEF SafetyInv, LogInv
    <3> QED
      BY <3>5, <3>6, <3>7, <3>8 DEF SafetyInv
  <2> QED
    BY <2>1, <2>2
<1>4. CASE ReserveSaveWallet(h)
  <2>1. /\ pc'[h] = "saveLog" /\ job'[h] = job[h] /\ Locking(h)
        /\ job[h].op = "reserve"
        /\ wallets' = wallets /\ reserve' = reserve /\ log' = log
        /\ \A g \in Slots \ {h} : pc'[g] = pc[g] /\ job'[g] = job[g]
    BY <1>4, GotoKeepsOthers DEF ReserveSaveWallet, Locking, At
  <2>2. \A g \in Slots \ {h} : LockerKnows(g)' /\ CloserKnows(g)'
    BY <2>1, OthersKeepStanding DEF SafetyInv, LockerKnows, CloserKnows
  <2>3. LockerKnows(h)' /\ CloserKnows(h)'
    BY <2>1 DEF SafetyInv, LockerKnows, CloserKnows, HasClosed, HasSeller, At
  <2>4. OneLocker'
    BY <2>1, OthersKeepStanding DEF SafetyInv, OneLocker
  <2>5. LogInv'
    BY <2>1 DEF SafetyInv, LogInv
  <2> QED
    BY <2>2, <2>3, <2>4, <2>5 DEF SafetyInv
<1>5. CASE ReserveSaveLog(h)
  <2> DEFINE t == job[h].tx
  <2>1. /\ Locking(h) /\ NoClaim(h)' /\ t \in Tx
        /\ wallets' = wallets /\ reserve' = reserve
        /\ log' = log \cup {<<"RESERVE", t>>}
        /\ \A g \in Slots \ {h} : pc'[g] = pc[g] /\ job'[g] = job[g]
    BY <1>5, FinishedHasNoClaim DEF ReserveSaveLog, Locking, At, AppendLog, TypeOK, NoJob
  <2>2. \A g \in Slots \ {h} : LockerKnows(g)' /\ CloserKnows(g)'
    BY <2>1, OthersKeepStanding DEF SafetyInv, LockerKnows, CloserKnows, OneLocker
  <2>3. LockerKnows(h)' /\ CloserKnows(h)'
    BY <2>1 DEF NoClaim, LockerKnows, CloserKnows, HasSeller
  <2>4. OneLocker'
    BY <2>1, OthersKeepStanding DEF SafetyInv, OneLocker, NoClaim
  <2>5. LogInv'
    BY <2>1 DEF SafetyInv, LogInv, LockerKnows
  <2> QED
    BY <2>2, <2>3, <2>4, <2>5 DEF SafetyInv
<1> QED
  BY <1>1, <1>2, <1>3, <1>4, <1>5 DEF ReserveFunds

(* releaseFunds and settleFunds only ever close reserves, add sellers and  *)
(* append records, which takes nothing away from the other handlers.       *)
LEMMA ClosingStep ==
  ASSUME TypeOK, SafetyInv, NEW h \in Slots,
         \A g \in Slots \ {h} : pc'[g] = pc[g] /\ job'[g] = job[g],
         wallets \subseteq wallets',
         log \subseteq log',
         \A t : <<"RESERVE", t>> \in log' => <<"RESERVE", t>> \in log,
         \A t \in Tx : reserve'[t] = reserve[t] \/ reserve'[t] \in Done,
         ~Locking(h)'
  PROVE  /\ \A g \in Slots \ {h} : LockerKnows(g)' /\ CloserKnows(g)'
         /\ LockerKnows(h)'
         /\ OneLocker'
<1>1. \A g \in Slots : Locking(g) \/ HasClosed(g) \/ HasSeller(g) => job[g].tx \in Tx
  BY DEF TypeOK, Locking, HasClosed, HasSeller, At, NoJob
<1>2. \A g \in Slots \ {h} : LockerKnows(g)'
  BY <1>1, OthersKeepStanding DEF SafetyInv, LockerKnows, Done
<1>3. \A g \in Slots \ {h} : CloserKnows(g)'
  BY <1>1, OthersKeepStanding DEF SafetyInv, CloserKnows, Done
<1>4. LockerKnows(h)'
  BY DEF LockerKnows
<1>5. OneLocker'
  BY OthersKeepStanding DEF SafetyInv, OneLocker
<1> QED
  BY <1>2, <1>3, <1>4, <1>5

LEMMA ReleaseKeepsSafety ==
  ASSUME TypeOK, SafetyInv, NEW h \in Slots, ReleaseFunds(h)
  PROVE  SafetyInv'
<1> USE DEF tables, history
<1> DEFINE t == job[h].tx
<1>1. CASE ReleaseFind(h)
  <2>1. NoClaim(h)'
    BY <1>1, FinishedHasNoClaim, GotoKeepsOthers
       DEF ReleaseFind, At, NoClaim, Locking, HasClosed, HasSeller
  <2> QED
    BY <1>1, <2>1, QuietStep, FinishedHasNoClaim, GotoKeepsOthers DEF ReleaseFind
<1>2. CASE ReleaseReadWallet(h)
  <2>1. NoClaim(h)'
    BY <1>2, GotoKeepsOthers
       DEF ReleaseReadWallet, At, NoClaim, Locking, HasClosed, HasSeller
  <2> QED
    BY <1>2, <2>1, QuietStep, GotoKeepsOthers DEF ReleaseReadWallet
<1>3. CASE ReleaseSaveReserve(h)
  <2>1. /\ t \in Tx /\ job[h].op = "release" /\ pc'[h] = "saveWallet" /\ job'[h] = job[h]
        /\ reserve' = [reserve EXCEPT ![t] = "RELEASED"]
        /\ wallets' = wallets /\ log' = log
        /\ \A g \in Slots \ {h} : pc'[g] = pc[g] /\ job'[g] = job[g]
    BY <1>3, GotoKeepsOthers DEF ReleaseSaveReserve, At, TypeOK, NoJob
  <2>2. \A s \in Tx : reserve'[s] = reserve[s] \/ reserve'[s] \in Done
    BY <2>1 DEF TypeOK, Done
  <2>3. reserve'[t] \in Done
    BY <2>1 DEF TypeOK, Done
  <2>4. ~Locking(h)' /\ CloserKnows(h)'
    BY <2>1, <2>3 DEF Locking, CloserKnows, HasClosed, HasSeller, At
  <2>5. LogInv'
    BY <2>1, <2>2 DEF SafetyInv, LogInv, Done
  <2> QED
    BY <2>1, <2>2, <2>4, <2>5, ClosingStep DEF SafetyInv
<1>4. CASE ReleaseSaveWallet(h)
  <2>1. /\ t \in Tx /\ job[h].op = "release" /\ pc'[h] = "saveLog" /\ job'[h] = job[h]
        /\ HasClosed(h)
        /\ reserve' = reserve /\ wallets' = wallets /\ log' = log
        /\ \A g \in Slots \ {h} : pc'[g] = pc[g] /\ job'[g] = job[g]
    BY <1>4, GotoKeepsOthers DEF ReleaseSaveWallet, HasClosed, At, TypeOK, NoJob
  <2>2. ~Locking(h)' /\ CloserKnows(h)'
    BY <2>1 DEF SafetyInv, Locking, CloserKnows, HasClosed, HasSeller, At
  <2>3. LogInv'
    BY <2>1 DEF SafetyInv, LogInv
  <2> QED
    BY <2>1, <2>2, <2>3, ClosingStep DEF SafetyInv
<1>5. CASE ReleaseSaveLog(h)
  <2>1. /\ t \in Tx /\ NoClaim(h)' /\ HasClosed(h)
        /\ reserve' = reserve /\ wallets' = wallets
        /\ log' = log \cup {<<"RELEASE", t>>}
        /\ \A g \in Slots \ {h} : pc'[g] = pc[g] /\ job'[g] = job[g]
    BY <1>5, FinishedHasNoClaim
       DEF ReleaseSaveLog, HasClosed, At, TypeOK, NoJob, AppendLog
  <2>2. ~Locking(h)' /\ CloserKnows(h)'
    BY <2>1 DEF NoClaim, CloserKnows, HasSeller
  <2>3. LogInv'
    BY <2>1 DEF SafetyInv, LogInv, CloserKnows
  <2> QED
    BY <2>1, <2>2, <2>3, ClosingStep DEF SafetyInv
<1> QED
  BY <1>1, <1>2, <1>3, <1>4, <1>5 DEF ReleaseFunds

LEMMA SettleKeepsSafety ==
  ASSUME TypeOK, SafetyInv, NEW h \in Slots, SettleFunds(h)
  PROVE  SafetyInv'
<1> USE DEF tables, history
<1> DEFINE t == job[h].tx
<1>1. CASE \/ SettleFind(h) \/ SettleReadWallet(h) \/ SettleRefresh(h)
           \/ SettleReconcile(h) \/ SettleSaveReconciled(h)
  <2>1. /\ NoClaim(h)' /\ wallets' = wallets /\ reserve' = reserve /\ log' = log
        /\ \A g \in Slots \ {h} : pc'[g] = pc[g] /\ job'[g] = job[g]
    <3>1. CASE SettleFind(h)
      BY <3>1, FinishedHasNoClaim, GotoKeepsOthers
         DEF SettleFind, At, NoClaim, Locking, HasClosed, HasSeller
    <3>2. CASE SettleReadWallet(h)
      BY <3>2, GotoKeepsOthers
         DEF SettleReadWallet, At, NoClaim, Locking, HasClosed, HasSeller
    <3>3. CASE SettleRefresh(h)
      BY <3>3, GotoKeepsOthers
         DEF SettleRefresh, At, NoClaim, Locking, HasClosed, HasSeller
    <3>4. CASE SettleReconcile(h)
      BY <3>4, FinishedHasNoClaim, GotoKeepsOthers
         DEF SettleReconcile, At, NoClaim, Locking, HasClosed, HasSeller
    <3>5. CASE SettleSaveReconciled(h)
      BY <3>5, FinishedHasNoClaim, GotoKeepsOthers
         DEF SettleSaveReconciled, At, NoClaim, Locking, HasClosed, HasSeller
    <3> QED
      BY <1>1, <3>1, <3>2, <3>3, <3>4, <3>5
  <2> QED
    BY <2>1, QuietStep
<1>2. CASE SettleReadSeller(h) \/ SettleCreateSeller(h)
  <2>1. CASE NoClaim(h)'
    BY <1>2, <2>1, ClosingStep, FinishedHasNoClaim, GotoKeepsOthers
       DEF SettleReadSeller, SettleCreateSeller, NoClaim, SafetyInv, CloserKnows,
           HasSeller, LogInv
  <2>2. CASE ~NoClaim(h)'
    <3>1. /\ pc'[h] = "saveReserve" /\ job'[h] = job[h] /\ job[h].op = "settle"
          /\ Seller[t] \in wallets' /\ wallets \subseteq wallets'
          /\ reserve' = reserve /\ log' = log
          /\ \A g \in Slots \ {h} : pc'[g] = pc[g] /\ job'[g] = job[g]
      BY <1>2, <2>2, FinishedHasNoClaim, GotoKeepsOthers
         DEF SettleReadSeller, SettleCreateSeller, NoClaim, Locking, HasClosed,
             HasSeller, At
    <3>2. ~Locking(h)' /\ CloserKnows(h)'
      BY <3>1 DEF Locking, CloserKnows, HasClosed, HasSeller, At
    <3>3. LogInv'
      BY <3>1 DEF SafetyInv, LogInv
    <3> QED
      BY <3>1, <3>2, <3>3, ClosingStep DEF SafetyInv
  <2> QED
    BY <2>1, <2>2
<1>3. CASE SettleSaveReserve(h)
  <2>1. /\ t \in Tx /\ job[h].op = "settle" /\ pc'[h] = "saveWallet" /\ job'[h] = job[h]
        /\ HasSeller(h)
        /\ reserve' = [reserve EXCEPT ![t] = "SETTLED"]
        /\ wallets' = wallets /\ log' = log
        /\ \A g \in Slots \ {h} : pc'[g] = pc[g] /\ job'[g] = job[g]
    BY <1>3, GotoKeepsOthers DEF SettleSaveReserve, At, HasSeller, TypeOK, NoJob
  <2>2. \A s \in Tx : reserve'[s] = reserve[s] \/ reserve'[s] \in Done
    BY <2>1 DEF TypeOK, Done
  <2>3. reserve'[t] \in Done
    BY <2>1 DEF TypeOK, Done
  <2>4. ~Locking(h)' /\ CloserKnows(h)'
    BY <2>1, <2>3 DEF SafetyInv, Locking, CloserKnows, HasClosed, HasSeller, At
  <2>5. LogInv'
    BY <2>1, <2>2 DEF SafetyInv, LogInv, Done
  <2> QED
    BY <2>1, <2>2, <2>4, <2>5, ClosingStep DEF SafetyInv
<1>4. CASE SettleSaveWallet(h) \/ SettleSaveSeller(h)
  <2>1. /\ job[h].op = "settle" /\ job'[h] = job[h] /\ HasClosed(h) /\ HasSeller(h)
        /\ pc'[h] \in {"saveSeller", "saveLog"}
        /\ reserve' = reserve /\ wallets' = wallets /\ log' = log
        /\ \A g \in Slots \ {h} : pc'[g] = pc[g] /\ job'[g] = job[g]
    BY <1>4, GotoKeepsOthers
       DEF SettleSaveWallet, SettleSaveSeller, HasClosed, HasSeller, At
  <2>2. ~Locking(h)' /\ CloserKnows(h)'
    BY <2>1 DEF SafetyInv, Locking, CloserKnows, HasClosed, HasSeller, At
  <2>3. LogInv'
    BY <2>1 DEF SafetyInv, LogInv
  <2> QED
    BY <2>1, <2>2, <2>3, ClosingStep DEF SafetyInv
<1>5. CASE SettleSaveLog(h)
  <2>1. /\ t \in Tx /\ job[h].op = "settle" /\ HasClosed(h) /\ HasSeller(h)
        /\ reserve' = reserve /\ wallets' = wallets
        /\ log' = log \cup {<<"SETTLE_OUT", t>>}
        /\ \/ NoClaim(h)'
           \/ pc'[h] = "saveSellerLog" /\ job'[h] = job[h]
        /\ \A g \in Slots \ {h} : pc'[g] = pc[g] /\ job'[g] = job[g]
    BY <1>5, FinishedHasNoClaim, GotoKeepsOthers
       DEF SettleSaveLog, HasClosed, HasSeller, At, TypeOK, NoJob, AppendLog
  <2>2. ~Locking(h)' /\ CloserKnows(h)'
    BY <2>1 DEF SafetyInv, Locking, CloserKnows, HasClosed, HasSeller, At, NoClaim
  <2>3. LogInv'
    BY <2>1 DEF SafetyInv, LogInv, CloserKnows
  <2> QED
    BY <2>1, <2>2, <2>3, ClosingStep DEF SafetyInv
<1>6. CASE SettleSaveSellerLog(h)
  <2>1. /\ t \in Tx /\ HasSeller(h) /\ NoClaim(h)'
        /\ <<"SETTLE_OUT", t>> \in log
        /\ reserve' = reserve /\ wallets' = wallets
        /\ log' = log \cup {<<"SETTLE_IN", t>>}
        /\ \A g \in Slots \ {h} : pc'[g] = pc[g] /\ job'[g] = job[g]
    BY <1>6, FinishedHasNoClaim
       DEF SettleSaveSellerLog, HasSeller, At, TypeOK, NoJob, AppendLog,
           SafetyInv, CloserKnows
  <2>2. ~Locking(h)' /\ CloserKnows(h)'
    BY <2>1 DEF NoClaim, CloserKnows, HasSeller
  <2>3. LogInv'
    BY <2>1 DEF SafetyInv, LogInv, CloserKnows
  <2> QED
    BY <2>1, <2>2, <2>3, ClosingStep DEF SafetyInv
<1> QED
  BY <1>1, <1>2, <1>3, <1>4, <1>5, <1>6 DEF SettleFunds

LEMMA SafetyStep == TypeOK /\ SafetyInv /\ [Next]_vars => SafetyInv'
<1> SUFFICES ASSUME TypeOK, SafetyInv, [Next]_vars PROVE SafetyInv'
  OBVIOUS
<1> USE DEF tables, history
<1>1. ASSUME NEW h \in Handlers, NEW o \in Ops, NEW t \in Tx, Request(h, o, t)
      PROVE  SafetyInv'
  BY <1>1, StartIsQuiet, QuietStep DEF Request, Slots
<1>2. ASSUME NEW h \in Slots, Step(h) PROVE SafetyInv'
  BY <1>2, ReserveKeepsSafety, ReleaseKeepsSafety, SettleKeepsSafety DEF Step
<1>3. ASSUME NEW h \in Slots, Abort(h) PROVE SafetyInv'
  BY <1>3, FinishedHasNoClaim, QuietStep DEF Abort
<1>4. ASSUME NEW t \in Tx, CleanupRelease(t) PROVE SafetyInv'
  BY <1>4, StartIsQuiet, QuietStep DEF CleanupRelease, Slots
<1>5. CASE Crash
  BY <1>5 DEF Crash, SafetyInv, LockerKnows, CloserKnows, OneLocker, LogInv,
              Locking, HasClosed, HasSeller, At, NoJob
<1>6. CASE CleanupFind \/ (\E t \in Tx : Expire(t)) \/ UNCHANGED vars
  <2>1. /\ pc' = pc /\ job' = job
        /\ wallets' = wallets /\ reserve' = reserve /\ log' = log
    BY <1>6 DEF CleanupFind, Expire, vars
  <2> QED
    BY <2>1 DEF SafetyInv, LockerKnows, CloserKnows, OneLocker, LogInv,
                Locking, HasClosed, HasSeller, At
<1> QED
  BY <1>1, <1>2, <1>3, <1>4, <1>5, <1>6 DEF Next

LEMMA SafetyInvHolds == Spec => []SafetyInv
<1>1. Init => SafetyInv
  BY SafetyInit
<1>2. TypeOK /\ SafetyInv /\ [Next]_vars => SafetyInv'
  BY SafetyStep
<1> QED
  BY <1>1, <1>2, TypeCorrect, PTL DEF Spec

(* Only one reserveFunds call per transaction reaches the save of the      *)
(* wallet, for any number of overlapping, redelivered and crashed calls:   *)
(* the unique index makes the reserve row the lock.                        *)
THEOREM LockOnce == Spec => []LockAppliedOnce
<1>1. TypeOK /\ SafetyInv => LockAppliedOnce
  BY DEF SafetyInv, LockerKnows, OneLocker, LockAppliedOnce, Locking, At, Logged, TypeOK
<1> QED
  BY <1>1, TypeCorrect, SafetyInvHolds, PTL

(* The audit trail never runs ahead of the reserves and the wallets.       *)
THEOREM LogFollows == Spec => []LogFollowsTables
<1>1. SafetyInv => LogFollowsTables
  BY DEF SafetyInv, LogInv, LogFollowsTables, Logged, Done
<1> QED
  BY <1>1, SafetyInvHolds, PTL

(* No step makes a closed reserve ACTIVE again.                            *)
THEOREM NeverReopens == Spec => ReserveNeverReopens
<1> DEFINE Kept == \A t \in Tx : reserve[t] \in Done => reserve'[t] \in Done
<1>1. TypeOK /\ [Next]_vars => Kept
  <2> SUFFICES ASSUME TypeOK, [Next]_vars, NEW t \in Tx, reserve[t] \in Done
               PROVE  reserve'[t] \in Done
    OBVIOUS
  <2> USE DEF tables, Done, TypeOK
  <2>1. CASE reserve' = reserve
    BY <2>1
  <2>2. ASSUME NEW h \in Slots, ReserveFunds(h) PROVE reserve'[t] \in Done
    BY <2>2 DEF ReserveFunds, ReserveFind, ReserveReadWallet, ReserveSaveReserve,
                ReserveSaveWallet, ReserveSaveLog, MayInsert
  <2>3. ASSUME NEW h \in Slots, ReleaseFunds(h) PROVE reserve'[t] \in Done
    BY <2>3 DEF ReleaseFunds, ReleaseFind, ReleaseReadWallet, ReleaseSaveReserve,
                ReleaseSaveWallet, ReleaseSaveLog
  <2>4. ASSUME NEW h \in Slots, SettleFunds(h) PROVE reserve'[t] \in Done
    BY <2>4 DEF SettleFunds, SettleFind, SettleReadWallet, SettleRefresh,
                SettleReconcile, SettleSaveReconciled, SettleReadSeller,
                SettleCreateSeller, SettleSaveReserve, SettleSaveWallet,
                SettleSaveSeller, SettleSaveLog, SettleSaveSellerLog
  <2>5. (\E h \in Slots : Step(h)) \/ reserve' = reserve
    BY DEF Next, Request, Abort, Crash, Expire, CleanupFind, CleanupRelease, vars
  <2> QED
    BY <2>1, <2>2, <2>3, <2>4, <2>5 DEF Step
<1>2. Kept => [\A t \in Tx : reserve[t] \in {"RELEASED", "SETTLED"} =>
                               reserve'[t] \in {"RELEASED", "SETTLED"}]_vars
  BY DEF Done
<1> QED
  BY <1>1, <1>2, TypeCorrect, PTL DEF Spec, ReserveNeverReopens

-----------------------------------------------------------------------------
(* The books of the wallets no overlap has touched.                        *)

(* Two handlers at work on a common wallet have crossed: every wallet that *)
(* either of them touches is marked.                                       *)
AloneInv ==
  \A g, h \in Slots :
    g # h /\ Touches(g) \cap Touches(h) # {} =>
      Touches(g) \cup Touches(h) \subseteq crossed

(* A release that goes on although its reserve has been settled overlaps   *)
(* the settlement, whose seller is marked.                                 *)
LateRelease(h) ==
  /\ job[h].op = "release" /\ pc[h] \in {"readWallet", "saveReserve"}
  /\ reserve[job[h].tx] = "SETTLED"
  => Seller[job[h].tx] \in crossed

CrossInv == AloneInv /\ \A h \in Slots : LateRelease(h)

(* Only users with a wallet have money or reserves, and a handler saves    *)
(* only the rows of wallets that exist.                                    *)
HasBuyer(h) ==
  \/ job[h].op = "reserve" /\ pc[h] \in {"saveReserve", "saveWallet"}
  \/ job[h].op \in {"release", "settle"} /\ pc[h] \notin {"idle", "findReserve"}

WalletInv ==
  /\ \A u \in Users \ wallets : balance[u] = 0 /\ locked[u] = 0
  /\ \A t \in Tx : reserve[t] # "NONE" => Buyer[t] \in wallets
  /\ \A h \in Slots : HasBuyer(h) => Buyer[job[h].tx] \in wallets

(* What a handler has read is still there, if nothing crossed it.          *)
Holds(row, bal, lock) == row.balance = bal /\ row.locked = lock

ReserveKnows(h, t) ==
  LET u == Buyer[t]
  IN /\ pc[h] \in {"readWallet", "saveReserve"} => reserve[t] = "NONE"
     /\ pc[h] = "saveReserve" => balance[u] - locked[u] >= Amount[t]
     /\ pc[h] \in {"saveReserve", "saveWallet"} =>
          Holds(mine[h], balance[u], locked[u] + Amount[t])

ReleaseKnows(h, t) ==
  LET u == Buyer[t]
  IN /\ pc[h] \in {"readWallet", "saveReserve"} => reserve[t] = "ACTIVE"
     /\ pc[h] \in {"saveReserve", "saveWallet"} =>
          Holds(mine[h], balance[u], locked[u] - Amount[t])

SettleKnows(h, t) ==
  LET u == Buyer[t]
      v == Seller[t]
  IN /\ pc[h] \in {"readWallet", "refresh", "reconcile", "saveReconciled",
                   "readSeller", "createSeller", "saveReserve"} => reserve[t] = "ACTIVE"
     /\ pc[h] \in {"refresh", "reconcile", "readSeller", "createSeller"} =>
          Holds(mine[h], balance[u], locked[u])
     /\ pc[h] = "saveReconciled" => mine[h].balance = balance[u]
     /\ pc[h] \in {"saveReserve", "saveWallet"} =>
          Holds(mine[h], balance[u] - Amount[t], locked[u] - Amount[t])
     /\ pc[h] \in {"saveReserve", "saveWallet", "saveSeller"} =>
          Holds(theirs[h], balance[v] + Amount[t], locked[v])

Knows(h) ==
  /\ job[h].op = "reserve" => ReserveKnows(h, job[h].tx)
  /\ job[h].op = "release" => ReleaseKnows(h, job[h].tx)
  /\ job[h].op = "settle" => SettleKnows(h, job[h].tx)

Clean(h) == ~(Touches(h) \subseteq crossed)

(* The row of u agrees with the reserves and covers what is locked.        *)
Good(u, row) ==
  /\ row.locked = Total[ActiveOf(u)]
  /\ row.balance = Opening[u] - Total[OutOf(u)] + Total[InTo(u)]
  /\ row.locked <= row.balance

(* Until a call is cut short, each row agrees with the reserves, or will   *)
(* once the handler at work has saved it.                                  *)
Booked(h, u) == Good(u, IF u \in Pending(h) THEN PendingRow(h, u) ELSE RowOf(u))

BookInv ==
  /\ \A u \in Users \ crossed : (\A h \in Slots : u \notin Touches(h)) => Good(u, RowOf(u))
  /\ \A h \in Slots : \A u \in Touches(h) \ crossed : Booked(h, u)
  /\ \A h \in Slots : pc[h] = "saveReconciled" => Buyer[job[h].tx] \in crossed

(* The bounds of BalanceWithinRecords.                                     *)
High(u) == Opening[u] + Total[InTo(u)] - Total[OutOf(u) \cap Logged("SETTLE_OUT")]
Low(u) == Opening[u] - Total[OutOf(u)] + Total[InTo(u) \cap Logged("SETTLE_IN")]

(* A settlement under way keeps clear of them by the amount it has still   *)
(* to move or to record.                                                   *)
BuyerSlack(h, u, amount) ==
  /\ pc[h] = "saveWallet" => Low(u) <= balance[u] - amount
  /\ pc[h] \in {"saveSeller", "saveLog"} => balance[u] + amount <= High(u)

SellerSlack(h, u, amount) ==
  /\ pc[h] \in {"saveWallet", "saveSeller"} => balance[u] + amount <= High(u)
  /\ pc[h] \in {"saveLog", "saveSellerLog"} => Low(u) <= balance[u] - amount

Slack(h, t) ==
  /\ Buyer[t] \notin crossed => BuyerSlack(h, Buyer[t], Amount[t])
  /\ Seller[t] \notin crossed => SellerSlack(h, Seller[t], Amount[t])

RecordInv ==
  /\ \A u \in Users \ crossed : Low(u) <= balance[u] /\ balance[u] <= High(u)
  /\ \A h \in Slots : job[h].op = "settle" => Slack(h, job[h].tx)

EscrowInv ==
  /\ \A h \in Slots : Clean(h) => Knows(h)
  /\ aborts = 0 => BookInv
  /\ RecordInv

-----------------------------------------------------------------------------
(* Sums over the reserves, and how a step changes them.                    *)

LEMMA TotalPlus ==
  ASSUME NEW S \in SUBSET Tx, NEW t \in Tx, t \notin S
  PROVE  Total[S \cup {t}] = Total[S] + Amount[t]
BY TotalAssumption

LEMMA TotalMinus ==
  ASSUME NEW S \in SUBSET Tx, NEW t \in S
  PROVE  Total[S \ {t}] = Total[S] - Amount[t]
<1>1. S \ {t} \in SUBSET Tx /\ t \in Tx /\ t \notin S \ {t}
  OBVIOUS
<1>2. (S \ {t}) \cup {t} = S
  OBVIOUS
<1>3. Total[S] = Total[S \ {t}] + Amount[t]
  BY <1>1, <1>2, TotalPlus
<1> QED
  BY <1>1, <1>3, TotalType, PurchaseAssumption

LEMMA SumsType ==
  ASSUME NEW u \in Users, TypeOK
  PROVE  /\ Total[ActiveOf(u)] \in Nat
         /\ Total[OutOf(u)] \in Nat
         /\ Total[InTo(u)] \in Nat
         /\ Total[OutOf(u) \cap Logged("SETTLE_OUT")] \in Nat
         /\ Total[InTo(u) \cap Logged("SETTLE_IN")] \in Nat
         /\ High(u) \in Int
         /\ Low(u) \in Int
         /\ balance[u] \in Int
         /\ locked[u] \in Int
         /\ Opening[u] \in Int
<1>1. /\ ActiveOf(u) \in SUBSET Tx /\ OutOf(u) \in SUBSET Tx /\ InTo(u) \in SUBSET Tx
      /\ OutOf(u) \cap Logged("SETTLE_OUT") \in SUBSET Tx
      /\ InTo(u) \cap Logged("SETTLE_IN") \in SUBSET Tx
  BY DEF ActiveOf, OutOf, InTo
<1>2. /\ Total[ActiveOf(u)] \in Nat
      /\ Total[OutOf(u)] \in Nat
      /\ Total[InTo(u)] \in Nat
      /\ Total[OutOf(u) \cap Logged("SETTLE_OUT")] \in Nat
      /\ Total[InTo(u) \cap Logged("SETTLE_IN")] \in Nat
  BY <1>1, TotalType
<1>3. balance[u] \in Int /\ locked[u] \in Int /\ Opening[u] \in Int
  BY OpeningAssumption DEF TypeOK
<1> QED
  BY <1>2, <1>3 DEF High, Low

(* Nothing about u changes while its reserves and its records stay.        *)
LEMMA SumsKept ==
  ASSUME NEW u \in Users,
         \A s \in Tx : Buyer[s] = u =>
           /\ reserve'[s] = reserve[s]
           /\ <<"SETTLE_OUT", s>> \in log' <=> <<"SETTLE_OUT", s>> \in log,
         \A s \in Tx : Seller[s] = u =>
           /\ reserve'[s] = "SETTLED" <=> reserve[s] = "SETTLED"
           /\ <<"SETTLE_IN", s>> \in log' <=> <<"SETTLE_IN", s>> \in log
  PROVE  /\ ActiveOf(u)' = ActiveOf(u)
         /\ OutOf(u)' = OutOf(u)
         /\ InTo(u)' = InTo(u)
         /\ (OutOf(u) \cap Logged("SETTLE_OUT"))' = OutOf(u) \cap Logged("SETTLE_OUT")
         /\ (InTo(u) \cap Logged("SETTLE_IN"))' = InTo(u) \cap Logged("SETTLE_IN")
         /\ High(u)' = High(u)
         /\ Low(u)' = Low(u)
<1>1. ActiveOf(u)' = ActiveOf(u) /\ OutOf(u)' = OutOf(u) /\ InTo(u)' = InTo(u)
  BY DEF ActiveOf, OutOf, InTo
<1>2. /\ (OutOf(u) \cap Logged("SETTLE_OUT"))' = OutOf(u) \cap Logged("SETTLE_OUT")
      /\ (InTo(u) \cap Logged("SETTLE_IN"))' = InTo(u) \cap Logged("SETTLE_IN")
  BY <1>1 DEF OutOf, InTo, Logged
<1> QED
  BY <1>1, <1>2 DEF High, Low

(* reserveFunds makes t ACTIVE.                                            *)
LEMMA SumsActivated ==
  ASSUME TypeOK, NEW t \in Tx, reserve[t] = "NONE", log' = log,
         reserve' = [reserve EXCEPT ![t] = "ACTIVE"], NEW u \in Users
  PROVE  /\ Total[ActiveOf(u)'] = Total[ActiveOf(u)] + (IF u = Buyer[t] THEN Amount[t] ELSE 0)
         /\ OutOf(u)' = OutOf(u) /\ InTo(u)' = InTo(u)
         /\ High(u)' = High(u) /\ Low(u)' = Low(u)
<1>0. ActiveOf(u) \in SUBSET Tx /\ t \notin ActiveOf(u)
  BY DEF ActiveOf
<1>1. OutOf(u)' = OutOf(u) /\ InTo(u)' = InTo(u)
  BY DEF TypeOK, OutOf, InTo
<1>2. High(u)' = High(u) /\ Low(u)' = Low(u)
  BY <1>1 DEF High, Low, Logged
<1>3. CASE u = Buyer[t]
  <2>1. ActiveOf(u)' = ActiveOf(u) \cup {t}
    BY <1>3 DEF TypeOK, ActiveOf
  <2> QED
    BY <1>0, <1>1, <1>2, <1>3, <2>1, TotalPlus
<1>4. CASE u # Buyer[t]
  <2>1. ActiveOf(u)' = ActiveOf(u)
    BY <1>4 DEF TypeOK, ActiveOf
  <2> QED
    BY <1>0, <1>1, <1>2, <1>4, <2>1, TotalType
<1> QED
  BY <1>3, <1>4

(* releaseFunds gives t back.                                              *)
LEMMA SumsReleased ==
  ASSUME TypeOK, NEW t \in Tx, reserve[t] = "ACTIVE", log' = log,
         reserve' = [reserve EXCEPT ![t] = "RELEASED"], NEW u \in Users
  PROVE  /\ Total[ActiveOf(u)'] = Total[ActiveOf(u)] - (IF u = Buyer[t] THEN Amount[t] ELSE 0)
         /\ OutOf(u)' = OutOf(u) /\ InTo(u)' = InTo(u)
         /\ High(u)' = High(u) /\ Low(u)' = Low(u)
<1>0. ActiveOf(u) \in SUBSET Tx
  BY DEF ActiveOf
<1>1. OutOf(u)' = OutOf(u) /\ InTo(u)' = InTo(u)
  BY DEF TypeOK, OutOf, InTo
<1>2. High(u)' = High(u) /\ Low(u)' = Low(u)
  BY <1>1 DEF High, Low, Logged
<1>3. CASE u = Buyer[t]
  <2>1. ActiveOf(u)' = ActiveOf(u) \ {t} /\ t \in ActiveOf(u)
    BY <1>3 DEF TypeOK, ActiveOf
  <2> QED
    BY <1>0, <1>1, <1>2, <1>3, <2>1, TotalMinus
<1>4. CASE u # Buyer[t]
  <2>1. ActiveOf(u)' = ActiveOf(u)
    BY <1>4 DEF TypeOK, ActiveOf
  <2> QED
    BY <1>0, <1>1, <1>2, <1>4, <2>1, TotalType
<1> QED
  BY <1>3, <1>4

(* settleFunds moves t: the buyer's lower bound falls, the seller's upper  *)
(* bound rises, the records are still to come.                             *)
LEMMA SumsSettled ==
  ASSUME TypeOK, LogInv, NEW t \in Tx, reserve[t] = "ACTIVE", log' = log,
         reserve' = [reserve EXCEPT ![t] = "SETTLED"], NEW u \in Users
  PROVE  /\ Total[ActiveOf(u)'] = Total[ActiveOf(u)] - (IF u = Buyer[t] THEN Amount[t] ELSE 0)
         /\ Total[OutOf(u)'] = Total[OutOf(u)] + (IF u = Buyer[t] THEN Amount[t] ELSE 0)
         /\ Total[InTo(u)'] = Total[InTo(u)] + (IF u = Seller[t] THEN Amount[t] ELSE 0)
         /\ High(u)' = High(u) + (IF u = Seller[t] THEN Amount[t] ELSE 0)
         /\ Low(u)' = Low(u) - (IF u = Buyer[t] THEN Amount[t] ELSE 0)
<1>0. /\ ActiveOf(u) \in SUBSET Tx /\ OutOf(u) \in SUBSET Tx /\ InTo(u) \in SUBSET Tx
      /\ t \notin OutOf(u) /\ t \notin InTo(u)
  BY DEF ActiveOf, OutOf, InTo
<1>1. Total[ActiveOf(u)'] = Total[ActiveOf(u)] - (IF u = Buyer[t] THEN Amount[t] ELSE 0)
  <2>1. CASE u = Buyer[t]
    <3>1. ActiveOf(u)' = ActiveOf(u) \ {t} /\ t \in ActiveOf(u)
      BY <2>1 DEF TypeOK, ActiveOf
    <3> QED
      BY <1>0, <2>1, <3>1, TotalMinus
  <2>2. CASE u # Buyer[t]
    <3>1. ActiveOf(u)' = ActiveOf(u)
      BY <2>2 DEF TypeOK, ActiveOf
    <3> QED
      BY <1>0, <2>2, <3>1, TotalType
  <2> QED
    BY <2>1, <2>2
<1>2. Total[OutOf(u)'] = Total[OutOf(u)] + (IF u = Buyer[t] THEN Amount[t] ELSE 0)
  <2>1. CASE u = Buyer[t]
    <3>1. OutOf(u)' = OutOf(u) \cup {t}
      BY <2>1 DEF TypeOK, OutOf
    <3> QED
      BY <1>0, <2>1, <3>1, TotalPlus
  <2>2. CASE u # Buyer[t]
    <3>1. OutOf(u)' = OutOf(u)
      BY <2>2 DEF TypeOK, OutOf
    <3> QED
      BY <1>0, <2>2, <3>1, TotalType
  <2> QED
    BY <2>1, <2>2
<1>3. Total[InTo(u)'] = Total[InTo(u)] + (IF u = Seller[t] THEN Amount[t] ELSE 0)
  <2>1. CASE u = Seller[t]
    <3>1. InTo(u)' = InTo(u) \cup {t}
      BY <2>1 DEF TypeOK, InTo
    <3> QED
      BY <1>0, <2>1, <3>1, TotalPlus
  <2>2. CASE u # Seller[t]
    <3>1. InTo(u)' = InTo(u)
      BY <2>2 DEF TypeOK, InTo
    <3> QED
      BY <1>0, <2>2, <3>1, TotalType
  <2> QED
    BY <2>1, <2>2
<1>4. <<"SETTLE_OUT", t>> \notin log /\ <<"SETTLE_IN", t>> \notin log
  BY DEF LogInv, Done
<1>5. /\ (OutOf(u) \cap Logged("SETTLE_OUT"))' = OutOf(u) \cap Logged("SETTLE_OUT")
      /\ (InTo(u) \cap Logged("SETTLE_IN"))' = InTo(u) \cap Logged("SETTLE_IN")
  BY <1>4 DEF TypeOK, OutOf, InTo, Logged
<1>6. /\ Total[OutOf(u)] \in Nat /\ Total[InTo(u)] \in Nat /\ Opening[u] \in Nat
      /\ Total[OutOf(u) \cap Logged("SETTLE_OUT")] \in Nat
      /\ Total[InTo(u) \cap Logged("SETTLE_IN")] \in Nat
      /\ Amount[t] \in Nat
  BY SumsType, PurchaseAssumption, OpeningAssumption
<1>7. High(u)' = High(u) + (IF u = Seller[t] THEN Amount[t] ELSE 0)
  <2>1. High(u)' = Opening[u] + Total[InTo(u)'] - Total[OutOf(u) \cap Logged("SETTLE_OUT")]
    BY <1>5 DEF High
  <2>2. High(u) = Opening[u] + Total[InTo(u)] - Total[OutOf(u) \cap Logged("SETTLE_OUT")]
    BY DEF High
  <2> QED
    BY <1>3, <1>6, <2>1, <2>2
<1>8. Low(u)' = Low(u) - (IF u = Buyer[t] THEN Amount[t] ELSE 0)
  <2>1. Low(u)' = Opening[u] - Total[OutOf(u)'] + Total[InTo(u) \cap Logged("SETTLE_IN")]
    BY <1>5 DEF Low
  <2>2. Low(u) = Opening[u] - Total[OutOf(u)] + Total[InTo(u) \cap Logged("SETTLE_IN")]
    BY DEF Low
  <2> QED
    BY <1>2, <1>6, <2>1, <2>2
<1> QED
  BY <1>1, <1>2, <1>3, <1>7, <1>8

(* A record tightens the bound of its user by its amount at most.          *)
LEMMA BoundsRecorded ==
  ASSUME TypeOK, NEW t \in Tx, NEW type \in LogTypes, reserve' = reserve,
         AppendLog(type, t), NEW u \in Users
  PROVE  /\ ActiveOf(u)' = ActiveOf(u) /\ OutOf(u)' = OutOf(u) /\ InTo(u)' = InTo(u)
         /\ High(u)' <= High(u)
         /\ High(u)' >= High(u) - (IF type = "SETTLE_OUT" /\ u = Buyer[t] THEN Amount[t] ELSE 0)
         /\ Low(u)' >= Low(u)
         /\ Low(u)' <= Low(u) + (IF type = "SETTLE_IN" /\ u = Seller[t] THEN Amount[t] ELSE 0)
<1> DEFINE Out == OutOf(u) \cap Logged("SETTLE_OUT")
           In == InTo(u) \cap Logged("SETTLE_IN")
<1>0. /\ Total[OutOf(u)] \in Nat /\ Total[InTo(u)] \in Nat /\ Opening[u] \in Nat
      /\ Total[Out] \in Nat /\ Total[In] \in Nat /\ Amount[t] \in Nat
  BY SumsType, PurchaseAssumption, OpeningAssumption
<1>1. ActiveOf(u)' = ActiveOf(u) /\ OutOf(u)' = OutOf(u) /\ InTo(u)' = InTo(u)
  BY DEF ActiveOf, OutOf, InTo
<1>2. \/ (OutOf(u) \cap Logged("SETTLE_OUT"))' = Out
      \/ /\ type = "SETTLE_OUT" /\ u = Buyer[t] /\ t \notin Out
         /\ (OutOf(u) \cap Logged("SETTLE_OUT"))' = Out \cup {t}
  BY <1>1 DEF AppendLog, OutOf, Logged
<1>3. \/ (InTo(u) \cap Logged("SETTLE_IN"))' = In
      \/ /\ type = "SETTLE_IN" /\ u = Seller[t] /\ t \notin In
         /\ (InTo(u) \cap Logged("SETTLE_IN"))' = In \cup {t}
  BY <1>1 DEF AppendLog, InTo, Logged
<1>4. /\ Out \in SUBSET Tx /\ In \in SUBSET Tx
      /\ t \notin Out => Total[Out \cup {t}] = Total[Out] + Amount[t]
      /\ t \notin In => Total[In \cup {t}] = Total[In] + Amount[t]
  BY TotalPlus DEF OutOf, InTo
<1> HIDE DEF Out, In
<1>6. /\ High(u)' <= High(u)
      /\ High(u)' >= High(u) - (IF type = "SETTLE_OUT" /\ u = Buyer[t] THEN Amount[t] ELSE 0)
  <2>1. High(u) = Opening[u] + Total[InTo(u)] - Total[Out]
    BY DEF High, Out
  <2>2. CASE (OutOf(u) \cap Logged("SETTLE_OUT"))' = Out
    <3>1. High(u)' = Opening[u] + Total[InTo(u)] - Total[Out]
      BY <1>1, <2>2 DEF High
    <3> QED
      BY <1>0, <2>1, <3>1
  <2>3. CASE /\ type = "SETTLE_OUT" /\ u = Buyer[t] /\ t \notin Out
             /\ (OutOf(u) \cap Logged("SETTLE_OUT"))' = Out \cup {t}
    <3>1. High(u)' = Opening[u] + Total[InTo(u)] - Total[Out \cup {t}]
      BY <1>1, <2>3 DEF High
    <3> QED
      BY <1>0, <1>4, <2>1, <2>3, <3>1
  <2> QED
    BY <1>2, <2>2, <2>3
<1>7. /\ Low(u)' >= Low(u)
      /\ Low(u)' <= Low(u) + (IF type = "SETTLE_IN" /\ u = Seller[t] THEN Amount[t] ELSE 0)
  <2>1. Low(u) = Opening[u] - Total[OutOf(u)] + Total[In]
    BY DEF Low, In
  <2>2. CASE (InTo(u) \cap Logged("SETTLE_IN"))' = In
    <3>1. Low(u)' = Opening[u] - Total[OutOf(u)] + Total[In]
      BY <1>1, <2>2 DEF Low
    <3> QED
      BY <1>0, <2>1, <3>1
  <2>3. CASE /\ type = "SETTLE_IN" /\ u = Seller[t] /\ t \notin In
             /\ (InTo(u) \cap Logged("SETTLE_IN"))' = In \cup {t}
    <3>1. Low(u)' = Opening[u] - Total[OutOf(u)] + Total[In \cup {t}]
      BY <1>1, <2>3 DEF Low
    <3> QED
      BY <1>0, <1>4, <2>1, <2>3, <3>1
  <2> QED
    BY <1>3, <2>2, <2>3
<1> QED
  BY <1>1, <1>6, <1>7

-----------------------------------------------------------------------------
(* A step of one handler, seen by the others.                              *)

(* Slot h alone moves.                                                     *)
OthersStay(h) ==
  \A g \in Slots \ {h} : /\ pc'[g] = pc[g] /\ job'[g] = job[g]
                         /\ mine'[g] = mine[g] /\ theirs'[g] = theirs[g]

(* The handler of slot h, working on t, writes only rows of the wallets it *)
(* touches, the reserve of t and the records of t.                         *)
Frame(h, t) ==
  /\ job[h].tx = t
  /\ OthersStay(h)
  /\ job'[h] = job[h] \/ job'[h] = NoJob
  /\ Touches(h)' \subseteq Touches(h)
  /\ crossed' = crossed
  /\ \A u \in Users \ Touches(h) : balance'[u] = balance[u] /\ locked'[u] = locked[u]
  /\ wallets \subseteq wallets'
  /\ \A s \in Tx \ {t} : reserve'[s] = reserve[s]
  /\ \A type \in LogTypes : \A s \in Tx \ {t} : <<type, s>> \in log' <=> <<type, s>> \in log
  /\ \/ Seller[t] \in Touches(h) \cup crossed
     \/ /\ reserve'[t] = "SETTLED" <=> reserve[t] = "SETTLED"
        /\ <<"SETTLE_IN", t>> \in log' <=> <<"SETTLE_IN", t>> \in log

LEMMA BusyTouches ==
  ASSUME TypeOK, NEW h \in Slots, pc[h] # "idle"
  PROVE  /\ job[h].tx \in Tx /\ job[h].op \in Ops
         /\ Buyer[job[h].tx] \in Users /\ Seller[job[h].tx] \in Users
         /\ Buyer[job[h].tx] # Seller[job[h].tx]
         /\ Amount[job[h].tx] \in Nat /\ Amount[job[h].tx] > 0
         /\ Touches(h) = TouchesOf(job[h])
         /\ Buyer[job[h].tx] \in Touches(h)
         /\ job[h].op = "settle" => Seller[job[h].tx] \in Touches(h)
         /\ \A u \in Touches(h) : u \in Users /\ u \in {Buyer[job[h].tx], Seller[job[h].tx]}
         /\ job[h].op # "settle" => Touches(h) = {Buyer[job[h].tx]}
BY BusyJob, PurchaseAssumption DEF TypeOK, HandlerTypeOK, Touches, TouchesOf

LEMMA FinishMoves ==
  ASSUME TypeOK, NEW h \in Slots, Finish(h)
  PROVE  /\ OthersStay(h)
         /\ pc'[h] = "idle" /\ job'[h] = NoJob
         /\ Touches(h)' = {} /\ Pending(h)' = {}
         /\ Knows(h)'
         /\ (job[h].op = "settle" => Slack(h, job[h].tx))'
<1>1. OthersStay(h) /\ pc'[h] = "idle" /\ job'[h] = NoJob
  BY DEF TypeOK, Finish, OthersStay
<1> QED
  BY <1>1 DEF NoJob, Touches, Pending, Knows, At

LEMMA GotoMoves ==
  ASSUME TypeOK, NEW h \in Slots, NEW l \in Labels \ {"idle"}, pc[h] # "idle", Goto(h, l)
  PROVE  /\ \A g \in Slots \ {h} : pc'[g] = pc[g] /\ job'[g] = job[g]
         /\ pc'[h] = l /\ job'[h] = job[h] /\ job' = job
         /\ Touches(h)' = Touches(h)
BY DEF TypeOK, Goto, Touches

(* Each of the three calls keeps to its frame.                             *)
Moves(h) ==
  /\ OthersStay(h)
  /\ job'[h] = job[h] \/ job'[h] = NoJob
  /\ Touches(h)' \subseteq Touches(h)

LEMMA FinishFrame ==
  ASSUME TypeOK, NEW h \in Slots, Finish(h)
  PROVE  Moves(h)
BY FinishMoves DEF Moves

LEMMA GotoFrame ==
  ASSUME TypeOK, NEW h \in Slots, NEW l \in Labels \ {"idle"}, pc[h] # "idle", Goto(h, l),
         mine' = mine \/ \E row : mine' = [mine EXCEPT ![h] = row],
         theirs' = theirs \/ \E row : theirs' = [theirs EXCEPT ![h] = row]
  PROVE  Moves(h)
BY GotoMoves DEF Moves, OthersStay, TypeOK

LEMMA ReserveFrames ==
  ASSUME TypeOK, NEW h \in Slots, ReserveFunds(h)
  PROVE  pc[h] # "idle" /\ job[h].op = "reserve" /\ Frame(h, job[h].tx)
<1> USE DEF tables, history
<1>0. pc[h] # "idle" /\ job[h].op = "reserve"
  BY DEF ReserveFunds, ReserveFind, ReserveReadWallet, ReserveSaveReserve,
         ReserveSaveWallet, ReserveSaveLog, At
<1>1. Moves(h)
  BY <1>0, FinishFrame, GotoFrame DEF ReserveFunds, ReserveFind, ReserveReadWallet,
     ReserveSaveReserve, ReserveSaveWallet, ReserveSaveLog, Labels
<1>2. PICK t \in Tx : job[h].tx = t
  BY <1>0, BusyTouches
<1>3. Buyer[t] \in Touches(h)
  BY <1>0, <1>2, BusyTouches
<1>4. /\ crossed' = crossed /\ wallets' = wallets
      /\ \/ balance' = balance /\ locked' = locked
         \/ SaveRow(Buyer[t], mine[h])
      /\ \/ reserve' = reserve
         \/ reserve[t] = "NONE" /\ reserve' = [reserve EXCEPT ![t] = "ACTIVE"]
      /\ log' = log \/ AppendLog("RESERVE", t)
  BY <1>2 DEF ReserveFunds, ReserveFind, ReserveReadWallet, ReserveSaveReserve,
     ReserveSaveWallet, ReserveSaveLog, MayInsert
<1>5. \A u \in Users \ Touches(h) : balance'[u] = balance[u] /\ locked'[u] = locked[u]
  BY <1>3, <1>4 DEF SaveRow, TypeOK
<1>6. /\ \A s \in Tx \ {t} : reserve'[s] = reserve[s]
      /\ reserve'[t] = "SETTLED" <=> reserve[t] = "SETTLED"
  BY <1>4 DEF TypeOK
<1>7. /\ \A type \in LogTypes : \A s \in Tx \ {t} : <<type, s>> \in log' <=> <<type, s>> \in log
      /\ <<"SETTLE_IN", t>> \in log' <=> <<"SETTLE_IN", t>> \in log
  BY <1>4 DEF AppendLog
<1> QED
  BY <1>0, <1>1, <1>2, <1>4, <1>5, <1>6, <1>7 DEF Frame, Moves

LEMMA ReleaseFrames ==
  ASSUME TypeOK, CrossInv, NEW h \in Slots, ReleaseFunds(h)
  PROVE  pc[h] # "idle" /\ job[h].op = "release" /\ Frame(h, job[h].tx)
<1> USE DEF tables, history
<1>0. pc[h] # "idle" /\ job[h].op = "release"
  BY DEF ReleaseFunds, ReleaseFind, ReleaseReadWallet, ReleaseSaveReserve,
         ReleaseSaveWallet, ReleaseSaveLog, At
<1>1. Moves(h)
  BY <1>0, FinishFrame, GotoFrame DEF ReleaseFunds, ReleaseFind, ReleaseReadWallet,
     ReleaseSaveReserve, ReleaseSaveWallet, ReleaseSaveLog, Labels
<1>2. PICK t \in Tx : job[h].tx = t
  BY <1>0, BusyTouches
<1>3. Buyer[t] \in Touches(h)
  BY <1>0, <1>2, BusyTouches
<1>4. /\ crossed' = crossed /\ wallets' = wallets
      /\ \/ balance' = balance /\ locked' = locked
         \/ SaveRow(Buyer[t], mine[h])
      /\ \/ reserve' = reserve
         \/ pc[h] = "saveReserve" /\ reserve' = [reserve EXCEPT ![t] = "RELEASED"]
      /\ log' = log \/ AppendLog("RELEASE", t)
  BY <1>2 DEF ReleaseFunds, ReleaseFind, ReleaseReadWallet, ReleaseSaveReserve,
     ReleaseSaveWallet, ReleaseSaveLog, At
<1>5. \A u \in Users \ Touches(h) : balance'[u] = balance[u] /\ locked'[u] = locked[u]
  BY <1>3, <1>4 DEF SaveRow, TypeOK
<1>6. /\ \A s \in Tx \ {t} : reserve'[s] = reserve[s]
      /\ Seller[t] \in crossed \/ (reserve'[t] = "SETTLED" <=> reserve[t] = "SETTLED")
  BY <1>0, <1>2, <1>4 DEF TypeOK, CrossInv, LateRelease
<1>7. /\ \A type \in LogTypes : \A s \in Tx \ {t} : <<type, s>> \in log' <=> <<type, s>> \in log
      /\ <<"SETTLE_IN", t>> \in log' <=> <<"SETTLE_IN", t>> \in log
  BY <1>4 DEF AppendLog
<1> QED
  BY <1>0, <1>1, <1>2, <1>4, <1>5, <1>6, <1>7 DEF Frame, Moves

LEMMA SettleFrames ==
  ASSUME TypeOK, NEW h \in Slots, SettleFunds(h)
  PROVE  pc[h] # "idle" /\ job[h].op = "settle" /\ Frame(h, job[h].tx)
<1> USE DEF tables, history
<1>0. pc[h] # "idle" /\ job[h].op = "settle"
  BY DEF SettleFunds, SettleFind, SettleReadWallet, SettleRefresh, SettleReconcile,
         SettleSaveReconciled, SettleReadSeller, SettleCreateSeller, SettleSaveReserve,
         SettleSaveWallet, SettleSaveSeller, SettleSaveLog, SettleSaveSellerLog, At
<1>1. Moves(h)
  <2>1. CASE SettleFind(h) \/ SettleReadWallet(h) \/ SettleRefresh(h) \/ SettleSaveReconciled(h)
    BY <1>0, <2>1, FinishFrame, GotoFrame DEF SettleFind, SettleReadWallet, SettleRefresh,
       SettleSaveReconciled, Labels
  <2>2. CASE SettleReconcile(h) \/ SettleReadSeller(h) \/ SettleCreateSeller(h)
    BY <1>0, <2>2, FinishFrame, GotoFrame DEF SettleReconcile, SettleReadSeller,
       SettleCreateSeller, Labels
  <2>3. CASE \/ SettleSaveReserve(h) \/ SettleSaveWallet(h) \/ SettleSaveSeller(h)
             \/ SettleSaveLog(h) \/ SettleSaveSellerLog(h)
    BY <1>0, <2>3, FinishFrame, GotoFrame DEF SettleSaveReserve, SettleSaveWallet,
       SettleSaveSeller, SettleSaveLog, SettleSaveSellerLog, Labels
  <2> QED
    BY <2>1, <2>2, <2>3 DEF SettleFunds
<1>2. PICK t \in Tx : job[h].tx = t
  BY <1>0, BusyTouches
<1>3. Buyer[t] \in Touches(h) /\ Seller[t] \in Touches(h)
  BY <1>0, <1>2, BusyTouches
<1>4. /\ crossed' = crossed /\ wallets \subseteq wallets'
      /\ \/ balance' = balance /\ locked' = locked
         \/ SaveRow(Buyer[t], mine[h])
         \/ SaveRow(Seller[t], theirs[h])
      /\ reserve' = reserve \/ reserve' = [reserve EXCEPT ![t] = "SETTLED"]
      /\ log' = log \/ AppendLog("SETTLE_OUT", t) \/ AppendLog("SETTLE_IN", t)
  BY <1>2 DEF SettleFunds, SettleFind, SettleReadWallet, SettleRefresh, SettleReconcile,
     SettleSaveReconciled, SettleReadSeller, SettleCreateSeller, SettleSaveReserve,
     SettleSaveWallet, SettleSaveSeller, SettleSaveLog, SettleSaveSellerLog
<1>5. \A u \in Users \ Touches(h) : balance'[u] = balance[u] /\ locked'[u] = locked[u]
  BY <1>3, <1>4 DEF SaveRow, TypeOK
<1>6. \A s \in Tx \ {t} : reserve'[s] = reserve[s]
  BY <1>4 DEF TypeOK
<1>7. \A type \in LogTypes : \A s \in Tx \ {t} : <<type, s>> \in log' <=> <<type, s>> \in log
  BY <1>4 DEF AppendLog
<1> QED
  BY <1>0, <1>1, <1>2, <1>3, <1>4, <1>5, <1>6, <1>7 DEF Frame, Moves

LEMMA StepFrames ==
  ASSUME TypeOK, CrossInv, NEW h \in Slots, Step(h)
  PROVE  pc[h] # "idle" /\ job[h].tx \in Tx /\ Frame(h, job[h].tx)
BY ReserveFrames, ReleaseFrames, SettleFrames, BusyTouches DEF Step

-----------------------------------------------------------------------------
(* Who has crossed whom, and whose wallet exists, in every interleaving.   *)

LEMMA CrossStepFrame ==
  ASSUME TypeOK, CrossInv, NEW h \in Slots, pc[h] # "idle", NEW t \in Tx, Frame(h, t),
         LateRelease(h)'
  PROVE  CrossInv'
<1>1. AloneInv'
  <2>1. \A g \in Slots : Touches(g)' \subseteq Touches(g)
    BY DEF Frame, OthersStay, Touches
  <2> QED
    BY <2>1 DEF CrossInv, AloneInv, Frame
<1>2. ASSUME NEW g \in Slots \ {h} PROVE LateRelease(g)'
  <2>1. /\ pc'[g] = pc[g] /\ job'[g] = job[g] /\ crossed' = crossed /\ LateRelease(g)
    BY DEF Frame, OthersStay, CrossInv
  <2>2. CASE job[g].op = "release" /\ pc[g] \in {"readWallet", "saveReserve"} /\ job[g].tx = t
    <3>1. Buyer[t] \in Touches(g) /\ Buyer[t] \in Touches(h)
      BY <2>2, BusyTouches DEF Frame
    <3>2. Touches(h) \subseteq crossed
      BY <3>1 DEF CrossInv, AloneInv
    <3> QED
      BY <2>1, <2>2, <3>2 DEF LateRelease, Frame
  <2>3. CASE ~(job[g].op = "release" /\ pc[g] \in {"readWallet", "saveReserve"})
    BY <2>1, <2>3 DEF LateRelease
  <2>4. CASE pc[g] # "idle" /\ job[g].tx # t
    <3>1. job[g].tx \in Tx
      BY <2>4, BusyTouches
    <3>2. reserve'[job[g].tx] = reserve[job[g].tx]
      BY <2>4, <3>1 DEF Frame
    <3> QED
      BY <2>1, <3>2 DEF LateRelease
  <2> QED
    BY <2>2, <2>3, <2>4
<1> QED
  BY <1>1, <1>2 DEF CrossInv

LEMMA CrossStep ==
  ASSUME TypeOK, CrossInv, NEW h \in Slots, Step(h)
  PROVE  CrossInv'
<1> USE DEF tables, history
<1>0. pc[h] # "idle" /\ job[h].tx \in Tx /\ Frame(h, job[h].tx)
  BY StepFrames
<1>1. LateRelease(h)'
  <2>1. CASE ReleaseFunds(h)
    <3>1. CASE ReleaseFind(h)
      BY <1>0, <3>1, FinishMoves, GotoMoves DEF ReleaseFind, LateRelease, Labels
    <3>2. CASE ReleaseReadWallet(h)
      BY <1>0, <3>2, GotoMoves DEF ReleaseReadWallet, LateRelease, Labels, CrossInv, At
    <3>3. CASE ReleaseSaveReserve(h) \/ ReleaseSaveWallet(h) \/ ReleaseSaveLog(h)
      BY <1>0, <3>3, FinishMoves, GotoMoves
         DEF ReleaseSaveReserve, ReleaseSaveWallet, ReleaseSaveLog, LateRelease, Labels
    <3> QED
      BY <2>1, <3>1, <3>2, <3>3 DEF ReleaseFunds
  <2>2. CASE ReserveFunds(h) \/ SettleFunds(h)
    <3>1. job[h].op # "release"
      BY <2>2, ReserveFrames, SettleFrames
    <3> QED
      BY <1>0, <3>1 DEF Frame, LateRelease, NoJob
  <2> QED
    BY <2>1, <2>2 DEF Step
<1> QED
  BY <1>0, <1>1, CrossStepFrame

(* Two calls that meet on a wallet have crossed.                           *)
LEMMA CrossStart ==
  ASSUME TypeOK, CrossInv, NEW h \in Slots, NEW o \in Ops, NEW t \in Tx, Start(h, o, t),
         reserve' = reserve
  PROVE  /\ CrossInv'
         /\ OthersStay(h) /\ pc[h] = "idle" /\ pc'[h] = "findReserve"
         /\ job'[h].op = o /\ job'[h].tx = t
         /\ Touches(h) = {} /\ Touches(h)' = TouchesOf([op |-> o, tx |-> t])
         /\ \A g \in Slots \ {h} : Touches(g)' = Touches(g)
         /\ crossed \subseteq crossed'
         /\ \A g \in Slots : Touches(g) \cap Touches(h)' # {} =>
               Touches(g) \cup Touches(h)' \subseteq crossed'
<1> DEFINE j == [op |-> o, tx |-> t]
<1>1. /\ OthersStay(h) /\ pc[h] = "idle" /\ pc'[h] = "findReserve"
      /\ job'[h] = j /\ job'[h].op = o /\ job'[h].tx = t
  BY DEF TypeOK, Start, OthersStay
<1>2. /\ Touches(h) = {} /\ Touches(h)' = TouchesOf(j)
      /\ \A g \in Slots \ {h} : Touches(g)' = Touches(g)
  BY <1>1 DEF OthersStay, Touches, TouchesOf
<1>3. crossed' = crossed \cup Crossing(j)
  BY DEF Start
<1>4. \A g \in Slots : Touches(g) \cap TouchesOf(j) # {} =>
         Touches(g) \cup TouchesOf(j) \subseteq crossed'
  BY <1>3 DEF Crossing
<1>5. AloneInv'
  <2> SUFFICES ASSUME NEW f \in Slots, NEW g \in Slots, f # g,
                      Touches(f)' \cap Touches(g)' # {}
               PROVE  Touches(f)' \cup Touches(g)' \subseteq crossed'
    BY DEF AloneInv
  <2>1. CASE f # h /\ g # h
    BY <1>2, <1>3, <2>1 DEF CrossInv, AloneInv
  <2>2. CASE f = h \/ g = h
    BY <1>2, <1>4, <2>2
  <2> QED
    BY <2>1, <2>2
<1>6. \A g \in Slots : LateRelease(g)'
  BY <1>1, <1>3 DEF CrossInv, LateRelease, OthersStay
<1> QED
  BY <1>1, <1>2, <1>3, <1>4, <1>5, <1>6 DEF CrossInv

LEMMA CrossNext == TypeOK /\ CrossInv /\ [Next]_vars => CrossInv'
<1> SUFFICES ASSUME TypeOK, CrossInv, [Next]_vars PROVE CrossInv'
  OBVIOUS
<1> USE DEF tables, history
<1>1. ASSUME NEW h \in Slots, NEW o \in Ops, NEW t \in Tx, Start(h, o, t), reserve' = reserve
      PROVE  CrossInv'
  BY <1>1, CrossStart
<1>2. ASSUME NEW h \in Slots, Step(h) PROVE CrossInv'
  BY <1>2, CrossStep
<1>3. ASSUME NEW h \in Slots, Abort(h) PROVE CrossInv'
  <2>1. /\ OthersStay(h) /\ Touches(h)' = {} /\ job'[h] = NoJob
        /\ crossed' = crossed /\ reserve' = reserve
    BY <1>3, FinishMoves DEF Abort
  <2>2. \A g \in Slots : Touches(g)' \subseteq Touches(g)
    BY <2>1 DEF OthersStay, Touches
  <2> QED
    BY <2>1, <2>2 DEF CrossInv, AloneInv, LateRelease, OthersStay, NoJob
<1>4. CASE Crash
  BY <1>4 DEF Crash, CrossInv, AloneInv, Touches, LateRelease, NoJob
<1>5. CASE CleanupFind \/ (\E t \in Tx : Expire(t)) \/ UNCHANGED vars
  <2>1. pc' = pc /\ job' = job /\ crossed' = crossed /\ reserve' = reserve
    BY <1>5 DEF CleanupFind, Expire, vars
  <2>2. \A g \in Slots : Touches(g)' = Touches(g)
    BY <2>1 DEF Touches
  <2>3. \A g \in Slots : LateRelease(g)'
    BY <2>1 DEF CrossInv, LateRelease
  <2> QED
    BY <2>1, <2>2, <2>3 DEF CrossInv, AloneInv
<1> QED
  BY <1>1, <1>2, <1>3, <1>4, <1>5 DEF Next, Request, CleanupRelease, Slots, Ops

LEMMA CrossInvHolds == Spec => []CrossInv
<1>1. Init => CrossInv
  BY DEF Init, CrossInv, AloneInv, Touches, LateRelease, NoJob
<1> QED
  BY <1>1, CrossNext, TypeCorrect, PTL DEF Spec

(* What a step of one handler leaves to show of the wallets.               *)
LEMMA WalletFrame ==
  ASSUME TypeOK, WalletInv, NEW h \in Slots, OthersStay(h), wallets \subseteq wallets',
         \A u \in Users \ wallets : balance'[u] = 0 /\ locked'[u] = 0,
         \A s \in Tx : reserve'[s] # "NONE" => Buyer[s] \in wallets,
         HasBuyer(h)' => Buyer[job'[h].tx] \in wallets
  PROVE  WalletInv'
<1>1. \A u \in Users \ wallets' : balance'[u] = 0 /\ locked'[u] = 0
  OBVIOUS
<1>2. \A s \in Tx : reserve'[s] # "NONE" => Buyer[s] \in wallets'
  OBVIOUS
<1>3. \A g \in Slots \ {h} : HasBuyer(g)' => Buyer[job'[g].tx] \in wallets'
  BY DEF WalletInv, HasBuyer, OthersStay
<1> QED
  BY <1>1, <1>2, <1>3 DEF WalletInv

LEMMA WalletStep ==
  ASSUME TypeOK, SafetyInv, CrossInv, WalletInv, NEW h \in Slots, Step(h)
  PROVE  WalletInv'
<1> USE DEF tables, history
<1>0. pc[h] # "idle" /\ OthersStay(h)
  BY StepFrames DEF Frame
<1>1. PICK t \in Tx : job[h].tx = t
  BY StepFrames
<1>2. PICK b \in Users : b = Buyer[t]
  BY PurchaseAssumption
<1>3. HasBuyer(h) => b \in wallets
  BY <1>1, <1>2 DEF WalletInv
<1>4. CASE ReserveFunds(h)
  <2>0. job[h].op = "reserve"
    BY <1>4, ReserveFrames
  <2>1. \/ balance' = balance /\ locked' = locked
        \/ pc[h] = "saveWallet" /\ SaveRow(b, mine[h])
    BY <1>1, <1>2, <1>4 DEF ReserveFunds, ReserveFind, ReserveReadWallet, ReserveSaveReserve,
       ReserveSaveWallet, ReserveSaveLog, At
  <2>2. \A u \in Users \ wallets : balance'[u] = 0 /\ locked'[u] = 0
    BY <1>3, <2>0, <2>1 DEF SaveRow, TypeOK, WalletInv, HasBuyer
  <2>3. \/ reserve' = reserve
        \/ pc[h] = "saveReserve" /\ reserve' = [reserve EXCEPT ![t] = "ACTIVE"]
    BY <1>1, <1>4 DEF ReserveFunds, ReserveFind, ReserveReadWallet, ReserveSaveReserve,
       ReserveSaveWallet, ReserveSaveLog, At
  <2>4. \A s \in Tx : reserve'[s] # "NONE" => Buyer[s] \in wallets
    BY <1>2, <1>3, <2>0, <2>3 DEF TypeOK, WalletInv, HasBuyer
  <2>5. HasBuyer(h)' => Buyer[job'[h].tx] \in wallets
    <3>1. CASE ReserveFind(h) \/ ReserveSaveWallet(h) \/ ReserveSaveLog(h)
      <4>1. ~HasBuyer(h)'
        BY <1>0, <2>0, <3>1, FinishMoves, GotoMoves DEF ReserveFind, ReserveSaveWallet,
           ReserveSaveLog, HasBuyer, Labels, NoJob
      <4> QED
        BY <4>1
    <3>2. CASE ReserveReadWallet(h) \/ ReserveSaveReserve(h)
      <4>1. \/ ~HasBuyer(h)'
            \/ job'[h].tx = t /\ b \in wallets
        BY <1>0, <1>1, <1>2, <1>3, <2>0, <3>2, FinishMoves, GotoMoves
           DEF ReserveReadWallet, ReserveSaveReserve, HasBuyer, Labels, NoJob, At
      <4> QED
        BY <1>2, <4>1
    <3> QED
      BY <1>4, <3>1, <3>2 DEF ReserveFunds
  <2>6. wallets' = wallets
    BY <1>4 DEF ReserveFunds, ReserveFind, ReserveReadWallet, ReserveSaveReserve,
       ReserveSaveWallet, ReserveSaveLog
  <2> QED
    BY <1>0, <2>2, <2>4, <2>5, <2>6, WalletFrame
<1>5. CASE ReleaseFunds(h)
  <2>0. job[h].op = "release"
    BY <1>5, ReleaseFrames
  <2>1. \/ balance' = balance /\ locked' = locked
        \/ pc[h] = "saveWallet" /\ SaveRow(b, mine[h])
    BY <1>1, <1>2, <1>5 DEF ReleaseFunds, ReleaseFind, ReleaseReadWallet, ReleaseSaveReserve,
       ReleaseSaveWallet, ReleaseSaveLog, At
  <2>2. \A u \in Users \ wallets : balance'[u] = 0 /\ locked'[u] = 0
    BY <1>3, <2>0, <2>1 DEF SaveRow, TypeOK, WalletInv, HasBuyer
  <2>3. \/ reserve' = reserve
        \/ pc[h] = "saveReserve" /\ reserve' = [reserve EXCEPT ![t] = "RELEASED"]
    BY <1>1, <1>5 DEF ReleaseFunds, ReleaseFind, ReleaseReadWallet, ReleaseSaveReserve,
       ReleaseSaveWallet, ReleaseSaveLog, At
  <2>4. \A s \in Tx : reserve'[s] # "NONE" => Buyer[s] \in wallets
    BY <1>2, <1>3, <2>0, <2>3 DEF TypeOK, WalletInv, HasBuyer
  <2>5. job'[h] = NoJob \/ (job'[h] = job[h] /\ b \in wallets)
    <3>1. CASE ReleaseFind(h)
      BY <1>0, <1>1, <1>2, <3>1, FinishMoves, GotoMoves DEF ReleaseFind, Labels, WalletInv
    <3>2. CASE ~ReleaseFind(h)
      <4>1. HasBuyer(h)
        BY <1>0, <1>5, <2>0, <3>2 DEF ReleaseFunds, ReleaseReadWallet, ReleaseSaveReserve,
           ReleaseSaveWallet, ReleaseSaveLog, At, HasBuyer
      <4> QED
        BY <1>3, <1>5, <4>1, ReleaseFrames DEF Frame
    <3> QED
      BY <3>1, <3>2
  <2>6. wallets' = wallets
    BY <1>5 DEF ReleaseFunds, ReleaseFind, ReleaseReadWallet, ReleaseSaveReserve,
       ReleaseSaveWallet, ReleaseSaveLog
  <2> QED
    BY <1>0, <1>1, <1>2, <2>2, <2>4, <2>5, <2>6, WalletFrame DEF HasBuyer, NoJob
<1>6. CASE SettleFunds(h)
  <2>0. job[h].op = "settle"
    BY <1>6, SettleFrames
  <2>1. \/ balance' = balance /\ locked' = locked
        \/ pc[h] \in {"saveWallet", "saveReconciled"} /\ SaveRow(b, mine[h])
        \/ pc[h] = "saveSeller" /\ SaveRow(Seller[t], theirs[h])
    BY <1>1, <1>2, <1>6 DEF SettleFunds, SettleFind, SettleReadWallet, SettleRefresh,
       SettleReconcile, SettleSaveReconciled, SettleReadSeller, SettleCreateSeller,
       SettleSaveReserve, SettleSaveWallet, SettleSaveSeller, SettleSaveLog,
       SettleSaveSellerLog, At
  <2>2. pc[h] = "saveSeller" => Seller[t] \in wallets
    BY <1>1, <2>0 DEF SafetyInv, CloserKnows, HasSeller, At
  <2>3. pc[h] \in {"saveWallet", "saveReconciled"} => b \in wallets
    BY <1>3, <2>0 DEF HasBuyer
  <2>4. \A u \in Users \ wallets : balance'[u] = 0 /\ locked'[u] = 0
    BY <2>1, <2>2, <2>3 DEF SaveRow, TypeOK, WalletInv
  <2>5. \/ reserve' = reserve
        \/ pc[h] = "saveReserve" /\ reserve' = [reserve EXCEPT ![t] = "SETTLED"]
    BY <1>1, <1>6 DEF SettleFunds, SettleFind, SettleReadWallet, SettleRefresh,
       SettleReconcile, SettleSaveReconciled, SettleReadSeller, SettleCreateSeller,
       SettleSaveReserve, SettleSaveWallet, SettleSaveSeller, SettleSaveLog,
       SettleSaveSellerLog, At
  <2>6. \A s \in Tx : reserve'[s] # "NONE" => Buyer[s] \in wallets
    BY <1>2, <1>3, <2>0, <2>5 DEF TypeOK, WalletInv, HasBuyer
  <2>7. job'[h] = NoJob \/ (job'[h] = job[h] /\ b \in wallets)
    <3>1. CASE SettleFind(h)
      BY <1>0, <1>1, <1>2, <3>1, FinishMoves, GotoMoves DEF SettleFind, Labels, WalletInv
    <3>2. CASE ~SettleFind(h)
      <4>1. HasBuyer(h)
        BY <1>0, <1>6, <2>0, <3>2 DEF SettleFunds, SettleReadWallet, SettleRefresh,
           SettleReconcile, SettleSaveReconciled, SettleReadSeller, SettleCreateSeller,
           SettleSaveReserve, SettleSaveWallet, SettleSaveSeller, SettleSaveLog,
           SettleSaveSellerLog, At, HasBuyer
      <4> QED
        BY <1>3, <1>6, <4>1, SettleFrames DEF Frame
    <3> QED
      BY <3>1, <3>2
  <2>8. wallets \subseteq wallets'
    BY <1>6, SettleFrames DEF Frame
  <2> QED
    BY <1>0, <1>1, <1>2, <2>4, <2>6, <2>7, <2>8, WalletFrame DEF HasBuyer, NoJob
<1> QED
  BY <1>4, <1>5, <1>6 DEF Step

LEMMA WalletNext ==
  TypeOK /\ SafetyInv /\ CrossInv /\ WalletInv /\ [Next]_vars => WalletInv'
<1> SUFFICES ASSUME TypeOK, SafetyInv, CrossInv, WalletInv, [Next]_vars PROVE WalletInv'
  OBVIOUS
<1> USE DEF tables, history
<1>1. ASSUME NEW h \in Slots, NEW o \in Ops, NEW t \in Tx, Start(h, o, t), UNCHANGED tables
      PROVE  WalletInv'
  <2>1. OthersStay(h) /\ pc'[h] = "findReserve"
    BY <1>1 DEF TypeOK, Start, OthersStay
  <2> QED
    BY <1>1, <2>1, WalletFrame DEF HasBuyer, WalletInv
<1>2. ASSUME NEW h \in Slots, Step(h) PROVE WalletInv'
  BY <1>2, WalletStep
<1>3. ASSUME NEW h \in Slots, Abort(h) PROVE WalletInv'
  <2>1. OthersStay(h) /\ job'[h] = NoJob
    BY <1>3, FinishMoves DEF Abort
  <2> QED
    BY <1>3, <2>1, WalletFrame DEF Abort, HasBuyer, NoJob, WalletInv
<1>4. CASE Crash
  BY <1>4 DEF Crash, WalletInv, HasBuyer, NoJob
<1>5. CASE CleanupFind \/ (\E t \in Tx : Expire(t)) \/ UNCHANGED vars
  BY <1>5 DEF CleanupFind, Expire, vars, WalletInv, HasBuyer
<1> QED
  BY <1>1, <1>2, <1>3, <1>4, <1>5 DEF Next, Request, CleanupRelease, Slots, Ops

LEMMA WalletInvHolds == Spec => []WalletInv
<1>1. Init => WalletInv
  BY OpeningAssumption DEF Init, WalletInv, HasBuyer, NoJob
<1> QED
  BY <1>1, WalletNext, TypeCorrect, SafetyInvHolds, CrossInvHolds, PTL DEF Spec

-----------------------------------------------------------------------------
(* What the wallets a step does not touch keep.                            *)

LEMMA FrameRow ==
  ASSUME TypeOK, NEW h \in Slots, pc[h] # "idle", NEW t \in Tx, Frame(h, t),
         NEW u \in Users \ Touches(h)
  PROVE  /\ RowOf(u)' = RowOf(u)
         /\ \A s \in Tx : Buyer[s] = u => s # t /\ reserve'[s] = reserve[s]
<1>1. u # Buyer[t]
  BY BusyTouches DEF Frame
<1> QED
  BY <1>1 DEF Frame, RowOf

LEMMA FrameUser ==
  ASSUME TypeOK, NEW h \in Slots, pc[h] # "idle", NEW t \in Tx, Frame(h, t),
         NEW u \in Users \ Touches(h), u \notin crossed
  PROVE  /\ ActiveOf(u)' = ActiveOf(u) /\ OutOf(u)' = OutOf(u) /\ InTo(u)' = InTo(u)
         /\ High(u)' = High(u) /\ Low(u)' = Low(u)
         /\ RowOf(u)' = RowOf(u)
<1>1. RowOf(u)' = RowOf(u)
  BY FrameRow
<1>2. ASSUME NEW s \in Tx, Buyer[s] = u
      PROVE  /\ reserve'[s] = reserve[s]
             /\ <<"SETTLE_OUT", s>> \in log' <=> <<"SETTLE_OUT", s>> \in log
  BY <1>2, FrameRow DEF Frame, LogTypes
<1>3. ASSUME NEW s \in Tx, Seller[s] = u
      PROVE  /\ reserve'[s] = "SETTLED" <=> reserve[s] = "SETTLED"
             /\ <<"SETTLE_IN", s>> \in log' <=> <<"SETTLE_IN", s>> \in log
  <2>1. CASE s # t
    BY <2>1 DEF Frame, LogTypes
  <2>2. CASE s = t
    BY <1>3, <2>2 DEF Frame
  <2> QED
    BY <2>1, <2>2
<1> QED
  BY <1>1, <1>2, <1>3, SumsKept

(* A handler with a wallet no overlap has touched is alone on both.        *)
LEMMA FrameSlot ==
  ASSUME TypeOK, CrossInv, NEW h \in Slots, pc[h] # "idle", NEW t \in Tx, Frame(h, t),
         NEW g \in Slots \ {h}
  PROVE  /\ Touches(g)' = Touches(g)
         /\ Clean(g)' <=> Clean(g)
         /\ Clean(g) => /\ \A u \in Touches(g) : u \in Users \ Touches(h)
                        /\ job[g].tx \in Tx \ {t}
         /\ Pending(g)' = Pending(g)
         /\ \A u : PendingRow(g, u)' = PendingRow(g, u)
<1>1. pc'[g] = pc[g] /\ job'[g] = job[g] /\ mine'[g] = mine[g] /\ theirs'[g] = theirs[g]
  BY DEF Frame, OthersStay
<1>2. Touches(g)' = Touches(g) /\ crossed' = crossed
  BY <1>1 DEF Touches, Frame
<1>3. ASSUME Clean(g)
      PROVE  /\ \A u \in Touches(g) : u \in Users \ Touches(h)
             /\ job[g].tx \in Tx \ {t}
  <2>1. Touches(g) \cap Touches(h) = {} /\ pc[g] # "idle"
    BY <1>3 DEF CrossInv, AloneInv, Clean, Touches
  <2>2. job[g].tx \in Tx /\ Buyer[job[g].tx] \in Touches(g) /\ Buyer[t] \in Touches(h)
    BY <2>1, BusyTouches DEF Frame
  <2> QED
    BY <2>1, <2>2, BusyTouches
<1>4. Pending(g)' = Pending(g) /\ \A u : PendingRow(g, u)' = PendingRow(g, u)
  BY <1>1 DEF Pending, PendingRow, At
<1> QED
  BY <1>2, <1>3, <1>4 DEF Clean

(* What the other handlers know stays true.                                *)
LEMMA FrameKnows ==
  ASSUME TypeOK, TypeOK', CrossInv, NEW h \in Slots, pc[h] # "idle", NEW t \in Tx,
         Frame(h, t), NEW g \in Slots \ {h}, Clean(g)
  PROVE  /\ Knows(g) => Knows(g)'
         /\ (job[g].op = "settle" => Slack(g, job[g].tx)) =>
               (job[g].op = "settle" => Slack(g, job[g].tx))'
<1>0. /\ pc'[g] = pc[g] /\ job'[g] = job[g] /\ mine'[g] = mine[g] /\ theirs'[g] = theirs[g]
      /\ crossed' = crossed /\ pc[g] # "idle"
  BY DEF Frame, OthersStay, Clean, Touches
<1>1. PICK s \in Tx \ {t} : /\ job[g].tx = s /\ job'[g].tx = s
                            /\ Buyer[s] \in Users \ Touches(h)
                            /\ job[g].op = "settle" => Seller[s] \in Users \ Touches(h)
  BY <1>0, FrameSlot, BusyTouches
<1>2. PICK b \in Users \ Touches(h) : b = Buyer[s]
  BY <1>1
<1>3. /\ reserve'[s] = reserve[s]
      /\ balance'[b] = balance[b] /\ locked'[b] = locked[b]
      /\ b \notin crossed => High(b)' = High(b) /\ Low(b)' = Low(b)
  BY FrameUser DEF Frame
<1>4. PICK v \in Users : v = Seller[s]
  BY PurchaseAssumption
<1>5. job[g].op = "settle" =>
        /\ balance'[v] = balance[v] /\ locked'[v] = locked[v]
        /\ v \notin crossed => High(v)' = High(v) /\ Low(v)' = Low(v)
  BY <1>1, <1>4, FrameUser DEF Frame
<1>6. ReserveKnows(g, s) => ReserveKnows(g, s)'
  BY <1>0, <1>2, <1>3 DEF ReserveKnows, Holds
<1>7. ReleaseKnows(g, s) => ReleaseKnows(g, s)'
  BY <1>0, <1>2, <1>3 DEF ReleaseKnows, Holds
<1>8. job[g].op = "settle" /\ SettleKnows(g, s) => SettleKnows(g, s)'
  BY <1>0, <1>2, <1>3, <1>4, <1>5 DEF SettleKnows, Holds
<1>9. job[g].op = "settle" /\ Slack(g, s) => Slack(g, s)'
  BY <1>0, <1>2, <1>3, <1>4, <1>5 DEF Slack, BuyerSlack, SellerSlack
<1>10. Knows(g) => Knows(g)'
  BY <1>0, <1>1, <1>6, <1>7, <1>8 DEF Knows
<1> QED
  BY <1>0, <1>1, <1>9, <1>10

LEMMA PendingTouched ==
  ASSUME TypeOK, NEW h \in Slots, NEW u \in Pending(h)
  PROVE  u \in Touches(h) /\ pc[h] \in {"saveWallet", "saveSeller"}
BY BusyTouches DEF Pending, Touches, TouchesOf, At

(* A settlement both of whose wallets are marked owes the bounds nothing.  *)
LEMMA MarkedSlack ==
  ASSUME TypeOK', NEW h \in Slots, ~Clean(h)'
  PROVE  (job[h].op = "settle" => Slack(h, job[h].tx))'
<1>1. CASE pc'[h] = "idle"
  BY <1>1 DEF TypeOK, NoJob
<1>2. CASE pc'[h] # "idle"
  BY <1>2 DEF Clean, Touches, TouchesOf, Slack
<1> QED
  BY <1>1, <1>2

(* What is left to show of a step: the invariant for its own handler and   *)
(* for the wallets it touches that are not marked.                         *)
LEMMA FrameStep ==
  ASSUME TypeOK, TypeOK', CrossInv, EscrowInv, NEW h \in Slots, pc[h] # "idle",
         NEW t \in Tx, Frame(h, t),
         Clean(h)' => Knows(h)' /\ (job[h].op = "settle" => Slack(h, job[h].tx))',
         \A u \in Touches(h) \ crossed : Low(u)' <= balance'[u] /\ balance'[u] <= High(u)',
         aborts' = 0 =>
           /\ aborts = 0
           /\ pc'[h] = "saveReconciled" => Buyer[t] \in crossed /\ job'[h] = job[h]
           /\ \A u \in Touches(h) \ crossed : Booked(h, u)'
  PROVE  EscrowInv'
<1>1. /\ \A g \in Slots \ {h} : /\ pc'[g] = pc[g] /\ job'[g] = job[g]
                                /\ Touches(g)' = Touches(g) /\ (Clean(g)' <=> Clean(g))
      /\ Touches(h)' \subseteq Touches(h)
      /\ crossed' = crossed
  BY FrameSlot DEF Frame, OthersStay
<1>2. ASSUME NEW g \in Slots, Clean(g)' PROVE Knows(g)'
  BY <1>1, <1>2, FrameKnows DEF EscrowInv
<1>3. ASSUME NEW g \in Slots PROVE (job[g].op = "settle" => Slack(g, job[g].tx))'
  <2>1. CASE ~Clean(g)'
    BY <2>1, MarkedSlack
  <2>2. CASE g = h /\ Clean(g)'
    BY <2>2
  <2>3. CASE g # h /\ Clean(g)'
    <3>1. Clean(g) /\ (job[g].op = "settle" => Slack(g, job[g].tx))
      BY <1>1, <2>3 DEF EscrowInv, RecordInv
    <3> QED
      BY <2>3, <3>1, FrameKnows
  <2> QED
    BY <2>1, <2>2, <2>3
<1>4. ASSUME NEW u \in Users \ crossed' PROVE Low(u)' <= balance'[u] /\ balance'[u] <= High(u)'
  <2>1. CASE u \in Touches(h)
    BY <1>1, <1>4, <2>1
  <2>2. CASE u \notin Touches(h)
    BY <1>1, <1>4, <2>2, FrameUser DEF EscrowInv, RecordInv, Frame
  <2> QED
    BY <2>1, <2>2
<1>5. ASSUME aborts' = 0 PROVE BookInv'
  <2>1. BookInv /\ \A u \in Touches(h) \ crossed : Booked(h, u)'
    BY <1>5 DEF EscrowInv
  <2>2. ASSUME NEW u \in Users \ crossed, u \notin Touches(h)
        PROVE  \A row : Good(u, row) => Good(u, row)'
    BY <2>2, FrameUser DEF Good
  <2>3. ASSUME NEW u \in Users \ crossed', \A g \in Slots : u \notin Touches(g)'
        PROVE  Good(u, RowOf(u))'
    <3>1. CASE u \in Touches(h)
      <4>1. u \notin Pending(h)'
        BY <2>3 DEF Pending, Touches, TouchesOf, At
      <4>2. Booked(h, u)'
        BY <1>1, <2>1, <2>3, <3>1
      <4> QED
        BY <4>1, <4>2 DEF Booked
    <3>2. CASE u \notin Touches(h)
      <4>1. \A g \in Slots : u \notin Touches(g)
        BY <1>1, <2>3, <3>2
      <4>2. Good(u, RowOf(u))
        BY <1>1, <2>1, <2>3, <4>1 DEF BookInv
      <4>3. RowOf(u)' = RowOf(u)
        BY <3>2, FrameRow
      <4> QED
        BY <1>1, <2>2, <2>3, <3>2, <4>2, <4>3 DEF Good
    <3> QED
      BY <3>1, <3>2
  <2>4. ASSUME NEW g \in Slots, NEW u \in Touches(g)' \ crossed' PROVE Booked(g, u)'
    <3>1. CASE g = h
      BY <1>1, <2>1, <2>4, <3>1
    <3>2. CASE g # h
      <4>1. /\ u \in Touches(g) /\ Booked(g, u) /\ u \in Users \ crossed /\ u \notin Touches(h)
            /\ Pending(g)' = Pending(g) /\ PendingRow(g, u)' = PendingRow(g, u)
        BY <1>1, <2>1, <2>4, <3>2, FrameSlot DEF BookInv, Clean
      <4>2. RowOf(u)' = RowOf(u)
        BY <4>1, FrameRow
      <4>3. /\ ActiveOf(u)' = ActiveOf(u) /\ OutOf(u)' = OutOf(u) /\ InTo(u)' = InTo(u)
        BY <4>1, FrameUser
      <4>4. CASE u \in Pending(g)
        BY <4>1, <4>3, <4>4 DEF Booked, Good
      <4>5. CASE u \notin Pending(g)
        BY <4>1, <4>2, <4>3, <4>5 DEF Booked, Good
      <4> QED
        BY <4>4, <4>5
    <3> QED
      BY <3>1, <3>2
  <2>5. ASSUME NEW g \in Slots, pc'[g] = "saveReconciled" PROVE Buyer[job'[g].tx] \in crossed'
    BY <1>1, <1>5, <2>1, <2>5 DEF BookInv, Frame
  <2> QED
    BY <2>3, <2>4, <2>5 DEF BookInv
<1> QED
  BY <1>2, <1>3, <1>4, <1>5 DEF EscrowInv, RecordInv

(* A handler all of whose wallets are marked has nothing left to break.    *)
LEMMA MarkedBooks ==
  ASSUME TypeOK, TypeOK', CrossInv, EscrowInv, NEW h \in Slots, Step(h), ~Clean(h)
  PROVE  EscrowInv'
<1>1. pc[h] # "idle" /\ job[h].tx \in Tx /\ Frame(h, job[h].tx)
  BY StepFrames
<1>2. ~Clean(h)' /\ Touches(h) \subseteq crossed
  BY <1>1 DEF Clean, Frame
<1>3. aborts' = aborts
  BY DEF Step, ReserveFunds, ReserveFind, ReserveReadWallet, ReserveSaveReserve,
       ReserveSaveWallet, ReserveSaveLog, ReleaseFunds, ReleaseFind, ReleaseReadWallet,
       ReleaseSaveReserve, ReleaseSaveWallet, ReleaseSaveLog, SettleFunds, SettleFind,
       SettleReadWallet, SettleRefresh, SettleReconcile, SettleSaveReconciled,
       SettleReadSeller, SettleCreateSeller, SettleSaveReserve, SettleSaveWallet,
       SettleSaveSeller, SettleSaveLog, SettleSaveSellerLog, history
<1>4. Buyer[job[h].tx] \in crossed
  BY <1>1, <1>2, BusyTouches
<1>5. pc'[h] = "saveReconciled" => job'[h] = job[h]
  BY <1>1 DEF Frame, TypeOK
<1> QED
  BY <1>1, <1>2, <1>3, <1>4, <1>5, FrameStep

-----------------------------------------------------------------------------
(* The steps that leave balances, reserves and records alone.              *)

(* A handler that reads, fails, returns or only adds a wallet, and has no  *)
(* save of a row under way or ahead.                                       *)
LEMMA QuietBooks ==
  ASSUME TypeOK, TypeOK', CrossInv, EscrowInv, NEW h \in Slots, pc[h] # "idle",
         Frame(h, job[h].tx), Pending(h)' = {},
         balance' = balance, locked' = locked, reserve' = reserve, log' = log,
         Knows(h)',
         (job[h].op = "settle" => Slack(h, job[h].tx))',
         aborts' = 0 => /\ aborts = 0 /\ Pending(h) = {}
                        /\ pc'[h] = "saveReconciled" =>
                             Buyer[job[h].tx] \in crossed /\ job'[h] = job[h]
  PROVE  EscrowInv'
<1>1. PICK t \in Tx : t = job[h].tx
  BY BusyTouches
<1>2. \A u \in Users : /\ ActiveOf(u)' = ActiveOf(u) /\ OutOf(u)' = OutOf(u)
                       /\ InTo(u)' = InTo(u) /\ RowOf(u)' = RowOf(u)
                       /\ High(u)' = High(u) /\ Low(u)' = Low(u)
  BY SumsKept DEF RowOf
<1>3. \A u \in Touches(h) : u \in Users
  BY BusyTouches
<1>4. \A u \in Touches(h) \ crossed : Low(u)' <= balance'[u] /\ balance'[u] <= High(u)'
  BY <1>2, <1>3 DEF EscrowInv, RecordInv
<1>5. ASSUME aborts' = 0, NEW u \in Touches(h) \ crossed PROVE Booked(h, u)'
  <2>1. Booked(h, u) /\ u \notin Pending(h) /\ u \notin Pending(h)'
    BY <1>5 DEF EscrowInv, BookInv
  <2> QED
    BY <2>1, <1>2, <1>3 DEF Booked, Good
<1> QED
  BY <1>1, <1>4, <1>5, FrameStep

(* A call that starts knows nothing yet, and marks what it meets.          *)
LEMMA StartBooks ==
  ASSUME TypeOK, TypeOK', CrossInv, EscrowInv, NEW h \in Slots, NEW o \in Ops, NEW t \in Tx,
         Start(h, o, t), UNCHANGED <<tables, aborts>>
  PROVE  EscrowInv'
<1>1. /\ OthersStay(h) /\ pc[h] = "idle" /\ pc'[h] = "findReserve"
      /\ job'[h].op = o /\ job'[h].tx = t
      /\ Touches(h) = {} /\ Touches(h)' = TouchesOf([op |-> o, tx |-> t])
      /\ \A g \in Slots \ {h} : Touches(g)' = Touches(g)
      /\ crossed \subseteq crossed'
      /\ \A g \in Slots : Touches(g) \cap Touches(h)' # {} =>
            Touches(g) \cup Touches(h)' \subseteq crossed'
  BY CrossStart DEF tables
<1>2. /\ \A g \in Slots \ {h} : Pending(g)' = Pending(g)
      /\ \A g \in Slots \ {h} : \A u : PendingRow(g, u)' = PendingRow(g, u)
      /\ Pending(h)' = {}
  BY <1>1 DEF OthersStay, Pending, PendingRow, At
<1>3. \A u \in Users : /\ ActiveOf(u)' = ActiveOf(u) /\ OutOf(u)' = OutOf(u)
                       /\ InTo(u)' = InTo(u) /\ RowOf(u)' = RowOf(u)
                       /\ High(u)' = High(u) /\ Low(u)' = Low(u)
  BY SumsKept DEF RowOf, tables
<1>4. ASSUME NEW g \in Slots \ {h}, pc[g] # "idle"
      PROVE  /\ Knows(g) => Knows(g)'
             /\ (job[g].op = "settle" => Slack(g, job[g].tx)) =>
                   (job[g].op = "settle" => Slack(g, job[g].tx))'
  <2>1. PICK s \in Tx : job[g].tx = s
    BY <1>4, BusyTouches
  <2>2. Buyer[s] \in Users /\ Seller[s] \in Users
    BY PurchaseAssumption
  <2>3. /\ pc'[g] = pc[g] /\ job'[g] = job[g]
        /\ mine'[g] = mine[g] /\ theirs'[g] = theirs[g]
    BY <1>1 DEF OthersStay
  <2>4. ReserveKnows(g, s) => ReserveKnows(g, s)'
    BY <2>3 DEF ReserveKnows, tables
  <2>5. ReleaseKnows(g, s) => ReleaseKnows(g, s)'
    BY <2>3 DEF ReleaseKnows, tables
  <2>6. SettleKnows(g, s) => SettleKnows(g, s)'
    BY <2>3 DEF SettleKnows, tables
  <2>7. Slack(g, s) => Slack(g, s)'
    BY <1>1, <1>3, <2>2, <2>3 DEF Slack, BuyerSlack, SellerSlack, tables
  <2> QED
    BY <2>1, <2>3, <2>4, <2>5, <2>6, <2>7 DEF Knows
<1>5. ASSUME NEW g \in Slots
      PROVE  /\ Clean(g)' => Knows(g)'
             /\ (job[g].op = "settle" => Slack(g, job[g].tx))'
  <2>1. CASE g = h
    BY <1>1, <2>1 DEF Knows, ReserveKnows, ReleaseKnows, SettleKnows, Slack, BuyerSlack,
                      SellerSlack
  <2>2. CASE g # h /\ pc[g] = "idle"
    BY <1>1, <2>2 DEF OthersStay, TypeOK, NoJob, Knows
  <2>3. CASE g # h /\ pc[g] # "idle"
    BY <1>1, <1>4, <2>3 DEF EscrowInv, RecordInv, Clean
  <2> QED
    BY <2>1, <2>2, <2>3
<1>6. \A u \in Users \ crossed' : Low(u)' <= balance'[u] /\ balance'[u] <= High(u)'
  BY <1>1, <1>3 DEF EscrowInv, RecordInv, tables
<1>7. ASSUME aborts' = 0 PROVE BookInv'
  <2>1. BookInv
    BY <1>7 DEF EscrowInv
  <2>2. ASSUME NEW u \in Users \ crossed', \A g \in Slots : u \notin Touches(g)
        PROVE  Good(u, RowOf(u))'
    BY <1>1, <1>3, <2>1, <2>2 DEF BookInv, Good
  <2>3. ASSUME NEW u \in Users \ crossed', \A g \in Slots : u \notin Touches(g)'
        PROVE  Good(u, RowOf(u))'
    BY <1>1, <2>2, <2>3
  <2>4. ASSUME NEW g \in Slots, NEW u \in Touches(g)' \ crossed' PROVE Booked(g, u)'
    <3>1. CASE g = h
      <4>1. u \in Users /\ \A f \in Slots : u \notin Touches(f)
        BY <1>1, <2>4, <3>1, PurchaseAssumption DEF TouchesOf
      <4> QED
        BY <1>2, <2>2, <2>4, <3>1, <4>1 DEF Booked
    <3>2. CASE g # h
      <4>1. u \in Touches(g) \ crossed /\ Booked(g, u) /\ u \in Users
        BY <1>1, <2>1, <2>4, <3>2, BusyTouches DEF BookInv, Touches
      <4>2. CASE u \in Pending(g)
        BY <1>2, <1>3, <3>2, <4>1, <4>2 DEF Booked, Good
      <4>3. CASE u \notin Pending(g)
        BY <1>2, <1>3, <3>2, <4>1, <4>3 DEF Booked, Good
      <4> QED
        BY <4>2, <4>3
    <3> QED
      BY <3>1, <3>2
  <2>5. \A g \in Slots : pc'[g] = "saveReconciled" => Buyer[job'[g].tx] \in crossed'
    BY <1>1, <2>1 DEF BookInv, OthersStay
  <2> QED
    BY <2>3, <2>4, <2>5 DEF BookInv
<1> QED
  BY <1>5, <1>6, <1>7 DEF EscrowInv, RecordInv

(* Steps of the clock and of the cleanup's list.                           *)
LEMMA IdleBooks ==
  ASSUME EscrowInv, UNCHANGED <<tables, aborts, crossed, pc, job, mine, theirs>>
  PROVE  EscrowInv'
<1> USE DEF tables
<1>1. \A h \in Slots : /\ Touches(h)' = Touches(h) /\ Pending(h)' = Pending(h)
                       /\ \A u : PendingRow(h, u)' = PendingRow(h, u)
  BY DEF Touches, TouchesOf, Pending, PendingRow, At
<1>2. ASSUME NEW h \in Slots, Clean(h)' PROVE Knows(h)'
  <2>1. Knows(h)
    BY <1>1, <1>2 DEF EscrowInv, Clean
  <2> QED
    BY <2>1 DEF Knows, ReserveKnows, ReleaseKnows, SettleKnows
<1>3. \A u : /\ ActiveOf(u)' = ActiveOf(u) /\ OutOf(u)' = OutOf(u) /\ InTo(u)' = InTo(u)
             /\ RowOf(u)' = RowOf(u) /\ High(u)' = High(u) /\ Low(u)' = Low(u)
  BY DEF ActiveOf, OutOf, InTo, RowOf, High, Low, Logged
<1>4. \A u, row : Good(u, row) => Good(u, row)'
  BY <1>3 DEF Good
<1>5. BookInv => BookInv'
  BY <1>1, <1>3, <1>4 DEF BookInv, Booked
<1>6. RecordInv'
  BY <1>3 DEF EscrowInv, RecordInv, Slack, BuyerSlack, SellerSlack
<1> QED
  BY <1>2, <1>5, <1>6 DEF EscrowInv

LEMMA CrashBooks ==
  ASSUME TypeOK, EscrowInv, Crash
  PROVE  EscrowInv'
<1>1. \A h \in Slots : pc'[h] = "idle" /\ job'[h] = NoJob
  BY DEF Crash
<1>2. \A h \in Slots : Knows(h)'
  BY <1>1 DEF Knows, NoJob
<1>3. \A u : High(u)' = High(u) /\ Low(u)' = Low(u)
  BY DEF High, Low, OutOf, InTo, Logged, Crash, tables
<1>4. RecordInv'
  BY <1>1, <1>3 DEF EscrowInv, RecordInv, NoJob, Crash, tables
<1>5. aborts' # 0
  BY SlotAssumption DEF TypeOK, Crash
<1> QED
  BY <1>2, <1>4, <1>5 DEF EscrowInv

LEMMA AbortBooks ==
  ASSUME TypeOK, TypeOK', CrossInv, EscrowInv, NEW h \in Slots, Abort(h)
  PROVE  EscrowInv'
<1>1. aborts' # 0 /\ pc[h] # "idle"
  BY SlotAssumption DEF TypeOK, Abort
<1>2. Frame(h, job[h].tx)
  BY FinishMoves DEF Abort, Frame, tables
<1> QED
  BY <1>1, <1>2, FinishMoves, QuietBooks DEF Abort, tables

LEMMA BooksInit ==
  ASSUME Init
  PROVE  EscrowInv
<1>1. \A h \in Slots : pc[h] = "idle" /\ job[h] = NoJob
  BY DEF Init
<1>2. \A h \in Slots : Knows(h)
  BY <1>1 DEF Knows, NoJob
<1>4. \A u : ActiveOf(u) = {} /\ OutOf(u) = {} /\ InTo(u) = {}
  BY DEF Init, ActiveOf, OutOf, InTo
<1>5. ASSUME NEW u \in Users
      PROVE  Good(u, RowOf(u)) /\ High(u) = balance[u] /\ Low(u) = balance[u]
  <2>1. Total[{}] = 0 /\ Opening[u] \in Nat /\ balance[u] = Opening[u] /\ locked[u] = 0
    BY TotalAssumption, OpeningAssumption DEF Init
  <2>2. OutOf(u) \cap Logged("SETTLE_OUT") = {} /\ InTo(u) \cap Logged("SETTLE_IN") = {}
    BY <1>4
  <2>3. Good(u, RowOf(u))
    <3>1. RowOf(u).locked = 0 /\ RowOf(u).balance = Opening[u]
      BY <2>1 DEF RowOf
    <3>2. Opening[u] - Total[{}] + Total[{}] = Opening[u] /\ 0 <= Opening[u]
      BY <2>1
    <3> QED
      BY <1>4, <2>1, <3>1, <3>2 DEF Good
  <2>4. High(u) = Opening[u] + Total[{}] - Total[{}]
    BY <1>4, <2>2 DEF High
  <2>5. Low(u) = Opening[u] - Total[{}] + Total[{}]
    BY <1>4, <2>2 DEF Low
  <2> QED
    BY <2>1, <2>3, <2>4, <2>5
<1>6. BookInv
  BY <1>1, <1>5 DEF BookInv, Touches
<1>7. RecordInv
  <2>1. \A u \in Users : balance[u] \in Nat
    BY OpeningAssumption DEF Init
  <2> QED
    BY <1>1, <1>5, <2>1 DEF RecordInv, NoJob
<1> QED
  BY <1>2, <1>6, <1>7 DEF EscrowInv

-----------------------------------------------------------------------------
(* The steps that write them.                                              *)

LEMMA SumsUntouched ==
  ASSUME reserve' = reserve, log' = log, NEW u \in Users
  PROVE  /\ ActiveOf(u)' = ActiveOf(u) /\ OutOf(u)' = OutOf(u) /\ InTo(u)' = InTo(u)
         /\ High(u)' = High(u) /\ Low(u)' = Low(u)
BY SumsKept

LEMMA BoundsType ==
  ASSUME NEW u \in Users
  PROVE  High(u)' \in Int /\ Low(u)' \in Int
<1>1. /\ OutOf(u)' \in SUBSET Tx /\ InTo(u)' \in SUBSET Tx
      /\ (OutOf(u) \cap Logged("SETTLE_OUT"))' \in SUBSET Tx
      /\ (InTo(u) \cap Logged("SETTLE_IN"))' \in SUBSET Tx
  BY DEF OutOf, InTo
<1>2. /\ Total[OutOf(u)'] \in Nat /\ Total[InTo(u)'] \in Nat
      /\ Total[(OutOf(u) \cap Logged("SETTLE_OUT"))'] \in Nat
      /\ Total[(InTo(u) \cap Logged("SETTLE_IN"))'] \in Nat
      /\ Opening[u] \in Nat
  BY <1>1, TotalType, OpeningAssumption
<1>3. High(u)' = Opening[u] + Total[InTo(u)'] - Total[(OutOf(u) \cap Logged("SETTLE_OUT"))']
  BY DEF High
<1>4. Low(u)' = Opening[u] - Total[OutOf(u)'] + Total[(InTo(u) \cap Logged("SETTLE_IN"))']
  BY DEF Low
<1> QED
  BY <1>2, <1>3, <1>4

(* A handler that appends a record has saved its rows.                     *)
LEMMA RecordBooks ==
  ASSUME TypeOK, TypeOK', CrossInv, EscrowInv, NEW h \in Slots, pc[h] # "idle",
         NEW t \in Tx, Frame(h, t), NEW type \in LogTypes, AppendLog(type, t),
         type = "SETTLE_OUT" /\ Buyer[t] \notin crossed =>
           balance[Buyer[t]] + Amount[t] <= High(Buyer[t]),
         type = "SETTLE_IN" /\ Seller[t] \notin crossed =>
           Low(Seller[t]) <= balance[Seller[t]] - Amount[t],
         Pending(h) = {}, Pending(h)' = {}, pc'[h] # "saveReconciled",
         UNCHANGED <<wallets, balance, locked, reserve, aborts>>,
         Knows(h)',
         (job[h].op = "settle" => Slack(h, job[h].tx))'
  PROVE  EscrowInv'
<1>2. \A u \in Users :
         /\ ActiveOf(u)' = ActiveOf(u) /\ OutOf(u)' = OutOf(u) /\ InTo(u)' = InTo(u)
         /\ High(u)' <= High(u)
         /\ High(u)' >= High(u) - (IF type = "SETTLE_OUT" /\ u = Buyer[t] THEN Amount[t] ELSE 0)
         /\ Low(u)' >= Low(u)
         /\ Low(u)' <= Low(u) + (IF type = "SETTLE_IN" /\ u = Seller[t] THEN Amount[t] ELSE 0)
  BY BoundsRecorded
<1>3. \A u \in Touches(h) : u \in Users
  BY BusyTouches
<1>4. ASSUME NEW u \in Touches(h) \ crossed
      PROVE  Low(u)' <= balance'[u] /\ balance'[u] <= High(u)'
  <2>1. /\ High(u) \in Int /\ Low(u) \in Int /\ balance[u] \in Int /\ Amount[t] \in Nat
        /\ High(u)' \in Int /\ Low(u)' \in Int
    BY <1>3, SumsType, BoundsType, PurchaseAssumption
  <2>2. Low(u) <= balance[u] /\ balance[u] <= High(u) /\ balance'[u] = balance[u]
    BY <1>3 DEF EscrowInv, RecordInv
  <2>3. balance[u] <= High(u)'
    BY <1>2, <1>3, <2>1, <2>2
  <2>4. Low(u)' <= balance[u]
    BY <1>2, <1>3, <2>1, <2>2
  <2> QED
    BY <2>2, <2>3, <2>4
<1>7. ASSUME aborts' = 0, NEW u \in Touches(h) \ crossed PROVE Booked(h, u)'
  <2>1. Good(u, RowOf(u)) /\ u \in Users /\ RowOf(u)' = RowOf(u)
    BY <1>3, <1>7 DEF EscrowInv, BookInv, Booked, RowOf
  <2> QED
    BY <1>2, <2>1 DEF Booked, Good
<1> QED
  BY <1>4, <1>7, FrameStep

LEMMA ReserveBooks ==
  ASSUME TypeOK, TypeOK', CrossInv, EscrowInv, NEW h \in Slots, Clean(h), ReserveFunds(h)
  PROVE  EscrowInv'
<1> USE DEF history, tables
<1>0. pc[h] # "idle" /\ job[h].op = "reserve" /\ Frame(h, job[h].tx)
  BY ReserveFrames
<1>1. PICK t \in Tx : job[h].tx = t
  BY <1>0, BusyTouches
<1>2. PICK b \in Users : b = Buyer[t]
  BY PurchaseAssumption
<1>3. Touches(h) = {b} /\ b \notin crossed /\ Amount[t] \in Nat
  BY <1>0, <1>1, <1>2, BusyTouches DEF Clean
<1>4. ReserveKnows(h, t)
  BY <1>0, <1>1 DEF EscrowInv, Knows
<1>5. balance[b] \in Int /\ locked[b] \in Int /\ Total[ActiveOf(b)] \in Nat
  BY SumsType DEF TypeOK
<1>6. CASE ReserveFind(h)
  <2>1. CASE reserve[t] = "NONE"
    <3>1. Goto(h, "readWallet") /\ UNCHANGED <<tables, history, mine, theirs>>
      BY <1>1, <1>6, <2>1 DEF ReserveFind
    <3>2. OthersStay(h) /\ pc'[h] = "readWallet" /\ job'[h] = job[h] /\ Touches(h)' = Touches(h)
      BY <1>0, <3>1, GotoMoves DEF Labels, OthersStay
    <3>3. Knows(h)'
      BY <1>0, <1>1, <2>1, <3>1, <3>2 DEF Knows, ReserveKnows
    <3> QED
      BY <1>0, <1>6, <3>1, <3>2, <3>3, QuietBooks DEF Pending, ReserveFind, At
  <2>2. CASE reserve[t] # "NONE"
    BY <1>0, <1>1, <1>6, <2>2, FinishMoves, QuietBooks DEF ReserveFind, Pending, At
  <2> QED
    BY <2>1, <2>2
<1>7. CASE ReserveReadWallet(h)
  <2>1. CASE b \in wallets /\ CanCover(RowOf(b), t)
    <3>1. /\ pc[h] = "readWallet"
          /\ Goto(h, "saveReserve") /\ UNCHANGED <<tables, history, theirs>>
          /\ mine' = [mine EXCEPT ![h] = [RowOf(b) EXCEPT !.locked = @ + Amount[t]]]
      BY <1>1, <1>2, <1>7, <2>1 DEF ReserveReadWallet, At
    <3>2. OthersStay(h) /\ pc'[h] = "saveReserve" /\ job'[h] = job[h] /\ Touches(h)' = Touches(h)
      BY <1>0, <3>1, GotoMoves DEF Labels, OthersStay, TypeOK
    <3>3. Holds(mine'[h], balance[b], locked[b] + Amount[t])
      BY <3>1 DEF TypeOK, RowOf, Holds
    <3>4. balance[b] - locked[b] >= Amount[t]
      BY <2>1 DEF CanCover, RowOf
    <3>5. ReserveKnows(h, t)'
      BY <1>2, <1>4, <2>1, <3>1, <3>2, <3>3, <3>4 DEF ReserveKnows, Holds
    <3>6. Knows(h)'
      BY <1>0, <1>1, <3>2, <3>5 DEF Knows
    <3> QED
      BY <1>0, <3>1, <3>2, <3>6, QuietBooks DEF Pending, At
  <2>2. CASE ~(b \in wallets /\ CanCover(RowOf(b), t))
    BY <1>0, <1>1, <1>2, <1>7, <2>2, FinishMoves, QuietBooks
       DEF ReserveReadWallet, Pending, At
  <2> QED
    BY <2>1, <2>2
<1>8. CASE ReserveSaveReserve(h)
  <2>1. CASE MayInsert(t)
    <3>1. /\ pc[h] = "saveReserve" /\ reserve[t] = "NONE"
          /\ reserve' = [reserve EXCEPT ![t] = "ACTIVE"]
          /\ Goto(h, "saveWallet")
          /\ UNCHANGED <<wallets, balance, locked, log, history, mine, theirs>>
      BY <1>1, <1>8, <2>1 DEF ReserveSaveReserve, At, MayInsert
    <3>2. OthersStay(h) /\ pc'[h] = "saveWallet" /\ job'[h] = job[h] /\ Touches(h)' = Touches(h)
      BY <1>0, <3>1, GotoMoves DEF Labels, OthersStay
    <3>4. /\ Total[ActiveOf(b)'] = Total[ActiveOf(b)] + Amount[t]
          /\ OutOf(b)' = OutOf(b) /\ InTo(b)' = InTo(b)
          /\ High(b)' = High(b) /\ Low(b)' = Low(b)
      BY <1>2, <3>1, SumsActivated
    <3>5. /\ mine[h].balance = balance[b] /\ mine[h].locked = locked[b] + Amount[t]
          /\ balance[b] - locked[b] >= Amount[t]
      BY <1>2, <1>4, <3>1 DEF ReserveKnows, Holds
    <3>6. Knows(h)'
      BY <1>0, <1>1, <1>2, <3>1, <3>2, <3>5 DEF Knows, ReserveKnows, Holds
    <3>7. Low(b)' <= balance'[b] /\ balance'[b] <= High(b)'
      BY <1>3, <3>1, <3>4 DEF EscrowInv, RecordInv
    <3>8. ASSUME aborts' = 0 PROVE Booked(h, b)'
      <4>1. Good(b, RowOf(b))
        BY <1>3, <3>1, <3>8 DEF EscrowInv, BookInv, Booked, Pending, At
      <4>2. /\ locked[b] = Total[ActiveOf(b)] /\ locked[b] <= balance[b]
            /\ balance[b] = Opening[b] - Total[OutOf(b)] + Total[InTo(b)]
        BY <4>1 DEF Good, RowOf
      <4>3. b \in Pending(h)' /\ PendingRow(h, b)' = mine[h]
        BY <1>0, <1>1, <1>2, <3>1, <3>2 DEF Pending, PendingRow, TouchesOf, At
      <4> QED
        BY <1>3, <1>5, <3>4, <3>5, <4>2, <4>3 DEF Booked, Good
    <3>9. (job[h].op = "settle" => Slack(h, job[h].tx))'
      BY <1>0, <3>2
    <3> QED
      BY <1>0, <1>1, <1>3, <3>1, <3>2, <3>6, <3>7, <3>8, <3>9, FrameStep
  <2>2. CASE ~MayInsert(t)
    BY <1>0, <1>1, <1>8, <2>2, FinishMoves, QuietBooks DEF ReserveSaveReserve, Pending, At
  <2> QED
    BY <2>1, <2>2
<1>9. CASE ReserveSaveWallet(h)
  <2>1. /\ pc[h] = "saveWallet" /\ SaveRow(b, mine[h]) /\ Goto(h, "saveLog")
        /\ UNCHANGED <<wallets, reserve, log, history, mine, theirs>>
    BY <1>1, <1>2, <1>9 DEF ReserveSaveWallet, At
  <2>2. OthersStay(h) /\ pc'[h] = "saveLog" /\ job'[h] = job[h] /\ Touches(h)' = Touches(h)
    BY <1>0, <2>1, GotoMoves DEF Labels, OthersStay
  <2>3. /\ balance'[b] = mine[h].balance /\ locked'[b] = mine[h].locked
        /\ \A u \in Users \ {b} : balance'[u] = balance[u] /\ locked'[u] = locked[u]
    BY <2>1 DEF TypeOK, SaveRow
  <2>5. balance'[b] = balance[b]
    BY <1>2, <1>4, <2>1, <2>3 DEF ReserveKnows, Holds
  <2>6. /\ ActiveOf(b)' = ActiveOf(b) /\ OutOf(b)' = OutOf(b) /\ InTo(b)' = InTo(b)
        /\ High(b)' = High(b) /\ Low(b)' = Low(b)
    BY <2>1, SumsUntouched
  <2>7. Knows(h)' /\ (job[h].op = "settle" => Slack(h, job[h].tx))'
    BY <1>0, <1>1, <2>2 DEF Knows, ReserveKnows
  <2>9. Low(b)' <= balance'[b] /\ balance'[b] <= High(b)'
    BY <1>3, <2>5, <2>6 DEF EscrowInv, RecordInv
  <2>10. ASSUME aborts' = 0 PROVE Booked(h, b)'
    <3>1. Booked(h, b) /\ b \in Pending(h) /\ PendingRow(h, b) = mine[h]
      BY <1>0, <1>1, <1>2, <1>3, <2>1, <2>10
         DEF EscrowInv, BookInv, Pending, PendingRow, TouchesOf, At
    <3>2. /\ mine[h].locked = Total[ActiveOf(b)] /\ mine[h].locked <= mine[h].balance
          /\ mine[h].balance = Opening[b] - Total[OutOf(b)] + Total[InTo(b)]
      BY <3>1 DEF Booked, Good
    <3>3. b \notin Pending(h)'
      BY <2>2 DEF Pending, At
    <3> QED
      BY <2>3, <2>6, <3>2, <3>3 DEF Booked, Good, RowOf
  <2> QED
    BY <1>0, <1>1, <1>3, <2>1, <2>2, <2>7, <2>9, <2>10, FrameStep
<1>10. CASE ReserveSaveLog(h)
  BY <1>0, <1>1, <1>10, FinishMoves, RecordBooks
     DEF ReserveSaveLog, At, LogTypes, Pending
<1> QED
  BY <1>6, <1>7, <1>8, <1>9, <1>10 DEF ReserveFunds

LEMMA ReleaseBooks ==
  ASSUME TypeOK, TypeOK', CrossInv, EscrowInv, NEW h \in Slots, Clean(h), ReleaseFunds(h)
  PROVE  EscrowInv'
<1> USE DEF history, tables
<1>0. pc[h] # "idle" /\ job[h].op = "release" /\ Frame(h, job[h].tx)
  BY ReleaseFrames
<1>1. PICK t \in Tx : job[h].tx = t
  BY <1>0, BusyTouches
<1>2. PICK b \in Users : b = Buyer[t]
  BY PurchaseAssumption
<1>3. Touches(h) = {b} /\ b \notin crossed /\ Amount[t] \in Nat
  BY <1>0, <1>1, <1>2, BusyTouches DEF Clean
<1>4. ReleaseKnows(h, t)
  BY <1>0, <1>1 DEF EscrowInv, Knows
<1>5. balance[b] \in Int /\ locked[b] \in Int /\ Total[ActiveOf(b)] \in Nat
  BY SumsType DEF TypeOK
<1>6. CASE ReleaseFind(h)
  <2>1. CASE reserve[t] = "ACTIVE"
    <3>1. Goto(h, "readWallet") /\ UNCHANGED <<tables, history, mine, theirs>>
      BY <1>1, <1>6, <2>1 DEF ReleaseFind
    <3>2. OthersStay(h) /\ pc'[h] = "readWallet" /\ job'[h] = job[h] /\ Touches(h)' = Touches(h)
      BY <1>0, <3>1, GotoMoves DEF Labels, OthersStay
    <3>3. Knows(h)'
      BY <1>0, <1>1, <2>1, <3>1, <3>2 DEF Knows, ReleaseKnows
    <3> QED
      BY <1>0, <1>6, <3>1, <3>2, <3>3, QuietBooks DEF Pending, ReleaseFind, At
  <2>2. CASE reserve[t] # "ACTIVE"
    BY <1>0, <1>1, <1>6, <2>2, FinishMoves, QuietBooks DEF ReleaseFind, Pending, At
  <2> QED
    BY <2>1, <2>2
<1>7. CASE ReleaseReadWallet(h)
  <2>1. /\ pc[h] = "readWallet"
        /\ Goto(h, "saveReserve") /\ UNCHANGED <<tables, history, theirs>>
        /\ mine' = [mine EXCEPT ![h] = [RowOf(b) EXCEPT !.locked = @ - Amount[t]]]
    BY <1>1, <1>2, <1>7 DEF ReleaseReadWallet, At
  <2>2. OthersStay(h) /\ pc'[h] = "saveReserve" /\ job'[h] = job[h] /\ Touches(h)' = Touches(h)
    BY <1>0, <2>1, GotoMoves DEF Labels, OthersStay, TypeOK
  <2>3. Holds(mine'[h], balance[b], locked[b] - Amount[t])
    BY <2>1 DEF TypeOK, RowOf, Holds
  <2>4. ReleaseKnows(h, t)'
    BY <1>2, <1>4, <2>1, <2>2, <2>3 DEF ReleaseKnows, Holds
  <2>5. Knows(h)'
    BY <1>0, <1>1, <2>2, <2>4 DEF Knows
  <2> QED
    BY <1>0, <2>1, <2>2, <2>5, QuietBooks DEF Pending, At
<1>8. CASE ReleaseSaveReserve(h)
  <2>1. /\ pc[h] = "saveReserve" /\ reserve[t] = "ACTIVE"
        /\ reserve' = [reserve EXCEPT ![t] = "RELEASED"]
        /\ Goto(h, "saveWallet")
        /\ UNCHANGED <<wallets, balance, locked, log, history, mine, theirs>>
    BY <1>1, <1>4, <1>8 DEF ReleaseSaveReserve, At, ReleaseKnows
  <2>2. OthersStay(h) /\ pc'[h] = "saveWallet" /\ job'[h] = job[h] /\ Touches(h)' = Touches(h)
    BY <1>0, <2>1, GotoMoves DEF Labels, OthersStay
  <2>4. /\ Total[ActiveOf(b)'] = Total[ActiveOf(b)] - Amount[t]
        /\ OutOf(b)' = OutOf(b) /\ InTo(b)' = InTo(b)
        /\ High(b)' = High(b) /\ Low(b)' = Low(b)
    BY <1>2, <2>1, SumsReleased
  <2>5. mine[h].balance = balance[b] /\ mine[h].locked = locked[b] - Amount[t]
    BY <1>2, <1>4, <2>1 DEF ReleaseKnows, Holds
  <2>6. Knows(h)' /\ (job[h].op = "settle" => Slack(h, job[h].tx))'
    BY <1>0, <1>1, <1>2, <2>1, <2>2, <2>5 DEF Knows, ReleaseKnows, Holds
  <2>7. Low(b)' <= balance'[b] /\ balance'[b] <= High(b)'
    BY <1>3, <2>1, <2>4 DEF EscrowInv, RecordInv
  <2>8. ASSUME aborts' = 0 PROVE Booked(h, b)'
    <3>1. Good(b, RowOf(b))
      BY <1>3, <2>1, <2>8 DEF EscrowInv, BookInv, Booked, Pending, At
    <3>2. /\ locked[b] = Total[ActiveOf(b)] /\ locked[b] <= balance[b]
          /\ balance[b] = Opening[b] - Total[OutOf(b)] + Total[InTo(b)]
      BY <3>1 DEF Good, RowOf
    <3>3. b \in Pending(h)' /\ PendingRow(h, b)' = mine[h]
      BY <1>0, <1>1, <1>2, <2>1, <2>2 DEF Pending, PendingRow, TouchesOf, At
    <3> QED
      BY <1>3, <1>5, <2>4, <2>5, <3>2, <3>3 DEF Booked, Good
  <2> QED
    BY <1>0, <1>1, <1>3, <2>1, <2>2, <2>6, <2>7, <2>8, FrameStep
<1>9. CASE ReleaseSaveWallet(h)
  <2>1. /\ pc[h] = "saveWallet" /\ SaveRow(b, mine[h]) /\ Goto(h, "saveLog")
        /\ UNCHANGED <<wallets, reserve, log, history, mine, theirs>>
    BY <1>1, <1>2, <1>9 DEF ReleaseSaveWallet, At
  <2>2. OthersStay(h) /\ pc'[h] = "saveLog" /\ job'[h] = job[h] /\ Touches(h)' = Touches(h)
    BY <1>0, <2>1, GotoMoves DEF Labels, OthersStay
  <2>3. /\ balance'[b] = mine[h].balance /\ locked'[b] = mine[h].locked
        /\ \A u \in Users \ {b} : balance'[u] = balance[u] /\ locked'[u] = locked[u]
    BY <2>1 DEF TypeOK, SaveRow
  <2>5. balance'[b] = balance[b]
    BY <1>2, <1>4, <2>1, <2>3 DEF ReleaseKnows, Holds
  <2>6. /\ ActiveOf(b)' = ActiveOf(b) /\ OutOf(b)' = OutOf(b) /\ InTo(b)' = InTo(b)
        /\ High(b)' = High(b) /\ Low(b)' = Low(b)
    BY <2>1, SumsUntouched
  <2>7. Knows(h)' /\ (job[h].op = "settle" => Slack(h, job[h].tx))'
    BY <1>0, <1>1, <2>2 DEF Knows, ReleaseKnows
  <2>9. Low(b)' <= balance'[b] /\ balance'[b] <= High(b)'
    BY <1>3, <2>5, <2>6 DEF EscrowInv, RecordInv
  <2>10. ASSUME aborts' = 0 PROVE Booked(h, b)'
    <3>1. Booked(h, b) /\ b \in Pending(h) /\ PendingRow(h, b) = mine[h]
      BY <1>0, <1>1, <1>2, <1>3, <2>1, <2>10
         DEF EscrowInv, BookInv, Pending, PendingRow, TouchesOf, At
    <3>2. /\ mine[h].locked = Total[ActiveOf(b)] /\ mine[h].locked <= mine[h].balance
          /\ mine[h].balance = Opening[b] - Total[OutOf(b)] + Total[InTo(b)]
      BY <3>1 DEF Booked, Good
    <3>3. b \notin Pending(h)'
      BY <2>2 DEF Pending, At
    <3> QED
      BY <2>3, <2>6, <3>2, <3>3 DEF Booked, Good, RowOf
  <2> QED
    BY <1>0, <1>1, <1>3, <2>1, <2>2, <2>7, <2>9, <2>10, FrameStep
<1>10. CASE ReleaseSaveLog(h)
  BY <1>0, <1>1, <1>10, FinishMoves, RecordBooks
     DEF ReleaseSaveLog, At, LogTypes, Pending
<1> QED
  BY <1>6, <1>7, <1>8, <1>9, <1>10 DEF ReleaseFunds

LEMMA SettleBooks ==
  ASSUME TypeOK, TypeOK', SafetyInv, CrossInv, WalletInv, EscrowInv, NEW h \in Slots,
         Clean(h), SettleFunds(h)
  PROVE  EscrowInv'
<1> USE DEF history, tables
<1>0. pc[h] # "idle" /\ job[h].op = "settle" /\ Frame(h, job[h].tx)
  BY SettleFrames
<1>1. PICK t \in Tx : job[h].tx = t
  BY <1>0, BusyTouches
<1>2. PICK b \in Users : b = Buyer[t]
  BY PurchaseAssumption
<1>3. PICK v \in Users : v = Seller[t]
  BY PurchaseAssumption
<1>4. Touches(h) = {b, v} /\ b # v /\ Amount[t] \in Nat
  BY <1>0, <1>1, <1>2, <1>3, BusyTouches DEF TouchesOf
<1>5. SettleKnows(h, t) /\ Slack(h, t)
  BY <1>0, <1>1 DEF EscrowInv, Knows, RecordInv
<1>7. /\ balance[b] \in Int /\ locked[b] \in Int /\ balance[v] \in Int /\ locked[v] \in Int
      /\ High(b) \in Int /\ High(v) \in Int /\ Low(b) \in Int /\ Low(v) \in Int
      /\ mine[h].balance \in Int /\ mine[h].locked \in Int
  BY SumsType DEF TypeOK, Row
<1>types. \A u \in Users :
            /\ Total[ActiveOf(u)] \in Nat /\ Total[OutOf(u)] \in Nat /\ Total[InTo(u)] \in Nat
            /\ Opening[u] \in Int
  BY SumsType
<1>8. /\ b \notin crossed => Low(b) <= balance[b] /\ balance[b] <= High(b)
      /\ v \notin crossed => Low(v) <= balance[v] /\ balance[v] <= High(v)
  BY DEF EscrowInv, RecordInv
<1>9. CASE SettleFind(h)
  <2>1. CASE reserve[t] = "ACTIVE"
    <3>1. Goto(h, "readWallet") /\ UNCHANGED <<tables, history, mine, theirs>>
      BY <1>1, <1>9, <2>1 DEF SettleFind
    <3>2. OthersStay(h) /\ pc'[h] = "readWallet" /\ job'[h] = job[h] /\ Touches(h)' = Touches(h)
      BY <1>0, <3>1, GotoMoves DEF Labels, OthersStay
    <3>3. Knows(h)' /\ (job[h].op = "settle" => Slack(h, job[h].tx))'
      BY <1>0, <1>1, <2>1, <3>1, <3>2 DEF Knows, SettleKnows, Slack, BuyerSlack, SellerSlack
    <3> QED
      BY <1>0, <1>9, <3>1, <3>2, <3>3, QuietBooks DEF Pending, SettleFind, At
  <2>2. CASE reserve[t] # "ACTIVE"
    BY <1>0, <1>1, <1>9, <2>2, FinishMoves, QuietBooks DEF SettleFind, Pending, At
  <2> QED
    BY <2>1, <2>2
<1>10. CASE SettleReadWallet(h) \/ SettleRefresh(h)
  <2>1. PICK l \in {"readSeller", "refresh", "reconcile"} :
          /\ Goto(h, l) /\ UNCHANGED <<tables, history, theirs>>
          /\ pc[h] \in {"readWallet", "refresh"}
          /\ \E row \in Row : mine' = [mine EXCEPT ![h] = row]
                              /\ row.balance = balance[b] /\ row.locked = locked[b]
    <3>1. CASE SettleReadWallet(h)
      <4>1. RowOf(b) \in Row /\ RowOf(b).balance = balance[b] /\ RowOf(b).locked = locked[b]
        BY <1>7 DEF RowOf, Row
      <4> QED
        BY <1>1, <1>2, <3>1, <4>1 DEF SettleReadWallet, At
    <3>2. CASE SettleRefresh(h)
      <4> DEFINE row == [mine[h] EXCEPT !.locked = locked[b]]
      <4>1. row \in Row /\ row.locked = locked[b] /\ row.balance = mine[h].balance
        BY <1>7 DEF TypeOK, Row
      <4>2. mine[h].balance = balance[b] /\ mine' = [mine EXCEPT ![h] = row]
        BY <1>1, <1>2, <1>5, <3>2 DEF SettleRefresh, At, SettleKnows, Holds
      <4> QED
        BY <1>1, <1>2, <3>2, <4>1, <4>2 DEF SettleRefresh, At
    <3> QED
      BY <1>10, <3>1, <3>2
  <2>2. OthersStay(h) /\ pc'[h] = l /\ job'[h] = job[h] /\ Touches(h)' = Touches(h)
    BY <1>0, <2>1, GotoMoves DEF Labels, OthersStay, TypeOK
  <2>3. mine'[h].balance = balance[b] /\ mine'[h].locked = locked[b]
    BY <2>1 DEF TypeOK
  <2>4. reserve[t] = "ACTIVE"
    BY <1>5, <2>1 DEF SettleKnows
  <2>5. SettleKnows(h, t)'
    BY <1>2, <2>1, <2>2, <2>3, <2>4 DEF SettleKnows, Holds
  <2>6. Knows(h)' /\ (job[h].op = "settle" => Slack(h, job[h].tx))'
    BY <1>0, <1>1, <2>1, <2>2, <2>5 DEF Knows, Slack, BuyerSlack, SellerSlack
  <2> QED
    BY <1>0, <2>1, <2>2, <2>6, QuietBooks DEF Pending, At
<1>11. CASE SettleReconcile(h)
  <2> DEFINE sum == Total[ActiveOf(b)]
  <2>1. CASE sum > mine[h].locked
    <3>1. /\ pc[h] = "reconcile" /\ Goto(h, "saveReconciled")
          /\ UNCHANGED <<tables, history, theirs>>
          /\ mine' = [mine EXCEPT ![h].locked = sum]
      BY <1>1, <1>2, <1>11, <2>1 DEF SettleReconcile, At
    <3>2. OthersStay(h) /\ pc'[h] = "saveReconciled" /\ job'[h] = job[h]
            /\ Touches(h)' = Touches(h)
      BY <1>0, <3>1, GotoMoves DEF Labels, OthersStay, TypeOK
    <3>3. mine[h].balance = balance[b] /\ mine[h].locked = locked[b] /\ reserve[t] = "ACTIVE"
      BY <1>2, <1>5, <3>1 DEF SettleKnows, Holds
    <3>4. mine'[h].balance = balance[b]
      BY <3>1, <3>3 DEF TypeOK, Row
    <3>5. Knows(h)' /\ (job[h].op = "settle" => Slack(h, job[h].tx))'
      BY <1>0, <1>1, <1>2, <3>1, <3>2, <3>3, <3>4 DEF Knows, SettleKnows, Slack, BuyerSlack, SellerSlack
    <3>6. b \in crossed \/ aborts # 0
      <4>1. SUFFICES ASSUME aborts = 0, b \notin crossed PROVE FALSE
        OBVIOUS
      <4>2. Booked(h, b) /\ b \notin Pending(h)
        BY <1>4, <3>1, <4>1 DEF EscrowInv, BookInv, Pending, At
      <4>3. locked[b] = sum
        BY <4>2 DEF Booked, Good, RowOf
      <4> QED
        BY <1>7, <2>1, <3>3, <4>3
    <3> QED
      BY <1>0, <1>1, <1>2, <3>1, <3>2, <3>5, <3>6, QuietBooks DEF Pending, At
  <2>2. CASE ~(sum > mine[h].locked)
    BY <1>0, <1>1, <1>2, <1>11, <2>2, FinishMoves, QuietBooks
       DEF SettleReconcile, Pending, At
  <2> QED
    BY <2>1, <2>2
<1>12. CASE SettleSaveReconciled(h)
  <2>1. /\ pc[h] = "saveReconciled" /\ SaveRow(b, mine[h])
        /\ UNCHANGED <<wallets, reserve, log, history>>
        /\ (Goto(h, "readSeller") /\ UNCHANGED <<mine, theirs>>) \/ Finish(h)
    BY <1>1, <1>2, <1>12 DEF SettleSaveReconciled, At
  <2>2. /\ b \in crossed \/ aborts # 0
        /\ mine[h].balance = balance[b] /\ reserve[t] = "ACTIVE"
    BY <1>1, <1>2, <1>5, <2>1 DEF EscrowInv, BookInv, SettleKnows
  <2>3. /\ balance'[b] = balance[b] /\ locked'[b] = mine[h].locked
        /\ \A u \in Users \ {b} : balance'[u] = balance[u] /\ locked'[u] = locked[u]
    BY <2>1, <2>2 DEF TypeOK, SaveRow
  <2>4. /\ OthersStay(h) /\ Touches(h)' \subseteq Touches(h)
        /\ pc'[h] \in {"idle", "readSeller"}
        /\ Knows(h)' /\ (job[h].op = "settle" => Slack(h, job[h].tx))'
    <3>1. CASE Finish(h)
      BY <3>1, FinishMoves
    <3>2. CASE Goto(h, "readSeller") /\ UNCHANGED <<mine, theirs>>
      <4>1. OthersStay(h) /\ pc'[h] = "readSeller" /\ job'[h] = job[h]
              /\ Touches(h)' = Touches(h)
        BY <1>0, <3>2, GotoMoves DEF Labels, OthersStay
      <4>2. Knows(h)' /\ (job[h].op = "settle" => Slack(h, job[h].tx))'
        BY <1>0, <1>1, <1>2, <2>1, <2>2, <2>3, <3>2, <4>1 DEF Knows, SettleKnows, Slack, BuyerSlack, SellerSlack, Holds
      <4> QED
        BY <4>1, <4>2
    <3> QED
      BY <2>1, <3>1, <3>2
  <2>6. \A u \in Touches(h) : /\ u \in Users /\ balance'[u] = balance[u]
                              /\ High(u)' = High(u) /\ Low(u)' = Low(u)
    BY <1>4, <2>1, <2>3, SumsUntouched
  <2>7. \A u \in Touches(h) \ crossed : Low(u)' <= balance'[u] /\ balance'[u] <= High(u)'
    BY <2>6 DEF EscrowInv, RecordInv
  <2>8. ASSUME aborts' = 0, NEW u \in Touches(h) \ crossed PROVE Booked(h, u)'
    <3>1. u = v /\ aborts = 0
      BY <1>4, <2>1, <2>2, <2>8
    <3>2. v \notin Pending(h) /\ v \notin Pending(h)'
      BY <2>1, <2>4 DEF Pending, At, OthersStay
    <3>3. Good(v, RowOf(v))
      BY <1>4, <2>8, <3>1, <3>2 DEF EscrowInv, BookInv, Booked
    <3>4. /\ ActiveOf(v)' = ActiveOf(v) /\ OutOf(v)' = OutOf(v) /\ InTo(v)' = InTo(v)
          /\ RowOf(v)' = RowOf(v)
      BY <1>4, <2>1, <2>3, SumsUntouched DEF RowOf
    <3> QED
      BY <3>1, <3>2, <3>3, <3>4 DEF Booked, Good
  <2> QED
    BY <1>0, <1>1, <1>2, <2>1, <2>2, <2>4, <2>7, <2>8, FrameStep
<1>13. CASE SettleReadSeller(h) \/ SettleCreateSeller(h)
  <2>1. /\ balance' = balance /\ locked' = locked /\ reserve' = reserve /\ log' = log
        /\ UNCHANGED history /\ wallets \subseteq wallets'
        /\ pc[h] \in {"readSeller", "createSeller"}
        /\ \/ Finish(h)
           \/ Goto(h, "createSeller") /\ UNCHANGED <<mine, theirs>>
           \/ \E row \in Row : /\ Goto(h, "saveReserve")
                               /\ mine' = [mine EXCEPT ![h] = BuyerRow(@, t)]
                               /\ theirs' = [theirs EXCEPT ![h] = SellerRow(row, t)]
                               /\ row.balance = balance[v] /\ row.locked = locked[v]
    <3>1. CASE SettleReadSeller(h)
      <4>1. RowOf(v) \in Row /\ RowOf(v).balance = balance[v] /\ RowOf(v).locked = locked[v]
        BY <1>7 DEF RowOf, Row
      <4> QED
        BY <1>1, <1>3, <3>1, <4>1 DEF SettleReadSeller, At
    <3>2. CASE SettleCreateSeller(h)
      <4>1. CASE v \in wallets
        BY <1>1, <1>3, <3>2, <4>1 DEF SettleCreateSeller, At
      <4>2. CASE v \notin wallets
        <5>1. NoRow \in Row /\ NoRow.balance = balance[v] /\ NoRow.locked = locked[v]
          BY <4>2 DEF WalletInv, NoRow, Row
        <5> QED
          BY <1>1, <1>3, <3>2, <4>2, <5>1 DEF SettleCreateSeller, At
      <4> QED
        BY <4>1, <4>2
    <3> QED
      BY <1>13, <3>1, <3>2
  <2>2. /\ Holds(mine[h], balance[b], locked[b]) /\ reserve[t] = "ACTIVE"
    BY <1>2, <1>5, <2>1 DEF SettleKnows
  <2>3. CASE Finish(h)
    BY <1>0, <2>1, <2>3, FinishMoves, QuietBooks DEF Pending, At
  <2>4. CASE Goto(h, "createSeller") /\ UNCHANGED <<mine, theirs>>
    <3>1. OthersStay(h) /\ pc'[h] = "createSeller" /\ job'[h] = job[h]
            /\ Touches(h)' = Touches(h)
      BY <1>0, <2>4, GotoMoves DEF Labels, OthersStay
    <3>2. Knows(h)' /\ (job[h].op = "settle" => Slack(h, job[h].tx))'
      BY <1>0, <1>1, <1>2, <2>1, <2>2, <2>4, <3>1 DEF Knows, SettleKnows, Slack, BuyerSlack, SellerSlack, Holds
    <3> QED
      BY <1>0, <2>1, <3>1, <3>2, QuietBooks DEF Pending, At
  <2>5. ASSUME NEW row \in Row,
               Goto(h, "saveReserve"),
               mine' = [mine EXCEPT ![h] = BuyerRow(@, t)],
               theirs' = [theirs EXCEPT ![h] = SellerRow(row, t)],
               row.balance = balance[v], row.locked = locked[v]
        PROVE  EscrowInv'
    <3>1. OthersStay(h) /\ pc'[h] = "saveReserve" /\ job'[h] = job[h]
            /\ Touches(h)' = Touches(h)
      BY <1>0, <2>5, GotoMoves DEF Labels, OthersStay, TypeOK
    <3>2. mine'[h].balance = balance[b] - Amount[t] /\ mine'[h].locked = locked[b] - Amount[t]
      BY <2>2, <2>5 DEF TypeOK, BuyerRow, Holds
    <3>3. theirs'[h].balance = balance[v] + Amount[t] /\ theirs'[h].locked = locked[v]
      BY <2>5 DEF TypeOK, SellerRow, Row
    <3>4. Knows(h)' /\ (job[h].op = "settle" => Slack(h, job[h].tx))'
      BY <1>0, <1>1, <1>2, <1>3, <2>1, <2>2, <3>1, <3>2, <3>3
         DEF Knows, SettleKnows, Slack, BuyerSlack, SellerSlack, Holds
    <3> QED
      BY <1>0, <2>1, <3>1, <3>4, QuietBooks DEF Pending, At
  <2> QED
    BY <2>1, <2>3, <2>4, <2>5
<1>14. CASE SettleSaveReserve(h)
  <2>1. /\ pc[h] = "saveReserve" /\ reserve[t] = "ACTIVE"
        /\ reserve' = [reserve EXCEPT ![t] = "SETTLED"]
        /\ Goto(h, "saveWallet")
        /\ UNCHANGED <<wallets, balance, locked, log, history, mine, theirs>>
    BY <1>1, <1>5, <1>14 DEF SettleSaveReserve, At, SettleKnows
  <2>2. OthersStay(h) /\ pc'[h] = "saveWallet" /\ job'[h] = job[h] /\ Touches(h)' = Touches(h)
    BY <1>0, <2>1, GotoMoves DEF Labels, OthersStay
  <2>sums. ASSUME NEW u \in Users
           PROVE  /\ Total[ActiveOf(u)'] = Total[ActiveOf(u)] - (IF u = b THEN Amount[t] ELSE 0)
                  /\ Total[OutOf(u)'] = Total[OutOf(u)] + (IF u = b THEN Amount[t] ELSE 0)
                  /\ Total[InTo(u)'] = Total[InTo(u)] + (IF u = v THEN Amount[t] ELSE 0)
                  /\ High(u)' = High(u) + (IF u = v THEN Amount[t] ELSE 0)
                  /\ Low(u)' = Low(u) - (IF u = b THEN Amount[t] ELSE 0)
    BY <1>2, <1>3, <2>1, SumsSettled DEF SafetyInv
  <2>4. /\ Total[ActiveOf(b)'] = Total[ActiveOf(b)] - Amount[t]
        /\ Total[OutOf(b)'] = Total[OutOf(b)] + Amount[t]
        /\ Total[InTo(b)'] = Total[InTo(b)]
        /\ High(b)' = High(b) /\ Low(b)' = Low(b) - Amount[t]
    BY <1>4, <1>7, <1>types, <2>sums
  <2>5. /\ Total[ActiveOf(v)'] = Total[ActiveOf(v)]
        /\ Total[OutOf(v)'] = Total[OutOf(v)]
        /\ Total[InTo(v)'] = Total[InTo(v)] + Amount[t]
        /\ High(v)' = High(v) + Amount[t] /\ Low(v)' = Low(v)
    BY <1>4, <1>7, <1>types, <2>sums
  <2>6. /\ mine[h].balance = balance[b] - Amount[t] /\ mine[h].locked = locked[b] - Amount[t]
        /\ theirs[h].balance = balance[v] + Amount[t] /\ theirs[h].locked = locked[v]
    BY <1>2, <1>3, <1>5, <2>1 DEF SettleKnows, Holds
  <2>7. SettleKnows(h, t)'
    BY <1>2, <1>3, <2>1, <2>2, <2>6 DEF SettleKnows, Holds
  <2>8. Slack(h, t)'
    <3>1. /\ b \notin crossed => Low(b)' <= balance[b] - Amount[t]
          /\ v \notin crossed => balance[v] + Amount[t] <= High(v)'
      BY <1>4, <1>7, <1>8, <2>4, <2>5
    <3> QED
      BY <1>0, <1>2, <1>3, <2>1, <2>2, <3>1 DEF Frame, Slack, BuyerSlack, SellerSlack
  <2>9. Knows(h)' /\ (job[h].op = "settle" => Slack(h, job[h].tx))'
    BY <1>0, <1>1, <2>2, <2>7, <2>8 DEF Knows
  <2>10. \A u \in Touches(h) \ crossed : Low(u)' <= balance'[u] /\ balance'[u] <= High(u)'
    BY <1>4, <1>7, <1>8, <2>1, <2>4, <2>5
  <2>12. ASSUME aborts' = 0, NEW u \in Touches(h) \ crossed PROVE Booked(h, u)'
    <3>1. Booked(h, u) /\ u \notin Pending(h)
      BY <2>1, <2>12 DEF EscrowInv, BookInv, Pending, At
    <3>2. /\ locked[u] = Total[ActiveOf(u)] /\ locked[u] <= balance[u]
          /\ balance[u] = Opening[u] - Total[OutOf(u)] + Total[InTo(u)]
      BY <3>1 DEF Booked, Good, RowOf
    <3>3. u \in Pending(h)'
      BY <1>0, <1>1, <1>2, <1>3, <1>4, <2>2 DEF Pending, At, TouchesOf
    <3>4. CASE u = b
      <4>1. PendingRow(h, b)' = mine[h]
        BY <1>1, <1>2, <2>1, <2>2 DEF PendingRow
      <4>2. /\ mine[h].locked <= mine[h].balance
            /\ mine[h].locked = Total[ActiveOf(b)']
            /\ mine[h].balance = Opening[b] - Total[OutOf(b)'] + Total[InTo(b)']
        BY <1>4, <2>4, <2>6, <3>2, <3>4, <1>types
      <4> QED
        BY <3>3, <3>4, <4>1, <4>2 DEF Booked, Good
    <3>5. CASE u = v
      <4>1. PendingRow(h, v)' = theirs[h]
        BY <1>1, <1>2, <1>4, <2>1, <2>2 DEF PendingRow
      <4>2. /\ theirs[h].locked <= theirs[h].balance
            /\ theirs[h].locked = Total[ActiveOf(v)']
            /\ theirs[h].balance = Opening[v] - Total[OutOf(v)'] + Total[InTo(v)']
        BY <1>4, <2>5, <2>6, <3>2, <3>5, <1>types
      <4> QED
        BY <3>3, <3>5, <4>1, <4>2 DEF Booked, Good
    <3> QED
      BY <1>4, <3>4, <3>5
  <2> QED
    BY <1>0, <1>1, <1>2, <2>1, <2>2, <2>9, <2>10, <2>12, FrameStep
<1>15. CASE SettleSaveWallet(h)
  <2>1. /\ pc[h] = "saveWallet" /\ SaveRow(b, mine[h]) /\ Goto(h, "saveSeller")
        /\ UNCHANGED <<wallets, reserve, log, history, mine, theirs>>
    BY <1>1, <1>2, <1>15 DEF SettleSaveWallet, At
  <2>2. OthersStay(h) /\ pc'[h] = "saveSeller" /\ job'[h] = job[h] /\ Touches(h)' = Touches(h)
    BY <1>0, <2>1, GotoMoves DEF Labels, OthersStay
  <2>3. /\ mine[h].balance = balance[b] - Amount[t]
        /\ theirs[h].balance = balance[v] + Amount[t] /\ theirs[h].locked = locked[v]
    BY <1>2, <1>3, <1>5, <2>1 DEF SettleKnows, Holds
  <2>4. /\ balance'[b] = mine[h].balance /\ locked'[b] = mine[h].locked
        /\ \A u \in Users \ {b} : balance'[u] = balance[u] /\ locked'[u] = locked[u]
    BY <2>1 DEF TypeOK, SaveRow
  <2>6. \A u \in Users : /\ ActiveOf(u)' = ActiveOf(u) /\ OutOf(u)' = OutOf(u)
                         /\ InTo(u)' = InTo(u) /\ High(u)' = High(u) /\ Low(u)' = Low(u)
    BY <2>1, SumsUntouched
  <2>7. SettleKnows(h, t)'
    BY <1>3, <1>4, <2>1, <2>2, <2>3, <2>4 DEF SettleKnows, Holds
  <2>8. /\ b \notin crossed => Low(b) <= balance[b] - Amount[t]
        /\ v \notin crossed => balance[v] + Amount[t] <= High(v)
    BY <1>2, <1>3, <1>5, <2>1 DEF Slack, BuyerSlack, SellerSlack
  <2>9. Slack(h, t)'
    <3>1. /\ b \notin crossed => balance'[b] + Amount[t] <= High(b)'
          /\ v \notin crossed => balance'[v] + Amount[t] <= High(v)'
      BY <1>4, <1>7, <1>8, <2>3, <2>4, <2>6, <2>8
    <3> QED
      BY <1>0, <1>2, <1>3, <2>2, <3>1 DEF Frame, Slack, BuyerSlack, SellerSlack
  <2>10. Knows(h)' /\ (job[h].op = "settle" => Slack(h, job[h].tx))'
    BY <1>0, <1>1, <2>2, <2>7, <2>9 DEF Knows
  <2>11. \A u \in Touches(h) \ crossed : Low(u)' <= balance'[u] /\ balance'[u] <= High(u)'
    BY <1>4, <1>7, <1>8, <2>3, <2>4, <2>6, <2>8
  <2>13. ASSUME aborts' = 0, NEW u \in Touches(h) \ crossed PROVE Booked(h, u)'
    <3>1. Booked(h, u) /\ u \in Pending(h)
      BY <1>0, <1>1, <1>2, <1>3, <1>4, <2>1, <2>13 DEF EscrowInv, BookInv, Pending, At, TouchesOf
    <3>2. CASE u = b
      <4>1. PendingRow(h, b) = mine[h] /\ b \notin Pending(h)'
        BY <1>1, <1>2, <1>3, <1>4, <2>2 DEF PendingRow, Pending, At
      <4>2. /\ mine[h].locked <= mine[h].balance
            /\ mine[h].locked = Total[ActiveOf(b)]
            /\ mine[h].balance = Opening[b] - Total[OutOf(b)] + Total[InTo(b)]
        BY <3>1, <3>2, <4>1 DEF Booked, Good
      <4> QED
        BY <2>4, <2>6, <3>2, <4>1, <4>2 DEF Booked, Good, RowOf
    <3>3. CASE u = v
      <4>1. /\ PendingRow(h, v) = theirs[h] /\ PendingRow(h, v)' = theirs[h]
            /\ v \in Pending(h)'
        BY <1>0, <1>1, <1>2, <1>3, <1>4, <2>1, <2>2 DEF PendingRow, Pending, At
      <4>2. /\ theirs[h].locked <= theirs[h].balance
            /\ theirs[h].locked = Total[ActiveOf(v)]
            /\ theirs[h].balance = Opening[v] - Total[OutOf(v)] + Total[InTo(v)]
        BY <3>1, <3>3, <4>1 DEF Booked, Good
      <4> QED
        BY <2>6, <3>3, <4>1, <4>2 DEF Booked, Good
    <3> QED
      BY <1>4, <3>2, <3>3
  <2> QED
    BY <1>0, <1>1, <1>2, <2>1, <2>2, <2>10, <2>11, <2>13, FrameStep
<1>16. CASE SettleSaveSeller(h)
  <2>1. /\ pc[h] = "saveSeller" /\ SaveRow(v, theirs[h]) /\ Goto(h, "saveLog")
        /\ UNCHANGED <<wallets, reserve, log, history, mine, theirs>>
    BY <1>1, <1>3, <1>16 DEF SettleSaveSeller, At
  <2>2. OthersStay(h) /\ pc'[h] = "saveLog" /\ job'[h] = job[h] /\ Touches(h)' = Touches(h)
    BY <1>0, <2>1, GotoMoves DEF Labels, OthersStay
  <2>3. /\ theirs[h].balance = balance[v] + Amount[t] /\ theirs[h].locked = locked[v]
    BY <1>3, <1>5, <2>1 DEF SettleKnows, Holds
  <2>4. /\ balance'[v] = theirs[h].balance /\ locked'[v] = theirs[h].locked
        /\ \A u \in Users \ {v} : balance'[u] = balance[u] /\ locked'[u] = locked[u]
    BY <2>1 DEF TypeOK, SaveRow
  <2>6. \A u \in Users : /\ ActiveOf(u)' = ActiveOf(u) /\ OutOf(u)' = OutOf(u)
                         /\ InTo(u)' = InTo(u) /\ High(u)' = High(u) /\ Low(u)' = Low(u)
    BY <2>1, SumsUntouched
  <2>7. SettleKnows(h, t)'
    BY <2>2 DEF SettleKnows
  <2>8. /\ b \notin crossed => balance[b] + Amount[t] <= High(b)
        /\ v \notin crossed => balance[v] + Amount[t] <= High(v)
    BY <1>2, <1>3, <1>5, <2>1 DEF Slack, BuyerSlack, SellerSlack
  <2>9. Slack(h, t)'
    <3>1. /\ b \notin crossed => balance'[b] + Amount[t] <= High(b)'
          /\ v \notin crossed => Low(v)' <= balance'[v] - Amount[t]
      BY <1>4, <1>7, <1>8, <2>3, <2>4, <2>6, <2>8
    <3> QED
      BY <1>0, <1>2, <1>3, <2>2, <3>1 DEF Frame, Slack, BuyerSlack, SellerSlack
  <2>10. Knows(h)' /\ (job[h].op = "settle" => Slack(h, job[h].tx))'
    BY <1>0, <1>1, <2>2, <2>7, <2>9 DEF Knows
  <2>11. \A u \in Touches(h) \ crossed : Low(u)' <= balance'[u] /\ balance'[u] <= High(u)'
    BY <1>4, <1>7, <1>8, <2>3, <2>4, <2>6, <2>8
  <2>13. ASSUME aborts' = 0, NEW u \in Touches(h) \ crossed PROVE Booked(h, u)'
    <3>1. Booked(h, u) /\ u \notin Pending(h)'
      BY <2>1, <2>2, <2>13 DEF EscrowInv, BookInv, Pending, At
    <3>2. CASE u = b
      <4>1. b \notin Pending(h)
        BY <1>1, <1>3, <1>4, <2>1 DEF Pending, At
      <4>2. RowOf(b)' = RowOf(b)
        BY <1>4, <2>4 DEF RowOf
      <4> QED
        BY <2>6, <3>1, <3>2, <4>1, <4>2 DEF Booked, Good
    <3>3. CASE u = v
      <4>1. PendingRow(h, v) = theirs[h] /\ v \in Pending(h)
        BY <1>0, <1>1, <1>2, <1>3, <1>4, <2>1 DEF PendingRow, Pending, At
      <4>2. /\ theirs[h].locked <= theirs[h].balance
            /\ theirs[h].locked = Total[ActiveOf(v)]
            /\ theirs[h].balance = Opening[v] - Total[OutOf(v)] + Total[InTo(v)]
        BY <3>1, <3>3, <4>1 DEF Booked, Good
      <4> QED
        BY <2>4, <2>6, <3>1, <3>3, <4>2 DEF Booked, Good, RowOf
    <3> QED
      BY <1>4, <3>2, <3>3
  <2> QED
    BY <1>0, <1>1, <1>2, <2>1, <2>2, <2>10, <2>11, <2>13, FrameStep
<1>17. CASE SettleSaveLog(h)
  <2>1. /\ pc[h] = "saveLog" /\ AppendLog("SETTLE_OUT", t)
        /\ Finish(h) \/ (Goto(h, "saveSellerLog") /\ UNCHANGED <<mine, theirs>>)
        /\ UNCHANGED <<wallets, balance, locked, reserve, history>>
    BY <1>1, <1>17 DEF SettleSaveLog, At
  <2>2. /\ b \notin crossed => balance[b] + Amount[t] <= High(b)
        /\ v \notin crossed => Low(v) <= balance[v] - Amount[t]
    BY <1>2, <1>3, <1>5, <2>1 DEF Slack, BuyerSlack, SellerSlack
  <2>3. /\ OthersStay(h) /\ Touches(h)' \subseteq Touches(h) /\ Pending(h)' = {}
        /\ Knows(h)' /\ (job[h].op = "settle" => Slack(h, job[h].tx))'
        /\ pc'[h] # "saveReconciled"
    <3>1. CASE Finish(h)
      BY <3>1, FinishMoves
    <3>2. CASE Goto(h, "saveSellerLog") /\ UNCHANGED <<mine, theirs>>
      <4>1. OthersStay(h) /\ pc'[h] = "saveSellerLog" /\ job'[h] = job[h]
              /\ Touches(h)' = Touches(h)
        BY <1>0, <3>2, GotoMoves DEF Labels, OthersStay
      <4>2. /\ Low(v)' >= Low(v) /\ Low(v)' <= Low(v) + 0
        BY <2>1, BoundsRecorded DEF LogTypes
      <4>3. v \notin crossed => Low(v)' <= balance'[v] - Amount[t]
        BY <1>4, <1>7, <2>1, <2>2, <4>2, BoundsType
      <4>4. Slack(h, t)'
        BY <1>0, <1>3, <4>1, <4>3 DEF Frame, Slack, BuyerSlack, SellerSlack
      <4>5. Knows(h)'
        BY <1>0, <1>1, <4>1 DEF Knows, SettleKnows
      <4> QED
        BY <1>0, <1>1, <4>1, <4>4, <4>5 DEF Pending, At
    <3> QED
      BY <2>1, <3>1, <3>2
  <2>4. Pending(h) = {}
    BY <2>1 DEF Pending, At
  <2> QED
    BY <1>0, <1>1, <1>2, <1>3, <2>1, <2>2, <2>3, <2>4, RecordBooks DEF LogTypes
<1>18. CASE SettleSaveSellerLog(h)
  <2>1. v \notin crossed => Low(v) <= balance[v] - Amount[t]
    BY <1>3, <1>5, <1>18 DEF Slack, BuyerSlack, SellerSlack, SettleSaveSellerLog, At
  <2> QED
    BY <1>0, <1>1, <1>3, <1>18, <2>1, FinishMoves, RecordBooks
       DEF SettleSaveSellerLog, At, LogTypes, Pending, At
<1> QED
  BY <1>9, <1>10, <1>11, <1>12, <1>13, <1>14, <1>15, <1>16, <1>17, <1>18
     DEF SettleFunds

-----------------------------------------------------------------------------
(* The books and the escrow they implement.                                *)

LEMMA BooksStep ==
  TypeOK /\ TypeOK' /\ SafetyInv /\ CrossInv /\ WalletInv /\ EscrowInv /\ [Next]_vars
    => EscrowInv'
<1> SUFFICES ASSUME TypeOK, TypeOK', SafetyInv, CrossInv, WalletInv, EscrowInv, [Next]_vars
             PROVE  EscrowInv'
  OBVIOUS
<1>1. ASSUME NEW h \in Handlers, NEW o \in Ops, NEW t \in Tx, Request(h, o, t)
      PROVE  EscrowInv'
  BY <1>1, StartBooks DEF Request, Slots, tables
<1>2. ASSUME NEW h \in Slots, Step(h) PROVE EscrowInv'
  <2>1. CASE Clean(h)
    BY <1>2, <2>1, ReserveBooks, ReleaseBooks, SettleBooks DEF Step
  <2>2. CASE ~Clean(h)
    BY <1>2, <2>2, MarkedBooks
  <2> QED
    BY <2>1, <2>2
<1>3. ASSUME NEW h \in Slots, Abort(h) PROVE EscrowInv'
  BY <1>3, AbortBooks
<1>4. ASSUME NEW t \in Tx, CleanupRelease(t) PROVE EscrowInv'
  BY <1>4, StartBooks DEF CleanupRelease, Slots, Ops, tables
<1>5. CASE Crash
  BY <1>5, CrashBooks
<1>6. CASE CleanupFind \/ (\E t \in Tx : Expire(t)) \/ UNCHANGED vars
  BY <1>6, IdleBooks DEF CleanupFind, Expire, vars, tables, history
<1> QED
  BY <1>1, <1>2, <1>3, <1>4, <1>5, <1>6 DEF Next

LEMMA EscrowInvHolds == Spec => []EscrowInv
<1>1. Init => EscrowInv
  BY BooksInit
<1> QED
  BY <1>1, BooksStep, TypeCorrect, SafetyInvHolds, CrossInvHolds, WalletInvHolds, PTL DEF Spec

(* Whatever dies half-way and whatever overlaps elsewhere, the balance of  *)
(* a wallet no overlap has touched stays between what the reserves and the *)
(* records account for: no redelivery charges or pays twice.               *)
THEOREM BalanceStaysWithinRecords == Spec => []BalanceWithinRecords
<1>1. EscrowInv => BalanceWithinRecords
  BY DEF EscrowInv, RecordInv, High, Low, BalanceWithinRecords
<1> QED
  BY <1>1, EscrowInvHolds, PTL

(* The row each user will have once the saves in progress are done.        *)
LEMMA SettledIsGood ==
  ASSUME TypeOK, EscrowInv, aborts = 0, NEW u \in Users \ crossed
  PROVE  Good(u, SettledRow(u))
<1>1. CASE \E h \in Slots : u \in Pending(h)
  <2>1. PICK h \in Slots : /\ u \in Pending(h) /\ SettledRow(u) = PendingRow(h, u)
    BY <1>1 DEF SettledRow
  <2>2. u \in Touches(h)
    BY <2>1, PendingTouched
  <2> QED
    BY <2>1, <2>2 DEF EscrowInv, BookInv, Booked
<1>2. CASE \A h \in Slots : u \notin Pending(h)
  <2>1. SettledRow(u) = RowOf(u)
    BY <1>2 DEF SettledRow
  <2>2. CASE \E h \in Slots : u \in Touches(h)
    BY <1>2, <2>1, <2>2 DEF EscrowInv, BookInv, Booked
  <2>3. CASE \A h \in Slots : u \notin Touches(h)
    BY <2>1, <2>3 DEF EscrowInv, BookInv
  <2> QED
    BY <2>2, <2>3
<1> QED
  BY <1>1, <1>2

(* Until a call is cut short, a wallet no overlap has touched and with no  *)
(* save in progress shows what its reserves say and can pay what is        *)
(* locked, however the calls on other wallets overlap.                     *)
THEOREM BooksAlwaysBalance == Spec => []BooksBalance
<1>1. TypeOK /\ EscrowInv => BooksBalance
  <2> SUFFICES ASSUME TypeOK, EscrowInv, aborts = 0, NEW u \in Users \ crossed,
                      \A h \in Slots : u \notin Pending(h)
               PROVE  Good(u, RowOf(u))
    BY DEF BooksBalance, Good, RowOf
  <2> QED
    BY SettledIsGood DEF SettledRow
<1> QED
  BY <1>1, TypeCorrect, EscrowInvHolds, PTL

(* Nothing has been cut short and no two calls have met.                   *)
Intact == aborts = 0 /\ crossed = {}

LEMMA AllClean ==
  ASSUME TypeOK, EscrowInv, crossed = {}, NEW h \in Slots, pc[h] # "idle"
  PROVE  Clean(h) /\ Knows(h)
BY BusyTouches DEF Clean, EscrowInv

(* Only three steps change a reserve, each knowing its status before.      *)
SavesReserve(h, t) ==
  /\ job[h].tx = t
  /\ pc[h] = "saveReserve"
  /\ \/ /\ reserve[t] = "NONE" /\ reserve' = [reserve EXCEPT ![t] = "ACTIVE"]
        /\ balance[Buyer[t]] - locked[Buyer[t]] >= Amount[t]
     \/ reserve[t] = "ACTIVE" /\ reserve' = [reserve EXCEPT ![t] = "RELEASED"]
     \/ reserve[t] = "ACTIVE" /\ reserve' = [reserve EXCEPT ![t] = "SETTLED"]
  /\ log' = log

LEMMA ReserveChanges ==
  ASSUME TypeOK, EscrowInv, Intact, [Next]_vars
  PROVE  reserve' = reserve \/ \E h \in Slots, t \in Tx : SavesReserve(h, t)
<1> USE DEF tables, history
<1>1. ASSUME NEW h \in Slots, ReserveFunds(h), reserve' # reserve
      PROVE  \E t \in Tx : SavesReserve(h, t)
  <2>1. ReserveSaveReserve(h) /\ MayInsert(job[h].tx)
    BY <1>1 DEF ReserveFunds, ReserveFind, ReserveReadWallet, ReserveSaveReserve,
                ReserveSaveWallet, ReserveSaveLog
  <2>2. PICK t \in Tx : job[h].tx = t
    BY <2>1, BusyTouches DEF ReserveSaveReserve, At
  <2>3. ReserveKnows(h, t)
    BY <2>1, <2>2, AllClean DEF Intact, Knows, ReserveSaveReserve, At
  <2> QED
    BY <2>1, <2>2, <2>3 DEF ReserveSaveReserve, At, MayInsert, ReserveKnows, SavesReserve
<1>2. ASSUME NEW h \in Slots, ReleaseFunds(h), reserve' # reserve
      PROVE  \E t \in Tx : SavesReserve(h, t)
  <2>1. ReleaseSaveReserve(h)
    BY <1>2 DEF ReleaseFunds, ReleaseFind, ReleaseReadWallet, ReleaseSaveReserve,
                ReleaseSaveWallet, ReleaseSaveLog
  <2>2. PICK t \in Tx : job[h].tx = t
    BY <2>1, BusyTouches DEF ReleaseSaveReserve, At
  <2>3. ReleaseKnows(h, t)
    BY <2>1, <2>2, AllClean DEF Intact, Knows, ReleaseSaveReserve, At
  <2> QED
    BY <2>1, <2>2, <2>3 DEF ReleaseSaveReserve, At, ReleaseKnows, SavesReserve
<1>3. ASSUME NEW h \in Slots, SettleFunds(h), reserve' # reserve
      PROVE  \E t \in Tx : SavesReserve(h, t)
  <2>1. SettleSaveReserve(h)
    BY <1>3 DEF SettleFunds, SettleFind, SettleReadWallet, SettleRefresh,
                SettleReconcile, SettleSaveReconciled, SettleReadSeller,
                SettleCreateSeller, SettleSaveReserve, SettleSaveWallet,
                SettleSaveSeller, SettleSaveLog, SettleSaveSellerLog
  <2>2. PICK t \in Tx : job[h].tx = t
    BY <2>1, BusyTouches DEF SettleSaveReserve, At
  <2>3. SettleKnows(h, t)
    BY <2>1, <2>2, AllClean DEF Intact, Knows, SettleSaveReserve, At
  <2> QED
    BY <2>1, <2>2, <2>3 DEF SettleSaveReserve, At, SettleKnows, SavesReserve
<1>4. (\E h \in Slots : Step(h)) \/ reserve' = reserve
  BY DEF Next, Request, Abort, Crash, Expire, CleanupFind, CleanupRelease, vars
<1> QED
  BY <1>1, <1>2, <1>3, <1>4 DEF Step

LEMMA IntactBefore ==
  ASSUME TypeOK, CrossInv, [Next]_vars, Intact'
  PROVE  Intact
<1> USE DEF tables, history
<1>1. ASSUME NEW h \in Slots, Step(h) PROVE aborts' = aborts /\ crossed' = crossed
  BY <1>1, StepFrames DEF Frame, Step, ReserveFunds, ReserveFind, ReserveReadWallet, ReserveSaveReserve,
       ReserveSaveWallet, ReserveSaveLog, ReleaseFunds, ReleaseFind, ReleaseReadWallet,
       ReleaseSaveReserve, ReleaseSaveWallet, ReleaseSaveLog, SettleFunds, SettleFind,
       SettleReadWallet, SettleRefresh, SettleReconcile, SettleSaveReconciled,
       SettleReadSeller, SettleCreateSeller, SettleSaveReserve, SettleSaveWallet,
       SettleSaveSeller, SettleSaveLog, SettleSaveSellerLog
<1>2. (\E h \in Slots : Abort(h)) \/ Crash => aborts' # 0
  BY SlotAssumption DEF Abort, Crash, TypeOK
<1>3. \/ \E h \in Slots : Step(h) \/ Abort(h)
      \/ Crash
      \/ aborts' = aborts /\ crossed \subseteq crossed'
  BY DEF Next, Request, Start, Expire, CleanupFind, CleanupRelease, vars
<1> QED
  BY <1>1, <1>2, <1>3 DEF Intact

(* What the promise shows of the wallets is a function of the reserves.    *)
PromisedInv ==
  Intact => \A u \in Users :
    /\ SettledRow(u).locked = Total[ActiveOf(u)]
    /\ SettledRow(u).balance = Opening[u] - Total[OutOf(u)] + Total[InTo(u)]

LEMMA PromisedHolds == TypeOK /\ EscrowInv => PromisedInv
BY SettledIsGood DEF Good, PromisedInv, Intact

(* The two columns the promise shows.                                      *)
Balances == [u \in Users |-> SettledRow(u).balance]
Locks == [u \in Users |-> SettledRow(u).locked]

LEMMA StutterKeepsPromise ==
  ASSUME PromisedInv, PromisedInv', Intact, Intact', reserve' = reserve
  PROVE  Balances' = Balances /\ Locks' = Locks
<1>1. \A u \in Users : /\ ActiveOf(u)' = ActiveOf(u) /\ OutOf(u)' = OutOf(u)
                       /\ InTo(u)' = InTo(u)
  BY DEF ActiveOf, OutOf, InTo
<1>2. \A u \in Users : /\ SettledRow(u)'.balance = SettledRow(u).balance
                       /\ SettledRow(u)'.locked = SettledRow(u).locked
  BY <1>1 DEF PromisedInv
<1> QED
  BY <1>2 DEF Balances, Locks

(* The reserve of t is made ACTIVE, RELEASED or SETTLED, and the columns   *)
(* move by its amount.                                                     *)
LEMMA PromiseMoves ==
  ASSUME TypeOK, TypeOK', LogInv, PromisedInv, PromisedInv', Intact, Intact',
         NEW t \in Tx, log' = log
  PROVE  /\ reserve[t] = "NONE" /\ reserve' = [reserve EXCEPT ![t] = "ACTIVE"] =>
              /\ Locks' = [Locks EXCEPT ![Buyer[t]] = @ + Amount[t]]
              /\ Balances' = Balances
         /\ reserve[t] = "ACTIVE" /\ reserve' = [reserve EXCEPT ![t] = "RELEASED"] =>
              /\ Locks' = [Locks EXCEPT ![Buyer[t]] = @ - Amount[t]]
              /\ Balances' = Balances
         /\ reserve[t] = "ACTIVE" /\ reserve' = [reserve EXCEPT ![t] = "SETTLED"] =>
              /\ Locks' = [Locks EXCEPT ![Buyer[t]] = @ - Amount[t]]
              /\ Balances' = [Balances EXCEPT ![Buyer[t]] = @ - Amount[t],
                                              ![Seller[t]] = @ + Amount[t]]
<1>1. /\ Buyer[t] \in Users /\ Seller[t] \in Users /\ Buyer[t] # Seller[t] /\ Amount[t] \in Nat
  BY PurchaseAssumption
<1>2. \A u \in Users : /\ Total[ActiveOf(u)] \in Nat /\ Total[OutOf(u)] \in Nat
                       /\ Total[InTo(u)] \in Nat /\ Opening[u] \in Int
  BY SumsType
<1>3. \A u \in Users : /\ Locks[u] = Total[ActiveOf(u)]
                       /\ Balances[u] = Opening[u] - Total[OutOf(u)] + Total[InTo(u)]
                       /\ Locks'[u] = Total[ActiveOf(u)']
                       /\ Balances'[u] = Opening[u] - Total[OutOf(u)'] + Total[InTo(u)']
  BY DEF PromisedInv, Locks, Balances
<1>4. /\ Locks = [u \in Users |-> Locks[u]] /\ Balances = [u \in Users |-> Balances[u]]
      /\ Locks' = [u \in Users |-> Locks'[u]] /\ Balances' = [u \in Users |-> Balances'[u]]
  BY DEF Locks, Balances
<1>5. ASSUME reserve[t] = "NONE", reserve' = [reserve EXCEPT ![t] = "ACTIVE"]
      PROVE  /\ Locks' = [Locks EXCEPT ![Buyer[t]] = @ + Amount[t]]
             /\ Balances' = Balances
  <2>0. ASSUME NEW u \in Users
        PROVE  /\ Total[ActiveOf(u)'] = Total[ActiveOf(u)] + (IF u = Buyer[t] THEN Amount[t] ELSE 0)
               /\ OutOf(u)' = OutOf(u) /\ InTo(u)' = InTo(u)
    BY <1>5, SumsActivated
  <2>1. \A u \in Users : Balances'[u] = Balances[u]
    BY <1>3, <2>0
  <2>2. \A u \in Users : Locks'[u] = Locks[u] + (IF u = Buyer[t] THEN Amount[t] ELSE 0)
    BY <1>3, <2>0
  <2>3. Locks' = [Locks EXCEPT ![Buyer[t]] = @ + Amount[t]]
    BY <1>1, <1>2, <1>3, <1>4, <2>2
  <2> QED
    BY <1>4, <2>1, <2>3
<1>6. ASSUME reserve[t] = "ACTIVE", reserve' = [reserve EXCEPT ![t] = "RELEASED"]
      PROVE  /\ Locks' = [Locks EXCEPT ![Buyer[t]] = @ - Amount[t]]
             /\ Balances' = Balances
  <2>0. ASSUME NEW u \in Users
        PROVE  /\ Total[ActiveOf(u)'] = Total[ActiveOf(u)] - (IF u = Buyer[t] THEN Amount[t] ELSE 0)
               /\ OutOf(u)' = OutOf(u) /\ InTo(u)' = InTo(u)
    BY <1>6, SumsReleased
  <2>1. \A u \in Users : Balances'[u] = Balances[u]
    BY <1>3, <2>0
  <2>2. \A u \in Users : Locks'[u] = Locks[u] - (IF u = Buyer[t] THEN Amount[t] ELSE 0)
    BY <1>3, <2>0
  <2>3. Locks' = [Locks EXCEPT ![Buyer[t]] = @ - Amount[t]]
    BY <1>1, <1>2, <1>3, <1>4, <2>2
  <2> QED
    BY <1>4, <2>1, <2>3
<1>7. ASSUME reserve[t] = "ACTIVE", reserve' = [reserve EXCEPT ![t] = "SETTLED"]
      PROVE  /\ Locks' = [Locks EXCEPT ![Buyer[t]] = @ - Amount[t]]
             /\ Balances' = [Balances EXCEPT ![Buyer[t]] = @ - Amount[t],
                                             ![Seller[t]] = @ + Amount[t]]
  <2>1. ASSUME NEW u \in Users
        PROVE  /\ Total[ActiveOf(u)'] = Total[ActiveOf(u)] - (IF u = Buyer[t] THEN Amount[t] ELSE 0)
               /\ Total[OutOf(u)'] = Total[OutOf(u)] + (IF u = Buyer[t] THEN Amount[t] ELSE 0)
               /\ Total[InTo(u)'] = Total[InTo(u)] + (IF u = Seller[t] THEN Amount[t] ELSE 0)
    BY <1>7, SumsSettled
  <2>2. \A u \in Users : Locks'[u] = Locks[u] - (IF u = Buyer[t] THEN Amount[t] ELSE 0)
    BY <1>3, <2>1
  <2>3. Locks' = [Locks EXCEPT ![Buyer[t]] = @ - Amount[t]]
    BY <1>1, <1>2, <1>3, <1>4, <2>2
  <2>4. \A u \in Users : Balances[u] \in Int
    BY <1>2, <1>3
  <2>5. ASSUME NEW u \in Users
        PROVE  Balances'[u] = IF u = Buyer[t] THEN Balances[u] - Amount[t]
                              ELSE IF u = Seller[t] THEN Balances[u] + Amount[t]
                              ELSE Balances[u]
    BY <1>1, <1>2, <1>3, <2>1
  <2>6. Balances' = [Balances EXCEPT ![Buyer[t]] = @ - Amount[t], ![Seller[t]] = @ + Amount[t]]
    BY <1>1, <1>4, <2>5
  <2> QED
    BY <2>3, <2>6
<1> QED
  BY <1>5, <1>6, <1>7

LEMMA PromiseStep ==
  ASSUME TypeOK, TypeOK', SafetyInv, CrossInv, EscrowInv, PromisedInv, PromisedInv',
         [Next]_vars
  PROVE  [Promise!Next]_(Promise!vars)
<1>1. CASE ~Intact'
  BY <1>1 DEF Promise!Next, Intact
<1>2. CASE Intact' /\ reserve' = reserve
  <2>1. Intact
    BY <1>2, IntactBefore
  <2> QED
    BY <1>2, <2>1, StutterKeepsPromise DEF Promise!vars, Balances, Locks, Intact
<1>3. ASSUME Intact', NEW h \in Slots, NEW t \in Tx, SavesReserve(h, t)
      PROVE  Promise!Next
  <2>1. Intact
    BY <1>3, IntactBefore
  <2>2. Buyer[t] \in Users /\ log' = log /\ LogInv
    BY <1>3, PurchaseAssumption DEF SavesReserve, SafetyInv
  <2>3. Balances[Buyer[t]] = balance[Buyer[t]] /\ Locks[Buyer[t]] = locked[Buyer[t]]
    <3>1. Buyer[t] \in Touches(h) /\ Pending(h) = {}
      BY <1>3, BusyTouches DEF SavesReserve, Pending, At
    <3>2. Good(Buyer[t], RowOf(Buyer[t]))
      BY <2>1, <3>1 DEF Intact, EscrowInv, BookInv, Booked
    <3> QED
      BY <2>1, <2>2, <3>2 DEF Good, RowOf, PromisedInv, Balances, Locks
  <2>4. Promise!Step
    <3>1. CASE /\ reserve[t] = "NONE" /\ reserve' = [reserve EXCEPT ![t] = "ACTIVE"]
               /\ balance[Buyer[t]] - locked[Buyer[t]] >= Amount[t]
      <4>1. /\ Locks' = [Locks EXCEPT ![Buyer[t]] = @ + Amount[t]]
            /\ Balances' = Balances
        BY <1>3, <2>1, <2>2, <3>1, PromiseMoves
      <4>2. Promise!Hold(t)
        BY <2>3, <3>1, <4>1 DEF Promise!Hold, Balances, Locks
      <4> QED
        BY <4>2 DEF Promise!Step
    <3>2. CASE reserve[t] = "ACTIVE" /\ reserve' = [reserve EXCEPT ![t] = "RELEASED"]
      <4>1. /\ Locks' = [Locks EXCEPT ![Buyer[t]] = @ - Amount[t]]
            /\ Balances' = Balances
        BY <1>3, <2>1, <2>2, <3>2, PromiseMoves
      <4>2. Promise!GiveBack(t)
        BY <3>2, <4>1 DEF Promise!GiveBack, Balances, Locks
      <4> QED
        BY <4>2 DEF Promise!Step
    <3>3. CASE reserve[t] = "ACTIVE" /\ reserve' = [reserve EXCEPT ![t] = "SETTLED"]
      <4>1. /\ Locks' = [Locks EXCEPT ![Buyer[t]] = @ - Amount[t]]
            /\ Balances' = [Balances EXCEPT ![Buyer[t]] = @ - Amount[t],
                                            ![Seller[t]] = @ + Amount[t]]
        BY <1>3, <2>1, <2>2, <3>3, PromiseMoves
      <4>2. Promise!Pay(t)
        BY <3>3, <4>1 DEF Promise!Pay, Balances, Locks
      <4> QED
        BY <4>2 DEF Promise!Step
    <3> QED
      BY <1>3, <3>1, <3>2, <3>3 DEF SavesReserve
  <2> QED
    BY <2>1, <2>4 DEF Promise!Next, Intact
<1> QED
  BY <1>1, <1>2, <1>3, IntactBefore, ReserveChanges

LEMMA PromiseInit == Init => Promise!Init
<1> SUFFICES ASSUME Init PROVE Promise!Init
  OBVIOUS
<1>1. \A u \in Users : SettledRow(u) = RowOf(u)
  BY DEF Init, SettledRow, Pending, At
<1>2. \A u \in Users : SettledRow(u).balance = Opening[u] /\ SettledRow(u).locked = 0
  BY <1>1 DEF Init, RowOf
<1>3. [u \in Users |-> SettledRow(u).balance] = Opening
  BY <1>2, OpeningAssumption
<1>4. [u \in Users |-> SettledRow(u).locked] = [u \in Users |-> 0]
  BY <1>2
<1> QED
  BY <1>3, <1>4 DEF Init, Promise!Init

(* reserveFunds, releaseFunds and settleFunds, each spread over up to ten  *)
(* awaits, implement an escrow whose operations are single steps, up to    *)
(* the first call cut short or the first two that meet on one wallet.      *)
THEOREM EscrowImplemented == Spec => ImplementsEscrow
<1>1. Init => Promise!Init
  BY PromiseInit
<1>2. TypeOK /\ EscrowInv => PromisedInv
  BY PromisedHolds
<1>3. TypeOK /\ TypeOK' /\ SafetyInv /\ CrossInv /\ EscrowInv /\ PromisedInv /\ PromisedInv'
        /\ [Next]_vars => [Promise!Next]_(Promise!vars)
  BY PromiseStep
<1> QED
  BY <1>1, <1>2, <1>3, TypeCorrect, SafetyInvHolds, CrossInvHolds, EscrowInvHolds, PTL
     DEF Spec, ImplementsEscrow, Promise!Spec
=============================================================================
