---------------------- MODULE PurchaseAndAccountsProofs ---------------------
(***************************************************************************)
(* Theorems about two components that share no state.                      *)
(*                                                                         *)
(* First the purchase of a listing, for every set of users, listings and   *)
(* purchases, all amounts and any number of faults.                        *)
(*                                                                         *)
(* Then one user's account in three services, for every set of requests    *)
(* and of deliveries in progress, and every bound.                         *)
(***************************************************************************)
EXTENDS Purchase, Accounts, FiniteSetTheorems, SequenceTheorems, WellFoundedInduction, TLAPS

(* The types the argument needs.  That credits stay natural numbers is     *)
(* shown further down.                                                     *)
SagaType ==
  /\ pc \in [Purchases \cup Edits -> Labels]
  /\ tx \in [Purchases -> TxStatus]
  /\ reserve \in [Purchases -> {"NONE", "ACTIVE", "RELEASED", "SETTLED"}]
  /\ delivered \subseteq Purchases /\ announced \subseteq Purchases
  /\ releasing \subseteq Purchases /\ contested \subseteq Purchases

(* What a settlement has behind it.  While only it has found the reserve,  *)
(* the reserve is as it found it, and then as it saved it.                 *)
Paid(t) ==
  /\ t \in releasing => t \in contested
  /\ reserve[t] = "SETTLED" \/ (t \in contested /\ reserve[t] = "RELEASED")

(* How far a purchase is tells what it has behind it.                      *)
Progress(t) ==
  /\ pc[t] = "settleSave" /\ t \in releasing => t \in contested
  /\ pc[t] \in {"credit", "creditCommit"} => Paid(t)
  /\ pc[t] \in {"list", "listCommit", "complete", "announce"} => t \in delivered
  /\ t \in delivered => pc[t] \notin {"start", "insert", "reserve", "settle", "settleSave"}
  /\ t \in delivered => Paid(t)
  /\ tx[t] = "COMPLETED" \/ t \in announced => t \in delivered

SagaInv == SagaType /\ \A t \in Purchases : Progress(t)

LEMMA GotoMoves ==
  ASSUME SagaType, NEW p \in Purchases \cup Edits, NEW label \in Labels, Goto(p, label)
  PROVE  /\ pc' \in [Purchases \cup Edits -> Labels]
         /\ pc'[p] = label
         /\ \A q \in Purchases \cup Edits : q # p => pc'[q] = pc[q]
BY DEF SagaType, Goto

LEMMA SagaInit == Init => SagaInv
BY DEF Init, SagaInv, SagaType, Progress, Paid, Labels, TxStatus

(* A step of one purchase leaves the progress of the others alone.         *)
LEMMA OthersStand ==
  ASSUME SagaInv, NEW t \in Purchases, SagaType',
         \A u \in Purchases : u # t =>
           /\ pc'[u] = pc[u] /\ tx'[u] = tx[u] /\ reserve'[u] = reserve[u]
           /\ u \in releasing <=> u \in releasing'
           /\ u \in contested <=> u \in contested'
           /\ u \in delivered <=> u \in delivered'
           /\ u \in announced <=> u \in announced',
         Progress(t)'
  PROVE  SagaInv'
BY DEF SagaInv, Progress, Paid

LEMMA StepKeepsProgress ==
  ASSUME SagaInv, NEW t \in Purchases, Step(t)
  PROVE  SagaInv'
<1> USE DEF reserves, credit, shop
<1>1. Progress(t) /\ SagaType
  BY DEF SagaInv
<1>2. CASE Purchase(t) \/ InsertTransaction(t)
  <2>1. SagaType' /\ \A u \in Purchases : u # t => pc'[u] = pc[u] /\ tx'[u] = tx[u]
    BY <1>1, <1>2, GotoMoves DEF Purchase, InsertTransaction, SagaType, Labels, TxStatus
  <2>2. Progress(t)'
    BY <1>1, <1>2, GotoMoves DEF Purchase, InsertTransaction, SagaType, Progress, Paid, Labels
  <2> QED
    BY <1>2, <2>1, <2>2, OthersStand DEF Purchase, InsertTransaction
<1>3. CASE ReservePayment(t) \/ SettleRefused(t) \/ SettleFind(t) \/ SettleSave(t)
  <2>1. /\ SagaType'
        /\ \A u \in Purchases : u # t =>
             /\ pc'[u] = pc[u] /\ reserve'[u] = reserve[u]
             /\ u \in contested <=> u \in contested'
    BY <1>1, <1>3, GotoMoves DEF ReservePayment, SettleRefused, SettleFind, SettleSave, SagaType, Labels
  <2>2. Progress(t)'
    <3>1. CASE ReservePayment(t) \/ SettleRefused(t)
      BY <1>1, <3>1, GotoMoves DEF ReservePayment, SettleRefused, SagaType, Progress, Labels
    <3>2. CASE SettleFind(t)
      <4>1. pc'[t] = "settleSave" /\ contested' = contested \cup ({t} \cap releasing)
        BY <1>1, <3>2, GotoMoves DEF SettleFind, Labels
      <4> QED
        BY <1>1, <3>2, <4>1 DEF SettleFind, SagaType, Progress
    <3>3. CASE SettleSave(t)
      <4>1. pc'[t] = "credit" /\ reserve'[t] = "SETTLED" /\ t \notin delivered
        BY <1>1, <3>3, GotoMoves DEF SettleSave, SagaType, Progress, Labels
      <4> QED
        BY <1>1, <3>3, <4>1 DEF SettleSave, Progress, Paid
    <3> QED
      BY <1>3, <3>1, <3>2, <3>3
  <2> QED
    BY <1>3, <2>1, <2>2, OthersStand DEF ReservePayment, SettleRefused, SettleFind, SettleSave
<1>4. CASE TransferRead(t) \/ TransferRefused(t) \/ TransferCommit(t)
  <2>1. SagaType' /\ \A u \in Purchases : u # t => pc'[u] = pc[u]
    BY <1>1, <1>4, GotoMoves DEF TransferRead, TransferRefused, TransferCommit, SagaType, Labels
  <2>2. Progress(t)'
    BY <1>1, <1>4, GotoMoves
       DEF TransferRead, TransferRefused, TransferCommit, SagaType, Progress, Paid, Labels
  <2> QED
    BY <1>4, <2>1, <2>2, OthersStand DEF TransferRead, TransferRefused, TransferCommit
<1>5. CASE UpdateListing(t) \/ UpdateRefused(t) \/ UpdateCommit(t)
  <2>1. SagaType' /\ \A u \in Purchases : u # t => pc'[u] = pc[u]
    BY <1>1, <1>5, GotoMoves
       DEF UpdateListing, LoadListing, UpdateRefused, UpdateCommit, SaveListing, SaveFails, SagaType, Labels
  <2>2. Progress(t)'
    BY <1>1, <1>5, GotoMoves
       DEF UpdateListing, LoadListing, UpdateRefused, UpdateCommit, SaveListing, SaveFails,
           SagaType, Progress, Paid, Labels
  <2> QED
    BY <1>5, <2>1, <2>2, OthersStand
       DEF UpdateListing, LoadListing, UpdateRefused, UpdateCommit, SaveListing, SaveFails
<1>6. CASE Complete(t) \/ Announce(t) \/ Fail(t)
  <2>1. /\ SagaType'
        /\ \A u \in Purchases : u # t =>
             pc'[u] = pc[u] /\ tx'[u] = tx[u] /\ (u \in announced <=> u \in announced')
    BY <1>1, <1>6, GotoMoves DEF Complete, Announce, Fail, SagaType, Labels, TxStatus
  <2>2. Progress(t)'
    BY <1>1, <1>6, GotoMoves DEF Complete, Announce, Fail, SagaType, Progress, Paid, Labels
  <2> QED
    BY <1>6, <2>1, <2>2, OthersStand DEF Complete, Announce, Fail
<1> QED
  BY <1>2, <1>3, <1>4, <1>5, <1>6 DEF Step

(* Edits by sellers are no purchases.                                      *)
LEMMA EditKeepsProgress ==
  ASSUME SagaInv, NEW e \in Edits, EditListing(e) \/ EditCommit(e)
  PROVE  SagaInv'
<1>1. /\ SagaType' /\ \A t \in Purchases : pc'[t] = pc[t]
      /\ UNCHANGED <<reserve, releasing, contested, tx, delivered, announced>>
  BY PurchaseAssumption, GotoMoves
     DEF EditListing, LoadListing, EditCommit, SaveListing, SaveFails, SagaInv, SagaType, Labels,
         reserves, credit
<1> QED
  BY <1>1 DEF SagaInv, Progress, Paid

LEMMA SagaStep == SagaInv /\ [Next]_vars => SagaInv'
<1> SUFFICES ASSUME SagaInv, [Next]_vars PROVE SagaInv'
  OBVIOUS
<1>1. ASSUME NEW t \in Purchases, Step(t) PROVE SagaInv'
  BY <1>1, StepKeepsProgress
(* The cleanup finds ACTIVE reserves only, and saves what it has found.    *)
<1>2. ASSUME NEW t \in Purchases, ReleaseFind(t) \/ ReleaseSave(t) PROVE SagaInv'
  <2>1. SagaType' /\ UNCHANGED <<pc, tx, delivered, announced>>
    BY <1>2 DEF ReleaseFind, ReleaseSave, SagaInv, SagaType, credit, ours
  <2>2. Progress(t)'
    BY <1>2, <2>1 DEF ReleaseFind, ReleaseSave, SagaInv, SagaType, Progress, Paid
  <2> QED
    BY <1>2, <2>1, <2>2, OthersStand DEF ReleaseFind, ReleaseSave, SagaInv, SagaType
<1>3. ASSUME NEW t \in Purchases, Break(t) PROVE SagaInv'
  <2>1. /\ SagaType' /\ pc'[t] \in {"fail", "done"}
        /\ \A u \in Purchases : u # t => pc'[u] = pc[u]
    BY <1>3, GotoMoves DEF Break, SagaInv, SagaType, Labels, reserves
  <2> QED
    BY <1>3, <2>1 DEF Break, SagaInv, Progress, Paid, reserves
<1>4. ASSUME NEW e \in Edits, EditListing(e) \/ EditCommit(e) PROVE SagaInv'
  BY <1>4, EditKeepsProgress
<1>5. CASE UNCHANGED vars
  BY <1>5 DEF vars, reserves, credit, shop, ours, SagaInv, SagaType, Progress, Paid
<1> QED
  BY <1>1, <1>2, <1>3, <1>4, <1>5 DEF Next

LEMMA SagaInvHolds == Spec => []SagaInv
BY SagaInit, SagaStep, PTL DEF Spec

(* Wherever a purchase breaks off, credits were delivered only if the      *)
(* reserve was settled: no step before or after takes that back, but a     *)
(* cleanup that had found the reserve ACTIVE when the settlement did.      *)
THEOREM DeliveryIsPaid == Spec => []DeliveredIsPaid
<1>1. SagaInv => DeliveredIsPaid
  BY DEF SagaInv, SagaType, Progress, Paid, DeliveredIsPaid
<1> QED
  BY <1>1, SagaInvHolds, PTL

(* A purchase is COMPLETED, or announced, only with its credits delivered. *)
THEOREM CompletionIsDelivery == Spec => []CompletedIsDelivered
<1>1. SagaInv => CompletedIsDelivered
  BY DEF SagaInv, Progress, CompletedIsDelivered
<1> QED
  BY <1>1, SagaInvHolds, PTL

----------------------------------------------------------------------------
(* Sums.  MapThenSumSet adds up in the order in which CHOOSE takes the     *)
(* elements of a set; that the order does not matter takes an induction on *)
(* the size of the set, here from the least element of a set of numbers.   *)

Chosen(S) == CHOOSE x \in S : TRUE

Adding(f, it, s) == IF s = {} THEN 0 ELSE f[Chosen(s)] + it[s \ {Chosen(s)}]

IsIter(f, it, S) == it = [s \in SUBSET S |-> Adding(f, it, s)]

SumOf(f, S) == (CHOOSE it : IsIter(f, it, S))[S]

LEMMA SumIs ==
  ASSUME NEW S
  PROVE  Sum(S) = SumOf(Amount, S)
BY DEF Sum, SumOf, IsIter, Adding, Chosen, MapThenSumSet, MapThenFoldSet

LEMMA LeastNumber ==
  ASSUME NEW N \in SUBSET Nat, N # {}
  PROVE  \E x \in N : \A y \in N : x <= y
<1>1. PICK R : R = OpToRel(<, Nat)
  OBVIOUS
<1>2. IsWellFoundedOn(R, Nat)
  BY <1>1, NatLessThanWellFounded
<1>3. PICK x \in N : \A y \in N : ~ (<<y, x>> \in R)
  BY <1>2, WFMin
<1>4. \A y \in N : y < x => <<y, x>> \in R
  BY <1>1 DEF OpToRel
<1>5. \A y \in N : ~ (y < x) /\ y \in Nat /\ x \in Nat
  BY <1>3, <1>4
<1> QED
  BY <1>5

LEMMA SmallestSet ==
  ASSUME NEW S, IsFiniteSet(S), NEW B \in SUBSET SUBSET S, B # {}
  PROVE  \E s \in B : \A r \in B : Cardinality(s) <= Cardinality(r)
<1>1. \A s \in SUBSET S : Cardinality(s) \in Nat
  BY FS_Subset, FS_CardinalityType
<1>2. PICK N : N = {Cardinality(s) : s \in B}
  OBVIOUS
<1>3. N \in SUBSET Nat /\ N # {}
  BY <1>1, <1>2
<1>4. PICK x \in N : \A y \in N : x <= y
  BY <1>3, LeastNumber
<1> QED
  BY <1>2, <1>4

LEMMA Smaller ==
  ASSUME NEW S, IsFiniteSet(S), NEW s \in SUBSET S, NEW x \in s
  PROVE  /\ s \ {x} \in SUBSET S /\ Cardinality(s) \in Nat
         /\ Cardinality(s \ {x}) = Cardinality(s) - 1
<1>1. IsFiniteSet(s)
  BY FS_Subset
<1> QED
  BY <1>1, FS_RemoveElement, FS_CardinalityType

LEMMA ChosenIn ==
  ASSUME NEW s, s # {}
  PROVE  Chosen(s) \in s
BY DEF Chosen

(* A function that adds up all subsets of S whose size is at most n.       *)
AddsUpTo(f, g, S, n) ==
  /\ g = [s \in SUBSET S |-> g[s]]
  /\ \A s \in SUBSET S : Cardinality(s) <= n => g[s] = Adding(f, g, s)

LEMMA AddsFurther ==
  ASSUME NEW S, IsFiniteSet(S), NEW f, NEW n \in Nat, NEW g, AddsUpTo(f, g, S, n)
  PROVE  \E k : AddsUpTo(f, k, S, n + 1)
<1>1. PICK k : k = [s \in SUBSET S |-> Adding(f, g, s)]
  OBVIOUS
<1>2. \A s \in SUBSET S : k[s] = Adding(f, g, s)
  BY <1>1
<1>3. ASSUME NEW s \in SUBSET S, Cardinality(s) <= n + 1
      PROVE  k[s] = Adding(f, k, s)
  <2>1. CASE s = {}
    BY <1>2, <2>1 DEF Adding
  <2>2. CASE s # {}
    <3>1. PICK x \in s : x = Chosen(s)
      BY <2>2, ChosenIn
    <3>2. PICK r \in SUBSET S : r = s \ {x} /\ Cardinality(r) <= n
      <4>1. /\ s \ {x} \in SUBSET S /\ Cardinality(s) \in Nat
            /\ Cardinality(s \ {x}) = Cardinality(s) - 1
        BY Smaller
      <4> QED
        BY <1>3, <4>1
    <3>3. g[r] = k[r]
      BY <1>2, <3>2 DEF AddsUpTo
    <3> QED
      BY <1>2, <2>2, <3>1, <3>2, <3>3 DEF Adding
  <2> QED
    BY <2>1, <2>2
<1>4. k = [s \in SUBSET S |-> k[s]]
  BY <1>1
<1> QED
  BY <1>3, <1>4 DEF AddsUpTo

LEMMA IterExists ==
  ASSUME NEW S, IsFiniteSet(S), NEW f
  PROVE  \E it : IsIter(f, it, S)
<1>1. PICK N : N = {n \in Nat : ~ \E g : AddsUpTo(f, g, S, n)}
  OBVIOUS
<1>2. 0 \notin N
  <2>1. PICK g : g = [s \in SUBSET S |-> 0]
    OBVIOUS
  <2>2. \A s \in SUBSET S : Cardinality(s) <= 0 => s = {}
    BY FS_Subset, FS_CardinalityType, FS_EmptySet
  <2>3. AddsUpTo(f, g, S, 0)
    BY <2>1, <2>2 DEF AddsUpTo, Adding
  <2> QED
    BY <1>1, <2>3
<1>3. N = {}
  <2> SUFFICES ASSUME N # {} PROVE FALSE
    OBVIOUS
  <2>1. PICK n \in N : \A m \in N : n <= m
    BY <1>1, LeastNumber
  <2>2. n \in Nat /\ n # 0 /\ n - 1 \in Nat /\ n - 1 \notin N
    BY <1>1, <1>2, <2>1
  <2>3. PICK g : AddsUpTo(f, g, S, n - 1)
    BY <1>1, <2>2
  <2>4. \E k : AddsUpTo(f, k, S, (n - 1) + 1)
    BY <2>2, <2>3, AddsFurther
  <2>5. (n - 1) + 1 = n
    BY <2>2
  <2> QED
    BY <1>1, <2>1, <2>4, <2>5
<1>4. Cardinality(S) \in Nat /\ \A s \in SUBSET S : Cardinality(s) <= Cardinality(S)
  BY FS_Subset, FS_CardinalityType
<1>5. PICK g : AddsUpTo(f, g, S, Cardinality(S))
  BY <1>1, <1>3, <1>4
<1>6. g = [s \in SUBSET S |-> g[s]] /\ \A s \in SUBSET S : g[s] = Adding(f, g, s)
  BY <1>4, <1>5 DEF AddsUpTo
<1>7. g = [s \in SUBSET S |-> Adding(f, g, s)]
  BY <1>6
<1> QED
  BY <1>7 DEF IsIter

(* What an iteration gives for a set depends on neither the set that it    *)
(* ranges over nor the values elsewhere.                                   *)
LEMMA IterUnique ==
  ASSUME NEW S, IsFiniteSet(S), NEW T, NEW f, NEW g, NEW i, NEW j,
         IsIter(f, i, S), IsIter(g, j, T), NEW R \in SUBSET (S \cap T),
         \A x \in R : f[x] = g[x]
  PROVE  i[R] = j[R]
<1>1. PICK B : B = {s \in SUBSET R : i[s] # j[s]}
  OBVIOUS
<1>2. /\ \A s \in SUBSET S : i[s] = Adding(f, i, s)
      /\ \A s \in SUBSET T : j[s] = Adding(g, j, s)
  BY DEF IsIter
<1>3. B = {}
  <2> SUFFICES ASSUME B # {} PROVE FALSE
    OBVIOUS
  <2>1. IsFiniteSet(R)
    BY FS_Subset
  <2>2. PICK s \in B : \A r \in B : Cardinality(s) <= Cardinality(r)
    BY <1>1, <2>1, SmallestSet
  <2>3. s \in SUBSET R /\ i[s] # j[s] /\ i[s] = Adding(f, i, s) /\ j[s] = Adding(g, j, s)
    BY <1>1, <1>2
  <2>4. s # {}
    BY <2>3 DEF Adding
  <2>5. PICK x \in s : x = Chosen(s)
    BY <2>4, ChosenIn
  <2>6. PICK r \in SUBSET R : r = s \ {x} /\ ~ (Cardinality(s) <= Cardinality(r))
    <3>1. /\ s \ {x} \in SUBSET R /\ Cardinality(s) \in Nat
          /\ Cardinality(s \ {x}) = Cardinality(s) - 1
      BY <2>1, <2>3, Smaller
    <3> QED
      BY <3>1
  <2>7. i[r] = j[r]
    BY <1>1, <2>2, <2>6
  <2>8. f[x] = g[x]
    BY <2>3
  <2> QED
    BY <2>3, <2>4, <2>5, <2>6, <2>7, <2>8 DEF Adding
<1> QED
  BY <1>1, <1>3

LEMMA IterAdds ==
  ASSUME NEW S, IsFiniteSet(S), NEW f, \A x \in S : f[x] \in Int, NEW i, IsIter(f, i, S)
  PROVE  /\ \A s \in SUBSET S : i[s] \in Int
         /\ \A s \in SUBSET S : \A t \in S \ s : i[s \cup {t}] = i[s] + f[t]
<1>1. \A s \in SUBSET S : i[s] = Adding(f, i, s)
  BY DEF IsIter
<1>2. \A s \in SUBSET S : i[s] \in Int
  <2>1. PICK B : B = {s \in SUBSET S : i[s] \notin Int}
    OBVIOUS
  <2> SUFFICES ASSUME B # {} PROVE FALSE
    BY <2>1
  <2>2. PICK s \in B : \A r \in B : Cardinality(s) <= Cardinality(r)
    BY <2>1, SmallestSet
  <2>3. s \in SUBSET S /\ i[s] \notin Int /\ i[s] = Adding(f, i, s)
    BY <1>1, <2>1
  <2>4. s # {}
    BY <2>3 DEF Adding
  <2>5. PICK x \in s : x = Chosen(s)
    BY <2>4, ChosenIn
  <2>6. PICK r \in SUBSET S : r = s \ {x} /\ ~ (Cardinality(s) <= Cardinality(r))
    <3>1. /\ s \ {x} \in SUBSET S /\ Cardinality(s) \in Nat
          /\ Cardinality(s \ {x}) = Cardinality(s) - 1
      BY <2>3, Smaller
    <3> QED
      BY <3>1
  <2>7. i[r] \in Int /\ f[x] \in Int
    BY <2>1, <2>2, <2>3, <2>6
  <2> QED
    BY <2>3, <2>4, <2>5, <2>6, <2>7 DEF Adding
<1>3. \A s \in SUBSET S : \A t \in S \ s : i[s \cup {t}] = i[s] + f[t]
  <2>1. PICK B : B = {s \in SUBSET S : ~ \A t \in S \ s : i[s \cup {t}] = i[s] + f[t]}
    OBVIOUS
  <2> SUFFICES ASSUME B # {} PROVE FALSE
    BY <2>1
  <2>2. PICK s \in B : \A r \in B : Cardinality(s) <= Cardinality(r)
    BY <2>1, SmallestSet
  <2>3. PICK t \in S \ s : i[s \cup {t}] # i[s] + f[t]
    BY <2>1
  <2>4. s \in SUBSET S
    BY <2>1
  <2>5. PICK u \in SUBSET S : u = s \cup {t}
    BY <2>4
  <2>6. PICK x \in u : x = Chosen(u)
    BY <2>5, ChosenIn
  <2>7. i[u] = f[x] + i[u \ {x}]
    BY <1>1, <2>5, <2>6 DEF Adding
  <2>8. f[x] \in Int /\ f[t] \in Int /\ i[s] \in Int
    BY <1>2, <2>4, <2>5
  <2>9. CASE x = t
    <3>1. u \ {x} = s
      BY <2>3, <2>5, <2>9
    <3> QED
      <4>1. i[u] = f[t] + i[s]
        BY <2>7, <2>9, <3>1
      <4> QED
        BY <2>3, <2>5, <2>8, <4>1
  <2>10. CASE x # t
    <3>1. x \in s
      BY <2>5, <2>10
    <3>2. PICK r \in SUBSET S : r = s \ {x} /\ ~ (Cardinality(s) <= Cardinality(r))
      <4>1. /\ s \ {x} \in SUBSET S /\ Cardinality(s) \in Nat
            /\ Cardinality(s \ {x}) = Cardinality(s) - 1
        BY <2>4, <3>1, Smaller
      <4> QED
        BY <4>1
    <3>3. \A y \in S \ r : i[r \cup {y}] = i[r] + f[y]
      BY <2>1, <2>2, <3>2
    <3>4. u \ {x} = r \cup {t} /\ s = r \cup {x} /\ t \in S \ r /\ x \in S \ r
      BY <2>3, <2>4, <2>5, <2>10, <3>1, <3>2
    <3>5. i[r] \in Int
      BY <1>2
    <3>6. i[s] = i[r] + f[x] /\ i[u \ {x}] = i[r] + f[t]
      BY <3>3, <3>4
    <3> QED
      BY <2>3, <2>5, <2>7, <2>8, <3>5, <3>6
  <2> QED
    BY <2>9, <2>10
<1> QED
  BY <1>2, <1>3

LEMMA SumIter ==
  ASSUME NEW S, IsFiniteSet(S), NEW f
  PROVE  \E i : IsIter(f, i, S) /\ SumOf(f, S) = i[S]
BY IterExists DEF SumOf

LEMMA SumEmpty ==
  ASSUME NEW f
  PROVE  SumOf(f, {}) = 0
<1>1. PICK i : IsIter(f, i, {}) /\ SumOf(f, {}) = i[{}]
  BY SumIter, FS_EmptySet
<1> QED
  BY <1>1 DEF IsIter, Adding

LEMMA SumSame ==
  ASSUME NEW S, IsFiniteSet(S), NEW f, NEW g, \A x \in S : f[x] = g[x]
  PROVE  SumOf(f, S) = SumOf(g, S)
<1>1. PICK i : IsIter(f, i, S) /\ SumOf(f, S) = i[S]
  BY SumIter
<1>2. PICK j : IsIter(g, j, S) /\ SumOf(g, S) = j[S]
  BY SumIter
<1> QED
  BY <1>1, <1>2, IterUnique

LEMMA SumAdds ==
  ASSUME NEW S, IsFiniteSet(S), NEW t, t \notin S, NEW f, \A x \in S \cup {t} : f[x] \in Int
  PROVE  SumOf(f, S) \in Int /\ SumOf(f, S \cup {t}) = SumOf(f, S) + f[t]
<1>1. PICK T : T = S \cup {t}
  OBVIOUS
<1>2. IsFiniteSet(T)
  BY <1>1, FS_AddElement
<1>3. PICK i : IsIter(f, i, S) /\ SumOf(f, S) = i[S]
  BY SumIter
<1>4. PICK j : IsIter(f, j, T) /\ SumOf(f, T) = j[T]
  BY <1>2, SumIter
<1>5. i[S] = j[S]
  BY <1>1, <1>3, <1>4, IterUnique
<1>6. j[S] \in Int /\ j[S \cup {t}] = j[S] + f[t]
  BY <1>1, <1>2, <1>4, IterAdds
<1> QED
  BY <1>1, <1>3, <1>4, <1>5, <1>6

----------------------------------------------------------------------------
(* Credits.                                                                *)

Bought(u) == {t \in delivered : Buyer[t] = u}
Sold(u) == {t \in delivered : SellerOf[t] = u}

(* Where a purchase stands that has not delivered.                         *)
Undelivered == {"start", "insert", "reserve", "settle", "settleSave", "credit", "creditCommit"}

(* While no two transfers of a user overlapped, what the one in progress   *)
(* has read is what is there.                                              *)
ReadIsCurrent(t) ==
  pc[t] = "creditCommit" =>
    \A u \in Parties(t) \ crossed :
      /\ credits[u] = IF u = SellerOf[t] THEN read[t].from ELSE read[t].to
      /\ \A v \in Transferring : u \in Parties(v) => v = t

CreditInv ==
  /\ credits \in [Users -> Int]
  /\ read \in [Purchases -> [from : Int, to : Int]]
  /\ IsFiniteSet(delivered)
  /\ CreditsAddUp
  /\ \A t \in Purchases :
       /\ pc[t] \in Undelivered => t \notin delivered
       /\ pc[t] \in Undelivered \ {"start"} => SellerOf[t] # Buyer[t]
       /\ ReadIsCurrent(t)

LEMMA CreditInit == Init => CreditInv
<1> SUFFICES ASSUME Init PROVE CreditInv
  OBVIOUS
<1>1. /\ credits \in [Users -> Int] /\ read \in [Purchases -> [from : Int, to : Int]]
      /\ delivered = {} /\ \A t \in Purchases : pc[t] = "start"
  BY PurchaseAssumption DEF Init, NothingRead
<1>2. CreditsAddUp
  <2>1. \A u \in Users : Bought(u) = {} /\ Sold(u) = {}
    BY <1>1 DEF Bought, Sold
  <2>2. Sum({}) = 0
    BY SumIs, SumEmpty
  <2>3. \A u \in Users : credits[u] = Credits[u] /\ credits[u] \in Int
    BY <1>1 DEF Init
  <2>4. \A u \in Users : credits[u] = Credits[u] + Sum(Bought(u)) - Sum(Sold(u))
    <3> TAKE u \in Users
    <3>1. Sum(Bought(u)) = 0 /\ Sum(Sold(u)) = 0
      BY <2>1, <2>2
    <3> QED
      BY <2>3, <3>1
  <2> QED
    BY <2>4 DEF CreditsAddUp, Bought, Sold
<1>3. IsFiniteSet(delivered)
  BY <1>1, FS_EmptySet
<1> QED
  BY <1>1, <1>2, <1>3 DEF CreditInv, ReadIsCurrent, Undelivered

(* Steps that transfer no credits.                                         *)
LEMMA CreditsKept ==
  ASSUME CreditInv, UNCHANGED <<credits, delivered, crossed>>,
         read' \in [Purchases -> [from : Int, to : Int]],
         \A t \in Purchases :
           /\ pc'[t] \in Undelivered => pc[t] \in Undelivered
           /\ pc'[t] \in Undelivered \ {"start"} => SellerOf[t] # Buyer[t]
           /\ pc'[t] = "creditCommit" => pc[t] = "creditCommit" /\ read'[t] = read[t]
  PROVE  CreditInv'
<1>1. CreditsAddUp'
  BY DEF CreditInv, CreditsAddUp
<1>2. ASSUME NEW t \in Purchases
      PROVE  ReadIsCurrent(t)'
  <2> SUFFICES ASSUME pc'[t] = "creditCommit", NEW u \in Parties(t) \ crossed
               PROVE  /\ credits[u] = IF u = SellerOf[t] THEN read'[t].from ELSE read'[t].to
                      /\ \A v \in Transferring' : u \in Parties(v) => v = t
    BY DEF ReadIsCurrent, Parties
  <2>1. Transferring' \subseteq Transferring
    BY DEF Transferring
  <2> QED
    BY <2>1 DEF CreditInv, ReadIsCurrent
<1> QED
  BY <1>1, <1>2 DEF CreditInv

LEMMA CreditsRead ==
  ASSUME SagaType, CreditInv, NEW t \in Purchases, TransferRead(t)
  PROVE  CreditInv'
<1>1. /\ pc[t] = "credit" /\ UNCHANGED <<credits, delivered>>
      /\ read' = [read EXCEPT ![t] = [from |-> credits[SellerOf[t]], to |-> credits[Buyer[t]]]]
      /\ crossed' = crossed \cup (Parties(t) \cap UNION {Parties(u) : u \in Transferring})
  BY DEF TransferRead
<1>2. pc'[t] = "creditCommit" /\ \A u \in Purchases : u # t => pc'[u] = pc[u]
  BY GotoMoves DEF TransferRead, Labels
<1>3. SellerOf[t] \in Users /\ Buyer[t] \in Users
  BY PurchaseAssumption DEF SellerOf
<1>4. credits[SellerOf[t]] \in Int /\ credits[Buyer[t]] \in Int
  BY <1>3 DEF CreditInv
<1>5. PICK r \in [from : Int, to : Int] :
        /\ r = [from |-> credits[SellerOf[t]], to |-> credits[Buyer[t]]]
        /\ r.from = credits[SellerOf[t]] /\ r.to = credits[Buyer[t]]
  <2>1. [from |-> credits[SellerOf[t]], to |-> credits[Buyer[t]]] \in [from : Int, to : Int]
    BY <1>4
  <2> QED
    BY <2>1
<1>6. /\ read' \in [Purchases -> [from : Int, to : Int]] /\ read'[t] = r
      /\ \A u \in Purchases : u # t => read'[u] = read[u]
  BY <1>1, <1>5 DEF CreditInv
<1>7. CreditsAddUp'
  BY <1>1 DEF CreditInv, CreditsAddUp
<1>8. Transferring' = Transferring \cup {t} /\ t \notin Transferring
  BY <1>1, <1>2 DEF Transferring
<1>9. ASSUME NEW u \in Purchases
      PROVE  ReadIsCurrent(u)'
  <2> SUFFICES ASSUME pc'[u] = "creditCommit", NEW w \in Parties(u), w \notin crossed'
               PROVE  /\ credits[w] = IF w = SellerOf[u] THEN read'[u].from ELSE read'[u].to
                      /\ \A v \in Transferring' : w \in Parties(v) => v = u
    BY <1>1 DEF ReadIsCurrent, Parties
  <2>1. CASE u = t
    <3>1. \A v \in Transferring : w \notin Parties(v)
      BY <1>1, <2>1
    <3>2. w = SellerOf[t] \/ w = Buyer[t]
      BY <2>1 DEF Parties
    <3> QED
      BY <1>5, <1>6, <1>8, <2>1, <3>1, <3>2
  <2>2. CASE u # t
    <3>1. pc[u] = "creditCommit" /\ u \in Transferring /\ read'[u] = read[u]
      BY <1>2, <1>6, <2>2 DEF Transferring
    <3>2. w \notin Parties(t) /\ w \notin crossed
      BY <1>1, <3>1
    <3> QED
      BY <1>8, <3>1, <3>2 DEF CreditInv, ReadIsCurrent
  <2> QED
    BY <2>1, <2>2
<1> QED
  BY <1>1, <1>2, <1>6, <1>7, <1>9 DEF CreditInv, Undelivered

LEMMA CreditsCommitted ==
  ASSUME SagaType, CreditInv, NEW t \in Purchases, TransferCommit(t)
  PROVE  CreditInv'
<1>1. /\ pc[t] = "creditCommit" /\ crossed' = crossed
      /\ credits' = SaveBoth(t) /\ delivered' = delivered \cup {t}
      /\ read' = [read EXCEPT ![t] = NothingRead]
  BY DEF TransferCommit
<1>2. pc'[t] = "list" /\ \A u \in Purchases : u # t => pc'[u] = pc[u]
  BY GotoMoves DEF TransferCommit, Labels
<1>3. PICK s \in Users, b \in Users, n \in Nat :
        s = SellerOf[t] /\ b = Buyer[t] /\ n = Amount[t]
  BY PurchaseAssumption DEF SellerOf
<1>4. s # b /\ t \notin delivered
  BY <1>1, <1>3 DEF CreditInv, Undelivered
<1>5. PICK from \in Int, to \in Int : from = read[t].from /\ to = read[t].to
  BY DEF CreditInv
<1>6. credits' = [credits EXCEPT ![s] = from - n, ![b] = to + n]
  BY <1>1, <1>3, <1>5 DEF SaveBoth
<1>7. /\ credits' \in [Users -> Int] /\ credits'[s] = from - n /\ credits'[b] = to + n
      /\ \A u \in Users : u # s /\ u # b => credits'[u] = credits[u]
  <2>1. from - n \in Int /\ to + n \in Int
    OBVIOUS
  <2> QED
    BY <1>4, <1>6, <2>1 DEF CreditInv
<1>8. read' \in [Purchases -> [from : Int, to : Int]] /\ \A u \in Purchases : u # t => read'[u] = read[u]
  BY <1>1 DEF CreditInv, NothingRead
<1>9. IsFiniteSet(delivered) /\ IsFiniteSet(delivered')
  BY <1>1, FS_AddElement DEF CreditInv
<1>10. CreditsAddUp'
  <2> SUFFICES ASSUME NEW u \in Users \ crossed
               PROVE  credits'[u] = Credits[u] + Sum(Bought(u)') - Sum(Sold(u)')
    BY <1>1 DEF CreditsAddUp, Bought, Sold
  <2>1. /\ IsFiniteSet(Bought(u)) /\ IsFiniteSet(Sold(u)) /\ t \notin Bought(u) /\ t \notin Sold(u)
        /\ \A x \in Bought(u) \cup Sold(u) \cup {t} : Amount[x] \in Int
    <3>1. Bought(u) \subseteq delivered /\ Sold(u) \subseteq delivered
      BY DEF Bought, Sold
    <3>2. delivered \subseteq Purchases /\ \A x \in Purchases : Amount[x] \in Int
      BY PurchaseAssumption DEF SagaType
    <3> QED
      BY <1>4, <1>9, <3>1, <3>2, FS_Subset
  <2>2. PICK B \in Int, S \in Int : B = Sum(Bought(u)) /\ S = Sum(Sold(u))
    BY <2>1, SumIs, SumAdds
  <2>3. Sum(Bought(u) \cup {t}) = B + n /\ Sum(Sold(u) \cup {t}) = S + n
    BY <1>3, <2>1, <2>2, SumIs, SumAdds
  <2>4. /\ Bought(u)' = IF u = b THEN Bought(u) \cup {t} ELSE Bought(u)
        /\ Sold(u)' = IF u = s THEN Sold(u) \cup {t} ELSE Sold(u)
    BY <1>1, <1>3 DEF Bought, Sold
  <2>5. credits[u] = Credits[u] + B - S /\ Credits[u] \in Int
    BY <2>2, PurchaseAssumption DEF CreditInv, CreditsAddUp, Bought, Sold
  <2>6. (u = s => from = credits[u]) /\ (u = b => to = credits[u])
    BY <1>1, <1>3, <1>4, <1>5 DEF CreditInv, ReadIsCurrent, Parties
  <2>7. Sum(Bought(u)') = (IF u = b THEN B + n ELSE B) /\ Sum(Sold(u)') = (IF u = s THEN S + n ELSE S)
    BY <2>2, <2>3, <2>4
  <2>8. credits'[u] = IF u = s THEN credits[u] - n ELSE IF u = b THEN credits[u] + n ELSE credits[u]
    BY <1>4, <1>7, <2>6
  <2> QED
    BY <1>4, <2>2, <2>5, <2>7, <2>8
<1>11. ASSUME NEW u \in Purchases
       PROVE  ReadIsCurrent(u)'
  <2> SUFFICES ASSUME pc'[u] = "creditCommit", NEW w \in Parties(u), w \notin crossed
               PROVE  /\ credits'[w] = IF w = SellerOf[u] THEN read'[u].from ELSE read'[u].to
                      /\ \A v \in Transferring' : w \in Parties(v) => v = u
    BY <1>1 DEF ReadIsCurrent, Parties
  <2>1. u # t /\ pc[u] = "creditCommit"
    BY <1>2
  <2>2. Transferring' \subseteq Transferring /\ t \in Transferring
    BY <1>1, <1>2 DEF Transferring
  <2>3. /\ credits[w] = IF w = SellerOf[u] THEN read[u].from ELSE read[u].to
        /\ \A v \in Transferring : w \in Parties(v) => v = u
    BY <2>1 DEF CreditInv, ReadIsCurrent
  <2>4. w # s /\ w # b /\ w \in Users
    <3>1. w \notin Parties(t) /\ w \in {SellerOf[u], Buyer[u]}
      BY <2>1, <2>2, <2>3 DEF Parties
    <3> QED
      BY <1>3, <3>1, PurchaseAssumption DEF Parties, SellerOf
  <2> QED
    BY <1>7, <1>8, <2>1, <2>2, <2>3, <2>4
<1>12. \A u \in Purchases : /\ pc'[u] \in Undelivered => u \notin delivered'
                            /\ pc'[u] \in Undelivered \ {"start"} => SellerOf[u] # Buyer[u]
  BY <1>1, <1>2 DEF CreditInv, Undelivered
<1> QED
  BY <1>7, <1>8, <1>9, <1>10, <1>11, <1>12 DEF CreditInv

LEMMA CreditStep == SagaInv /\ CreditInv /\ [Next]_vars => CreditInv'
<1> SUFFICES ASSUME SagaInv, CreditInv, [Next]_vars PROVE CreditInv'
  OBVIOUS
<1> USE DEF reserves, credit, shop
<1>1. SagaType /\ read \in [Purchases -> [from : Int, to : Int]]
  BY DEF SagaInv, CreditInv
<1>2. ASSUME NEW t \in Purchases, Purchase(t) \/ InsertTransaction(t)
      PROVE  CreditInv'
  <2>1. /\ UNCHANGED <<credits, read, delivered, crossed>>
        /\ \A u \in Purchases : u # t => pc'[u] = pc[u]
        /\ pc'[t] \in {"insert", "reserve", "done"} /\ pc[t] \in {"start", "insert"}
        /\ pc'[t] # "done" => SellerOf[t] # Buyer[t]
    BY <1>1, <1>2, GotoMoves DEF Purchase, InsertTransaction, Labels, CreditInv, Undelivered
  <2> QED
    BY <1>1, <2>1, CreditsKept DEF CreditInv, Undelivered
<1>3. ASSUME NEW t \in Purchases, \/ ReservePayment(t) \/ SettleRefused(t) \/ SettleFind(t)
                                  \/ SettleSave(t) \/ TransferRefused(t)
      PROVE  CreditInv'
  <2>1. /\ UNCHANGED <<credits, read, delivered, crossed>>
        /\ \A u \in Purchases : u # t => pc'[u] = pc[u]
        /\ pc'[t] \in {"settle", "settleSave", "credit", "fail"}
        /\ pc[t] \in {"reserve", "settle", "settleSave", "credit"}
    BY <1>1, <1>3, GotoMoves DEF ReservePayment, SettleRefused, SettleFind, SettleSave, TransferRefused, Labels
  <2> QED
    BY <1>1, <2>1, CreditsKept DEF CreditInv, Undelivered
<1>4. ASSUME NEW t \in Purchases, \/ UpdateListing(t) \/ UpdateRefused(t) \/ UpdateCommit(t)
                                  \/ Complete(t) \/ Announce(t) \/ Fail(t)
      PROVE  CreditInv'
  <2>1. /\ UNCHANGED <<credits, read, delivered, crossed>>
        /\ \A u \in Purchases : u # t => pc'[u] = pc[u]
        /\ pc'[t] \in {"listCommit", "complete", "announce", "fail", "done"}
    BY <1>1, <1>4, GotoMoves DEF UpdateListing, LoadListing, UpdateRefused, UpdateCommit, SaveListing,
                                 SaveFails, Complete, Announce, Fail, Labels
  <2> QED
    BY <1>1, <2>1, CreditsKept DEF CreditInv, Undelivered
<1>5. ASSUME NEW t \in Purchases, Break(t)
      PROVE  CreditInv'
  <2>1. /\ UNCHANGED <<credits, delivered, crossed>> /\ read' = [read EXCEPT ![t] = NothingRead]
        /\ pc'[t] \in {"fail", "done"} /\ \A u \in Purchases : u # t => pc'[u] = pc[u]
    BY <1>1, <1>5, GotoMoves DEF Break, Labels
  <2>2. /\ read' \in [Purchases -> [from : Int, to : Int]]
        /\ \A u \in Purchases : u # t => read'[u] = read[u]
    BY <1>1, <2>1 DEF NothingRead
  <2> QED
    BY <2>1, <2>2, CreditsKept DEF CreditInv, Undelivered
<1>6. ASSUME NEW e \in Edits, EditListing(e) \/ EditCommit(e)
      PROVE  CreditInv'
  <2>1. UNCHANGED <<credits, read, delivered, crossed>> /\ \A t \in Purchases : pc'[t] = pc[t]
    BY <1>1, <1>6, PurchaseAssumption, GotoMoves
       DEF EditListing, LoadListing, EditCommit, SaveListing, SaveFails, Labels
  <2> QED
    BY <1>1, <2>1, CreditsKept DEF CreditInv
<1>7. ASSUME UNCHANGED <<credits, read, delivered, crossed, pc>>
      PROVE  CreditInv'
  BY <1>1, <1>7, CreditsKept DEF CreditInv
<1>8. ASSUME NEW t \in Purchases, ReleaseFind(t) \/ ReleaseSave(t)
      PROVE  CreditInv'
  BY <1>7, <1>8 DEF ReleaseFind, ReleaseSave, ours
<1>9. CASE UNCHANGED vars
  BY <1>7, <1>9 DEF vars, ours
<1> QED
  BY <1>1, <1>2, <1>3, <1>4, <1>5, <1>6, <1>8, <1>9, CreditsRead, CreditsCommitted
     DEF Next, Step

(* Each credit account that never saw two transfers overlap holds exactly  *)
(* what the deliveries to and from it add up to, whatever was lost on the  *)
(* way and wherever the service died.                                      *)
THEOREM CreditsAlwaysAddUp == Spec => []CreditsAddUp
<1>1. Spec => []CreditInv
  BY CreditInit, CreditStep, SagaInvHolds, PTL DEF Spec
<1>2. CreditInv => CreditsAddUp
  BY DEF CreditInv
<1> QED
  BY <1>1, <1>2, PTL

----------------------------------------------------------------------------
(* The types of the rest.                                                  *)

(* A transfer in progress has read that the seller has what it takes.      *)
GoodsInv ==
  /\ credits \in [Users -> Nat] /\ read \in [Purchases -> [from : Nat, to : Nat]]
  /\ \A t \in Purchases : pc[t] = "creditCommit" => Amount[t] <= read[t].from
  /\ listing \in [Listings -> Status \cup {None}]
  /\ loaded \in [Purchases \cup Edits -> Status \cup {None}]
  /\ crossed \subseteq Users
  /\ faults \in 0 .. MaxFaults

LEMMA GoodsInit == Init => GoodsInv
BY PurchaseAssumption DEF Init, GoodsInv, NothingRead, Status

(* Steps that transfer no credits.                                         *)
LEMMA GoodsKept ==
  ASSUME GoodsInv, UNCHANGED <<credits, crossed>>,
         read' \in [Purchases -> [from : Nat, to : Nat]],
         \A t \in Purchases : pc'[t] = "creditCommit" =>
           pc[t] = "creditCommit" /\ read'[t] = read[t],
         listing' \in [Listings -> Status \cup {None}],
         loaded' \in [Purchases \cup Edits -> Status \cup {None}],
         faults' = faults \/ (faults < MaxFaults /\ faults' = faults + 1)
  PROVE  GoodsInv'
<1>1. faults' \in 0 .. MaxFaults
  BY PurchaseAssumption DEF GoodsInv
<1> QED
  BY <1>1 DEF GoodsInv

LEMMA GoodsTransferred ==
  ASSUME SagaType, GoodsInv, NEW t \in Purchases, TransferRead(t) \/ TransferCommit(t)
  PROVE  GoodsInv'
<1>1. PICK b \in Users, s \in Users, n \in Nat : b = Buyer[t] /\ s = SellerOf[t] /\ n = Amount[t]
  BY PurchaseAssumption DEF SellerOf
<1>2. UNCHANGED <<listing, loaded, faults>> /\ crossed' \subseteq Users
  BY <1>1 DEF TransferRead, TransferCommit, shop, GoodsInv, Parties
<1>3. CASE TransferRead(t)
  <2>1. /\ credits' = credits /\ credits[s] >= n
        /\ read' = [read EXCEPT ![t] = [from |-> credits[s], to |-> credits[b]]]
    BY <1>1, <1>3 DEF TransferRead, HasCredits
  <2>2. pc'[t] = "creditCommit" /\ \A u \in Purchases : u # t => pc'[u] = pc[u]
    BY <1>3, GotoMoves DEF TransferRead, Labels
  <2>3. credits[s] \in Nat /\ credits[b] \in Nat
    BY DEF GoodsInv
  <2>4. /\ read' \in [Purchases -> [from : Nat, to : Nat]] /\ read'[t].from = credits[s]
        /\ \A u \in Purchases : u # t => read'[u] = read[u]
    BY <2>1, <2>3 DEF GoodsInv
  <2> QED
    BY <1>1, <1>2, <2>1, <2>2, <2>3, <2>4 DEF GoodsInv
<1>4. CASE TransferCommit(t)
  <2>1. PICK from \in Nat, to \in Nat : from = read[t].from /\ to = read[t].to
    BY DEF GoodsInv
  <2>2. n <= from
    BY <1>1, <1>4, <2>1 DEF TransferCommit, GoodsInv
  <2>3. credits' = [credits EXCEPT ![s] = from - n, ![b] = to + n]
    BY <1>1, <1>4, <2>1 DEF TransferCommit, SaveBoth
  <2>4. credits' \in [Users -> Nat]
    <3>1. from - n \in Nat /\ to + n \in Nat
      BY <2>2
    <3> QED
      BY <2>3, <3>1 DEF GoodsInv
  <2>5. /\ read' \in [Purchases -> [from : Nat, to : Nat]]
        /\ \A u \in Purchases : u # t => read'[u] = read[u]
    BY <1>4 DEF TransferCommit, GoodsInv, NothingRead
  <2>6. pc'[t] = "list" /\ \A u \in Purchases : u # t => pc'[u] = pc[u]
    BY <1>4, GotoMoves DEF TransferCommit, Labels
  <2> QED
    BY <1>2, <2>4, <2>5, <2>6 DEF GoodsInv
<1> QED
  BY <1>3, <1>4

LEMMA GoodsListed ==
  ASSUME SagaType, GoodsInv, NEW p \in Purchases \cup Edits, NEW l \in Listings,
         \/ LoadListing(p, l)
         \/ \E status \in Status \cup {None}, label \in {"complete", "fail", "done"} :
              (SaveListing(p, l, status) \/ SaveFails(p, l)) /\ Goto(p, label)
  PROVE  GoodsInv'
<1>1. UNCHANGED <<credits, crossed, read, faults>>
  BY DEF LoadListing, SaveListing, SaveFails, credit
<1>2. PICK label \in Labels : label # "creditCommit" /\ Goto(p, label)
  BY DEF LoadListing, Labels
<1>3. \A t \in Purchases : pc'[t] = "creditCommit" => pc[t] = "creditCommit"
  BY <1>2, GotoMoves
<1>4. listing' \in [Listings -> Status \cup {None}]
  BY DEF LoadListing, SaveListing, SaveFails, GoodsInv
<1>5. loaded' \in [Purchases \cup Edits -> Status \cup {None}]
  <2>1. listing[l] \in Status \cup {None}
    BY DEF GoodsInv
  <2> QED
    BY <2>1 DEF LoadListing, SaveListing, SaveFails, GoodsInv
<1> QED
  BY <1>1, <1>3, <1>4, <1>5, GoodsKept DEF GoodsInv

LEMMA GoodsStep ==
  ASSUME SagaType, GoodsInv, [Next]_vars
  PROVE  GoodsInv'
<1>0. /\ read \in [Purchases -> [from : Nat, to : Nat]] /\ listing \in [Listings -> Status \cup {None}]
      /\ loaded \in [Purchases \cup Edits -> Status \cup {None}]
      /\ NothingRead \in [from : Nat, to : Nat]
  BY DEF GoodsInv, NothingRead
<1>1. ASSUME NEW t \in Purchases, NEW label \in Labels \ {"creditCommit"}, Goto(t, label),
             UNCHANGED <<credits, read, crossed, listing, loaded, faults>>
      PROVE  GoodsInv'
  BY <1>0, <1>1, GotoMoves, GoodsKept
<1>2. ASSUME NEW t \in Purchases,
             \/ Purchase(t) \/ InsertTransaction(t) \/ ReservePayment(t) \/ SettleRefused(t)
             \/ SettleFind(t) \/ SettleSave(t) \/ TransferRefused(t) \/ UpdateRefused(t) \/ Complete(t) \/ Announce(t) \/ Fail(t)
      PROVE  GoodsInv'
  <2>1. PICK label \in Labels \ {"creditCommit"} : Goto(t, label)
    BY <1>2 DEF Purchase, InsertTransaction, ReservePayment, SettleRefused, SettleFind,
                SettleSave, TransferRefused, UpdateRefused, Complete, Announce, Fail, Labels
  <2>2. UNCHANGED <<credits, read, crossed, listing, loaded, faults>>
    BY <1>2 DEF Purchase, InsertTransaction, ReservePayment, SettleRefused, SettleFind,
                SettleSave, TransferRefused, UpdateRefused, Complete, Announce, Fail, credit, shop
  <2> QED
    BY <1>1, <2>1, <2>2
<1>3. ASSUME NEW t \in Purchases, UpdateListing(t) \/ UpdateCommit(t)
      PROVE  GoodsInv'
  <2>1. Of[t] \in Listings /\ "SOLD" \in Status /\ "ACTIVE" \in Status
    BY PurchaseAssumption DEF Status
  <2> QED
    BY <1>3, <2>1, GoodsListed DEF UpdateListing, UpdateCommit
<1>4. ASSUME NEW e \in Edits, EditListing(e) \/ EditCommit(e)
      PROVE  GoodsInv'
  <2>1. e[1] \in Listings /\ e[2] \in Status \cup {None}
    BY PurchaseAssumption
  <2> QED
    BY <1>4, <2>1, GoodsListed DEF EditListing, EditCommit
<1>5. ASSUME NEW t \in Purchases, Break(t)
      PROVE  GoodsInv'
  <2>1. pc'[t] \in {"fail", "done"} /\ \A u \in Purchases : u # t => pc'[u] = pc[u]
    BY <1>5, GotoMoves DEF Break, Labels
  <2>2. /\ read' \in [Purchases -> [from : Nat, to : Nat]]
        /\ \A u \in Purchases : u # t => read'[u] = read[u]
    BY <1>0, <1>5 DEF Break
  <2>3. loaded' \in [Purchases \cup Edits -> Status \cup {None}]
    BY <1>0, <1>5 DEF Break
  <2> QED
    BY <1>0, <1>5, <2>1, <2>2, <2>3, GoodsKept DEF Break
<1>6. ASSUME UNCHANGED <<credit, shop, pc, faults>>
      PROVE  GoodsInv'
  BY <1>6 DEF credit, shop, GoodsInv
<1>7. ASSUME NEW t \in Purchases, ReleaseFind(t) \/ ReleaseSave(t)
      PROVE  GoodsInv'
  BY <1>6, <1>7 DEF ReleaseFind, ReleaseSave, ours
<1>8. CASE UNCHANGED vars
  BY <1>6, <1>8 DEF vars, ours
<1> QED
  BY <1>2, <1>3, <1>4, <1>5, <1>7, <1>8, GoodsTransferred DEF Next, Step

(***************************************************************************)
(* Every row and every local variable of a purchase keeps its type: no     *)
(* balance of credits falls below 0, even where two transfers that overlap *)
(* write over each other.                                                  *)
(***************************************************************************)
THEOREM TypeCorrect == Spec => []TypeOK
<1>1. SagaInv /\ GoodsInv => TypeOK
  BY DEF TypeOK, SagaInv, SagaType, GoodsInv
<1>2. SagaInv /\ GoodsInv /\ [Next]_vars => GoodsInv'
  BY GoodsStep DEF SagaInv
<1>3. Spec => []GoodsInv
  BY <1>2, GoodsInit, SagaInvHolds, PTL DEF Spec
<1> QED
  BY <1>1, <1>3, SagaInvHolds, PTL

----------------------------------------------------------------------------
(* One user's account in three services.                                   *)

UserRows == [status : UserStatus \cup {"NONE"}, verified : BOOLEAN,
             locked : BOOLEAN, suspended : BOOLEAN, deleted : BOOLEAN]
ManagedRows == [status : {"NONE", "ACTIVE", "LOCKED", "SUSPENDED", "DELETED"},
                linked : BOOLEAN]
WalletRows == [status : {"NONE", "ACTIVE", "SUSPENDED", "CLOSED"}, moves : 0 .. moves]
RowsOf == [user |-> UserRows, managed |-> ManagedRows, wallet |-> WalletRows]

(* What a worker does, by the service it works for.  The row it has read   *)
(* exists.  Only an account that User_Service knows is announced to it.    *)
ManagedJob(j) ==
  /\ j.by = "request" /\ j.op \in Decisions \cup {"UPDATE"}
  /\ j.stage = "read" /\ j.row.linked => user.status # "NONE"
  /\ j.stage = "saved" => j.op \in Decisions \ {"DELETE"} /\ user.status # "NONE"

UserJob(j) ==
  /\ j.by = "event" => j.op \in Decisions \ {"DELETE"}
  /\ j.by = "request" => j.op \in Requests
  /\ j.stage = "read" /\ j.op = "DELETE" => ~j.row.deleted
  /\ j.stage = "saved" => j.op \in Decisions

WalletJob(j) ==
  /\ j.stage = "read"
  /\ j.by = "event" => j.op \in Events
  /\ j.by = "request" => j.op = "move"

JobOK(w) ==
  work[w] # Idle =>
    /\ work[w].table \in Tables /\ work[w].stage \in {"read", "saved"}
    /\ work[w].by = IF w \in Handlers THEN "request" ELSE "event"
    /\ work[w].stage = "read" =>
         work[w].row \in RowsOf[work[w].table] /\ work[w].row.status # "NONE"
    /\ Table[work[w].table].status # "NONE"
    /\ work[w].table = "managed" => ManagedJob(work[w])
    /\ work[w].table = "user" => UserJob(work[w])
    /\ work[w].table = "wallet" => WalletJob(work[w])

WorkersOK ==
  /\ work = [w \in Workers |-> work[w]]
  /\ \A w \in Workers : JobOK(w)

RowsOK ==
  /\ user \in UserRows /\ managed \in ManagedRows /\ wallet \in WalletRows
  /\ \A row \in seen : row \in WalletRows /\ row.status # "NONE" /\ wallet.status # "NONE"
  /\ managed.linked \/ created \/ toUser # <<>> => user.status # "NONE"

RestOK ==
  /\ created \in BOOLEAN
  /\ toUser \in Seq(Decisions \ {"DELETE"}) /\ toWallet \in Seq(Events)
  /\ trouble \subseteq Tables \cup {"mixed", "internal", "crossed", "skipped", "lost", "again", "stale"}
  /\ calls \in 0 .. MaxCalls /\ moves \in Nat /\ failures \in 0 .. MaxFailures

AccountsType == RowsOK /\ WorkersOK /\ RestOK

----------------------------------------------------------------------------
(* What the two halves of a handler do to the work in progress.            *)

LEMMA IdleHasNoTable ==
  ASSUME AccountsType, NEW w \in Workers
  PROVE  /\ work[w] = Idle <=> work[w].table \notin Tables
         /\ work[w] = Idle => work[w].table = "none"
BY DEF AccountsType, WorkersOK, JobOK, Tables, Idle

LEMMA Opened ==
  ASSUME AccountsType, NEW w \in Workers, NEW t, NEW by, NEW op, Open(w, t, by, op)
  PROVE  /\ work' = [v \in Workers |-> work'[v]]
         /\ \A v \in Workers : v # w => work'[v] = work[v]
         /\ work'[w] = [table |-> t, by |-> by, op |-> op, stage |-> "read", row |-> Table[t]]
         /\ work[w] = Idle
BY DEF AccountsType, WorkersOK, Open

LEMMA Closed ==
  ASSUME AccountsType, NEW w \in Workers, Close(w)
  PROVE  /\ work' = [v \in Workers |-> work'[v]]
         /\ \A v \in Workers : v # w => work'[v] = work[v]
         /\ work'[w] = Idle
BY DEF AccountsType, WorkersOK, Close

LEMMA SavedOrClosed ==
  ASSUME AccountsType, NEW w \in Workers, Saved(w)
  PROVE  /\ work' = [v \in Workers |-> work'[v]]
         /\ \A v \in Workers : v # w => work'[v] = work[v]
         /\ IF Announces(w) THEN work'[w] = [table |-> work[w].table, by |-> work[w].by,
                                             op |-> work[w].op, stage |-> "saved"]
                            ELSE work'[w] = Idle
BY DEF AccountsType, WorkersOK, Saved, Close

(* The first entry of a queue is taken out: the others move up.            *)
LEMMA TakenOut ==
  ASSUME NEW S, NEW s \in Seq(S), NEW i \in DOMAIN s
  PROVE  /\ Without(s, i) \in Seq(S)
         /\ i = 1 => /\ Len(Without(s, i)) = Len(s) - 1
                     /\ \A j \in 1 .. Len(s) - 1 : Without(s, i)[j] = s[j + 1]
<1>1. Len(s) \in Nat /\ i \in 1 .. Len(s) /\ DOMAIN s = 1 .. Len(s)
  BY LenProperties
<1>2. /\ SubSeq(s, 1, i - 1) \in Seq(S) /\ SubSeq(s, i + 1, Len(s)) \in Seq(S)
  BY <1>1, SubSeqProperties
<1>3. Without(s, i) \in Seq(S)
  BY <1>2, ConcatProperties DEF Without
<1>4. ASSUME i = 1
      PROVE  /\ Len(Without(s, i)) = Len(s) - 1
             /\ \A j \in 1 .. Len(s) - 1 : Without(s, i)[j] = s[j + 1]
  <2>1. /\ Len(SubSeq(s, 1, 0)) = 0 /\ Len(SubSeq(s, 2, Len(s))) = Len(s) - 1
        /\ \A j \in 1 .. Len(s) - 1 : SubSeq(s, 2, Len(s))[j] = s[j + 1]
    BY <1>1, <1>4, SubSeqProperties
  <2> QED
    BY <1>1, <1>2, <1>4, <2>1, ConcatProperties DEF Without
<1> QED
  BY <1>3, <1>4

----------------------------------------------------------------------------
(* Types.                                                                  *)

LEMMA TypesImply == AccountsType => AccountsTypeOK
<1> SUFFICES ASSUME AccountsType PROVE AccountsTypeOK
  OBVIOUS
<1> USE AccountsAssumption
<1>1. \A w \in Workers : work[w] = Idle \/
       /\ work[w].table \in Tables
       /\ work[w].by \in {"request", "event"}
       /\ work[w].stage \in {"read", "saved"}
       /\ work[w].op \in Decisions \cup UserStatus \cup OwnRequests \cup Events \cup {"UPDATE", "move"}
  BY DEF AccountsType, WorkersOK, JobOK, Tables, ManagedJob, UserJob, WalletJob
<1>2. /\ wallet \in [status : {"NONE", "ACTIVE", "SUSPENDED", "CLOSED"}, moves : Nat]
      /\ seen \subseteq [status : {"ACTIVE", "SUSPENDED", "CLOSED"}, moves : Nat]
  BY DEF AccountsType, RowsOK, RestOK, WalletRows
<1> QED
  BY <1>1, <1>2 DEF AccountsType, RowsOK, RestOK, AccountsTypeOK, UserRows, ManagedRows

LEMMA TypeInit == AccountsInit => AccountsType
<1> SUFFICES ASSUME AccountsInit PROVE AccountsType
  OBVIOUS
<1> USE AccountsAssumption DEF AccountsInit
<1>1. RowsOK
  BY DEF RowsOK, UserRows, ManagedRows, WalletRows, UserStatus
<1>2. WorkersOK
  BY DEF WorkersOK, JobOK
<1>3. RestOK
  <2>1. toUser \in Seq(Decisions \ {"DELETE"}) /\ toWallet \in Seq(Events)
    BY EmptySeq
  <2>2. calls \in 0 .. MaxCalls /\ moves \in Nat /\ failures \in 0 .. MaxFailures
    OBVIOUS
  <2> QED
    BY <2>1, <2>2 DEF RestOK
<1> QED
  BY <1>1, <1>2, <1>3 DEF AccountsType

LEMMA UserAfterType ==
  ASSUME NEW row, row \in UserRows, row.status # "NONE", NEW by, NEW op,
         op \in Decisions \cup UserStatus \cup OwnRequests
  PROVE  UserAfter(by, op, row) \in UserRows /\ UserAfter(by, op, row).status # "NONE"
<1> USE DEF UserRows, UserAfter
<1>1. CASE op = "LOCK"
  BY <1>1 DEF UserStatus
<1>2. CASE op = "UNLOCK"
  BY <1>2 DEF UserStatus
<1>3. CASE op = "SUSPEND"
  BY <1>3 DEF UserStatus
<1>4. CASE op = "ACTIVATE"
  BY <1>4 DEF UserStatus
<1>5. CASE op = "DELETE"
  BY <1>5 DEF UserStatus
<1>6. CASE op = "verifyEmail"
  BY <1>6 DEF UserStatus
<1>7. CASE op \in UserStatus
  BY <1>7 DEF UserStatus
<1>8. CASE op \in {"login", "resetPassword"}
  BY <1>8 DEF UserStatus
<1> QED
  BY <1>1, <1>2, <1>3, <1>4, <1>5, <1>6, <1>7, <1>8 DEF Decisions, OwnRequests

(* What a decision does to the flags of the user; other requests leave     *)
(* them alone.                                                             *)
LEMMA FlagsAfter ==
  ASSUME NEW row, row \in UserRows, row.status # "NONE", NEW by, NEW op,
         op \in Decisions \cup UserStatus \cup OwnRequests
  PROVE  /\ op = "LOCK" => UserAfter(by, op, row).locked = TRUE
         /\ op = "UNLOCK" => UserAfter(by, op, row).locked = FALSE
         /\ op \notin {"LOCK", "UNLOCK"} => UserAfter(by, op, row).locked = row.locked
         /\ op = "SUSPEND" => UserAfter(by, op, row).suspended = TRUE
         /\ op = "ACTIVATE" => UserAfter(by, op, row).suspended = FALSE
         /\ op \notin {"SUSPEND", "ACTIVATE"} => UserAfter(by, op, row).suspended = row.suspended
         /\ op = "DELETE" => UserAfter(by, op, row).deleted = TRUE
         /\ op # "DELETE" => UserAfter(by, op, row).deleted = row.deleted
<1> USE DEF UserRows, UserAfter
<1>1. CASE op = "LOCK"
  BY <1>1 DEF UserStatus
<1>2. CASE op = "UNLOCK"
  BY <1>2 DEF UserStatus
<1>3. CASE op = "SUSPEND"
  BY <1>3 DEF UserStatus
<1>4. CASE op = "ACTIVATE"
  BY <1>4 DEF UserStatus
<1>5. CASE op = "DELETE"
  BY <1>5 DEF UserStatus
<1>6. CASE op = "verifyEmail"
  BY <1>6 DEF UserStatus
<1>7. CASE op \in UserStatus
  BY <1>7 DEF UserStatus
<1>8. CASE op \in {"login", "resetPassword"}
  BY <1>8 DEF UserStatus
<1> QED
  BY <1>1, <1>2, <1>3, <1>4, <1>5, <1>6, <1>7, <1>8 DEF Decisions, OwnRequests

LEMMA FlagsSaved ==
  ASSUME user \in UserRows, user.status # "NONE", NEW by, NEW op,
         op \in Decisions \cup UserStatus \cup OwnRequests, user' = UserAfter(by, op, user)
  PROVE  /\ op = "LOCK" => user'.locked = TRUE
         /\ op = "UNLOCK" => user'.locked = FALSE
         /\ op \notin {"LOCK", "UNLOCK"} => user'.locked = user.locked
         /\ op = "SUSPEND" => user'.suspended = TRUE
         /\ op = "ACTIVATE" => user'.suspended = FALSE
         /\ op \notin {"SUSPEND", "ACTIVATE"} => user'.suspended = user.suspended
         /\ op = "DELETE" => user'.deleted = TRUE
         /\ op # "DELETE" => user'.deleted = user.deleted
BY FlagsAfter

LEMMA ManagedAfterType ==
  ASSUME NEW row \in ManagedRows, row.status # "NONE", NEW op
  PROVE  LET next == ManagedAfter(op, row) IN
         /\ next \in ManagedRows /\ next.status # "NONE"
         /\ next.linked = row.linked
         /\ next.status = IF op \in Decisions THEN Becomes[op] ELSE row.status
BY DEF ManagedRows, ManagedAfter, Decisions, Becomes

LEMMA WalletAfterType ==
  ASSUME NEW row \in WalletRows, NEW e
  PROVE  /\ WalletAfter(e, row) \in WalletRows /\ WalletAfter(e, row).status # "NONE"
         /\ WalletAfter(e, row).moves = row.moves
BY DEF WalletRows, WalletAfter

(* Workers that do nothing in a step have no less to go by after it.       *)
LEMMA OthersStayOK ==
  ASSUME AccountsType, moves \in Int, moves' \in Int, moves <= moves',
         \A t \in Tables : Table[t].status # "NONE" => Table'[t].status # "NONE",
         NEW v \in Workers, work'[v] = work[v]
  PROVE  JobOK(v)'
<1>1. user.status # "NONE" => user'.status # "NONE"
  BY DEF Table, Tables
<1>2. JobOK(v)
  BY DEF AccountsType, WorkersOK
<1>3. 0 .. moves \subseteq 0 .. moves'
  OBVIOUS
<1>4. \A t \in Tables : RowsOf[t] \subseteq RowsOf'[t]
  <2>1. UserRows \subseteq UserRows' /\ ManagedRows \subseteq ManagedRows'
    BY DEF UserRows, ManagedRows
  <2>2. WalletRows \subseteq WalletRows'
    BY <1>3 DEF WalletRows
  <2> QED
    BY <2>1, <2>2 DEF RowsOf, Tables
<1> QED
  BY <1>1, <1>2, <1>4 DEF JobOK, ManagedJob, UserJob, WalletJob

LEMMA WorkersStayOK ==
  ASSUME AccountsType, moves \in Int, moves' \in Int, moves <= moves', UNCHANGED work,
         \A t \in Tables : Table[t].status # "NONE" => Table'[t].status # "NONE"
  PROVE  WorkersOK'
BY OthersStayOK DEF AccountsType, WorkersOK

LEMMA WorkerMoves ==
  ASSUME AccountsType, moves \in Int, moves' \in Int, moves <= moves', NEW w \in Workers,
         work' = [v \in Workers |-> work'[v]],
         \A v \in Workers : v # w => work'[v] = work[v], JobOK(w)',
         \A t \in Tables : Table[t].status # "NONE" => Table'[t].status # "NONE"
  PROVE  WorkersOK'
BY OthersStayOK DEF WorkersOK

LEMMA OnlyWorkerMoves ==
  ASSUME AccountsType, UNCHANGED <<user, managed, wallet, moves>>, NEW w \in Workers,
         work' = [v \in Workers |-> work'[v]],
         \A v \in Workers : v # w => work'[v] = work[v], JobOK(w)'
  PROVE  WorkersOK'
<1>1. moves \in Int /\ moves' \in Int /\ moves <= moves'
  BY DEF AccountsType, RestOK
<1>2. Table' = Table
  BY DEF Table
<1> QED
  BY <1>1, <1>2, WorkerMoves

LEMMA WorkerCloses ==
  ASSUME AccountsType, UNCHANGED <<user, managed, wallet, moves>>, NEW w \in Workers, Close(w)
  PROVE  WorkersOK'
<1>1. JobOK(w)'
  BY Closed DEF JobOK
<1> QED
  BY <1>1, Closed, OnlyWorkerMoves

LEMMA TableRows ==
  ASSUME AccountsType, NEW t \in Tables
  PROVE  Table[t] \in RowsOf[t]
BY DEF AccountsType, RowsOK, Tables, Table, RowsOf

LEMMA WorkerOpens ==
  ASSUME AccountsType, UNCHANGED <<user, managed, wallet, moves>>, NEW w \in Workers,
         NEW t \in Tables, NEW by, NEW op, Open(w, t, by, op),
         Table[t].status # "NONE", by = IF w \in Handlers THEN "request" ELSE "event",
         NEW j, j = [table |-> t, by |-> by, op |-> op, stage |-> "read", row |-> Table[t]],
         t = "managed" => ManagedJob(j), t = "user" => UserJob(j), t = "wallet" => WalletJob(j)
  PROVE  WorkersOK'
<1>1. work'[w] = j
  BY Opened
<1>2. Table' = Table /\ RowsOf' = RowsOf /\ user' = user
  BY DEF Table, RowsOf, UserRows, ManagedRows, WalletRows
<1>3. j.table = t /\ j.by = by /\ j.stage = "read" /\ j.row = Table[t]
  OBVIOUS
<1>4. JobOK(w)'
  BY <1>1, <1>2, <1>3, TableRows DEF JobOK, ManagedJob, UserJob, WalletJob
<1> QED
  BY <1>4, Opened, OnlyWorkerMoves

LEMMA OverlapIsTable ==
  ASSUME NEW t \in Tables
  PROVE  Overlap(t) \subseteq Tables
BY DEF Overlap

(* Every action keeps the types: one step for each.                        *)
LEMMA TypeStep == AccountsType /\ [AccountsNext]_accountsVars => AccountsType'
<1> SUFFICES ASSUME AccountsType, [AccountsNext]_accountsVars PROVE AccountsType'
  OBVIOUS
<1> USE AccountsAssumption DEF rows, queues
<1>0. /\ RowsOK /\ WorkersOK /\ RestOK
      /\ \A w \in Workers : JobOK(w)
      /\ moves \in Int /\ moves <= moves
      /\ \A t \in Tables : Overlap(t) \subseteq Tables
      /\ "user" \in Tables /\ "managed" \in Tables /\ "wallet" \in Tables
  BY OverlapIsTable DEF AccountsType, WorkersOK, RestOK, Tables
<1>r. Table["user"] = user /\ Table["managed"] = managed /\ Table["wallet"] = wallet
  BY DEF Table
<1>s. Table'["user"] = user' /\ Table'["managed"] = managed' /\ Table'["wallet"] = wallet'
  BY DEF Table
<1>t. ASSUME UNCHANGED rows, UNCHANGED <<created, toUser, moves>> PROVE RowsOK'
  BY <1>0, <1>t DEF RowsOK, UserRows, ManagedRows, WalletRows
<1>1. CASE Register \/ CreateManaged \/ HandleUserCreated \/ CreateWallet
  <2>1. RestOK'
    BY <1>0, <1>1 DEF RestOK, Register, CreateManaged, HandleUserCreated, CreateWallet
  <2>2. CASE Register
    <3>1. user' \in UserRows' /\ user'.status # "NONE"
      BY <1>0, <2>2 DEF RowsOK, Register, UserRows, UserStatus
    <3>2. RowsOK'
      BY <1>0, <2>2, <3>1 DEF RowsOK, Register, ManagedRows, WalletRows
    <3>3. WorkersOK'
      BY <1>0, <1>r, <1>s, <2>2, <3>1, WorkersStayOK DEF Register, Tables
    <3> QED
      BY <2>1, <3>2, <3>3 DEF AccountsType
  <2>3. CASE CreateManaged \/ HandleUserCreated
    <3>1. /\ managed' \in ManagedRows' /\ managed'.status # "NONE"
          /\ managed'.linked => user.status # "NONE"
      <4>1. CASE CreateManaged
        BY <1>0, <4>1 DEF RowsOK, CreateManaged, ManagedRows
      <4>2. CASE HandleUserCreated
        <5>1. user.status # "NONE" /\ managed \in ManagedRows
          BY <1>0, <4>2 DEF RowsOK, HandleUserCreated
        <5>2. managed' = IF managed.status = "NONE" THEN [status |-> "ACTIVE", linked |-> TRUE] ELSE managed
          BY <4>2 DEF HandleUserCreated
        <5> QED
          BY <5>1, <5>2 DEF ManagedRows
      <4> QED
        BY <2>3, <4>1, <4>2
    <3>2. RowsOK'
      BY <1>0, <2>3, <3>1 DEF RowsOK, CreateManaged, HandleUserCreated, UserRows, WalletRows
    <3>3. WorkersOK'
      BY <1>0, <1>r, <1>s, <2>3, <3>1, WorkersStayOK DEF CreateManaged, HandleUserCreated, Tables
    <3> QED
      BY <2>1, <3>2, <3>3 DEF AccountsType
  <2>4. CASE CreateWallet
    <3>1. wallet' \in WalletRows' /\ wallet'.status # "NONE" /\ seen' = {wallet'}
      BY <1>0, <2>4 DEF RowsOK, CreateWallet, WalletRows
    <3>2. RowsOK'
      BY <1>0, <2>4, <3>1 DEF RowsOK, CreateWallet, UserRows, ManagedRows
    <3>3. WorkersOK'
      BY <1>0, <1>r, <1>s, <2>4, <3>1, WorkersStayOK DEF CreateWallet, Tables
    <3> QED
      BY <2>1, <3>2, <3>3 DEF AccountsType
  <2> QED
    BY <1>1, <2>2, <2>3, <2>4
<1>2. ASSUME NEW w \in Handlers, StartMove(w)
      PROVE  AccountsType'
  <2>1. PICK row \in seen :
          /\ work' = [work EXCEPT ![w] = [table |-> "wallet", by |-> "request", op |-> "move",
                                           stage |-> "read", row |-> row]]
          /\ trouble' = trouble \cup Overlap("wallet")
                          \cup (IF row = wallet THEN {} ELSE {"stale"})
    BY <1>2 DEF StartMove
  <2>2. UNCHANGED <<rows, queues, calls, moves, failures>>
    BY <1>2 DEF StartMove
  <2>3. RestOK'
    BY <1>0, <2>1, <2>2 DEF RestOK
  <2>4. RowsOK'
    BY <2>2, <1>t
  <2>5. w \in Workers /\ row \in WalletRows /\ row.status # "NONE" /\ wallet.status # "NONE"
    BY <1>0 DEF RowsOK, Workers
  <2>6. /\ work' = [v \in Workers |-> work'[v]]
        /\ \A v \in Workers : v # w => work'[v] = work[v]
        /\ work'[w] = [table |-> "wallet", by |-> "request", op |-> "move",
                        stage |-> "read", row |-> row]
    BY <1>0, <2>1, <2>5 DEF WorkersOK
  <2>7. /\ work'[w].table = "wallet" /\ work'[w].by = "request" /\ work'[w].op = "move"
        /\ work'[w].stage = "read" /\ work'[w].row = row
    BY <2>6
  <2>8. WalletJob(work'[w])
    BY <2>7 DEF WalletJob
  <2>9. row \in RowsOf'["wallet"] /\ Table'["wallet"].status # "NONE"
    BY <1>s, <2>2, <2>5 DEF WalletRows, RowsOf
  <2>10. JobOK(w)'
    BY <2>5, <2>7, <2>8, <2>9 DEF JobOK, WalletJob, Tables
  <2>11. WorkersOK'
    BY <2>2, <2>5, <2>6, <2>10, OnlyWorkerMoves
  <2> QED
    BY <2>3, <2>4, <2>11 DEF AccountsType
<1>3. CASE LoseCreated
  <2>1. RestOK'
    <3>1. created' \in BOOLEAN
      BY <1>3 DEF LoseCreated
    <3>2. failures' \in 0 .. MaxFailures /\ UNCHANGED <<toUser, toWallet, trouble, calls, moves>>
      BY <1>0, <1>3 DEF RestOK, LoseCreated, Failure
    <3> QED
      BY <1>0, <3>1, <3>2 DEF RestOK
  <2>2. RowsOK'
    BY <1>0, <1>3 DEF RowsOK, LoseCreated, UserRows, ManagedRows, WalletRows
  <2>3. WorkersOK'
    BY <1>0, <1>3, WorkersStayOK DEF LoseCreated, Table
  <2> QED
    BY <2>1, <2>2, <2>3 DEF AccountsType
<1>4. CASE UNCHANGED accountsVars
  <2>1. RestOK'
    BY <1>0, <1>4 DEF RestOK, accountsVars
  <2>2. RowsOK'
    BY <1>0, <1>4, <1>t DEF accountsVars
  <2>3. WorkersOK'
    BY <1>0, <1>4, WorkersStayOK DEF accountsVars, Table
  <2> QED
    BY <2>1, <2>2, <2>3 DEF AccountsType
<1>5. ASSUME NEW w \in Handlers, NEW op \in Decisions \cup {"UPDATE"}, AdminRequest(w, op)
      PROVE  AccountsType'
  <2>1. RestOK'
    BY <1>0, <1>5 DEF RestOK, AdminRequest, Call
  <2>2. RowsOK'
    BY <1>5, <1>t DEF AdminRequest
  <2> DEFINE j == [table |-> "managed", by |-> "request", op |-> op, stage |-> "read", row |-> managed]
  <2>3. ManagedJob(j)
    BY <1>0 DEF ManagedJob, RowsOK
  <2>4. WorkersOK'
    BY <1>0, <1>5, <1>r, <2>3, WorkerOpens DEF AdminRequest, Workers
  <2> QED
    BY <2>1, <2>2, <2>4 DEF AccountsType
<1>6. ASSUME NEW w \in Handlers, NEW op \in Requests, UserRequest(w, op)
      PROVE  AccountsType'
  <2>1. RestOK'
    BY <1>0, <1>6 DEF RestOK, UserRequest, Call
  <2>2. RowsOK'
    BY <1>6, <1>t DEF UserRequest
  <2> DEFINE j == [table |-> "user", by |-> "request", op |-> op, stage |-> "read", row |-> user]
  <2>3. UserJob(j)
    BY <1>6 DEF UserJob, UserRequest, Accepts
  <2>4. WorkersOK'
    BY <1>0, <1>6, <1>r, <2>3, WorkerOpens DEF UserRequest, Workers
  <2> QED
    BY <2>1, <2>2, <2>4 DEF AccountsType
<1>7. ASSUME NEW w \in Consumers, HandleStatusChanged(w)
      PROVE  AccountsType'
  <2>1. toUser # <<>> /\ toUser \in Seq(Decisions \ {"DELETE"})
    BY <1>0, <1>7 DEF RestOK, HandleStatusChanged
  <2>2. Head(toUser) \in Decisions \ {"DELETE"} /\ Tail(toUser) \in Seq(Decisions \ {"DELETE"})
    BY <2>1, HeadTailProperties
  <2>3. RestOK'
    BY <1>0, <1>7, <2>2 DEF RestOK, HandleStatusChanged
  <2>4. RowsOK'
    BY <1>0, <1>7, <2>1 DEF RowsOK, HandleStatusChanged, UserRows, ManagedRows, WalletRows
  <2> DEFINE j == [table |-> "user", by |-> "event", op |-> Head(toUser), stage |-> "read", row |-> user]
  <2>5. UserJob(j)
    BY <2>2 DEF UserJob
  <2>6. w \in Workers /\ w \notin Handlers /\ user.status # "NONE"
    BY <1>0, <2>1 DEF Workers, AccountsAssumption, RowsOK
  <2>7. WorkersOK'
    BY <1>0, <1>7, <1>r, <2>5, <2>6, WorkerOpens DEF HandleStatusChanged
  <2> QED
    BY <2>3, <2>4, <2>7 DEF AccountsType
<1>8. ASSUME NEW w \in Consumers, NEW i \in DOMAIN toWallet, HandleWalletEvent(w, i)
      PROVE  AccountsType'
  <2>1. toWallet \in Seq(Events)
    BY <1>0 DEF RestOK
  <2>2. toWallet[i] \in Events /\ Without(toWallet, i) \in Seq(Events)
    BY <2>1, TakenOut, ElementOfSeq, LenProperties
  <2>3. trouble' \subseteq trouble \cup Overlap("wallet") \cup {"crossed", "skipped"}
    BY <1>8 DEF HandleWalletEvent
  <2>4. RestOK'
    BY <1>0, <1>8, <2>2, <2>3 DEF RestOK, HandleWalletEvent
  <2>5. RowsOK'
    BY <1>8, <1>t DEF HandleWalletEvent
  <2> DEFINE j == [table |-> "wallet", by |-> "event", op |-> toWallet[i], stage |-> "read", row |-> wallet]
  <2>6. WalletJob(j)
    BY <2>2 DEF WalletJob
  <2>7. w \in Workers /\ w \notin Handlers
    BY DEF Workers, AccountsAssumption
  <2>8. CASE Open(w, "wallet", "event", toWallet[i]) /\ wallet.status # "NONE"
    BY <1>0, <1>8, <1>r, <2>4, <2>5, <2>6, <2>7, <2>8, WorkerOpens DEF HandleWalletEvent, AccountsType
  <2>9. CASE UNCHANGED work
    <3>1. UNCHANGED <<Table, moves>>
      BY <1>8 DEF HandleWalletEvent, Table
    <3> QED
      BY <1>0, <2>4, <2>5, <2>9, <3>1, WorkersStayOK DEF AccountsType
  <2> QED
    BY <1>8, <2>8, <2>9 DEF HandleWalletEvent
<1>9. ASSUME NEW w \in Workers, SaveUser(w)
      PROVE  AccountsType'
  <2>1. work[w] # Idle /\ JobOK(w) /\ work[w].table = "user" /\ work[w].stage = "read"
    BY <1>0, <1>9, IdleHasNoTable DEF SaveUser
  <2>2. /\ work[w].row \in UserRows /\ work[w].row.status # "NONE" /\ UserJob(work[w])
        /\ user.status # "NONE"
    BY <1>r, <2>1 DEF JobOK, RowsOf
  <2>3. work[w].op \in Decisions \cup UserStatus \cup OwnRequests
    BY <2>1, <2>2 DEF JobOK, UserJob, AccountsAssumption
  <2>4. user' \in UserRows' /\ user'.status # "NONE"
    <3>1. user' = UserAfter(work[w].by, work[w].op, work[w].row)
      BY <1>9 DEF SaveUser
    <3>2. user' \in UserRows /\ user'.status # "NONE"
      BY <2>2, <2>3, <3>1, UserAfterType
    <3> QED
      BY <3>2 DEF UserRows
  <2>5. RestOK'
    BY <1>0, <1>9 DEF RestOK, SaveUser
  <2>6. RowsOK'
    BY <1>0, <1>9, <2>4 DEF RowsOK, SaveUser, ManagedRows, WalletRows
  <2>7. UNCHANGED <<managed, wallet, moves>> /\ Saved(w)
    BY <1>9 DEF SaveUser
  <2>8. JobOK(w)'
    <3>1. CASE Announces(w)
      <4>1. work'[w] = [table |-> "user", by |-> work[w].by, op |-> work[w].op, stage |-> "saved"]
            /\ work[w].op \in Decisions
        BY <2>1, <2>7, <3>1, SavedOrClosed DEF Announces
      <4> QED
        BY <1>0, <1>s, <2>1, <2>2, <2>4, <4>1 DEF JobOK, UserJob
    <3>2. CASE ~Announces(w)
      BY <2>7, <3>2, SavedOrClosed DEF JobOK
    <3> QED
      BY <3>1, <3>2
  <2>9. \A t \in Tables : Table[t].status # "NONE" => Table'[t].status # "NONE"
    BY <1>r, <1>s, <2>4, <2>7 DEF Tables
  <2>10. WorkersOK'
    BY <1>0, <2>7, <2>8, <2>9, SavedOrClosed, WorkerMoves
  <2> QED
    BY <2>5, <2>6, <2>10 DEF AccountsType
<1>10. ASSUME NEW w \in Workers, SaveManaged(w)
       PROVE  AccountsType'
  <2>1. work[w] # Idle /\ JobOK(w) /\ work[w].table = "managed" /\ work[w].stage = "read"
    BY <1>0, <1>10, IdleHasNoTable DEF SaveManaged
  <2>2. /\ work[w].row \in ManagedRows /\ work[w].row.status # "NONE" /\ ManagedJob(work[w])
        /\ work[w].row.linked => user.status # "NONE"
    BY <2>1 DEF JobOK, RowsOf, ManagedJob
  <2>3. managed' \in ManagedRows' /\ managed'.status # "NONE" /\ managed'.linked = work[w].row.linked
    BY <1>10, <2>2, ManagedAfterType DEF SaveManaged, ManagedRows
  <2>4. RestOK'
    BY <1>0, <1>10 DEF RestOK, SaveManaged
  <2>5. RowsOK'
    BY <1>0, <1>10, <2>2, <2>3 DEF RowsOK, SaveManaged, UserRows, WalletRows
  <2>6. UNCHANGED <<user, wallet, moves>> /\ Saved(w)
    BY <1>10 DEF SaveManaged
  <2>7. JobOK(w)'
    <3>1. CASE Announces(w)
      <4>1. /\ work'[w] = [table |-> "managed", by |-> work[w].by, op |-> work[w].op, stage |-> "saved"]
            /\ work[w].op \in Decisions \ {"DELETE"} /\ work[w].row.linked
        BY <2>1, <2>6, <3>1, SavedOrClosed DEF Announces
      <4>2. /\ work'[w].table = "managed" /\ work'[w].stage = "saved"
            /\ work'[w].by = work[w].by /\ work'[w].op = work[w].op
        BY <4>1
      <4>3. ManagedJob(work[w]) /\ user'.status # "NONE"
        BY <2>2, <2>6, <4>1
      <4> QED
        BY <1>0, <1>s, <2>1, <2>3, <4>1, <4>2, <4>3 DEF JobOK, ManagedJob
    <3>2. CASE ~Announces(w)
      BY <2>6, <3>2, SavedOrClosed DEF JobOK
    <3> QED
      BY <3>1, <3>2
  <2>8. \A t \in Tables : Table[t].status # "NONE" => Table'[t].status # "NONE"
    BY <1>r, <1>s, <2>3, <2>6 DEF Tables
  <2>9. WorkersOK'
    BY <1>0, <2>6, <2>7, <2>8, SavedOrClosed, WorkerMoves
  <2> QED
    BY <2>4, <2>5, <2>9 DEF AccountsType
<1>11. ASSUME NEW w \in Workers, SaveWallet(w)
       PROVE  AccountsType'
  <2>1. work[w].row \in WalletRows
    BY <1>0, <1>11, IdleHasNoTable DEF SaveWallet, JobOK, WalletJob, RowsOf
  <2>2. UNCHANGED <<user, managed, moves>> /\ Close(w)
    BY <1>11 DEF SaveWallet
  <2>3. wallet' \in WalletRows' /\ wallet'.status # "NONE" /\ seen' = seen \cup {wallet'}
    BY <1>11, <2>1, <2>2, WalletAfterType DEF SaveWallet, WalletRows
  <2>4. RestOK'
    BY <1>0, <1>11 DEF RestOK, SaveWallet
  <2>5. RowsOK'
    <3>1. WalletRows \subseteq WalletRows'
      BY <2>2 DEF WalletRows
    <3> QED
      BY <1>0, <1>11, <2>3, <3>1 DEF RowsOK, SaveWallet, UserRows, ManagedRows
  <2>6. JobOK(w)'
    BY <2>2, Closed DEF JobOK
  <2>7. \A t \in Tables : Table[t].status # "NONE" => Table'[t].status # "NONE"
    BY <1>r, <1>s, <2>2, <2>3 DEF Tables
  <2>8. WorkersOK'
    BY <1>0, <2>2, <2>6, <2>7, Closed, WorkerMoves
  <2> QED
    BY <2>4, <2>5, <2>8 DEF AccountsType
<1>12. ASSUME NEW w \in Workers, Publish(w)
       PROVE  AccountsType'
  <2>1. work[w] # Idle /\ work[w].stage = "saved" /\ JobOK(w)
    BY <1>0, <1>12 DEF Publish
  <2>2. /\ work[w].table = "managed" => work[w].op \in Decisions \ {"DELETE"} /\ user.status # "NONE"
        /\ work[w].table # "managed" => work[w].op \in Decisions
    BY <2>1 DEF JobOK, UserJob, ManagedJob, WalletJob, Tables
  <2>3. RestOK' /\ (toUser' # <<>> => toUser # <<>> \/ user.status # "NONE")
    <3>1. CASE work[w].table = "managed"
      BY <1>0, <1>12, <2>2, <3>1, AppendProperties DEF Publish, RestOK
    <3>2. CASE work[w].table # "managed"
      <4>1. EventOf[work[w].op] \in Events
        BY <2>2, <3>2 DEF Events
      <4> QED
        BY <1>0, <1>12, <3>2, <4>1, AppendProperties DEF Publish, RestOK
    <3> QED
      BY <3>1, <3>2
  <2>4. RowsOK'
    BY <1>0, <1>12, <2>3 DEF RowsOK, Publish, UserRows, ManagedRows, WalletRows
  <2>5. WorkersOK'
    BY <1>12, WorkerCloses DEF Publish
  <2> QED
    BY <2>3, <2>4, <2>5 DEF AccountsType
<1>13. ASSUME NEW w \in Workers, FailJob(w)
       PROVE  AccountsType'
  <2>1. RestOK'
    BY <1>0, <1>13 DEF RestOK, FailJob, Failure
  <2>2. RowsOK'
    BY <1>13, <1>t DEF FailJob
  <2>3. WorkersOK'
    BY <1>13, WorkerCloses DEF FailJob
  <2> QED
    BY <2>1, <2>2, <2>3 DEF AccountsType
<1>14. ASSUME NEW w \in Consumers, Redeliver(w)
       PROVE  AccountsType'
  <2>1. work[w] # Idle /\ JobOK(w) /\ w \in Workers /\ w \notin Handlers
    BY <1>0, <1>14 DEF Redeliver, Workers, AccountsAssumption
  <2>2. work[w].by = "event" /\ work[w].table \in {"user", "wallet"}
    BY <2>1 DEF JobOK, ManagedJob, Tables
  <2>3. /\ work[w].table = "user" => work[w].op \in Decisions \ {"DELETE"} /\ user.status # "NONE"
        /\ work[w].table # "user" => work[w].op \in Events
    BY <1>r, <2>1, <2>2 DEF JobOK, UserJob, WalletJob
  <2>4. RestOK' /\ (toUser' # <<>> => toUser # <<>> \/ user.status # "NONE")
    <3>1. CASE work[w].table = "user"
      <4>1. <<work[w].op>> \in Seq(Decisions \ {"DELETE"}) /\ toUser \in Seq(Decisions \ {"DELETE"})
        BY <1>0, <2>3, <3>1 DEF RestOK
      <4>2. toUser' \in Seq(Decisions \ {"DELETE"}) /\ UNCHANGED toWallet
        BY <1>14, <3>1, <4>1, ConcatProperties DEF Redeliver
      <4> QED
        BY <1>0, <1>14, <2>3, <3>1, <4>2 DEF Redeliver, RestOK, Failure
    <3>2. CASE work[w].table # "user"
      <4>1. <<work[w].op>> \in Seq(Events) /\ toWallet \in Seq(Events)
        BY <1>0, <2>3, <3>2 DEF RestOK
      <4>2. toWallet' \in Seq(Events) /\ UNCHANGED toUser
        BY <1>14, <3>2, <4>1, ConcatProperties DEF Redeliver
      <4> QED
        BY <1>0, <1>14, <4>2 DEF Redeliver, RestOK, Failure
    <3> QED
      BY <3>1, <3>2
  <2>5. RowsOK'
    BY <1>0, <1>14, <2>4 DEF RowsOK, Redeliver, UserRows, ManagedRows, WalletRows
  <2>6. WorkersOK'
    BY <1>14, <2>1, WorkerCloses DEF Redeliver
  <2> QED
    BY <2>4, <2>5, <2>6 DEF AccountsType
<1>15. ASSUME NEW w \in Workers, SaveMove(w)
       PROVE  AccountsType'
  <2>1. work[w].row \in WalletRows /\ work[w].row.status # "NONE"
    BY <1>0, <1>15, IdleHasNoTable DEF SaveMove, JobOK, WalletJob, RowsOf
  <2>2. /\ UNCHANGED <<user, managed, queues, trouble, calls, failures>> /\ Close(w)
        /\ moves' = moves + 1 /\ wallet' = [work[w].row EXCEPT !.moves = @ + 1]
        /\ seen' = seen \cup {wallet'}
    BY <1>15 DEF SaveMove
  <2>3. moves \in Nat /\ moves' \in Nat /\ moves <= moves'
    BY <1>0, <2>2 DEF RestOK
  <2>4. wallet' \in WalletRows' /\ wallet'.status # "NONE" /\ WalletRows \subseteq WalletRows'
    BY <2>1, <2>2, <2>3 DEF WalletRows
  <2>5. RestOK'
    BY <1>0, <2>2, <2>3 DEF RestOK
  <2>6. RowsOK'
    BY <1>0, <2>2, <2>4 DEF RowsOK, UserRows, ManagedRows
  <2>7. JobOK(w)'
    BY <2>2, Closed DEF JobOK
  <2>8. \A t \in Tables : Table[t].status # "NONE" => Table'[t].status # "NONE"
    BY <1>r, <1>s, <2>2, <2>4 DEF Tables
  <2>9. WorkersOK'
    BY <1>0, <2>2, <2>3, <2>7, <2>8, Closed, WorkerMoves
  <2> QED
    BY <2>5, <2>6, <2>9 DEF AccountsType
<1> QED
  BY <1>1, <1>2, <1>3, <1>4, <1>5, <1>6, <1>7, <1>8, <1>9, <1>10, <1>11, <1>12, <1>13, <1>14, <1>15
     DEF AccountsNext, Deliver, Finish

(* The three rows, what each worker has read of them, the queues and the   *)
(* bounds have their types, whatever is asked and however handlers overlap. *)
THEOREM AccountsTypeCorrect == AccountsSpec => []AccountsTypeOK
BY TypeInit, TypeStep, TypesImply, PTL DEF AccountsSpec

----------------------------------------------------------------------------
(* Workers that do not overlap.                                            *)

(* Unless two workers met on a row, at most one is at work on it, and what *)
(* it has read is what is there, or for the wallet what was in the cache.  *)
Fresh(t) == t = "wallet" => "stale" \notin trouble

Alone(t) ==
  t \notin trouble =>
    \A w \in Workers : work[w].table = t =>
      /\ work[w].stage = "read" /\ Fresh(t) => work[w].row = Table[t]
      /\ \A v \in Workers : work[v].table = t => v = w

MovesKept == trouble \cap {"wallet", "stale"} = {} => wallet.moves = moves

AloneInv == (\A t \in Tables : Alone(t)) /\ MovesKept

LEMMA AloneOpens ==
  ASSUME AccountsType, NEW t \in Tables, Alone(t), UNCHANGED <<user, managed, wallet>>,
         trouble \subseteq trouble', NEW w \in Workers, NEW s \in Tables, NEW by, NEW op,
         Open(w, s, by, op), Overlap(s) \subseteq trouble'
  PROVE  Alone(t)'
<1>1. Table' = Table
  BY DEF Table
<1>2. s \notin trouble' => \A v \in Workers : work[v].table # s
  BY DEF Overlap, Busy
<1>3. work'[w].table = s /\ work'[w].row = Table[s]
  <2>1. work'[w] = [table |-> s, by |-> by, op |-> op, stage |-> "read", row |-> Table[s]]
    BY Opened
  <2> QED
    BY <2>1
<1>4. \A v \in Workers : v # w => work'[v] = work[v]
  BY Opened
<1> QED
  BY <1>1, <1>2, <1>3, <1>4 DEF Alone, Fresh

(* The same for a movement of money, which may have read the cache.        *)
LEMMA AloneStarts ==
  ASSUME AccountsType, NEW t \in Tables, Alone(t), UNCHANGED <<user, managed, wallet>>,
         trouble \subseteq trouble', NEW w \in Workers, NEW row, NEW by, NEW op,
         work' = [work EXCEPT ![w] = [table |-> "wallet", by |-> by, op |-> op,
                                      stage |-> "read", row |-> row]],
         Overlap("wallet") \subseteq trouble', row = wallet \/ "stale" \in trouble'
  PROVE  Alone(t)'
<1>1. Table' = Table /\ Table["wallet"] = wallet
  BY DEF Table
<1>2. "wallet" \notin trouble' => \A v \in Workers : work[v].table # "wallet"
  BY DEF Overlap, Busy
<1>3. work'[w] = [table |-> "wallet", by |-> by, op |-> op, stage |-> "read", row |-> row]
      /\ \A v \in Workers : v # w => work'[v] = work[v]
  BY DEF AccountsType, WorkersOK
<1>4. work'[w].table = "wallet" /\ work'[w].row = row
  BY <1>3
<1> QED
  BY <1>1, <1>2, <1>3, <1>4 DEF Alone, Fresh

LEMMA AloneCloses ==
  ASSUME AccountsType, NEW t \in Tables, Alone(t), UNCHANGED <<user, managed, wallet>>,
         trouble \subseteq trouble', NEW w \in Workers, Close(w)
  PROVE  Alone(t)'
<1>1. Table' = Table
  BY DEF Table
<1>2. work'[w].table # t
  BY Closed DEF Idle, Tables
<1> QED
  BY <1>1, <1>2, Closed DEF Alone, Fresh

LEMMA AloneSaves ==
  ASSUME AccountsType, NEW t \in Tables, Alone(t), trouble \subseteq trouble',
         NEW w \in Workers, \A s \in Tables \ {work[w].table} : Table'[s] = Table[s],
         \A v \in Workers : v # w => work'[v] = work[v],
         work'[w] = Idle \/ (work'[w].table = work[w].table /\ work'[w].stage = "saved")
  PROVE  Alone(t)'
<1>1. CASE work[w].table = t
  <2>1. t \notin trouble' => \A v \in Workers : v # w => work[v].table # t
    BY <1>1 DEF Alone
  <2>2. work'[w] = Idle => work'[w].table # t
    BY DEF Idle, Tables
  <2>3. t \notin trouble' => \A v \in Workers : work'[v].table = t => v = w /\ work'[v].stage = "saved"
    BY <2>1, <2>2
  <2> QED
    BY <2>3 DEF Alone, Fresh
<1>2. CASE work[w].table # t
  <2>1. work'[w].table # t /\ Table'[t] = Table[t]
    BY <1>2 DEF Idle, Tables
  <2> QED
    BY <2>1 DEF Alone, Fresh
<1> QED
  BY <1>1, <1>2

LEMMA AloneRowsMove ==
  ASSUME NEW t \in Tables, Alone(t), trouble \subseteq trouble', UNCHANGED work,
         \/ Table'[t] = Table[t]
         \/ t \in trouble'
         \/ \A w \in Workers : work[w].table # t
  PROVE  Alone(t)'
BY DEF Alone, Fresh

(* Nobody works on a row that does not exist.                              *)
LEMMA NobodyAtNoRow ==
  ASSUME AccountsType, NEW t \in Tables, Table[t].status = "NONE"
  PROVE  \A w \in Workers : work[w].table # t
<1> SUFFICES ASSUME NEW w \in Workers, work[w].table = t PROVE FALSE
  OBVIOUS
<1>1. JobOK(w) /\ work[w] # Idle
  BY IdleHasNoTable DEF AccountsType, WorkersOK
<1> QED
  BY <1>1 DEF JobOK

LEMMA TroubleStays ==
  ASSUME [AccountsNext]_accountsVars
  PROVE  trouble \subseteq trouble'
<1> USE DEF AccountsNext, accountsVars, Deliver, Finish
<1>1. ASSUME NEW w \in Handlers, NEW op, AdminRequest(w, op) \/ UserRequest(w, op)
      PROVE  trouble \subseteq trouble'
  BY <1>1 DEF AdminRequest, UserRequest
<1>2. ASSUME NEW w \in Consumers, HandleStatusChanged(w) \/ Redeliver(w)
      PROVE  trouble \subseteq trouble'
  BY <1>2 DEF HandleStatusChanged, Redeliver
<1>3. ASSUME NEW w \in Consumers, NEW i \in DOMAIN toWallet, HandleWalletEvent(w, i)
      PROVE  trouble \subseteq trouble'
  BY <1>3 DEF HandleWalletEvent
<1>4. ASSUME NEW w \in Workers,
             SaveUser(w) \/ SaveManaged(w) \/ SaveWallet(w) \/ SaveMove(w) \/ Publish(w) \/ FailJob(w)
      PROVE  trouble \subseteq trouble'
  BY <1>4 DEF SaveUser, SaveManaged, SaveWallet, SaveMove, Publish, FailJob
<1>5. CASE \/ Register \/ CreateManaged \/ HandleUserCreated \/ CreateWallet
           \/ LoseCreated \/ UNCHANGED accountsVars
  BY <1>5 DEF Register, CreateManaged, HandleUserCreated, CreateWallet, LoseCreated
<1>6. ASSUME NEW w \in Handlers, StartMove(w)
      PROVE  trouble \subseteq trouble'
  BY <1>6 DEF StartMove
<1> QED
  BY <1>1, <1>2, <1>3, <1>4, <1>5, <1>6

(* Where nobody met, a save restores nothing: the row is as it was read.   *)
LEMMA AloneStep ==
  ASSUME AccountsType, AloneInv, [AccountsNext]_accountsVars
  PROVE  AloneInv'
<1> USE DEF rows, queues
<1>0. /\ trouble \subseteq trouble'
      /\ \A t \in Tables : Alone(t)
      /\ MovesKept
      /\ "user" \in Tables /\ "managed" \in Tables /\ "wallet" \in Tables
      /\ Handlers \subseteq Workers /\ Consumers \subseteq Workers
  BY TroubleStays DEF AloneInv, Tables, Workers
<1>r. Table["user"] = user /\ Table["managed"] = managed /\ Table["wallet"] = wallet
  BY DEF Table
<1>s. Table'["user"] = user' /\ Table'["managed"] = managed' /\ Table'["wallet"] = wallet'
  BY DEF Table
<1>m. ASSUME UNCHANGED <<wallet, moves>> PROVE MovesKept'
  BY <1>0, <1>m DEF MovesKept
<1>1. CASE Register
  <2>1. \A t \in Tables : Alone(t)'
    BY <1>0, <1>1, <1>r, <1>s, NobodyAtNoRow, AloneRowsMove DEF Register, Tables
  <2> QED
    BY <1>1, <1>m, <2>1 DEF Register, AloneInv
<1>2. CASE CreateManaged \/ HandleUserCreated
  <2>1. UNCHANGED <<user, wallet, work, moves>> /\ (managed' = managed \/ managed.status = "NONE")
    BY <1>2 DEF CreateManaged, HandleUserCreated
  <2>2. \A t \in Tables : Alone(t)'
    BY <1>0, <1>r, <1>s, <2>1, NobodyAtNoRow, AloneRowsMove DEF Tables
  <2> QED
    BY <1>m, <2>1, <2>2 DEF AloneInv
<1>3. CASE CreateWallet
  <2>1. wallet'.moves = wallet.moves /\ UNCHANGED <<user, managed, work, moves>>
    BY <1>3 DEF CreateWallet, AccountsType, RowsOK, WalletRows
  <2>2. \A t \in Tables : Alone(t)'
    BY <1>0, <1>3, <1>r, <1>s, <2>1, NobodyAtNoRow, AloneRowsMove DEF CreateWallet, Tables
  <2> QED
    BY <1>0, <2>1, <2>2 DEF AloneInv, MovesKept
<1>4. ASSUME NEW w \in Handlers, StartMove(w)
      PROVE  AloneInv'
  <2>1. UNCHANGED <<user, managed, wallet, moves>> /\ w \in Workers
    BY <1>0, <1>4 DEF StartMove
  <2>2. PICK row \in seen :
          /\ work' = [work EXCEPT ![w] = [table |-> "wallet", by |-> "request", op |-> "move",
                                           stage |-> "read", row |-> row]]
          /\ trouble' = trouble \cup Overlap("wallet")
                          \cup (IF row = wallet THEN {} ELSE {"stale"})
    BY <1>4 DEF StartMove
  <2>3. Overlap("wallet") \subseteq trouble' /\ (row = wallet \/ "stale" \in trouble')
    BY <2>2
  <2>4. \A t \in Tables : Alone(t)'
    BY <1>0, <2>1, <2>2, <2>3, AloneStarts
  <2> QED
    BY <1>m, <2>1, <2>4 DEF AloneInv
<1>5. CASE LoseCreated \/ UNCHANGED accountsVars
  <2>1. UNCHANGED <<user, managed, wallet, work, moves>>
    BY <1>5 DEF LoseCreated, accountsVars
  <2>2. \A t \in Tables : Alone(t)'
    BY <1>0, <1>r, <1>s, <2>1, AloneRowsMove DEF Tables
  <2> QED
    BY <1>m, <2>1, <2>2 DEF AloneInv
<1>6. ASSUME NEW w \in Handlers, NEW op, AdminRequest(w, op) \/ UserRequest(w, op)
      PROVE  AloneInv'
  <2>1. UNCHANGED <<user, managed, wallet, moves>>
    BY <1>6 DEF AdminRequest, UserRequest
  <2>2. \E s \in Tables : Open(w, s, "request", op) /\ Overlap(s) \subseteq trouble'
    BY <1>0, <1>6 DEF AdminRequest, UserRequest
  <2> QED
    BY <1>0, <1>m, <2>1, <2>2, AloneOpens DEF AloneInv
<1>7. ASSUME NEW w \in Consumers, HandleStatusChanged(w)
      PROVE  AloneInv'
  <2>1. UNCHANGED <<user, managed, wallet, moves>> /\ Overlap("user") \subseteq trouble'
    BY <1>7 DEF HandleStatusChanged
  <2>2. Open(w, "user", "event", Head(toUser))
    BY <1>7 DEF HandleStatusChanged
  <2> QED
    BY <1>0, <1>m, <2>1, <2>2, AloneOpens DEF AloneInv
<1>8. ASSUME NEW w \in Consumers, NEW i \in DOMAIN toWallet, HandleWalletEvent(w, i)
      PROVE  AloneInv'
  <2>1. UNCHANGED <<user, managed, wallet, moves>> /\ Overlap("wallet") \subseteq trouble'
    BY <1>8 DEF HandleWalletEvent
  <2>2. CASE Open(w, "wallet", "event", toWallet[i])
    BY <1>0, <1>m, <2>1, <2>2, AloneOpens DEF AloneInv
  <2>3. CASE UNCHANGED work
    BY <1>0, <1>m, <1>r, <1>s, <2>1, <2>3, AloneRowsMove DEF AloneInv, Tables
  <2> QED
    BY <1>8, <2>2, <2>3 DEF HandleWalletEvent
<1>9. ASSUME NEW w \in Workers, SaveUser(w) \/ SaveManaged(w)
      PROVE  AloneInv'
  <2>1. /\ Saved(w) /\ UNCHANGED <<wallet, moves>>
        /\ \/ work[w].table = "user" /\ UNCHANGED managed
           \/ work[w].table = "managed" /\ UNCHANGED user
    BY <1>9 DEF SaveUser, SaveManaged
  <2>2. \A s \in Tables \ {work[w].table} : Table'[s] = Table[s]
    BY <1>r, <1>s, <2>1 DEF Tables
  <2>3. /\ \A v \in Workers : v # w => work'[v] = work[v]
        /\ work'[w] = Idle \/ (work'[w].table = work[w].table /\ work'[w].stage = "saved")
    <3>1. CASE Announces(w)
      <4>1. work'[w] = [table |-> work[w].table, by |-> work[w].by, op |-> work[w].op, stage |-> "saved"]
        BY <2>1, <3>1, SavedOrClosed
      <4> QED
        BY <2>1, <4>1, SavedOrClosed
    <3>2. CASE ~Announces(w)
      BY <2>1, <3>2, SavedOrClosed
    <3> QED
      BY <3>1, <3>2
  <2> QED
    BY <1>0, <1>m, <2>1, <2>2, <2>3, AloneSaves DEF AloneInv
<1>10. ASSUME NEW w \in Workers, SaveWallet(w)
       PROVE  AloneInv'
  <2>1. /\ Close(w) /\ UNCHANGED <<user, managed, moves>> /\ work[w].table = "wallet"
        /\ wallet' = WalletAfter(work[w].op, work[w].row)
    BY <1>10 DEF SaveWallet
  <2>2. \A s \in Tables \ {work[w].table} : Table'[s] = Table[s]
    BY <1>r, <1>s, <2>1 DEF Tables
  <2>3. \A v \in Workers : v # w => work'[v] = work[v]
    BY <2>1, Closed
  <2>4. \A t \in Tables : Alone(t)'
    BY <1>0, <2>1, <2>2, <2>3, Closed, AloneSaves
  <2>5. JobOK(w) /\ work[w] # Idle
    BY <1>0, <2>1, IdleHasNoTable DEF AccountsType, WorkersOK
  <2>6. work[w].stage = "read" /\ work[w].row \in WalletRows
    BY <2>1, <2>5 DEF JobOK, WalletJob, RowsOf
  <2>7. wallet'.moves = work[w].row.moves
    BY <2>1, <2>6, WalletAfterType
  <2>8. trouble' \cap {"wallet", "stale"} = {} => work[w].row = wallet
    BY <1>0, <1>r, <2>1, <2>6 DEF Alone, Fresh
  <2> QED
    BY <1>0, <2>1, <2>4, <2>7, <2>8 DEF AloneInv, MovesKept
<1>11. ASSUME NEW w \in Workers, Publish(w) \/ FailJob(w)
       PROVE  AloneInv'
  <2>1. Close(w) /\ UNCHANGED <<user, managed, wallet, moves>>
    BY <1>11 DEF Publish, FailJob
  <2> QED
    BY <1>0, <1>m, <2>1, AloneCloses DEF AloneInv
<1>12. ASSUME NEW w \in Consumers, Redeliver(w)
       PROVE  AloneInv'
  <2>1. Close(w) /\ UNCHANGED <<user, managed, wallet, moves>>
    BY <1>12 DEF Redeliver
  <2> QED
    BY <1>0, <1>m, <2>1, AloneCloses DEF AloneInv
<1>13. ASSUME NEW w \in Workers, SaveMove(w)
       PROVE  AloneInv'
  <2>1. /\ Close(w) /\ UNCHANGED <<user, managed, trouble>> /\ work[w].table = "wallet"
        /\ wallet' = [work[w].row EXCEPT !.moves = @ + 1] /\ moves' = moves + 1
    BY <1>13 DEF SaveMove
  <2>2. \A s \in Tables \ {work[w].table} : Table'[s] = Table[s]
    BY <1>r, <1>s, <2>1 DEF Tables
  <2>3. \A v \in Workers : v # w => work'[v] = work[v]
    BY <2>1, Closed
  <2>4. \A t \in Tables : Alone(t)'
    BY <1>0, <2>1, <2>2, <2>3, Closed, AloneSaves
  <2>5. JobOK(w) /\ work[w] # Idle
    BY <1>0, <2>1, IdleHasNoTable DEF AccountsType, WorkersOK
  <2>6. work[w].stage = "read" /\ work[w].row \in WalletRows
    BY <2>1, <2>5 DEF JobOK, WalletJob, RowsOf
  <2>7. wallet'.moves = work[w].row.moves + 1
    BY <2>1, <2>6 DEF WalletRows
  <2>8. trouble' \cap {"wallet", "stale"} = {} => work[w].row = wallet
    BY <1>0, <1>r, <2>1, <2>6 DEF Alone, Fresh
  <2> QED
    BY <1>0, <2>1, <2>4, <2>7, <2>8 DEF AloneInv, MovesKept
<1> QED
  BY <1>1, <1>2, <1>3, <1>4, <1>5, <1>6, <1>7, <1>8, <1>9, <1>10, <1>11, <1>12, <1>13
     DEF AccountsNext, Deliver, Finish

LEMMA AloneInit == AccountsInit => AloneInv
BY DEF AccountsInit, AloneInv, Alone, MovesKept, Idle, Tables

----------------------------------------------------------------------------
(* From the administrator to the user.                                     *)

(* What there is to know of a worker: it has saved a decision and not yet  *)
(* announced it; it is about to apply one that was announced; it is about  *)
(* to apply one of the internal API.                                       *)
Sends(j) == j.table = "managed" /\ j.stage = "saved"
Applies(j) == j.table = "user" /\ j.stage = "read" /\ j.by = "event"
Internal(j) == j.table = "user" /\ j.by = "request" /\ j.op \in Decisions

Follows ==
  /\ user.locked <=> managed.status = "LOCKED"
  /\ user.suspended <=> managed.status = "SUSPENDED"

(* The last decision under way is the one the administrator's row shows;   *)
(* if there is none under way, the user has it.  A decision that finds no  *)
(* other block in place sets both flags, so the last one is all that       *)
(* counts.                                                                 *)
AdminInv ==
  trouble \subseteq {"wallet", "stale", "crossed", "skipped"} =>
    /\ ~user.deleted
    /\ \A w \in Workers : ~Internal(work[w])
    /\ managed.status = "NONE" =>
         /\ ~user.locked /\ ~user.suspended
         /\ toUser = <<>> /\ \A w \in Workers : ~Applies(work[w])
    /\ \A w \in Workers : Sends(work[w]) => managed.status = Becomes[work[w].op]
    /\ managed.linked /\ managed.status # "DELETED" /\ (\A w \in Workers : ~Sends(work[w])) =>
         /\ toUser # <<>> => managed.status = Becomes[toUser[Len(toUser)]]
         /\ toUser = <<>> =>
              /\ \A w \in Workers : Applies(work[w]) => managed.status = Becomes[work[w].op]
              /\ (\A w \in Workers : ~Applies(work[w])) => Follows

(* A step that concerns none of this.                                      *)
LEMMA AdminUnseen ==
  ASSUME AdminInv, trouble \subseteq trouble', UNCHANGED <<managed, toUser>>,
         user'.locked = user.locked, user'.suspended = user.suspended, user'.deleted = user.deleted,
         \A w \in Workers : work'[w] = work[w] \/
           /\ ~Sends(work[w]) /\ ~Applies(work[w])
           /\ ~Sends(work'[w]) /\ ~Applies(work'[w]) /\ ~Internal(work'[w])
  PROVE  AdminInv'
<1>1. \A w \in Workers : /\ Sends(work'[w]) \/ Applies(work'[w]) => work'[w] = work[w]
                         /\ Sends(work[w]) \/ Applies(work[w]) => work'[w] = work[w]
                         /\ Internal(work'[w]) => Internal(work[w])
  OBVIOUS
<1> QED
  BY <1>1 DEF AdminInv, Follows

LEMMA NoLength ==
  ASSUME NEW s, s = <<>>
  PROVE  Len(s) = 0
BY EmptySeq

LEMMA LastAfterTail ==
  ASSUME NEW S, NEW s \in Seq(S), s # <<>>
  PROVE  /\ Tail(s) # <<>> => Tail(s)[Len(Tail(s))] = s[Len(s)]
         /\ Tail(s) = <<>> => s[Len(s)] = Head(s)
<1>1. /\ Len(s) \in Nat \ {0} /\ Tail(s) \in Seq(S) /\ Len(Tail(s)) = Len(s) - 1
      /\ \A i \in 1 .. Len(Tail(s)) : Tail(s)[i] = s[i + 1]
  BY HeadTailProperties, EmptySeq
<1>2. Head(s) = s[1]
  OBVIOUS
<1>3. ASSUME Tail(s) # <<>> PROVE Tail(s)[Len(Tail(s))] = s[Len(s)]
  <2>1. Len(Tail(s)) \in Nat \ {0}
    BY <1>1, <1>3, EmptySeq
  <2> QED
    BY <1>1, <2>1
<1>4. ASSUME Tail(s) = <<>> PROVE Len(s) = 1
  <2>1. Len(Tail(s)) = Len(s) - 1 /\ Len(s) \in Nat
    BY HeadTailProperties, LenProperties
  <2>2. Len(Tail(s)) = 0
    BY <1>4, NoLength
  <2> QED
    BY <1>4, <2>1, <2>2
<1> QED
  BY <1>2, <1>3, <1>4

LEMMA LastAfterAppend ==
  ASSUME NEW S, NEW s \in Seq(S), NEW e \in S
  PROVE  Append(s, e) # <<>> /\ Append(s, e)[Len(Append(s, e))] = e
<1>1. Len(s) \in Nat /\ Len(Append(s, e)) = Len(s) + 1 /\ Append(s, e)[Len(s) + 1] = e
  BY AppendProperties, LenProperties
<1> QED
  BY <1>1, EmptySeq

LEMMA LastAfterPush ==
  ASSUME NEW S, NEW s \in Seq(S), NEW e \in S
  PROVE  /\ <<e>> \o s # <<>>
         /\ (<<e>> \o s)[Len(<<e>> \o s)] = IF s = <<>> THEN e ELSE s[Len(s)]
<1>1. <<e>> \in Seq(S) /\ Len(<<e>>) = 1 /\ <<e>>[1] = e
  OBVIOUS
<1>2. /\ Len(s) \in Nat /\ Len(<<e>> \o s) = 1 + Len(s)
      /\ \A i \in 1 .. 1 + Len(s) : (<<e>> \o s)[i] = IF i <= 1 THEN <<e>>[i] ELSE s[i - 1]
  BY <1>1, ConcatProperties, LenProperties
<1>3. s # <<>> => Len(s) \in Nat \ {0}
  BY EmptySeq
<1>4. s = <<>> => Len(s) = 0
  BY EmptySeq
<1>5. (<<e>> \o s)[1 + Len(s)] = IF 1 + Len(s) <= 1 THEN e ELSE s[Len(s)]
  BY <1>1, <1>2
<1> QED
  BY <1>2, <1>3, <1>4, <1>5, EmptySeq

(* A decision goes from the row to the worker that announces it, from there *)
(* to the end of the queue, to the worker that applies it, to the user.    *)
LEMMA AdminStep ==
  ASSUME AccountsType, AloneInv, AdminInv, [AccountsNext]_accountsVars
  PROVE  AdminInv'
<1> USE DEF rows, queues
<1> DEFINE Calm == trouble \subseteq {"wallet", "stale", "crossed", "skipped"}
<1>0. /\ trouble \subseteq trouble' /\ RowsOK /\ RestOK
      /\ Handlers \subseteq Workers /\ Consumers \subseteq Workers
      /\ user \in UserRows /\ managed \in ManagedRows
      /\ toUser \in Seq(Decisions \ {"DELETE"})
  BY TroubleStays DEF AccountsType, RowsOK, RestOK, Workers
<1>j. \A w \in Workers : work[w].table \in Tables => work[w] # Idle /\ JobOK(w)
  BY IdleHasNoTable DEF AccountsType, WorkersOK
<1>i. ~Sends(Idle) /\ ~Applies(Idle) /\ ~Internal(Idle)
  BY DEF Sends, Applies, Internal, Idle
<1>a. ASSUME Calm', NEW w \in Workers, work[w].table \in {"user", "managed"}
      PROVE  /\ Calm
             /\ \A v \in Workers : v # w => work[v].table # work[w].table
             /\ work[w].stage = "read" => work[w].row = Table[work[w].table]
  BY <1>0, <1>a DEF AloneInv, Alone, Fresh, Tables
<1>1. CASE Register
  <2>1. /\ user'.locked = user.locked /\ user'.suspended = user.suspended
        /\ user'.deleted = user.deleted /\ UNCHANGED <<managed, toUser, work>>
    BY <1>0, <1>1 DEF Register, UserRows
  <2> QED
    BY <1>0, <2>1, AdminUnseen
<1>2. CASE CreateWallet \/ LoseCreated \/ UNCHANGED accountsVars
  BY <1>0, <1>2, AdminUnseen DEF CreateWallet, LoseCreated, accountsVars
<1>3. CASE CreateManaged \/ HandleUserCreated
  <2>1. CASE managed' = managed
    BY <1>0, <1>3, <2>1, AdminUnseen DEF CreateManaged, HandleUserCreated
  <2>2. CASE managed.status = "NONE" /\ managed'.status = "ACTIVE"
    <3>1. UNCHANGED <<user, toUser, work, trouble>>
      BY <1>3 DEF CreateManaged, HandleUserCreated
    <3>2. \A w \in Workers : ~Sends(work[w])
      BY <2>2, NobodyAtNoRow DEF Sends, Table, Tables
    <3> QED
      BY <2>2, <3>1, <3>2 DEF AdminInv, Follows
  <2> QED
    BY <1>3, <2>1, <2>2 DEF CreateManaged, HandleUserCreated
<1>4. ASSUME NEW w \in Handlers, NEW op \in Decisions \cup {"UPDATE"}, AdminRequest(w, op)
      PROVE  AdminInv'
  <2>1. Open(w, "managed", "request", op) /\ UNCHANGED <<user, managed, toUser>> /\ w \in Workers
    BY <1>0, <1>4 DEF AdminRequest
  <2>2. /\ work'[w] = [table |-> "managed", by |-> "request", op |-> op, stage |-> "read",
                       row |-> Table["managed"]]
        /\ \A v \in Workers : v # w => work'[v] = work[v]
        /\ work[w] = Idle
    BY <2>1, Opened
  <2>3. ~Sends(work'[w]) /\ ~Applies(work'[w]) /\ ~Internal(work'[w])
    BY <2>2 DEF Sends, Applies, Internal
  <2> QED
    BY <1>0, <1>i, <2>1, <2>2, <2>3, AdminUnseen
<1>5. ASSUME NEW w \in Handlers, NEW op \in Requests, UserRequest(w, op)
      PROVE  AdminInv'
  <2>1. Open(w, "user", "request", op) /\ UNCHANGED <<user, managed, toUser>> /\ w \in Workers
    BY <1>0, <1>5 DEF UserRequest
  <2>2. /\ work'[w] = [table |-> "user", by |-> "request", op |-> op, stage |-> "read",
                       row |-> Table["user"]]
        /\ \A v \in Workers : v # w => work'[v] = work[v]
        /\ work[w] = Idle
    BY <2>1, Opened
  <2>3. CASE op \in Decisions
    BY <1>5, <2>3 DEF UserRequest, AdminInv
  <2>4. CASE op \notin Decisions
    <3>1. ~Sends(work'[w]) /\ ~Applies(work'[w]) /\ ~Internal(work'[w])
      BY <2>2, <2>4 DEF Sends, Applies, Internal
    <3> QED
      BY <1>0, <1>i, <2>1, <2>2, <3>1, AdminUnseen
  <2> QED
    BY <2>3, <2>4
<1>6. ASSUME NEW w \in Consumers, HandleStatusChanged(w)
      PROVE  AdminInv'
  <2> SUFFICES ASSUME Calm' PROVE AdminInv'
    BY DEF AdminInv
  <2>1. /\ toUser # <<>> /\ toUser' = Tail(toUser) /\ UNCHANGED <<user, managed>>
        /\ Open(w, "user", "event", Head(toUser)) /\ Overlap("user") \subseteq trouble' /\ w \in Workers
    BY <1>0, <1>6 DEF HandleStatusChanged
  <2>2. /\ work'[w] = [table |-> "user", by |-> "event", op |-> Head(toUser), stage |-> "read",
                       row |-> Table["user"]]
        /\ \A v \in Workers : v # w => work'[v] = work[v]
        /\ work[w] = Idle
    BY <2>1, Opened
  <2>3. \A v \in Workers : work[v].table # "user"
    BY <2>1 DEF Overlap, Busy
  <2>4. /\ ~Sends(work'[w]) /\ Applies(work'[w]) /\ ~Internal(work'[w]) /\ work'[w].op = Head(toUser)
    BY <2>2 DEF Sends, Applies, Internal
  <2>5. \A v \in Workers : v # w => ~Applies(work'[v])
    BY <2>2, <2>3 DEF Applies
  <2>6. Calm /\ managed.status # "NONE"
    BY <1>0, <2>1 DEF AdminInv
  <2>7. /\ Tail(toUser) # <<>> => Tail(toUser)[Len(Tail(toUser))] = toUser[Len(toUser)]
        /\ Tail(toUser) = <<>> => toUser[Len(toUser)] = Head(toUser)
    BY <1>0, <2>1, LastAfterTail
  <2>8. \A v \in Workers : /\ Sends(work'[v]) => Sends(work[v]) /\ work'[v] = work[v]
                           /\ Sends(work[v]) => Sends(work'[v])
                           /\ Internal(work'[v]) => Internal(work[v])
    BY <1>i, <2>2, <2>4
  <2> QED
    BY <1>0, <2>1, <2>4, <2>5, <2>6, <2>7, <2>8 DEF AdminInv
<1>7. ASSUME NEW w \in Consumers, NEW i \in DOMAIN toWallet, HandleWalletEvent(w, i)
      PROVE  AdminInv'
  <2>1. UNCHANGED <<user, managed, toUser>> /\ w \in Workers
    BY <1>0, <1>7 DEF HandleWalletEvent
  <2>2. CASE UNCHANGED work
    BY <1>0, <2>1, <2>2, AdminUnseen
  <2>3. CASE Open(w, "wallet", "event", toWallet[i])
    <3>1. /\ work'[w] = [table |-> "wallet", by |-> "event", op |-> toWallet[i], stage |-> "read",
                         row |-> Table["wallet"]]
          /\ \A v \in Workers : v # w => work'[v] = work[v]
          /\ work[w] = Idle
      BY <2>1, <2>3, Opened
    <3>2. ~Sends(work'[w]) /\ ~Applies(work'[w]) /\ ~Internal(work'[w])
      BY <3>1 DEF Sends, Applies, Internal
    <3> QED
      BY <1>0, <1>i, <2>1, <3>1, <3>2, AdminUnseen
  <2> QED
    BY <1>7, <2>2, <2>3 DEF HandleWalletEvent
<1>8. ASSUME NEW w \in Workers, SaveUser(w)
      PROVE  AdminInv'
  <2> SUFFICES ASSUME Calm' PROVE AdminInv'
    BY DEF AdminInv
  <2> DEFINE op == work[w].op
  <2>1. /\ work[w].table = "user" /\ work[w].stage = "read" /\ Saved(w) /\ InPlace(op, work[w].row)
        /\ user' = UserAfter(work[w].by, op, work[w].row) /\ UNCHANGED <<managed, toUser>>
    BY <1>8 DEF SaveUser
  <2>2. Calm /\ work[w].row = user /\ \A v \in Workers : v # w => work[v].table # "user"
    BY <1>a, <2>1 DEF Table
  <2>3. JobOK(w) /\ work[w] # Idle
    BY <1>j, <2>1 DEF Tables
  <2>4. /\ UserJob(work[w]) /\ user.status # "NONE"
        /\ work[w].by \in {"request", "event"}
    BY <2>1, <2>2, <2>3 DEF JobOK
  <2>5. op \in Decisions \cup UserStatus \cup OwnRequests
    BY <2>4, AccountsAssumption DEF UserJob, AccountsAssumption
  <2>6. /\ op = "LOCK" => user'.locked = TRUE
        /\ op = "UNLOCK" => user'.locked = FALSE
        /\ op \notin {"LOCK", "UNLOCK"} => user'.locked = user.locked
        /\ op = "SUSPEND" => user'.suspended = TRUE
        /\ op = "ACTIVATE" => user'.suspended = FALSE
        /\ op \notin {"SUSPEND", "ACTIVATE"} => user'.suspended = user.suspended
        /\ op # "DELETE" => user'.deleted = user.deleted
    <3>1. user' = UserAfter(work[w].by, work[w].op, user)
      BY <2>1, <2>2
    <3> QED
      BY <1>0, <2>4, <2>5, <3>1, FlagsSaved
  <2>7. /\ \A v \in Workers : v # w => work'[v] = work[v]
        /\ ~Sends(work'[w]) /\ ~Applies(work'[w]) /\ (Internal(work'[w]) => Internal(work[w]))
    <3>1. CASE Announces(w)
      <4>1. work'[w] = [table |-> "user", by |-> work[w].by, op |-> op, stage |-> "saved"]
        BY <2>1, <3>1, SavedOrClosed
      <4> QED
        BY <2>1, <3>1, <4>1, SavedOrClosed DEF Sends, Applies, Internal
    <3>2. CASE ~Announces(w)
      BY <1>i, <2>1, <3>2, SavedOrClosed
    <3> QED
      BY <3>1, <3>2
  <2>8. CASE work[w].by = "request"
    <3>1. op \notin Decisions /\ ~Sends(work[w]) /\ ~Applies(work[w]) /\ ~Internal(work'[w])
      BY <2>1, <2>2, <2>7, <2>8 DEF AdminInv, Internal, Sends, Applies
    <3>2. /\ user'.locked = user.locked /\ user'.suspended = user.suspended
          /\ user'.deleted = user.deleted
      BY <2>6, <3>1 DEF Decisions
    <3> QED
      BY <1>0, <2>1, <2>7, <3>1, <3>2, AdminUnseen
  <2>9. CASE work[w].by = "event"
    <3>1. op \in Decisions \ {"DELETE"} /\ Applies(work[w]) /\ ~Sends(work[w]) /\ ~Internal(work[w])
      BY <2>1, <2>4, <2>9 DEF UserJob, Applies, Sends, Internal
    <3>2. \A v \in Workers : v # w => ~Applies(work[v])
      BY <2>2 DEF Applies
    <3>3. managed.status # "NONE" /\ ~user.deleted
      BY <2>2, <3>1 DEF AdminInv
    <3>4. ASSUME managed.status = Becomes[op] PROVE Follows'
      <4>1. CASE op = "LOCK"
        BY <1>0, <2>1, <2>2, <2>6, <3>4, <4>1 DEF InPlace, Follows, Becomes, UserRows
      <4>2. CASE op = "UNLOCK"
        BY <1>0, <2>1, <2>2, <2>6, <3>4, <4>2 DEF InPlace, Follows, Becomes, UserRows
      <4>3. CASE op = "SUSPEND"
        BY <1>0, <2>1, <2>2, <2>6, <3>4, <4>3 DEF InPlace, Follows, Becomes, UserRows
      <4>4. CASE op = "ACTIVATE"
        BY <1>0, <2>1, <2>2, <2>6, <3>4, <4>4 DEF InPlace, Follows, Becomes, UserRows
      <4> QED
        BY <3>1, <4>1, <4>2, <4>3, <4>4 DEF Decisions
    <3>5. ~user'.deleted
      BY <2>6, <3>1, <3>3
    <3>6. \A v \in Workers : /\ Sends(work'[v]) <=> Sends(work[v])
                             /\ Sends(work'[v]) => work'[v] = work[v]
                             /\ ~Applies(work'[v])
                             /\ Internal(work'[v]) => Internal(work[v])
      BY <2>7, <3>1, <3>2
    <3>7. /\ managed'.linked /\ managed'.status # "DELETED" /\ (\A v \in Workers : ~Sends(work'[v])) =>
               /\ toUser # <<>> => managed.status = Becomes[toUser[Len(toUser)]]
               /\ toUser = <<>> => managed.status = Becomes[op]
      BY <2>1, <2>2, <3>1, <3>6 DEF AdminInv
    <3> QED
      BY <2>1, <2>2, <3>3, <3>4, <3>5, <3>6, <3>7 DEF AdminInv
  <2> QED
    BY <2>4, <2>8, <2>9
<1>9. ASSUME NEW w \in Workers, SaveManaged(w)
      PROVE  AdminInv'
  <2> SUFFICES ASSUME Calm' PROVE AdminInv'
    BY DEF AdminInv
  <2> DEFINE op == work[w].op
  <2>1. /\ work[w].table = "managed" /\ work[w].stage = "read" /\ Saved(w)
        /\ managed' = ManagedAfter(op, work[w].row) /\ UNCHANGED <<user, toUser>>
    BY <1>9 DEF SaveManaged
  <2>2. Calm /\ work[w].row = managed /\ \A v \in Workers : v # w => work[v].table # "managed"
    BY <1>a, <2>1 DEF Table
  <2>3. JobOK(w) /\ work[w] # Idle
    BY <1>j, <2>1 DEF Tables
  <2>4. op \in Decisions \cup {"UPDATE"} /\ managed.status # "NONE"
    BY <2>1, <2>2, <2>3 DEF JobOK, ManagedJob
  <2>5. /\ managed'.linked = managed.linked /\ managed'.status # "NONE"
        /\ managed'.status = IF op \in Decisions THEN Becomes[op] ELSE managed.status
    BY <1>0, <2>1, <2>2, <2>4, ManagedAfterType
  <2>6. \A v \in Workers : v # w => work'[v] = work[v] /\ ~Sends(work'[v])
    BY <2>1, <2>2, SavedOrClosed DEF Sends
  <2>7. ~Sends(work[w]) /\ ~Applies(work[w]) /\ ~Internal(work[w])
    BY <2>1 DEF Sends, Applies, Internal
  <2>8. CASE Announces(w)
    <3>1. work'[w] = [table |-> "managed", by |-> work[w].by, op |-> op, stage |-> "saved"]
          /\ op \in Decisions
      BY <2>1, <2>8, SavedOrClosed DEF Announces
    <3>2. Sends(work'[w]) /\ ~Applies(work'[w]) /\ ~Internal(work'[w]) /\ work'[w].op = op
      BY <3>1 DEF Sends, Applies, Internal
    <3> QED
      BY <2>1, <2>2, <2>5, <2>6, <3>1, <3>2 DEF AdminInv
  <2>9. CASE ~Announces(w)
    <3>1. work'[w] = Idle
      BY <2>1, <2>9, SavedOrClosed
    <3>2. CASE op = "UPDATE"
      <4>1. managed' = managed
        BY <2>1, <2>2, <3>2 DEF ManagedAfter, Decisions
      <4> QED
        BY <1>0, <1>i, <2>1, <2>6, <2>7, <3>1, <4>1, AdminUnseen
    <3>3. CASE op \in Decisions
      <4>1. op = "DELETE" \/ ~managed.linked
        BY <2>1, <2>2, <2>9, <3>3 DEF Announces
      <4>2. managed'.status = "DELETED" \/ ~managed'.linked
        BY <2>5, <3>3, <4>1 DEF Becomes
      <4>3. \A v \in Workers : ~Sends(work'[v]) /\ (Internal(work'[v]) => Internal(work[v]))
        BY <1>i, <2>6, <3>1
      <4> QED
        BY <2>1, <2>2, <2>5, <4>2, <4>3 DEF AdminInv
    <3> QED
      BY <2>4, <3>2, <3>3
  <2> QED
    BY <2>8, <2>9
<1>10. ASSUME NEW w \in Workers, SaveWallet(w) \/ SaveMove(w)
       PROVE  AdminInv'
  <2>1. Close(w) /\ work[w].table = "wallet" /\ UNCHANGED <<user, managed, toUser>>
    BY <1>10 DEF SaveWallet, SaveMove
  <2>2. ~Sends(work[w]) /\ ~Applies(work[w])
    BY <2>1 DEF Sends, Applies
  <2> QED
    BY <1>0, <1>i, <2>1, <2>2, Closed, AdminUnseen
<1>11. ASSUME NEW w \in Workers, Publish(w)
       PROVE  AdminInv'
  <2> SUFFICES ASSUME Calm' PROVE AdminInv'
    BY DEF AdminInv
  <2>1. /\ work[w] # Idle /\ work[w].stage = "saved" /\ Close(w) /\ UNCHANGED <<user, managed>>
        /\ work[w].table \in Tables
    BY <1>11, IdleHasNoTable DEF Publish
  <2>2. work'[w] = Idle /\ \A v \in Workers : v # w => work'[v] = work[v]
    BY <2>1, Closed
  <2>3. CASE work[w].table = "managed"
    <3>1. Sends(work[w]) /\ Calm /\ \A v \in Workers : v # w => work[v].table # "managed"
      BY <1>a, <2>1, <2>3 DEF Sends
    <3>2. JobOK(w)
      BY <1>j, <2>1
    <3>3. work[w].op \in Decisions \ {"DELETE"} /\ managed.status # "NONE"
      BY <2>1, <2>3, <3>2 DEF JobOK, ManagedJob, Table
    <3>4. toUser' = Append(toUser, work[w].op)
      BY <1>11, <2>3 DEF Publish
    <3>5. toUser' # <<>> /\ toUser'[Len(toUser')] = work[w].op
      BY <1>0, <3>3, <3>4, LastAfterAppend
    <3>6. \A v \in Workers : ~Sends(work'[v]) /\ (Internal(work'[v]) => Internal(work[v]))
      BY <1>i, <2>2, <3>1 DEF Sends
    <3>7. managed.status = Becomes[work[w].op]
      BY <3>1 DEF AdminInv
    <3> QED
      BY <2>1, <3>1, <3>3, <3>5, <3>6, <3>7 DEF AdminInv
  <2>4. CASE work[w].table # "managed"
    <3>1. ~Sends(work[w]) /\ ~Applies(work[w]) /\ UNCHANGED toUser
      BY <1>11, <2>1, <2>4 DEF Sends, Applies, Publish
    <3> QED
      BY <1>0, <1>i, <2>1, <2>2, <3>1, AdminUnseen
  <2> QED
    BY <2>3, <2>4
<1>12. ASSUME NEW w \in Workers, FailJob(w)
       PROVE  AdminInv'
  <2> SUFFICES ASSUME Calm' PROVE AdminInv'
    BY DEF AdminInv
  <2>1. /\ Close(w) /\ UNCHANGED <<user, managed, toUser>>
        /\ work[w].by = "request" /\ work[w].stage = "read"
    BY <1>12 DEF FailJob
  <2>2. ~Sends(work[w]) /\ ~Applies(work[w])
    BY <2>1 DEF Sends, Applies
  <2> QED
    BY <1>0, <1>i, <2>1, <2>2, Closed, AdminUnseen
<1>13. ASSUME NEW w \in Consumers, Redeliver(w)
       PROVE  AdminInv'
  <2> SUFFICES ASSUME Calm' PROVE AdminInv'
    BY DEF AdminInv
  <2>1. /\ Close(w) /\ UNCHANGED <<user, managed>> /\ work[w] # Idle /\ w \in Workers
        /\ work[w].stage = "read" /\ w \notin Handlers
    BY <1>0, <1>13, AccountsAssumption DEF Redeliver, AccountsAssumption
  <2>2. work'[w] = Idle /\ \A v \in Workers : v # w => work'[v] = work[v]
    BY <2>1, Closed
  <2>3. CASE work[w].table = "user"
    <3>1. JobOK(w)
      BY <1>j, <2>1, <2>3 DEF Tables
    <3>2. Applies(work[w]) /\ ~Sends(work[w]) /\ ~Internal(work[w]) /\ work[w].op \in Decisions \ {"DELETE"}
      BY <2>1, <2>3, <3>1 DEF JobOK, UserJob, Applies, Sends, Internal
    <3>3. Calm /\ \A v \in Workers : v # w => work[v].table # "user"
      BY <1>a, <2>1, <2>3
    <3>4. toUser' = <<work[w].op>> \o toUser
      BY <1>13, <2>3 DEF Redeliver
    <3>5. /\ toUser' # <<>>
          /\ toUser'[Len(toUser')] = IF toUser = <<>> THEN work[w].op ELSE toUser[Len(toUser)]
      BY <1>0, <3>2, <3>4, LastAfterPush
    <3>6. managed.status # "NONE"
      BY <2>1, <3>2, <3>3 DEF AdminInv
    <3>7. \A v \in Workers : /\ Sends(work'[v]) <=> Sends(work[v])
                             /\ Sends(work'[v]) => work'[v] = work[v]
                             /\ Internal(work'[v]) => Internal(work[v])
      BY <1>i, <2>2, <3>2
    <3>8. managed.linked /\ managed.status # "DELETED" /\ (\A v \in Workers : ~Sends(work[v])) =>
            /\ toUser # <<>> => managed.status = Becomes[toUser[Len(toUser)]]
            /\ toUser = <<>> => managed.status = Becomes[work[w].op]
      BY <2>1, <3>2, <3>3 DEF AdminInv
    <3> QED
      BY <2>1, <3>3, <3>5, <3>6, <3>7, <3>8 DEF AdminInv
  <2>4. CASE work[w].table # "user"
    <3>1. ~Sends(work[w]) /\ ~Applies(work[w]) /\ UNCHANGED toUser
      BY <1>13, <2>1, <2>4 DEF Sends, Applies, Redeliver
    <3> QED
      BY <1>0, <1>i, <2>1, <2>2, <3>1, AdminUnseen
  <2> QED
    BY <2>3, <2>4
<1>14. ASSUME NEW w \in Handlers, StartMove(w)
       PROVE  AdminInv'
  <2>1. UNCHANGED <<user, managed, toUser>> /\ w \in Workers /\ work[w] = Idle
    BY <1>0, <1>14 DEF StartMove
  <2>2. PICK row : work' = [work EXCEPT ![w] = [table |-> "wallet", by |-> "request",
                                    op |-> "move", stage |-> "read", row |-> row]]
    BY <1>14 DEF StartMove
  <2>3. /\ work'[w].table = "wallet"
        /\ \A v \in Workers : v # w => work'[v] = work[v]
    BY <2>1, <2>2 DEF AccountsType, WorkersOK
  <2>4. ~Sends(work'[w]) /\ ~Applies(work'[w]) /\ ~Internal(work'[w])
    BY <2>3 DEF Sends, Applies, Internal
  <2> QED
    BY <1>0, <1>i, <2>1, <2>3, <2>4, AdminUnseen
<1> QED
  BY <1>1, <1>2, <1>3, <1>4, <1>5, <1>6, <1>7, <1>8, <1>9, <1>10, <1>11, <1>12, <1>13, <1>14
     DEF AccountsNext, Deliver, Finish

LEMMA AdminInit == AccountsInit => AdminInv
BY DEF AccountsInit, AdminInv, Sends, Applies, Internal, Idle, Follows

----------------------------------------------------------------------------
(* From the user to the wallet.                                            *)

Tells(j) == j.table = "user" /\ j.stage = "saved"
Heeds(j) == j.table = "wallet" /\ j.by = "event"

(* The status of the wallet that the user's row calls for, the one an      *)
(* event calls for, and the one a wallet has that may not be there yet.    *)
Wanted == IF user.deleted THEN "CLOSED"
          ELSE IF user.locked \/ user.suspended THEN "SUSPENDED" ELSE "ACTIVE"
Meant(e) == IF Reactivates(e) THEN "ACTIVE" ELSE IF e = "deleted" THEN "CLOSED" ELSE "SUSPENDED"
Standing == IF wallet.status = "NONE" THEN "ACTIVE" ELSE wallet.status

(* The last event under way is about the user's row as it is; if there is  *)
(* none under way, the wallet is as it says.                               *)
LastIsMeant ==
  /\ \A w \in Workers : Tells(work[w]) => Meant(EventOf[work[w].op]) = Wanted
  /\ (\A w \in Workers : ~Tells(work[w])) =>
       /\ toWallet # <<>> => Meant(toWallet[Len(toWallet)]) = Wanted
       /\ toWallet = <<>> =>
            /\ \A w \in Workers : Heeds(work[w]) => Meant(work[w].op) = Wanted
            /\ (\A w \in Workers : ~Heeds(work[w])) => Standing = Wanted

(* A closed wallet ignores what would reactivate it, so nothing may follow *)
(* the deletion: no decision about a deleted user is in place.             *)
DeletedIsLast ==
  /\ ~user.deleted =>
       /\ Standing # "CLOSED"
       /\ \A w \in Workers : Heeds(work[w]) => work[w].op # "deleted"
       /\ \A i \in 1 .. Len(toWallet) : toWallet[i] # "deleted"
  /\ Standing = "CLOSED" => toWallet = <<>> /\ \A w \in Workers : ~Tells(work[w]) /\ ~Heeds(work[w])
  /\ (\E w \in Workers : Heeds(work[w]) /\ work[w].op = "deleted") =>
       toWallet = <<>> /\ \A w \in Workers : ~Tells(work[w])
  /\ \A i \in 1 .. Len(toWallet) : toWallet[i] = "deleted" =>
       i = Len(toWallet) /\ \A w \in Workers : ~Tells(work[w])

WalletInv == trouble \subseteq {"managed", "internal"} => LastIsMeant /\ DeletedIsLast

(* A step that concerns none of this.                                      *)
LEMMA WalletUnseen ==
  ASSUME WalletInv, trouble \subseteq trouble', UNCHANGED <<toWallet, Wanted, Standing>>,
         user'.deleted = user.deleted,
         \A w \in Workers : work'[w] = work[w] \/
           /\ ~Tells(work[w]) /\ ~Heeds(work[w]) /\ ~Tells(work'[w]) /\ ~Heeds(work'[w])
  PROVE  WalletInv'
<1>1. \A w \in Workers : /\ Tells(work'[w]) \/ Heeds(work'[w]) => work'[w] = work[w]
                         /\ Tells(work[w]) \/ Heeds(work[w]) => work'[w] = work[w]
  OBVIOUS
<1> SUFFICES ASSUME trouble' \subseteq {"managed", "internal"} PROVE LastIsMeant' /\ DeletedIsLast'
  BY DEF WalletInv
<1>2. LastIsMeant /\ DeletedIsLast
  BY DEF WalletInv
<1>3. LastIsMeant'
  BY <1>1, <1>2 DEF LastIsMeant
<1>4. DeletedIsLast'
  BY <1>1, <1>2 DEF DeletedIsLast
<1> QED
  BY <1>3, <1>4

LEMMA WalletAfterStatus ==
  ASSUME NEW row \in WalletRows, NEW e
  PROVE  WalletAfter(e, row).status = Meant(e)
<1>1. CASE Reactivates(e)
  BY <1>1 DEF WalletRows, WalletAfter, Meant, Reactivates
<1>2. CASE ~Reactivates(e) /\ e = "deleted"
  BY <1>2 DEF WalletRows, WalletAfter, Meant, Reactivates
<1>3. CASE ~Reactivates(e) /\ e # "deleted"
  BY <1>3 DEF WalletRows, WalletAfter, Meant, Reactivates
<1> QED
  BY <1>1, <1>2, <1>3

LEMMA EventsMean ==
  ASSUME NEW d \in Decisions
  PROVE  /\ EventOf[d] \in Events
         /\ EventOf[d] = "deleted" <=> d = "DELETE"
         /\ Meant(EventOf[d]) = IF d \in {"UNLOCK", "ACTIVATE"} THEN "ACTIVE"
                                ELSE IF d = "DELETE" THEN "CLOSED" ELSE "SUSPENDED"
BY DEF Decisions, EventOf, Events, Meant, Reactivates

(* What the three changes of a queue do to its last entry and the others.  *)
LEMMA FirstTaken ==
  ASSUME NEW S, NEW s \in Seq(S), 1 \in DOMAIN s, NEW r, r = Without(s, 1)
  PROVE  /\ s # <<>> /\ Len(s) \in Nat \ {0} /\ Len(r) = Len(s) - 1
         /\ r # <<>> => r[Len(r)] = s[Len(s)]
         /\ r = <<>> => Len(s) = 1
         /\ \A j \in 1 .. Len(r) : j + 1 \in 1 .. Len(s) /\ r[j] = s[j + 1]
<1>1. /\ Len(s) \in Nat /\ 1 <= Len(s) /\ r \in Seq(S) /\ Len(r) = Len(s) - 1
      /\ \A j \in 1 .. Len(s) - 1 : r[j] = s[j + 1]
  <2>1. Len(s) \in Nat /\ 1 <= Len(s)
    BY LenProperties
  <2>2. /\ r \in Seq(S) /\ Len(r) = Len(s) - 1
        /\ \A j \in 1 .. Len(s) - 1 : r[j] = s[j + 1]
    BY TakenOut
  <2> QED
    BY <2>1, <2>2
<1>2. s # <<>>
  BY <1>1, NoLength
<1>3. r # <<>> => Len(r) \in Nat \ {0}
  BY <1>1, EmptySeq
<1>4. r # <<>> => r[Len(r)] = s[Len(s)]
  BY <1>1, <1>3
<1>5. r = <<>> => Len(s) = 1
  BY <1>1, NoLength
<1> QED
  BY <1>1, <1>2, <1>4, <1>5

LEMMA EntriesAfterAppend ==
  ASSUME NEW S, NEW s \in Seq(S), NEW e \in S, NEW r, r = Append(s, e)
  PROVE  /\ r # <<>> /\ r[Len(r)] = e
         /\ \A j \in 1 .. Len(r) : (j = Len(r) /\ r[j] = e) \/ (j \in 1 .. Len(s) /\ r[j] = s[j])
<1>1. /\ Len(s) \in Nat /\ Len(r) = Len(s) + 1 /\ r[Len(s) + 1] = e
      /\ \A j \in 1 .. Len(s) : r[j] = s[j]
  BY AppendProperties, LenProperties
<1> QED
  BY <1>1, LastAfterAppend

LEMMA EntriesAfterPush ==
  ASSUME NEW S, NEW s \in Seq(S), NEW e \in S, NEW r, r = <<e>> \o s
  PROVE  /\ r # <<>> /\ Len(s) \in Nat /\ Len(r) = Len(s) + 1
         /\ r[Len(r)] = IF s = <<>> THEN e ELSE s[Len(s)]
         /\ \A j \in 1 .. Len(r) : (j = 1 /\ r[j] = e) \/ (j - 1 \in 1 .. Len(s) /\ r[j] = s[j - 1])
<1>1. <<e>> \in Seq(S) /\ Len(<<e>>) = 1 /\ <<e>>[1] = e
  OBVIOUS
<1>2. /\ Len(s) \in Nat /\ Len(r) = 1 + Len(s)
      /\ \A j \in 1 .. 1 + Len(s) : r[j] = IF j <= 1 THEN <<e>>[j] ELSE s[j - 1]
  BY <1>1, ConcatProperties, LenProperties
<1>3. \A j \in 1 .. Len(r) : (j = 1 /\ r[j] = e) \/ (j - 1 \in 1 .. Len(s) /\ r[j] = s[j - 1])
  BY <1>1, <1>2
<1> QED
  BY <1>2, <1>3, LastAfterPush

(* The status a decision in place leaves the user with is the one its      *)
(* event asks of the wallet.                                               *)
LEMMA DecisionIsWanted ==
  ASSUME user \in UserRows, user.status # "NONE", NEW op \in Decisions, NEW by,
         InPlace(op, user), ~user.deleted, user' = UserAfter(by, op, user)
  PROVE  Wanted' = Meant(EventOf[op])
<1>1. /\ op = "LOCK" => user'.locked = TRUE
      /\ op = "UNLOCK" => user'.locked = FALSE
      /\ op \notin {"LOCK", "UNLOCK"} => user'.locked = user.locked
      /\ op = "SUSPEND" => user'.suspended = TRUE
      /\ op = "ACTIVATE" => user'.suspended = FALSE
      /\ op \notin {"SUSPEND", "ACTIVATE"} => user'.suspended = user.suspended
      /\ op = "DELETE" => user'.deleted = TRUE
      /\ op # "DELETE" => user'.deleted = user.deleted
  BY FlagsSaved
<1>2. CASE op = "LOCK"
  BY <1>1, <1>2, EventsMean DEF InPlace, Wanted
<1>3. CASE op = "UNLOCK"
  BY <1>1, <1>3, EventsMean DEF InPlace, Wanted
<1>4. CASE op = "SUSPEND"
  BY <1>1, <1>4, EventsMean DEF InPlace, Wanted
<1>5. CASE op = "ACTIVATE"
  BY <1>1, <1>5, EventsMean DEF InPlace, Wanted
<1>6. CASE op = "DELETE"
  BY <1>1, <1>6, EventsMean DEF InPlace, Wanted
<1> QED
  BY <1>2, <1>3, <1>4, <1>5, <1>6 DEF Decisions

(* In the same way from the user's row to the wallet's.                    *)
LEMMA WalletStep ==
  ASSUME AccountsType, AloneInv, WalletInv, [AccountsNext]_accountsVars
  PROVE  WalletInv'
<1> USE DEF rows, queues
<1> DEFINE Calm == trouble \subseteq {"managed", "internal"}
<1>0. /\ trouble \subseteq trouble' /\ RowsOK /\ RestOK
      /\ Handlers \subseteq Workers /\ Consumers \subseteq Workers
      /\ user \in UserRows /\ wallet \in WalletRows /\ toWallet \in Seq(Events)
  BY TroubleStays DEF AccountsType, RowsOK, RestOK, Workers
<1>j. \A w \in Workers : work[w].table \in Tables => work[w] # Idle /\ JobOK(w)
  BY IdleHasNoTable DEF AccountsType, WorkersOK
<1>i. ~Tells(Idle) /\ ~Heeds(Idle)
  BY DEF Tells, Heeds, Idle
<1>s. UNCHANGED user => UNCHANGED Wanted /\ user'.deleted = user.deleted
  BY DEF Wanted
<1>t. UNCHANGED wallet => UNCHANGED Standing
  BY DEF Standing
<1>a. ASSUME Calm', NEW w \in Workers, work[w].table \in {"user", "wallet"}
      PROVE  /\ LastIsMeant /\ DeletedIsLast
             /\ \A v \in Workers : v # w => work[v].table # work[w].table
             /\ work[w].stage = "read" => work[w].row = Table[work[w].table]
  BY <1>0, <1>a DEF AloneInv, Alone, Fresh, Tables, WalletInv
<1>1. CASE Register
  <2>1. /\ UNCHANGED Wanted /\ user'.deleted = user.deleted
        /\ UNCHANGED <<wallet, toWallet, work>>
    BY <1>0, <1>1 DEF Register, UserRows, Wanted
  <2> QED
    BY <1>0, <1>t, <2>1, WalletUnseen
<1>2. CASE CreateManaged \/ HandleUserCreated \/ LoseCreated \/ UNCHANGED accountsVars
  BY <1>0, <1>2, <1>s, <1>t, WalletUnseen
     DEF CreateManaged, HandleUserCreated, LoseCreated, accountsVars
<1>3. CASE CreateWallet
  <2>1. UNCHANGED <<user, toWallet, work>>
    BY <1>3 DEF CreateWallet
  <2>2. UNCHANGED Standing
    BY <1>0, <1>3 DEF CreateWallet, Standing, WalletRows
  <2> QED
    BY <1>0, <1>s, <2>1, <2>2, WalletUnseen
<1>4. ASSUME NEW w \in Handlers, NEW op \in Decisions \cup {"UPDATE"}, AdminRequest(w, op)
      PROVE  WalletInv'
  <2>1. Open(w, "managed", "request", op) /\ UNCHANGED <<user, wallet, toWallet>> /\ w \in Workers
    BY <1>0, <1>4 DEF AdminRequest
  <2>2. /\ work'[w] = [table |-> "managed", by |-> "request", op |-> op, stage |-> "read",
                       row |-> Table["managed"]]
        /\ \A v \in Workers : v # w => work'[v] = work[v]
        /\ work[w] = Idle
    BY <2>1, Opened
  <2>3. ~Tells(work'[w]) /\ ~Heeds(work'[w])
    BY <2>2 DEF Tells, Heeds
  <2> QED
    BY <1>0, <1>i, <1>s, <1>t, <2>1, <2>2, <2>3, WalletUnseen
<1>5. ASSUME NEW w \in Workers, NEW by, NEW op, Open(w, "user", by, op),
             UNCHANGED <<user, wallet, toWallet>>
      PROVE  WalletInv'
  <2>1. /\ work'[w] = [table |-> "user", by |-> by, op |-> op, stage |-> "read",
                       row |-> Table["user"]]
        /\ \A v \in Workers : v # w => work'[v] = work[v]
        /\ work[w] = Idle
    BY <1>5, Opened
  <2>2. ~Tells(work'[w]) /\ ~Heeds(work'[w])
    BY <2>1 DEF Tells, Heeds
  <2> QED
    BY <1>0, <1>i, <1>s, <1>t, <1>5, <2>1, <2>2, WalletUnseen
<1>6. ASSUME NEW w \in Consumers, NEW i \in DOMAIN toWallet, HandleWalletEvent(w, i)
      PROVE  WalletInv'
  <2> SUFFICES ASSUME Calm' PROVE LastIsMeant' /\ DeletedIsLast'
    BY DEF WalletInv
  <2> DEFINE e == toWallet[i]
  <2>1. /\ w \in Workers /\ UNCHANGED <<user, wallet>> /\ toWallet' = Without(toWallet, i)
        /\ LastIsMeant /\ DeletedIsLast
    BY <1>0, <1>6 DEF HandleWalletEvent, WalletInv
  <2>2. i = 1
    <3>1. i > 1 => "crossed" \in trouble'
      BY <1>6 DEF HandleWalletEvent
    <3> QED
      BY <1>0, <3>1, LenProperties
  <2>3. \A v \in Workers : ~Heeds(work[v])
    <3>1. Overlap("wallet") \subseteq trouble'
      BY <1>6 DEF HandleWalletEvent
    <3> QED
      BY <3>1 DEF Overlap, Busy, Heeds
  <2>4. wallet.status # "NONE"
    <3>1. wallet.status = "NONE" => "skipped" \in trouble'
      BY <1>6 DEF HandleWalletEvent
    <3> QED
      BY <3>1
  <2>5. /\ toWallet # <<>> /\ Len(toWallet) \in Nat \ {0} /\ Len(toWallet') = Len(toWallet) - 1
        /\ toWallet' # <<>> => toWallet'[Len(toWallet')] = toWallet[Len(toWallet)]
        /\ toWallet' = <<>> => Len(toWallet) = 1
        /\ \A j \in 1 .. Len(toWallet') :
             j + 1 \in 1 .. Len(toWallet) /\ toWallet'[j] = toWallet[j + 1]
    BY <1>0, <2>1, <2>2, FirstTaken
  <2>6. UNCHANGED <<Wanted, Standing>> /\ user'.deleted = user.deleted /\ Standing # "CLOSED"
    BY <1>s, <1>t, <2>1, <2>5 DEF DeletedIsLast
  <2>7. ~user'.deleted => \A j \in 1 .. Len(toWallet') : toWallet'[j] # "deleted"
    BY <2>1, <2>5, <2>6 DEF DeletedIsLast
  <2>8. \A j \in 1 .. Len(toWallet') : toWallet'[j] = "deleted" =>
          j = Len(toWallet') /\ \A v \in Workers : ~Tells(work[v])
    <3> SUFFICES ASSUME NEW j \in 1 .. Len(toWallet'), toWallet'[j] = "deleted"
                 PROVE  j = Len(toWallet') /\ \A v \in Workers : ~Tells(work[v])
      OBVIOUS
    <3>1. j + 1 = Len(toWallet) /\ \A v \in Workers : ~Tells(work[v])
      BY <2>1, <2>5 DEF DeletedIsLast
    <3> QED
      BY <2>5, <3>1
  <2>9. (\A v \in Workers : ~Tells(work[v])) =>
          /\ toWallet' # <<>> => Meant(toWallet'[Len(toWallet')]) = Wanted
          /\ toWallet' = <<>> => Meant(e) = Wanted
    BY <2>1, <2>2, <2>5 DEF LastIsMeant
  <2>10. CASE Reactivates(e) /\ wallet.status # "SUSPENDED"
    <3>1. UNCHANGED work
      BY <1>6, <2>10 DEF HandleWalletEvent
    <3>2. Standing = Meant(e)
      BY <1>0, <2>4, <2>6, <2>10 DEF Standing, Meant, WalletRows
    <3>3. LastIsMeant'
      BY <2>1, <2>3, <2>6, <2>9, <3>1, <3>2 DEF LastIsMeant
    <3>4. DeletedIsLast'
      BY <2>3, <2>6, <2>7, <2>8, <3>1 DEF DeletedIsLast
    <3> QED
      BY <3>3, <3>4
  <2>11. CASE ~(Reactivates(e) /\ wallet.status # "SUSPENDED")
    <3>1. Open(w, "wallet", "event", e)
      BY <1>6, <2>4, <2>11 DEF HandleWalletEvent
    <3>2. /\ work'[w] = [table |-> "wallet", by |-> "event", op |-> e, stage |-> "read",
                         row |-> Table["wallet"]]
          /\ \A v \in Workers : v # w => work'[v] = work[v]
          /\ work[w] = Idle
      BY <2>1, <3>1, Opened
    <3>3. ~Tells(work'[w]) /\ Heeds(work'[w]) /\ work'[w].op = e
      BY <3>2 DEF Tells, Heeds
    <3>4. \A v \in Workers : /\ Tells(work'[v]) <=> Tells(work[v])
                             /\ Tells(work'[v]) => work'[v] = work[v]
                             /\ Heeds(work'[v]) => work'[v].op = e
      BY <1>i, <2>3, <3>2, <3>3
    <3>5. LastIsMeant'
      BY <2>1, <2>6, <2>9, <3>3, <3>4 DEF LastIsMeant
    <3>6. e = "deleted" =>
            user.deleted /\ toWallet' = <<>> /\ \A v \in Workers : ~Tells(work[v])
      <4>1. ASSUME e = "deleted"
            PROVE  user.deleted /\ 1 = Len(toWallet) /\ \A v \in Workers : ~Tells(work[v])
        BY <2>1, <2>2, <2>5, <4>1 DEF DeletedIsLast
      <4>2. Len(toWallet') = 0 => toWallet' = <<>>
        BY <1>0, <2>1, TakenOut, EmptySeq
      <4> QED
        BY <2>5, <4>1, <4>2
    <3>7. DeletedIsLast'
      BY <2>6, <2>7, <2>8, <3>4, <3>6 DEF DeletedIsLast
    <3> QED
      BY <3>5, <3>7
  <2> QED
    BY <2>10, <2>11
<1>7. ASSUME NEW w \in Workers, SaveUser(w)
      PROVE  WalletInv'
  <2> SUFFICES ASSUME Calm' PROVE WalletInv'
    BY DEF WalletInv
  <2>1. /\ work[w].table = "user" /\ work[w].stage = "read" /\ Saved(w)
        /\ InPlace(work[w].op, work[w].row) /\ UNCHANGED <<wallet, toWallet>>
        /\ user' = UserAfter(work[w].by, work[w].op, work[w].row)
    BY <1>7 DEF SaveUser
  <2>2. /\ LastIsMeant /\ DeletedIsLast /\ work[w].row = user
        /\ \A v \in Workers : v # w => work[v].table # "user"
    BY <1>a, <2>1 DEF Table
  <2>3. UserJob(work[w]) /\ user.status # "NONE" /\ work[w].by \in {"request", "event"}
    BY <1>j, <2>1, <2>2 DEF JobOK, Tables
  <2>4. work[w].op \in Decisions \cup UserStatus \cup OwnRequests
    BY <2>3, AccountsAssumption DEF UserJob, AccountsAssumption
  <2>5. ~Tells(work[w]) /\ ~Heeds(work[w])
    BY <2>1 DEF Tells, Heeds
  <2>6. CASE work[w].op \in Decisions
    <3>1. ~user.deleted
      BY <2>1, <2>2, <2>3, <2>6 DEF InPlace, UserJob, Decisions
    <3>2. Wanted' = Meant(EventOf[work[w].op])
      BY <1>0, <2>1, <2>2, <2>3, <2>6, <3>1, DecisionIsWanted
    <3>3. work'[w] = [table |-> "user", by |-> work[w].by, op |-> work[w].op, stage |-> "saved"]
          /\ \A v \in Workers : v # w => work'[v] = work[v]
      BY <2>1, <2>6, SavedOrClosed DEF Announces
    <3>4. Tells(work'[w]) /\ ~Heeds(work'[w]) /\ work'[w].op = work[w].op
      BY <3>3 DEF Tells, Heeds
    <3>5. \A v \in Workers : /\ Tells(work'[v]) => v = w
                             /\ Heeds(work'[v]) => Heeds(work[v]) /\ work'[v] = work[v]
      BY <2>2, <3>3, <3>4 DEF Tells
    <3>6. LastIsMeant'
      BY <3>2, <3>4, <3>5 DEF LastIsMeant
    <3>7. /\ UNCHANGED Standing /\ Standing # "CLOSED"
          /\ \A v \in Workers : Heeds(work[v]) => work[v].op # "deleted"
          /\ \A j \in 1 .. Len(toWallet) : toWallet[j] # "deleted"
      BY <1>t, <2>1, <2>2, <3>1 DEF DeletedIsLast
    <3>8. DeletedIsLast'
      BY <2>1, <3>5, <3>7 DEF DeletedIsLast
    <3> QED
      BY <3>6, <3>8 DEF WalletInv
  <2>7. CASE work[w].op \notin Decisions
    <3>1. work'[w] = Idle /\ \A v \in Workers : v # w => work'[v] = work[v]
      BY <2>1, <2>7, SavedOrClosed DEF Announces
    <3>2. /\ user'.locked = user.locked /\ user'.suspended = user.suspended
          /\ user'.deleted = user.deleted
      BY <1>0, <2>1, <2>2, <2>3, <2>4, <2>7, FlagsSaved DEF Decisions
    <3>3. UNCHANGED Wanted
      BY <3>2 DEF Wanted
    <3> QED
      BY <1>0, <1>i, <1>t, <2>1, <2>5, <3>1, <3>2, <3>3, WalletUnseen
  <2> QED
    BY <2>6, <2>7
<1>8. ASSUME NEW w \in Workers, SaveManaged(w)
      PROVE  WalletInv'
  <2>1. work[w].table = "managed" /\ Saved(w) /\ UNCHANGED <<user, wallet, toWallet>>
    BY <1>8 DEF SaveManaged
  <2>2. \A v \in Workers : v # w => work'[v] = work[v]
    BY <2>1, SavedOrClosed
  <2>3. /\ ~Tells(work[w]) /\ ~Heeds(work[w]) /\ ~Tells(work'[w]) /\ ~Heeds(work'[w])
    <3>1. CASE Announces(w)
      <4>1. work'[w] = [table |-> "managed", by |-> work[w].by, op |-> work[w].op,
                        stage |-> "saved"]
        BY <2>1, <3>1, SavedOrClosed
      <4> QED
        BY <2>1, <4>1 DEF Tells, Heeds
    <3>2. CASE ~Announces(w)
      <4>1. work'[w] = Idle
        BY <2>1, <3>2, SavedOrClosed
      <4> QED
        BY <1>i, <2>1, <4>1 DEF Tells, Heeds
    <3> QED
      BY <3>1, <3>2
  <2> QED
    BY <1>0, <1>s, <1>t, <2>1, <2>2, <2>3, WalletUnseen
<1>9. ASSUME NEW w \in Workers, SaveWallet(w)
      PROVE  WalletInv'
  <2> SUFFICES ASSUME Calm' PROVE LastIsMeant' /\ DeletedIsLast'
    BY DEF WalletInv
  <2>1. /\ work[w].table = "wallet" /\ work[w].by = "event"
        /\ Close(w) /\ UNCHANGED <<user, toWallet>>
        /\ wallet' = WalletAfter(work[w].op, work[w].row)
    BY <1>9 DEF SaveWallet
  <2>2. /\ LastIsMeant /\ DeletedIsLast
        /\ \A v \in Workers : v # w => work[v].table # "wallet"
    BY <1>a, <2>1
  <2>3. work[w].stage = "read" /\ work[w].row = wallet
    <3>1. work[w].stage = "read"
      BY <1>j, <2>1 DEF JobOK, WalletJob, Tables
    <3> QED
      BY <1>a, <2>1, <3>1 DEF Table
  <2>4. work'[w] = Idle /\ \A v \in Workers : v # w => work'[v] = work[v]
    BY <2>1, Closed
  <2>5. Standing' = Meant(work[w].op)
    <3>1. wallet'.status = Meant(work[w].op) /\ wallet'.status # "NONE"
      BY <1>0, <2>1, <2>3, WalletAfterStatus, WalletAfterType
    <3> QED
      BY <3>1 DEF Standing
  <2>6. Heeds(work[w]) /\ ~Tells(work[w])
    BY <2>1 DEF Heeds, Tells
  <2>7. \A v \in Workers : /\ Tells(work'[v]) <=> Tells(work[v])
                           /\ Tells(work'[v]) => work'[v] = work[v]
                           /\ ~Heeds(work'[v])
    BY <1>i, <2>2, <2>4, <2>6 DEF Heeds
  <2>8. UNCHANGED Wanted /\ user'.deleted = user.deleted
    BY <1>s, <2>1
  <2>9. LastIsMeant'
    BY <2>1, <2>2, <2>5, <2>6, <2>7, <2>8 DEF LastIsMeant
  <2>10. Meant(work[w].op) = "CLOSED" => work[w].op = "deleted"
    BY DEF Meant
  <2>11. DeletedIsLast'
    BY <2>1, <2>2, <2>5, <2>6, <2>7, <2>8, <2>10 DEF DeletedIsLast
  <2> QED
    BY <2>9, <2>11
<1>10. ASSUME NEW w \in Workers, Publish(w)
       PROVE  WalletInv'
  <2>1. /\ work[w] # Idle /\ work[w].stage = "saved" /\ Close(w) /\ UNCHANGED <<user, wallet>>
        /\ work[w].table \in Tables /\ JobOK(w)
    BY <1>10, <1>j, IdleHasNoTable DEF Publish
  <2>2. work'[w] = Idle /\ \A v \in Workers : v # w => work'[v] = work[v]
    BY <2>1, Closed
  <2>3. work[w].table # "wallet"
    BY <2>1 DEF JobOK, WalletJob
  <2>4. CASE work[w].table = "managed"
    <3>1. ~Tells(work[w]) /\ ~Heeds(work[w]) /\ UNCHANGED toWallet
      BY <1>10, <2>4 DEF Tells, Heeds, Publish
    <3> QED
      BY <1>0, <1>i, <1>s, <1>t, <2>1, <2>2, <3>1, WalletUnseen
  <2>5. CASE work[w].table = "user"
    <3> SUFFICES ASSUME Calm' PROVE LastIsMeant' /\ DeletedIsLast'
      BY DEF WalletInv
    <3>1. /\ LastIsMeant /\ DeletedIsLast
          /\ \A v \in Workers : v # w => work[v].table # "user"
      BY <1>a, <2>5
    <3>2. Tells(work[w]) /\ ~Heeds(work[w])
      BY <2>1, <2>5 DEF Tells, Heeds
    <3>3. work[w].op \in Decisions
      BY <2>1, <2>5 DEF JobOK, UserJob
    <3>4. /\ EventOf[work[w].op] \in Events /\ Meant(EventOf[work[w].op]) = Wanted
          /\ EventOf[work[w].op] = "deleted" => user.deleted
      <4>1. Meant(EventOf[work[w].op]) = Wanted
        BY <3>1, <3>2 DEF LastIsMeant
      <4>2. EventOf[work[w].op] = "deleted" => Meant(EventOf[work[w].op]) = "CLOSED"
        BY DEF Meant, Reactivates
      <4> QED
        BY <3>3, <4>1, <4>2, EventsMean DEF Wanted
    <3>5. toWallet' = Append(toWallet, EventOf[work[w].op])
      BY <1>10, <2>5 DEF Publish
    <3>6. /\ toWallet' # <<>> /\ toWallet'[Len(toWallet')] = EventOf[work[w].op]
          /\ \A j \in 1 .. Len(toWallet') :
               \/ j = Len(toWallet') /\ toWallet'[j] = EventOf[work[w].op]
               \/ j \in 1 .. Len(toWallet) /\ toWallet'[j] = toWallet[j]
      BY <1>0, <3>4, <3>5, EntriesAfterAppend
    <3>7. \A v \in Workers : /\ ~Tells(work'[v])
                             /\ Heeds(work'[v]) => Heeds(work[v]) /\ work'[v] = work[v]
      BY <1>i, <2>2, <3>1 DEF Tells
    <3>8. UNCHANGED <<Wanted, Standing>> /\ user'.deleted = user.deleted
      BY <1>s, <1>t, <2>1
    <3>9. LastIsMeant'
      BY <3>4, <3>6, <3>7, <3>8 DEF LastIsMeant
    <3>10. /\ Standing # "CLOSED"
           /\ \A v \in Workers : Heeds(work[v]) => work[v].op # "deleted"
           /\ \A j \in 1 .. Len(toWallet) : toWallet[j] # "deleted"
      BY <3>1, <3>2 DEF DeletedIsLast
    <3>11. /\ ~user'.deleted => \A j \in 1 .. Len(toWallet') : toWallet'[j] # "deleted"
           /\ \A j \in 1 .. Len(toWallet') : toWallet'[j] = "deleted" => j = Len(toWallet')
      BY <3>4, <3>6, <3>8, <3>10
    <3>12. DeletedIsLast'
      BY <3>7, <3>8, <3>10, <3>11 DEF DeletedIsLast
    <3> QED
      BY <3>9, <3>12
  <2> QED
    BY <2>1, <2>3, <2>4, <2>5 DEF Tables
<1>11. ASSUME NEW w \in Workers, FailJob(w)
       PROVE  WalletInv'
  <2> SUFFICES ASSUME Calm' PROVE WalletInv'
    BY DEF WalletInv
  <2>1. /\ Close(w) /\ UNCHANGED <<user, wallet, toWallet>> /\ work[w] # Idle
        /\ work[w].by = "request" /\ work[w].stage = "read"
    BY <1>11 DEF FailJob
  <2>2. ~Tells(work[w]) /\ ~Heeds(work[w])
    BY <1>j, <2>1 DEF Tells, Heeds, JobOK, WalletJob, Tables
  <2> QED
    BY <1>0, <1>i, <1>s, <1>t, <2>1, <2>2, Closed, WalletUnseen
<1>12. ASSUME NEW w \in Consumers, Redeliver(w)
       PROVE  WalletInv'
  <2> SUFFICES ASSUME Calm' PROVE WalletInv'
    BY DEF WalletInv
  <2>1. /\ Close(w) /\ UNCHANGED <<user, wallet>> /\ work[w] # Idle /\ w \in Workers
        /\ work[w].stage = "read" /\ w \notin Handlers
    BY <1>0, <1>12, AccountsAssumption DEF Redeliver, AccountsAssumption
  <2>2. work'[w] = Idle /\ \A v \in Workers : v # w => work'[v] = work[v]
    BY <2>1, Closed
  <2>3. JobOK(w) /\ work[w].table \in {"user", "wallet"}
    BY <1>j, <2>1, IdleHasNoTable DEF JobOK, ManagedJob, Tables
  <2>4. CASE work[w].table = "user"
    <3>1. ~Tells(work[w]) /\ ~Heeds(work[w]) /\ UNCHANGED toWallet
      BY <1>12, <2>1, <2>4 DEF Tells, Heeds, Redeliver
    <3> QED
      BY <1>0, <1>i, <1>s, <1>t, <2>1, <2>2, <3>1, WalletUnseen
  <2>5. CASE work[w].table = "wallet"
    <3>1. /\ LastIsMeant /\ DeletedIsLast
          /\ \A v \in Workers : v # w => work[v].table # "wallet"
      BY <1>a, <2>1, <2>5
    <3>2. ~Tells(work[w]) /\ Heeds(work[w]) /\ work[w].op \in Events
      BY <2>1, <2>3, <2>5 DEF Tells, Heeds, JobOK, WalletJob
    <3>3. toWallet' = <<work[w].op>> \o toWallet
      BY <1>12, <2>5 DEF Redeliver
    <3>4. /\ toWallet' # <<>> /\ Len(toWallet) \in Nat /\ Len(toWallet') = Len(toWallet) + 1
          /\ toWallet'[Len(toWallet')] =
               IF toWallet = <<>> THEN work[w].op ELSE toWallet[Len(toWallet)]
          /\ \A j \in 1 .. Len(toWallet') :
               \/ j = 1 /\ toWallet'[j] = work[w].op
               \/ j - 1 \in 1 .. Len(toWallet) /\ toWallet'[j] = toWallet[j - 1]
      BY <1>0, <3>2, <3>3, EntriesAfterPush
    <3>5. \A v \in Workers : /\ Tells(work'[v]) <=> Tells(work[v])
                             /\ Tells(work'[v]) => work'[v] = work[v]
                             /\ ~Heeds(work'[v])
      BY <1>i, <2>2, <3>1, <3>2 DEF Heeds
    <3>6. UNCHANGED <<Wanted, Standing>> /\ user'.deleted = user.deleted /\ Standing # "CLOSED"
      BY <1>s, <1>t, <2>1, <3>1, <3>2 DEF DeletedIsLast
    <3>7. LastIsMeant'
      <4>1. (\A v \in Workers : ~Tells(work[v])) => Meant(toWallet'[Len(toWallet')]) = Wanted
        BY <2>1, <3>1, <3>2, <3>4 DEF LastIsMeant
      <4>2. \A v \in Workers : Tells(work[v]) => Meant(EventOf[work[v].op]) = Wanted
        BY <3>1 DEF LastIsMeant
      <4> QED
        BY <3>4, <3>5, <3>6, <4>1, <4>2 DEF LastIsMeant
    <3>8. ASSUME NEW j \in 1 .. Len(toWallet'), toWallet'[j] = "deleted"
          PROVE  user.deleted /\ j = Len(toWallet') /\ \A v \in Workers : ~Tells(work[v])
      <4>1. CASE j = 1 /\ toWallet'[j] = work[w].op
        <5>1. user.deleted /\ toWallet = <<>> /\ \A v \in Workers : ~Tells(work[v])
          <6>1. \E v \in Workers : Heeds(work[v]) /\ work[v].op = "deleted"
            BY <2>1, <3>2, <3>8, <4>1
          <6> QED
            BY <3>1, <6>1 DEF DeletedIsLast
        <5>2. Len(toWallet) = 0
          BY <5>1, NoLength
        <5> QED
          BY <3>4, <4>1, <5>1, <5>2
      <4>2. CASE j - 1 \in 1 .. Len(toWallet) /\ toWallet'[j] = toWallet[j - 1]
        <5>1. /\ user.deleted /\ j - 1 = Len(toWallet)
              /\ \A v \in Workers : ~Tells(work[v])
          BY <3>1, <3>8, <4>2 DEF DeletedIsLast
        <5> QED
          BY <3>4, <3>8, <5>1
      <4> QED
        BY <3>4, <3>8, <4>1, <4>2
    <3>9. DeletedIsLast'
      BY <3>5, <3>6, <3>8 DEF DeletedIsLast
    <3> QED
      BY <3>7, <3>9 DEF WalletInv
  <2> QED
    BY <2>3, <2>4, <2>5
<1>13. ASSUME NEW w \in Handlers, NEW op \in Requests, UserRequest(w, op)
       PROVE  WalletInv'
  BY <1>0, <1>5, <1>13 DEF UserRequest
<1>14. ASSUME NEW w \in Consumers, HandleStatusChanged(w)
       PROVE  WalletInv'
  BY <1>0, <1>5, <1>14 DEF HandleStatusChanged
<1>15. ASSUME NEW w \in Handlers, StartMove(w)
       PROVE  WalletInv'
  <2>1. UNCHANGED <<user, wallet, toWallet>> /\ w \in Workers /\ work[w] = Idle
    BY <1>0, <1>15 DEF StartMove
  <2>2. PICK row : work' = [work EXCEPT ![w] = [table |-> "wallet", by |-> "request",
                                    op |-> "move", stage |-> "read", row |-> row]]
    BY <1>15 DEF StartMove
  <2>3. /\ work'[w].table = "wallet" /\ work'[w].by = "request"
        /\ \A v \in Workers : v # w => work'[v] = work[v]
    BY <2>1, <2>2 DEF AccountsType, WorkersOK
  <2>4. ~Tells(work'[w]) /\ ~Heeds(work'[w])
    BY <2>3 DEF Tells, Heeds
  <2> QED
    BY <1>0, <1>i, <1>s, <1>t, <2>1, <2>3, <2>4, WalletUnseen
<1>16. ASSUME NEW w \in Workers, SaveMove(w)
       PROVE  WalletInv'
  <2> SUFFICES ASSUME Calm' PROVE WalletInv'
    BY DEF WalletInv
  <2>1. /\ work[w].table = "wallet" /\ work[w].by = "request"
        /\ Close(w) /\ UNCHANGED <<user, toWallet>>
        /\ wallet' = [work[w].row EXCEPT !.moves = @ + 1]
    BY <1>16 DEF SaveMove
  <2>2. work[w].stage = "read" /\ wallet.status # "NONE"
    BY <1>j, <2>1 DEF JobOK, WalletJob, Table, Tables
  <2>3. work[w].row = wallet
    BY <1>a, <2>1, <2>2 DEF Table
  <2>4. UNCHANGED Standing
    BY <1>0, <2>1, <2>3 DEF Standing, WalletRows
  <2>5. ~Tells(work[w]) /\ ~Heeds(work[w])
    BY <2>1 DEF Tells, Heeds
  <2> QED
    BY <1>0, <1>i, <1>s, <2>1, <2>4, <2>5, Closed, WalletUnseen
<1> QED
  BY <1>1, <1>2, <1>3, <1>4, <1>6, <1>7, <1>8, <1>9, <1>10, <1>11, <1>12, <1>13, <1>14, <1>15, <1>16
     DEF AccountsNext, Deliver, Finish

LEMMA WalletInit == AccountsInit => WalletInv
<1> SUFFICES ASSUME AccountsInit PROVE WalletInv
  OBVIOUS
<1>1. \A w \in Workers : ~Tells(work[w]) /\ ~Heeds(work[w])
  BY DEF AccountsInit, Tells, Heeds, Idle
<1>2. Standing = "ACTIVE" /\ Wanted = "ACTIVE" /\ toWallet = <<>> /\ Len(toWallet) = 0
  BY NoLength DEF AccountsInit, Standing, Wanted
<1> QED
  BY <1>1, <1>2 DEF WalletInv, LastIsMeant, DeletedIsLast

(* When everything has been delivered, the user is locked or suspended as  *)
(* the administrator left the account: the last decision that was announced *)
(* is the one in the administrator's row, and a decision that finds no     *)
(* other block in place sets both flags.                                   *)
THEOREM UserFollows == AccountsSpec => []UserFollowsAdmin
<1>1. AccountsInit => AccountsType /\ AloneInv /\ AdminInv
  BY TypeInit, AloneInit, AdminInit
<1>2. AccountsType /\ AloneInv /\ AdminInv /\ [AccountsNext]_accountsVars
        => (AccountsType /\ AloneInv /\ AdminInv)'
  BY TypeStep, AloneStep, AdminStep
<1>3. AccountsType /\ AloneInv /\ AdminInv => UserFollowsAdmin
  BY DEF AdminInv, UserFollowsAdmin, Quiet, Sends, Applies, Follows, Idle
<1> QED
  BY <1>1, <1>2, <1>3, PTL DEF AccountsSpec

(* When everything has been delivered, the wallet is suspended or closed as *)
(* its user is, and no movement of its money has been undone on the way,   *)
(* unless two workers had read the row at once or a movement of money had  *)
(* read an older row from the cache.                                       *)
THEOREM WalletFollows == AccountsSpec => []WalletFollowsUser
<1>1. AccountsInit => AccountsType /\ AloneInv /\ WalletInv
  BY TypeInit, AloneInit, WalletInit
<1>2. AccountsType /\ AloneInv /\ WalletInv /\ [AccountsNext]_accountsVars
        => (AccountsType /\ AloneInv /\ WalletInv)'
  BY TypeStep, AloneStep, WalletStep
<1>3. AccountsType /\ AloneInv /\ WalletInv => WalletFollowsUser
  <2> SUFFICES ASSUME AccountsType, AloneInv, WalletInv PROVE WalletFollowsUser
    OBVIOUS
  <2>1. trouble \cap {"wallet", "stale"} = {} => wallet.moves = moves
    BY DEF AloneInv, MovesKept
  <2>2. ASSUME Quiet, wallet.status # "NONE", trouble \subseteq {"managed", "internal"}
        PROVE  wallet.status = Wanted
    BY <2>2 DEF WalletInv, LastIsMeant, Quiet, Tells, Heeds, Idle, Standing
  <2> QED
    BY <2>1, <2>2 DEF WalletFollowsUser, Wanted
<1> QED
  BY <1>1, <1>2, <1>3, PTL DEF AccountsSpec
=============================================================================
