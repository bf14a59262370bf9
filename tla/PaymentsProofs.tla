--------------------------- MODULE PaymentsProofs ---------------------------
(***************************************************************************)
(* Theorems about payments and their events, for every set of payments and *)
(* handlers, every length of the outbox, all modes and every bound.        *)
(***************************************************************************)
EXTENDS Payments, TLAPS

(* A row of the outbox, without a bound on its retries.                    *)
AnyRow == [of : Pays, type : {"INITIATED"} \cup Outcome, status : OutboxStatus,
           retry : Nat, due : BOOLEAN]

Real(e) == outbox[e] # NoEvent

(* Row r, in a job's memory, is about what row e of the outbox is about.   *)
Copies(r, e) == Real(e) /\ r.of = outbox[e].of /\ r.type = outbox[e].type

RequestType ==
  /\ pc \in [Handlers -> Labels]
  /\ job \in [Handlers -> Pays \cup {None}]
  /\ \A h \in Handlers : pc[h] # "idle" => job[h] \in Pays

OutboxType ==
  /\ outbox \in [Events -> AnyRow \cup {NoEvent}]
  /\ DOMAIN batch \subseteq Events /\ DOMAIN skim \subseteq Events
  /\ \A e \in DOMAIN batch : batch[e] \in AnyRow /\ Copies(batch[e], e)
  /\ \A e \in DOMAIN skim : skim[e] \in AnyRow /\ Copies(skim[e], e)
  /\ posting.step # "none" => posting.event \in DOMAIN batch

PaymentType ==
  /\ status \in [Pays -> Status]
  /\ gateway \in [Pays -> {"closed", "open", "paid", "declined"}]
  /\ faults \in Nat

----------------------------------------------------------------------------
(* The outbox.                                                             *)

LEMMA RowIsReal == NoEvent \notin AnyRow
BY DEF AnyRow, NoEvent, OutboxStatus

LEMMA MarkedRow ==
  ASSUME NEW r \in AnyRow, NEW s \in OutboxStatus
  PROVE  /\ [r EXCEPT !.status = s] \in AnyRow
         /\ [r EXCEPT !.status = s].of = r.of /\ [r EXCEPT !.status = s].type = r.type
BY DEF AnyRow

LEMMA DueRow ==
  ASSUME NEW r \in AnyRow
  PROVE  /\ [r EXCEPT !.due = TRUE] \in AnyRow
         /\ [r EXCEPT !.due = TRUE].of = r.of /\ [r EXCEPT !.due = TRUE].type = r.type
BY DEF AnyRow

LEMMA FailedRow ==
  ASSUME NEW r \in AnyRow, NEW s \in OutboxStatus, NEW d \in BOOLEAN
  PROVE  /\ LET f == [r EXCEPT !.status = s, !.retry = @ + 1, !.due = d]
            IN  f \in AnyRow /\ f.of = r.of /\ f.type = r.type
         /\ LET f == [r EXCEPT !.retry = @ + 1, !.status = s, !.due = d]
            IN  f \in AnyRow /\ f.of = r.of /\ f.type = r.type
<1>1. PICK n \in Nat : n = r.retry + 1
  BY DEF AnyRow
<1>2. [r EXCEPT !.status = s, !.retry = n, !.due = d] \in AnyRow
  BY DEF AnyRow
<1>3. /\ [r EXCEPT !.status = s, !.retry = n, !.due = d].of = r.of
      /\ [r EXCEPT !.status = s, !.retry = n, !.due = d].type = r.type
  BY DEF AnyRow
<1>4. [r EXCEPT !.retry = n, !.status = s, !.due = d] \in AnyRow
  BY DEF AnyRow
<1>5. /\ [r EXCEPT !.retry = n, !.status = s, !.due = d].of = r.of
      /\ [r EXCEPT !.retry = n, !.status = s, !.due = d].type = r.type
  BY DEF AnyRow
<1> QED
  BY <1>1, <1>2, <1>3, <1>4, <1>5

(* No row disappears or changes what it is about.                          *)
RowsStay ==
  \A e \in Events :
    /\ Real(e)' <=> Real(e)
    /\ Real(e) => outbox'[e].of = outbox[e].of /\ outbox'[e].type = outbox[e].type

(* A job writes row e back, from its memory or as the table has it.        *)
LEMMA WriteBack ==
  ASSUME OutboxType, NEW e \in Events, NEW r \in AnyRow, Copies(r, e),
         outbox' = [outbox EXCEPT ![e] = r]
  PROVE  /\ RowsStay /\ outbox' \in [Events -> AnyRow \cup {NoEvent}]
         /\ \A row, f : f \in Events /\ Copies(row, f) => Copies(row, f)'
<1>1. outbox'[e] = r /\ \A f \in Events : f # e => outbox'[f] = outbox[f]
  BY DEF OutboxType
<1>2. r # NoEvent
  BY RowIsReal
<1>3. outbox' \in [Events -> AnyRow \cup {NoEvent}]
  BY DEF OutboxType
<1> QED
  BY <1>1, <1>2, <1>3 DEF RowsStay, Copies, Real

LEMMA RealRow ==
  ASSUME OutboxType, NEW e \in Events, Real(e)
  PROVE  outbox[e] \in AnyRow /\ Copies(outbox[e], e)
BY DEF OutboxType, Real, Copies

LEMMA DueIsReal ==
  ASSUME NEW e \in Events, outbox[e].status # "NONE"
  PROVE  Real(e)
BY DEF Real, NoEvent

LEMMA FoundRows ==
  ASSUME OutboxType, NEW found \in SUBSET Events,
         \A e \in found : outbox[e].status # "NONE", NEW rows_, rows_ = Restrict(outbox, found)
  PROVE  /\ DOMAIN rows_ = found
         /\ \A e \in found : rows_[e] \in AnyRow /\ Copies(rows_[e], e)
BY RealRow, DueIsReal DEF Restrict

(* A job forgets the row it has dealt with.                                *)
LEMMA WithoutRows ==
  ASSUME NEW s, NEW e
  PROVE  /\ DOMAIN Without(s, e) = DOMAIN s \ {e}
         /\ \A f \in DOMAIN s \ {e} : Without(s, e)[f] = s[f]
BY DEF Without, Restrict

LEMMA PublisherKeepsRows ==
  ASSUME OutboxType, Publisher
  PROVE  OutboxType' /\ RowsStay
<1>1. CASE PublisherFind
  <2> DEFINE found == {e \in Events : Publishable(e)}
  <2>1. \A e \in found : outbox[e].status # "NONE"
    BY DEF Publishable, Due
  <2>2. batch' = Restrict(outbox, found) /\ UNCHANGED <<outbox, skim, posting>>
    BY <1>1 DEF PublisherFind, rows
  <2>3. batch = NoRows /\ DOMAIN batch = {}
    BY <1>1 DEF PublisherFind, NoRows
  <2> HIDE DEF found
  <2>4. found \in SUBSET Events
    BY DEF found
  <2>5. /\ DOMAIN batch' = found
        /\ \A e \in found : batch'[e] \in AnyRow /\ Copies(batch'[e], e)
    BY <2>1, <2>2, <2>4, FoundRows
  <2> QED
    BY <2>2, <2>3, <2>4, <2>5 DEF OutboxType, RowsStay, Copies, Real
<1>2. CASE PublisherGivesUp
  BY <1>2 DEF PublisherGivesUp, OutboxType, RowsStay, Copies, Real, NoRows, Resting, rows
<1>3. ASSUME NEW e \in Events, PublisherSend(e) \/ PublisherSendFails(e) \/ PublisherMarkFails(e)
      PROVE  OutboxType' /\ RowsStay
  <2>1. posting'.event \in DOMAIN batch /\ UNCHANGED <<outbox, batch, skim>>
    BY <1>3 DEF PublisherSend, PublisherSendFails, PublisherMarkFails, OutboxType, rows
  <2> QED
    BY <2>1 DEF OutboxType, RowsStay, Copies, Real
<1>4. ASSUME NEW e \in Events, PublisherMark(e) \/ PublisherMarkFailed(e)
      PROVE  OutboxType' /\ RowsStay
  <2>1. /\ e \in DOMAIN batch /\ batch' = Without(batch, e) /\ posting' = Resting /\ skim' = skim
    BY <1>4 DEF PublisherMark, PublisherMarkFailed, OutboxType
  <2>2. batch[e] \in AnyRow /\ Copies(batch[e], e)
    BY <2>1 DEF OutboxType
  <2>3. PICK r \in AnyRow : Copies(r, e) /\ outbox' = [outbox EXCEPT ![e] = r]
    <3>1. CASE PublisherMark(e)
      BY <2>2, <3>1, MarkedRow DEF PublisherMark, Copies, OutboxStatus
    <3>2. CASE PublisherMarkFailed(e)
      BY <2>2, <3>2, FailedRow DEF PublisherMarkFailed, Copies, OutboxStatus
    <3> QED
      BY <1>4, <3>1, <3>2
  <2>4. /\ RowsStay /\ outbox' \in [Events -> AnyRow \cup {NoEvent}]
        /\ \A row, f : f \in Events /\ Copies(row, f) => Copies(row, f)'
    BY <2>3, WriteBack
  <2>5. /\ DOMAIN batch' = DOMAIN batch \ {e}
        /\ \A f \in DOMAIN batch \ {e} : batch'[f] = batch[f]
    BY <2>1, WithoutRows
  <2> QED
    BY <2>1, <2>4, <2>5 DEF OutboxType, Resting
<1> QED
  BY <1>1, <1>2, <1>3, <1>4 DEF Publisher

LEMMA LoggerKeepsRows ==
  ASSUME OutboxType, Logger
  PROVE  OutboxType' /\ RowsStay
<1>1. CASE LoggerFind
  <2> DEFINE found == {e \in Events : Due(e)}
  <2>1. \A e \in found : outbox[e].status # "NONE"
    BY DEF Due
  <2>2. skim' = Restrict(outbox, found) /\ UNCHANGED <<outbox, batch, posting>>
    BY <1>1 DEF LoggerFind, rows
  <2> HIDE DEF found
  <2>3. found \in SUBSET Events
    BY DEF found
  <2>4. /\ DOMAIN skim' = found
        /\ \A e \in found : skim'[e] \in AnyRow /\ Copies(skim'[e], e)
    BY <2>1, <2>2, <2>3, FoundRows
  <2> QED
    BY <2>2, <2>3, <2>4 DEF OutboxType, RowsStay, Copies, Real
<1>2. CASE LoggerGivesUp
  BY <1>2 DEF LoggerGivesUp, OutboxType, RowsStay, Copies, Real, NoRows, rows
<1>3. ASSUME NEW e \in Events, LoggerMark(e) \/ LoggerMarkFails(e)
      PROVE  OutboxType' /\ RowsStay
  <2>1. /\ e \in DOMAIN skim /\ skim' = Without(skim, e)
        /\ UNCHANGED <<batch, posting>>
    BY <1>3 DEF LoggerMark, LoggerMarkFails
  <2>2. skim[e] \in AnyRow /\ Copies(skim[e], e)
    BY <2>1 DEF OutboxType
  <2>3. PICK r \in AnyRow : Copies(r, e) /\ outbox' = [outbox EXCEPT ![e] = r]
    <3>1. CASE LoggerMark(e)
      BY <2>2, <3>1, MarkedRow DEF LoggerMark, Copies, OutboxStatus
    <3>2. CASE LoggerMarkFails(e)
      <4>1. PICK n \in Nat : n = skim[e].retry + 1
        BY <2>2 DEF AnyRow
      <4>2. PICK d \in BOOLEAN : d = (n >= MaxRetry)
        <5>1. CASE n >= MaxRetry
          <6>1. TRUE = (n >= MaxRetry)
            BY <5>1
          <6> QED
            BY <6>1, Zenon
        <5>2. CASE ~ (n >= MaxRetry)
          <6>1. FALSE = (n >= MaxRetry)
            BY <5>2, PaymentsAssumption DEF PaymentsAssumption
          <6> QED
            BY <6>1, Zenon
        <5> QED
          BY <5>1, <5>2
      <4>3. PICK s \in OutboxStatus : s = IF d THEN "FAILED" ELSE "PUBLISHED"
        BY DEF OutboxStatus
      <4>4. PICK r : r = [skim[e] EXCEPT !.retry = @ + 1, !.status = s, !.due = d]
        OBVIOUS
      <4>5. r \in AnyRow /\ r.of = skim[e].of /\ r.type = skim[e].type
        BY <2>2, <4>4, FailedRow
      <4>6. outbox' = [outbox EXCEPT ![e] = r]
        BY <3>2, <4>1, <4>2, <4>3, <4>4 DEF LoggerMarkFails
      <4> QED
        BY <2>2, <4>5, <4>6 DEF Copies
    <3> QED
      BY <1>3, <3>1, <3>2
  <2>4. /\ RowsStay /\ outbox' \in [Events -> AnyRow \cup {NoEvent}]
        /\ \A row, f : f \in Events /\ Copies(row, f) => Copies(row, f)'
    BY <2>3, WriteBack
  <2>5. /\ DOMAIN skim' = DOMAIN skim \ {e}
        /\ \A f \in DOMAIN skim \ {e} : skim'[f] = skim[f]
    BY <2>1, WithoutRows
  <2> QED
    BY <2>1, <2>4, <2>5 DEF OutboxType
<1>4. ASSUME NEW e \in Events, Archive(e) PROVE OutboxType' /\ RowsStay
  <2>1. outbox[e] \in AnyRow /\ Copies(outbox[e], e)
    BY <1>4, DueIsReal, RealRow DEF Archive
  <2>2. PICK r \in AnyRow : Copies(r, e) /\ outbox' = [outbox EXCEPT ![e] = r]
    BY <1>4, <2>1, MarkedRow DEF Archive, Copies, OutboxStatus
  <2>3. UNCHANGED <<batch, skim, posting>>
    BY <1>4 DEF Archive, outboxJobs
  <2> QED
    BY <2>2, <2>3, WriteBack DEF OutboxType
<1> QED
  BY <1>1, <1>2, <1>3, <1>4 DEF Logger

LEMMA BackoffKeepsRows ==
  ASSUME OutboxType, NEW e \in Events, BackoffEnds(e)
  PROVE  OutboxType' /\ RowsStay
<1>1. outbox[e] \in AnyRow /\ Copies(outbox[e], e)
  BY DueIsReal, RealRow DEF BackoffEnds
<1>2. PICK r \in AnyRow : Copies(r, e) /\ outbox' = [outbox EXCEPT ![e] = r]
  BY <1>1, DueRow DEF BackoffEnds, Copies
<1>3. UNCHANGED <<batch, skim, posting>>
  BY DEF BackoffEnds, outboxJobs
<1> QED
  BY <1>2, <1>3, WriteBack DEF OutboxType

(* A new row is made of one that was unused, and no job knows it.          *)
LEMMA NewRow ==
  ASSUME OutboxType, NEW p \in Pays, NEW type \in {"INITIATED"} \cup Outcome,
         SaveToOutbox(p, type), UNCHANGED <<batch, skim, posting>>
  PROVE  /\ OutboxType'
         /\ \E e \in Events :
              /\ ~ Real(e) /\ Real(e)' /\ outbox'[e].of = p /\ outbox'[e].type = type
              /\ \A f \in Events : f # e => outbox'[f] = outbox[f]
<1> DEFINE row == [of |-> p, type |-> type, status |-> "PENDING", retry |-> 0, due |-> FALSE]
<1>1. PICK e \in Events : ~ Real(e) /\ outbox' = [outbox EXCEPT ![e] = row]
  BY DEF SaveToOutbox, Unused, Real
<1>2. row \in AnyRow /\ row.of = p /\ row.type = type
  BY DEF AnyRow, OutboxStatus
<1> HIDE DEF row
<1>3. row # NoEvent
  BY <1>2, RowIsReal
<1>4. /\ outbox' \in [Events -> AnyRow \cup {NoEvent}]
      /\ outbox'[e] = row /\ \A f \in Events : f # e => outbox'[f] = outbox[f]
  BY <1>1, <1>2 DEF OutboxType
<1>5. \A r, f : f \in Events /\ Copies(r, f) => Copies(r, f)'
  BY <1>1, <1>4 DEF Copies, Real
<1> QED
  BY <1>1, <1>2, <1>3, <1>4, <1>5 DEF OutboxType, Real

----------------------------------------------------------------------------
(* The payments and the requests.                                          *)

Creating == {"ask", "saveUrl", "saveFailed"}
Closing == {"saveOutcome", "queueOutcome"}

(* Only one request creates a payment, and until it has saved the URL the  *)
(* payer cannot answer; a callback comes after the answer.                 *)
GatewayInv ==
  /\ \A h \in Handlers :
       pc[h] \in Creating => gateway[job[h]] = "closed" /\ status[job[h]] # "NONE"
  /\ \A h, k \in Handlers :
       pc[h] \in Creating /\ pc[k] \in Creating /\ job[h] = job[k] => h = k
  /\ \A h \in Handlers : pc[h] \in Closing => gateway[job[h]] \in {"paid", "declined"}
  /\ \A p \in Pays : status[p] = "NONE" => gateway[p] = "closed"
  /\ \A p \in Pays : status[p] = "COMPLETED" => gateway[p] = "paid"

TrueRows ==
  \A e \in Events : Real(e) =>
    /\ outbox[e].type = "COMPLETED" => gateway[outbox[e].of] = "paid"
    /\ outbox[e].type = "FAILED" => gateway[outbox[e].of] = "declined"

HasEvent(p) ==
  \E e \in Events : Real(e) /\ outbox[e].of = p /\ outbox[e].type = "COMPLETED"

(* Without a failure, a payment is COMPLETED no longer than its request    *)
(* takes to queue the event.                                               *)
KeptInv ==
  faults = 0 =>
    \A p \in Pays : status[p] = "COMPLETED" =>
      HasEvent(p) \/ \E h \in Handlers : pc[h] = "queueOutcome" /\ job[h] = p

PaymentInv ==
  RequestType /\ OutboxType /\ PaymentType /\ GatewayInv /\ TrueRows /\ KeptInv

LEMMA PaymentInit == Init => PaymentInv
<1> SUFFICES ASSUME Init PROVE PaymentInv
  OBVIOUS
<1> USE DEF Init
<1>1. RequestType
  BY DEF RequestType, Labels
<1>2. OutboxType
  BY DEF OutboxType, NoRows, Resting
<1>3. PaymentType
  BY DEF PaymentType, Status
<1>4. GatewayInv /\ TrueRows /\ KeptInv
  BY DEF GatewayInv, TrueRows, KeptInv, Real, Creating, Closing
<1> QED
  BY <1>1, <1>2, <1>3, <1>4 DEF PaymentInv

(* The jobs on the outbox.                                                 *)
LEMMA OutboxStep ==
  ASSUME PaymentInv, OutboxType', RowsStay, UNCHANGED <<status, gateway, requests>>,
         faults' \in {faults, faults + 1}
  PROVE  PaymentInv'
<1>1. RequestType' /\ GatewayInv'
  BY DEF PaymentInv, RequestType, GatewayInv, requests
<1>2. PaymentType'
  BY DEF PaymentInv, PaymentType
<1>3. TrueRows'
  BY DEF PaymentInv, TrueRows, RowsStay
<1>4. KeptInv'
  <2> SUFFICES ASSUME faults' = 0, NEW p \in Pays, status[p] = "COMPLETED"
               PROVE  HasEvent(p)' \/ \E h \in Handlers : pc[h] = "queueOutcome" /\ job[h] = p
    BY DEF KeptInv, requests
  <2>1. faults = 0
    BY DEF PaymentInv, PaymentType
  <2>2. HasEvent(p) => HasEvent(p)'
    BY DEF HasEvent, RowsStay
  <2> QED
    BY <2>1, <2>2 DEF PaymentInv, KeptInv
<1> QED
  BY <1>1, <1>2, <1>3, <1>4 DEF PaymentInv

(* A step that leaves the outbox and its jobs alone.                       *)
LEMMA RowsUntouched ==
  ASSUME PaymentInv, UNCHANGED <<outbox, batch, skim, posting>>
  PROVE  /\ OutboxType'
         /\ \A p : HasEvent(p)' <=> HasEvent(p)
         /\ (\A p \in Pays : gateway[p] \in {"paid", "declined"} => gateway'[p] = gateway[p])
              => TrueRows'
<1>1. OutboxType'
  BY DEF PaymentInv, OutboxType, Copies, Real
<1>2. \A p : HasEvent(p)' <=> HasEvent(p)
  BY DEF HasEvent, Real
<1>3. ASSUME \A p \in Pays : gateway[p] \in {"paid", "declined"} => gateway'[p] = gateway[p]
      PROVE  TrueRows'
  <2>1. \A e \in Events : Real(e) => outbox[e].of \in Pays
    BY RealRow DEF PaymentInv, AnyRow
  <2> QED
    BY <1>3, <2>1 DEF PaymentInv, TrueRows, Real
<1> QED
  BY <1>1, <1>2, <1>3

LEMMA RequestStarts ==
  ASSUME PaymentInv, NEW h \in Handlers, NEW p \in Pays, Create(h, p) \/ Callback(h, p)
  PROVE  PaymentInv'
<1>1. /\ UNCHANGED <<status, gateway, outbox, batch, skim, posting, sweep, faults>>
      /\ \/ UNCHANGED <<pc, job>>
         \/ \E label \in {"insert", "saveOutcome"} :
              /\ pc[h] = "idle" /\ pc' = [pc EXCEPT ![h] = label] /\ job' = [job EXCEPT ![h] = p]
              /\ label = "saveOutcome" => gateway[p] \in {"paid", "declined"}
  BY DEF Create, Callback, Start, Refuse, rows, world, outboxJobs, requests
<1>2. OutboxType' /\ TrueRows' /\ \A q : HasEvent(q)' <=> HasEvent(q)
  BY <1>1, RowsUntouched
<1>3. RequestType'
  BY <1>1 DEF PaymentInv, RequestType, Labels
<1>4. PaymentType'
  BY <1>1 DEF PaymentInv, PaymentType
<1>5. GatewayInv'
  BY <1>1 DEF PaymentInv, RequestType, GatewayInv, Creating, Closing
<1>6. KeptInv'
  BY <1>1, <1>2 DEF PaymentInv, RequestType, KeptInv
<1> QED
  BY <1>2, <1>3, <1>4, <1>5, <1>6 DEF PaymentInv

(* The handlers that leave the outbox alone.                               *)
LEMMA CreationStep ==
  ASSUME PaymentInv, NEW h \in Handlers,
         CreateInsert(h) \/ CreateAsk(h) \/ CreateSaveFailed(h) \/ CreateSaveUrl(h)
  PROVE  PaymentInv'
<1>1. /\ UNCHANGED <<outbox, batch, skim, posting, sweep, faults>>
      /\ job[h] \in Pays /\ pc[h] \in Creating \cup {"insert"}
  BY DEF CreateInsert, CreateAsk, CreateSaveFailed, CreateSaveUrl, outboxJobs, rows, At,
         PaymentInv, RequestType, Creating
<1>2. \/ pc' = [pc EXCEPT ![h] = "idle"] /\ job' = [job EXCEPT ![h] = None]
      \/ /\ \E label \in Creating \cup {"queueInitiated"} : pc' = [pc EXCEPT ![h] = label]
         /\ job' = job
  BY DEF CreateInsert, CreateAsk, CreateSaveFailed, CreateSaveUrl, Goto, Finish, Creating
<1>3. RequestType'
  BY <1>1, <1>2 DEF PaymentInv, RequestType, Labels, Creating
<1>4. \A p \in Pays : gateway[p] \in {"paid", "declined"} => gateway'[p] = gateway[p]
  BY <1>1 DEF CreateInsert, CreateAsk, CreateSaveFailed, CreateSaveUrl, world, At,
              PaymentInv, PaymentType, GatewayInv, Creating
<1>5. OutboxType' /\ TrueRows' /\ \A q : HasEvent(q)' <=> HasEvent(q)
  BY <1>1, <1>4, RowsUntouched
<1>6. PaymentType'
  <2>1. status' \in [Pays -> Status] /\ gateway' \in [Pays -> {"closed", "open", "paid", "declined"}]
    BY <1>1 DEF CreateInsert, CreateAsk, CreateSaveFailed, CreateSaveUrl, world, rows,
                SaveStatus, PaymentInv, PaymentType, Status, Final
  <2> QED
    BY <1>1, <2>1 DEF PaymentInv, PaymentType
<1>7. GatewayInv'
  <2>1. CASE CreateInsert(h)
    BY <1>1, <2>1 DEF CreateInsert, Goto, Finish, SaveStatus, At, world, PaymentInv, RequestType,
                      PaymentType, GatewayInv, Creating, Closing, Status, Final
  <2>2. CASE CreateAsk(h)
    BY <1>1, <2>2 DEF CreateAsk, Goto, At, rows, world, PaymentInv, RequestType, GatewayInv,
                      Creating, Closing
  <2>3. CASE CreateSaveFailed(h)
    BY <1>1, <2>3 DEF CreateSaveFailed, Finish, SaveStatus, At, world, PaymentInv, RequestType,
                      PaymentType, GatewayInv, Creating, Closing, Status, Final
  <2>4. CASE CreateSaveUrl(h)
    BY <1>1, <2>4 DEF CreateSaveUrl, Goto, SaveStatus, At, PaymentInv, RequestType,
                      PaymentType, GatewayInv, Creating, Closing, Status, Final
  <2> QED
    BY <2>1, <2>2, <2>3, <2>4
<1>8. KeptInv'
  <2>1. \A p \in Pays : status'[p] = "COMPLETED" => status[p] = "COMPLETED"
    BY <1>1 DEF CreateInsert, CreateAsk, CreateSaveFailed, CreateSaveUrl, SaveStatus, rows,
                PaymentInv, PaymentType
  <2>2. \A k \in Handlers : pc[k] = "queueOutcome" => pc'[k] = "queueOutcome" /\ job'[k] = job[k]
    BY <1>1, <1>2 DEF PaymentInv, RequestType, Creating
  <2> QED
    BY <1>1, <1>5, <2>1, <2>2 DEF PaymentInv, KeptInv
<1> QED
  BY <1>3, <1>5, <1>6, <1>7, <1>8 DEF PaymentInv

LEMMA CallbackSaves ==
  ASSUME PaymentInv, NEW h \in Handlers, CallbackSave(h)
  PROVE  PaymentInv'
<1>1. /\ UNCHANGED <<gateway, outbox, batch, skim, posting, sweep, faults, job>>
      /\ pc[h] = "saveOutcome" /\ pc' = [pc EXCEPT ![h] = "queueOutcome"]
      /\ job[h] \in Pays
      /\ status' = [status EXCEPT ![job[h]] = OutcomeOf(job[h])]
  BY DEF CallbackSave, At, Goto, SaveStatus, world, outboxJobs, PaymentInv, RequestType
<1>2. OutboxType' /\ TrueRows' /\ \A q : HasEvent(q)' <=> HasEvent(q)
  BY <1>1, RowsUntouched
<1>3. RequestType'
  BY <1>1 DEF PaymentInv, RequestType, Labels
<1>4. PaymentType'
  BY <1>1 DEF PaymentInv, PaymentType, OutcomeOf, Status, Final
<1>5. GatewayInv'
  BY <1>1 DEF PaymentInv, RequestType, PaymentType, GatewayInv, Creating, Closing, OutcomeOf
<1>6. KeptInv'
  BY <1>1, <1>2 DEF PaymentInv, RequestType, PaymentType, KeptInv
<1> QED
  BY <1>2, <1>3, <1>4, <1>5, <1>6 DEF PaymentInv

(* The handlers that queue an event.                                       *)
LEMMA QueueStep ==
  ASSUME PaymentInv, NEW h \in Handlers, CreateQueueInitiated(h) \/ CallbackQueue(h)
  PROVE  PaymentInv'
<1> DEFINE p == job[h]
<1>1. /\ UNCHANGED <<status, gateway, batch, skim, posting, sweep, faults>>
      /\ p \in Pays /\ pc[h] # "idle" /\ pc[h] \notin Creating
      /\ pc' = [pc EXCEPT ![h] = "idle"] /\ job' = [job EXCEPT ![h] = None]
  BY DEF CreateQueueInitiated, CallbackQueue, At, Finish, world, outboxJobs, PaymentInv,
         RequestType, Creating
<1>2. PICK type \in {"INITIATED"} \cup Outcome :
        /\ SaveToOutbox(p, type)
        /\ type = "COMPLETED" => gateway[p] = "paid"
        /\ type = "FAILED" => gateway[p] = "declined"
        /\ pc[h] = "queueOutcome" => type = OutcomeOf(p)
  BY <1>1 DEF CreateQueueInitiated, CallbackQueue, At, OutcomeOf, Outcome, PaymentInv,
              GatewayInv, Closing
<1>3. OutboxType
  BY DEF PaymentInv
<1>4. /\ OutboxType'
      /\ \E e \in Events :
           /\ ~ Real(e) /\ Real(e)' /\ outbox'[e].of = p /\ outbox'[e].type = type
           /\ \A f \in Events : f # e => outbox'[f] = outbox[f]
  BY <1>1, <1>2, <1>3, NewRow
<1>5. RequestType' /\ PaymentType'
  BY <1>1 DEF PaymentInv, RequestType, PaymentType, Labels
<1>6. GatewayInv'
  BY <1>1 DEF PaymentInv, RequestType, GatewayInv, Creating, Closing
<1>7. TrueRows'
  BY <1>1, <1>2, <1>4 DEF PaymentInv, TrueRows, Real
<1>8. KeptInv'
  <2> SUFFICES ASSUME faults = 0, NEW q \in Pays, status[q] = "COMPLETED"
               PROVE  \/ HasEvent(q)'
                      \/ \E k \in Handlers : pc'[k] = "queueOutcome" /\ job'[k] = q
    BY <1>1 DEF KeptInv
  <2>1. CASE HasEvent(q)
    BY <1>4, <2>1 DEF HasEvent, Real
  <2>2. ASSUME NEW k \in Handlers, pc[k] = "queueOutcome", job[k] = q
        PROVE  HasEvent(q)' \/ (pc'[k] = "queueOutcome" /\ job'[k] = q)
    <3>1. CASE k = h
      <4>1. type = "COMPLETED"
        BY <1>2, <2>2, <3>1 DEF PaymentInv, GatewayInv, OutcomeOf
      <4> QED
        BY <1>4, <2>2, <3>1, <4>1 DEF HasEvent
    <3>2. CASE k # h
      BY <1>1, <2>2, <3>2 DEF PaymentInv, RequestType
    <3> QED
      BY <3>1, <3>2
  <2> QED
    BY <2>1, <2>2 DEF PaymentInv, KeptInv
<1> QED
  BY <1>4, <1>5, <1>6, <1>7, <1>8 DEF PaymentInv

(* The payer, and time.                                                    *)
LEMMA WorldStep ==
  ASSUME PaymentInv, NEW p \in Pays,
         (\E answer \in {"paid", "declined"} : Pay(p, answer)) \/ GetsLate(p)
           \/ ExpireSave(p)
  PROVE  PaymentInv'
<1>1. UNCHANGED <<outbox, batch, skim, posting, pc, job, faults>>
  BY DEF Pay, GetsLate, ExpireSave, rows, outboxJobs, requests
<1>2. \/ UNCHANGED <<status, gateway>>
      \/ status' = [status EXCEPT ![p] = "EXPIRED"] /\ gateway' = gateway
      \/ /\ gateway[p] = "open" /\ status' = status
         /\ \E answer \in {"paid", "declined"} : gateway' = [gateway EXCEPT ![p] = answer]
  BY DEF Pay, GetsLate, ExpireSave, rows, world, SaveStatus
<1>3. \A q \in Pays : gateway[q] \in {"paid", "declined"} => gateway'[q] = gateway[q]
  BY <1>2 DEF PaymentInv, PaymentType
<1>4. OutboxType' /\ TrueRows' /\ \A q : HasEvent(q)' <=> HasEvent(q)
  BY <1>1, <1>3, RowsUntouched
<1>5. RequestType'
  BY <1>1 DEF PaymentInv, RequestType
<1>6. PaymentType'
  BY <1>1, <1>2 DEF PaymentInv, PaymentType, Status, Final
<1>7. GatewayInv'
  BY <1>1, <1>2 DEF PaymentInv, PaymentType, RequestType, GatewayInv, Creating, Closing
<1>8. KeptInv'
  BY <1>1, <1>2, <1>4 DEF PaymentInv, PaymentType, KeptInv
<1> QED
  BY <1>4, <1>5, <1>6, <1>7, <1>8 DEF PaymentInv

(* Failing calls, and the crash.                                           *)
LEMMA FailureStep ==
  ASSUME PaymentInv, (\E h \in Handlers : Abort(h)) \/ ExpireGivesUp \/ Crash
  PROVE  PaymentInv'
<1>1. /\ UNCHANGED <<outbox, status, gateway>> /\ faults' = faults + 1
      /\ \/ UNCHANGED <<batch, skim, posting>>
         \/ batch' = NoRows /\ skim' = NoRows /\ posting' = Resting
  BY DEF Abort, ExpireGivesUp, Crash, rows, world, outboxJobs
<1>2. /\ pc' \in [Handlers -> Labels] /\ job' \in [Handlers -> Pays \cup {None}]
      /\ \A h \in Handlers : pc'[h] # "idle" => pc'[h] = pc[h] /\ job'[h] = job[h]
  BY DEF Abort, ExpireGivesUp, Crash, Finish, requests, PaymentInv, RequestType, Labels
<1>3. OutboxType'
  BY <1>1 DEF PaymentInv, OutboxType, Copies, Real, NoRows, Resting
<1>4. RequestType'
  BY <1>2 DEF PaymentInv, RequestType
<1>5. PaymentType' /\ faults' # 0
  BY <1>1 DEF PaymentInv, PaymentType
<1>6. GatewayInv'
  BY <1>1, <1>2 DEF PaymentInv, GatewayInv, Creating, Closing
<1>7. TrueRows'
  BY <1>1 DEF PaymentInv, TrueRows, Real
<1> QED
  BY <1>3, <1>4, <1>5, <1>6, <1>7 DEF PaymentInv, KeptInv

LEMMA PaymentStep == PaymentInv /\ [Next]_vars => PaymentInv'
<1> SUFFICES ASSUME PaymentInv, [Next]_vars PROVE PaymentInv'
  OBVIOUS
<1>1. ASSUME NEW h \in Handlers, NEW p \in Pays, Create(h, p) \/ Callback(h, p)
      PROVE  PaymentInv'
  BY <1>1, RequestStarts
<1>2. ASSUME NEW h \in Handlers, Serve(h)
      PROVE  PaymentInv'
  BY <1>2, CreationStep, CallbackSaves, QueueStep DEF Serve
<1>3. ASSUME (\E h \in Handlers : Abort(h)) \/ ExpireGivesUp \/ Crash
      PROVE  PaymentInv'
  BY <1>3, FailureStep
<1>4. ASSUME NEW p \in Pays,
             (\E answer \in {"paid", "declined"} : Pay(p, answer)) \/ GetsLate(p) \/ ExpireSave(p)
      PROVE  PaymentInv'
  BY <1>4, WorldStep
<1>5. CASE ExpireFind
  <2>1. OutboxType' /\ TrueRows' /\ \A q : HasEvent(q)' <=> HasEvent(q)
    BY <1>5, RowsUntouched DEF ExpireFind, rows, world, outboxJobs
  <2> QED
    BY <1>5, <2>1 DEF ExpireFind, rows, world, requests, PaymentInv, PaymentType, RequestType,
                      GatewayInv, KeptInv
<1>6. CASE Publisher \/ Logger \/ \E e \in Events : BackoffEnds(e)
  <2>1. OutboxType
    BY DEF PaymentInv
  <2>2. OutboxType' /\ RowsStay
    BY <1>6, <2>1, PublisherKeepsRows, LoggerKeepsRows, BackoffKeepsRows
  <2>3. UNCHANGED <<status, gateway, requests>> /\ faults' \in {faults, faults + 1}
    BY <1>6 DEF Publisher, Logger, BackoffEnds, PublisherFind, PublisherGivesUp, PublisherSend,
                PublisherSendFails, PublisherMark, PublisherMarkFails, PublisherMarkFailed,
                LoggerFind, LoggerGivesUp, LoggerMark, LoggerMarkFails, Archive, rows, world
  <2> QED
    BY <2>2, <2>3, OutboxStep
<1>7. CASE UNCHANGED vars
  <2>1. OutboxType' /\ RowsStay
    BY <1>7 DEF vars, rows, outboxJobs, PaymentInv, OutboxType, Copies, Real, RowsStay
  <2> QED
    BY <1>7, <2>1, OutboxStep DEF vars, rows, world, requests
<1> QED
  BY <1>1, <1>2, <1>3, <1>4, <1>5, <1>6, <1>7 DEF Next

THEOREM PaymentsKeepInv == Spec => []PaymentInv
BY PaymentInit, PaymentStep, PTL DEF Spec

(***************************************************************************)
(* However callbacks, the expiry job, failing creations and crashes        *)
(* overwrite one another's rows, a payment is COMPLETED, and an event says *)
(* COMPLETED or FAILED, only as the gateway reported.                      *)
(***************************************************************************)
THEOREM OutcomesFollowGateway == Spec => []OutcomesAreTrue
<1>1. PaymentInv => OutcomesAreTrue
  BY DEF PaymentInv, GatewayInv, TrueRows, Real, Queued, OutcomesAreTrue
<1> QED
  BY <1>1, PaymentsKeepInv, PTL

(***************************************************************************)
(* A COMPLETED payment without its event takes a failure: no overlap of    *)
(* the return URL, the IPN and the expiry job alone loses it.              *)
(***************************************************************************)
THEOREM EventsOutliveOverlaps == Spec => []OnlyFaultsLoseEvents
<1>1. PaymentInv => OnlyFaultsLoseEvents
  BY DEF PaymentInv, KeptInv, HasEvent, Real, Busy, Queued, OnlyFaultsLoseEvents,
         CompletedIsQueued
<1> QED
  BY <1>1, PaymentsKeepInv, PTL

----------------------------------------------------------------------------
(* The lifecycle, in the mode that keeps callbacks and expiry apart.       *)

Tells(e) == Real(e) /\ outbox[e].type \in Outcome

(* Whoever is about to save an outcome finds the payment PENDING: requests *)
(* that create it are done before it is late, one callback at a time works *)
(* on it, and the expiry job does not.                                     *)
AloneInv ==
  /\ \A p \in late : status[p] # "NONE"
  /\ \A h \in Handlers : pc[h] \in Creating \cup {"insert"} => job[h] \notin late
  /\ \A h \in Handlers : pc[h] \in Creating \cup {"saveOutcome"} => status[job[h]] = "PENDING"
  /\ \A g, h \in Handlers : pc[g] \in Closing /\ pc[h] \in Closing /\ job[g] = job[h] => g = h
  /\ \A p \in sweep : /\ p \in late /\ status[p] = "PENDING"
                      /\ \A h \in Handlers : job[h] = p => pc[h] \notin Closing

(* One row tells of an outcome, the one the payment has.                   *)
NewsInv ==
  /\ \A e \in Events : Tells(e) => status[outbox[e].of] = outbox[e].type
  /\ \A d, e \in Events : Tells(d) /\ Tells(e) /\ outbox[d].of = outbox[e].of => d = e
  /\ \A h \in Handlers : pc[h] = "queueOutcome" =>
       /\ status[job[h]] = OutcomeOf(job[h])
       /\ \A e \in Events : Tells(e) => outbox[e].of # job[h]

SentInv ==
  /\ mode \in Modes /\ sent \in [Events -> Nat] /\ late \subseteq Pays /\ sweep \subseteq Pays
  /\ \A e \in Events : ~ Real(e) => sent[e] = 0

LifeInv == SentInv /\ (mode.apart => AloneInv /\ NewsInv)

LEMMA LifeInit == Init => LifeInv
BY PaymentsAssumption DEF Init, LifeInv, SentInv, AloneInv, NewsInv, Tells, Real, Creating, Closing

(* A step of the jobs on the outbox, or none.                              *)
LEMMA LifeOutbox ==
  ASSUME LifeInv, RowsStay, UNCHANGED <<status, world, requests, sweep>>,
         sent' \in [Events -> Nat], \A e \in Events : ~ Real(e) => sent'[e] = sent[e]
  PROVE  LifeInv'
<1>2. SentInv'
  BY DEF LifeInv, SentInv, RowsStay, world
<1>3. AloneInv => AloneInv'
  BY DEF AloneInv, world, requests
<1>4. ASSUME NewsInv PROVE NewsInv'
  <2>1. \A e \in Events : Tells(e)' => status'[outbox'[e].of] = outbox'[e].type
    BY <1>4 DEF NewsInv, Tells, RowsStay
  <2>2. \A d, e \in Events : Tells(d)' /\ Tells(e)' /\ outbox'[d].of = outbox'[e].of => d = e
    BY <1>4 DEF NewsInv, Tells, RowsStay
  <2>3. \A h \in Handlers : pc'[h] = "queueOutcome" =>
          /\ (status[job[h]] = OutcomeOf(job[h]))'
          /\ \A e \in Events : Tells(e)' => outbox'[e].of # job'[h]
    BY <1>4 DEF NewsInv, Tells, RowsStay, OutcomeOf, world, requests
  <2> QED
    BY <2>1, <2>2, <2>3 DEF NewsInv
<1> QED
  BY <1>2, <1>3, <1>4 DEF LifeInv, world

(* A step that leaves the outbox alone: what it has to keep.               *)
LEMMA LifeKept ==
  ASSUME LifeInv, UNCHANGED <<outbox, sent, mode>>, late' \subseteq Pays, sweep' \subseteq Pays,
         mode.apart => AloneInv',
         mode.apart => \A e \in Events : Tells(e) => status'[outbox[e].of] = status[outbox[e].of],
         mode.apart => \A h \in Handlers : pc'[h] = "queueOutcome" =>
           /\ (status[job[h]] = OutcomeOf(job[h]))'
           /\ \A e \in Events : Tells(e) => outbox[e].of # job'[h]
  PROVE  LifeInv'
<1>1. \A e \in Events : Tells(e)' => Tells(e)
  BY DEF Tells, Real
<1>2. SentInv'
  BY DEF LifeInv, SentInv, Real
<1>3. mode.apart => NewsInv'
  BY <1>1 DEF LifeInv, NewsInv
<1> QED
  BY <1>2, <1>3 DEF LifeInv

LEMMA LifeStarts ==
  ASSUME PaymentInv, LifeInv, NEW h \in Handlers, NEW p \in Pays, Create(h, p) \/ Callback(h, p)
  PROVE  LifeInv'
<1>1. UNCHANGED <<status, gateway, late, mode, outbox, sent, sweep>>
  BY DEF Create, Callback, rows, world, outboxJobs
<1>2. CASE UNCHANGED <<pc, job>>
  BY <1>1, <1>2, LifeKept DEF LifeInv, SentInv, AloneInv, NewsInv, OutcomeOf
<1>3. CASE Start(h, p, "insert") /\ status[p] = "NONE"
  <2>1. /\ pc[h] = "idle" /\ pc' = [pc EXCEPT ![h] = "insert"] /\ job' = [job EXCEPT ![h] = p]
        /\ pc \in [Handlers -> Labels] /\ job \in [Handlers -> Pays \cup {None}]
    BY <1>3 DEF Start, PaymentInv, RequestType
  <2>2. mode.apart => AloneInv'
    BY <1>1, <1>3, <2>1 DEF LifeInv, AloneInv, Creating, Closing
  <2>3. mode.apart => \A k \in Handlers : pc'[k] = "queueOutcome" =>
           /\ (status[job[k]] = OutcomeOf(job[k]))'
           /\ \A e \in Events : Tells(e) => outbox[e].of # job'[k]
    BY <1>1, <2>1 DEF LifeInv, NewsInv, OutcomeOf
  <2> QED
    BY <1>1, <2>2, <2>3, LifeKept DEF LifeInv, SentInv
<1>4. CASE Callback(h, p) /\ Start(h, p, "saveOutcome") /\ status[p] = "PENDING"
  <2>1. /\ pc[h] = "idle" /\ pc' = [pc EXCEPT ![h] = "saveOutcome"] /\ job' = [job EXCEPT ![h] = p]
        /\ pc \in [Handlers -> Labels] /\ job \in [Handlers -> Pays \cup {None}]
    BY <1>4 DEF Start, PaymentInv, RequestType
  <2>2. mode.apart => p \notin sweep /\ \A k \in Handlers : job[k] = p => pc[k] \notin Closing
    BY <1>4 DEF Callback, Answering, Closing
  <2>3. mode.apart => AloneInv'
    BY <1>1, <1>4, <2>1, <2>2 DEF LifeInv, AloneInv, Creating, Closing
  <2>4. mode.apart => \A k \in Handlers : pc'[k] = "queueOutcome" =>
           /\ (status[job[k]] = OutcomeOf(job[k]))'
           /\ \A e \in Events : Tells(e) => outbox[e].of # job'[k]
    BY <1>1, <2>1 DEF LifeInv, NewsInv, OutcomeOf
  <2> QED
    BY <1>1, <2>3, <2>4, LifeKept DEF LifeInv, SentInv
<1> QED
  BY <1>2, <1>3, <1>4 DEF Create, Callback, Refuse, requests

LEMMA LifeCreation ==
  ASSUME PaymentInv, LifeInv, NEW h \in Handlers,
         CreateInsert(h) \/ CreateAsk(h) \/ CreateSaveFailed(h) \/ CreateSaveUrl(h)
  PROVE  LifeInv'
<1>1. /\ UNCHANGED <<outbox, sent, mode, late, sweep>>
      /\ job[h] \in Pays /\ pc[h] \in Creating \cup {"insert"}
      /\ pc \in [Handlers -> Labels] /\ job \in [Handlers -> Pays \cup {None}]
      /\ status \in [Pays -> Status]
  BY DEF CreateInsert, CreateAsk, CreateSaveFailed, CreateSaveUrl, outboxJobs, rows, world, At,
         PaymentInv, RequestType, PaymentType, Creating
<1>2. \/ pc' = [pc EXCEPT ![h] = "idle"] /\ job' = [job EXCEPT ![h] = None]
      \/ /\ \E label \in Creating \cup {"queueInitiated"} : pc' = [pc EXCEPT ![h] = label]
         /\ job' = job
  BY DEF CreateInsert, CreateAsk, CreateSaveFailed, CreateSaveUrl, Goto, Finish, Creating
<1>3. \A k \in Handlers : pc'[k] \in Closing => k # h /\ pc'[k] = pc[k] /\ job'[k] = job[k]
  BY <1>1, <1>2 DEF Creating, Closing
(* Nobody else works on the payment.                                       *)
<1>4. /\ \A p \in Pays : p # job[h] => status'[p] = status[p] /\ gateway'[p] = gateway[p]
      /\ \A k \in Handlers : pc[k] \in Closing => job[k] \in Pays
  BY <1>1 DEF CreateInsert, CreateAsk, CreateSaveFailed, CreateSaveUrl, SaveStatus, world, rows,
              PaymentInv, PaymentType, RequestType, Closing
<1>5. ASSUME pc[h] \in Creating
      PROVE  \A k \in Handlers : k # h /\ pc[k] \in Creating \cup Closing => job[k] # job[h]
  BY <1>5 DEF PaymentInv, GatewayInv
<1>n. ASSUME status[job[h]] = "NONE"
      PROVE  \A k \in Handlers : pc[k] \in Creating \cup Closing => job[k] # job[h]
  BY <1>1, <1>n DEF PaymentInv, GatewayInv
<1>6. ASSUME mode.apart
      PROVE  /\ status[job[h]] \in {"NONE", "PENDING"} \/ UNCHANGED <<status, gateway>>
             /\ pc'[h] \in Creating => status'[job[h]] = "PENDING"
             /\ status'[job[h]] # "NONE" \/ UNCHANGED status
             /\ job[h] \notin late
  <2>1. AloneInv
    BY <1>6 DEF LifeInv
  <2>3. CASE CreateInsert(h)
    BY <1>1, <2>1, <2>3 DEF CreateInsert, SaveStatus, Goto, Finish, AloneInv, Creating, world
  <2>4. CASE CreateAsk(h)
    BY <1>1, <2>1, <2>4 DEF CreateAsk, Goto, At, AloneInv, Creating, rows, world
  <2>5. CASE CreateSaveFailed(h)
    BY <1>1, <2>1, <2>5 DEF CreateSaveFailed, SaveStatus, Finish, At, AloneInv, Creating
  <2>6. CASE CreateSaveUrl(h)
    BY <1>1, <2>1, <2>6 DEF CreateSaveUrl, SaveStatus, Goto, At, AloneInv, Creating
  <2> QED
    BY <2>3, <2>4, <2>5, <2>6
<1>7. ASSUME mode.apart
      PROVE  \A k \in Handlers : k # h /\ pc[k] \in Creating \cup Closing =>
               /\ status'[job[k]] = status[job[k]]
               /\ gateway'[job[k]] = gateway[job[k]]
  <2>1. CASE pc[h] \in Creating
    <3>1. \A k \in Handlers : k # h /\ pc[k] \in Creating \cup Closing => job[k] # job[h]
      BY <1>5, <2>1
    <3>2. \A k \in Handlers : pc[k] \in Creating \cup Closing => job[k] \in Pays
      BY DEF PaymentInv, RequestType, Creating, Closing
    <3> QED
      BY <1>4, <3>1, <3>2
  <2>2. CASE pc[h] = "insert"
    <3>1. CreateInsert(h) /\ gateway' = gateway
      BY <2>2 DEF CreateInsert, CreateAsk, CreateSaveFailed, CreateSaveUrl, At, world
    <3>2. CASE status[job[h]] = "NONE"
      <4>1. \A k \in Handlers : pc[k] \in Creating \cup Closing => job[k] # job[h]
        BY <1>n, <3>2
      <4>2. \A k \in Handlers : pc[k] \in Creating \cup Closing => job[k] \in Pays
        BY DEF PaymentInv, RequestType, Creating, Closing
      <4> QED
        BY <1>4, <4>1, <4>2
    <3>3. CASE status[job[h]] # "NONE"
      BY <3>1, <3>3 DEF CreateInsert
    <3> QED
      BY <3>2, <3>3
  <2> QED
    BY <1>1, <2>1, <2>2
<1>8. mode.apart => AloneInv'
  <2> SUFFICES ASSUME mode.apart, AloneInv PROVE AloneInv'
    BY DEF LifeInv
  <2>1. \A p \in late : status'[p] # "NONE"
    BY <1>1, <1>4, <1>6 DEF AloneInv, LifeInv, SentInv
  <2>2. \A k \in Handlers : pc'[k] \in Creating \cup {"insert"} => job'[k] \notin late'
    BY <1>1, <1>2 DEF AloneInv, Creating
  <2>3. \A k \in Handlers : pc'[k] \in Creating \cup {"saveOutcome"} => status'[job'[k]] = "PENDING"
    <3>1. \A k \in Handlers : k # h => pc'[k] = pc[k] /\ job'[k] = job[k]
      BY <1>1, <1>2
    <3>2. ASSUME NEW k \in Handlers, k # h, pc[k] \in Creating \cup {"saveOutcome"}
          PROVE  status'[job[k]] = "PENDING"
      BY <1>7, <3>2 DEF AloneInv, Closing
    <3>3. pc'[h] \in Creating => job'[h] = job[h]
      BY <1>1, <1>2 DEF Creating
    <3>4. pc'[h] # "saveOutcome"
      BY <1>3 DEF Closing
    <3> QED
      BY <1>6, <3>1, <3>2, <3>3, <3>4
  <2>4. \A f, g \in Handlers : pc'[f] \in Closing /\ pc'[g] \in Closing /\ job'[f] = job'[g] => f = g
    BY <1>3 DEF AloneInv
  <2>5. \A p \in sweep : /\ p \in late /\ status'[p] = "PENDING"
                        /\ \A k \in Handlers : job'[k] = p => pc'[k] \notin Closing
    BY <1>3, <1>4, <1>6 DEF AloneInv, LifeInv, SentInv
  <2> QED
    BY <1>1, <2>1, <2>2, <2>3, <2>4, <2>5 DEF AloneInv
<1>9. mode.apart => \A e \in Events : Tells(e) => status'[outbox[e].of] = status[outbox[e].of]
  <2> SUFFICES ASSUME mode.apart, NEW e \in Events, Tells(e)
               PROVE  status'[outbox[e].of] = status[outbox[e].of]
    OBVIOUS
  <2>1. outbox[e].of \in Pays /\ status[outbox[e].of] \in Outcome
    BY RealRow DEF LifeInv, NewsInv, Tells, PaymentInv, AnyRow
  <2> QED
    BY <1>4, <1>6, <2>1 DEF Outcome
<1>10. mode.apart => \A k \in Handlers : pc'[k] = "queueOutcome" =>
         /\ (status[job[k]] = OutcomeOf(job[k]))'
         /\ \A e \in Events : Tells(e) => outbox[e].of # job'[k]
  <2> SUFFICES ASSUME mode.apart, NEW k \in Handlers, pc'[k] = "queueOutcome"
               PROVE  /\ (status[job[k]] = OutcomeOf(job[k]))'
                      /\ \A e \in Events : Tells(e) => outbox[e].of # job'[k]
    OBVIOUS
  <2>1. k # h /\ pc[k] = "queueOutcome" /\ job'[k] = job[k]
    BY <1>3 DEF Closing
  <2>2. status'[job[k]] = status[job[k]] /\ gateway'[job[k]] = gateway[job[k]]
    BY <1>7, <2>1 DEF Closing
  <2> QED
    BY <2>1, <2>2 DEF LifeInv, NewsInv, OutcomeOf
<1> QED
  BY <1>1, <1>8, <1>9, <1>10, LifeKept DEF LifeInv, SentInv

LEMMA LifeCallback ==
  ASSUME PaymentInv, LifeInv, NEW h \in Handlers, CallbackSave(h)
  PROVE  LifeInv'
<1>1. /\ UNCHANGED <<outbox, sent, mode, late, sweep, gateway, job>>
      /\ pc[h] = "saveOutcome" /\ pc' = [pc EXCEPT ![h] = "queueOutcome"]
      /\ job[h] \in Pays /\ status' = [status EXCEPT ![job[h]] = OutcomeOf(job[h])]
      /\ pc \in [Handlers -> Labels] /\ status \in [Pays -> Status]
  BY DEF CallbackSave, At, Goto, SaveStatus, world, outboxJobs, PaymentInv, RequestType, PaymentType
<1> SUFFICES ASSUME mode.apart => AloneInv /\ NewsInv /\ status[job[h]] = "PENDING" PROVE LifeInv'
  BY <1>1 DEF LifeInv, AloneInv
<1>2. mode.apart => \A k \in Handlers : k # h /\ pc[k] \in Creating \cup Closing =>
        job[k] # job[h] /\ job[k] \in Pays
  BY <1>1 DEF AloneInv, PaymentInv, RequestType, GatewayInv, Creating, Closing
<1>3. OutcomeOf(job[h]) \in Outcome
  BY DEF OutcomeOf, Outcome
<1>4. mode.apart => AloneInv'
  <2> SUFFICES ASSUME mode.apart, AloneInv PROVE AloneInv'
    OBVIOUS
  <2>1. \A p \in late : status'[p] # "NONE"
    BY <1>1, <1>3 DEF AloneInv, LifeInv, SentInv, Outcome
  <2>2. \A k \in Handlers : pc'[k] \in Creating \cup {"insert"} => job'[k] \notin late'
    BY <1>1 DEF AloneInv, Creating
  <2>3. \A k \in Handlers : pc'[k] \in Creating \cup {"saveOutcome"} => status'[job'[k]] = "PENDING"
    BY <1>1, <1>2 DEF AloneInv, Creating, Closing
  <2>4. \A f, g \in Handlers : pc'[f] \in Closing /\ pc'[g] \in Closing /\ job'[f] = job'[g] => f = g
    BY <1>1 DEF AloneInv, Closing
  <2>5. \A p \in sweep : p # job[h]
    BY <1>1 DEF AloneInv, Closing
  <2>6. \A p \in sweep : /\ p \in late /\ status'[p] = "PENDING"
                        /\ \A k \in Handlers : job'[k] = p => pc'[k] \notin Closing
    BY <1>1, <2>5 DEF AloneInv, LifeInv, SentInv, Closing
  <2> QED
    BY <1>1, <2>1, <2>2, <2>3, <2>4, <2>6 DEF AloneInv
<1>5. mode.apart => \A e \in Events : Tells(e) => outbox[e].of # job[h]
  BY DEF NewsInv, Tells, Outcome
<1>6. mode.apart => \A e \in Events : Tells(e) => status'[outbox[e].of] = status[outbox[e].of]
  <2>1. \A e \in Events : Tells(e) => outbox[e].of \in Pays
    BY RealRow DEF Tells, PaymentInv, AnyRow
  <2> QED
    BY <1>1, <1>5, <2>1
<1>7. mode.apart => \A k \in Handlers : pc'[k] = "queueOutcome" =>
         /\ (status[job[k]] = OutcomeOf(job[k]))'
         /\ \A e \in Events : Tells(e) => outbox[e].of # job'[k]
  BY <1>1, <1>2, <1>5 DEF NewsInv, OutcomeOf, Closing
<1> QED
  BY <1>1, <1>4, <1>6, <1>7, LifeKept DEF LifeInv, SentInv

LEMMA LifeQueue ==
  ASSUME PaymentInv, LifeInv, NEW h \in Handlers, CreateQueueInitiated(h) \/ CallbackQueue(h)
  PROVE  LifeInv'
<1> DEFINE p == job[h]
<1>1. /\ UNCHANGED <<status, gateway, batch, skim, posting, sweep, sent, mode, late>>
      /\ p \in Pays /\ pc[h] \in {"queueInitiated", "queueOutcome"}
      /\ pc' = [pc EXCEPT ![h] = "idle"] /\ job' = [job EXCEPT ![h] = None]
      /\ pc \in [Handlers -> Labels] /\ job \in [Handlers -> Pays \cup {None}]
  BY DEF CreateQueueInitiated, CallbackQueue, At, Finish, world, outboxJobs, PaymentInv, RequestType
<1>2. PICK type \in {"INITIATED"} \cup Outcome :
        /\ SaveToOutbox(p, type)
        /\ \/ pc[h] = "queueInitiated" /\ type = "INITIATED"
           \/ pc[h] = "queueOutcome" /\ type = OutcomeOf(p)
  BY <1>1 DEF CreateQueueInitiated, CallbackQueue, At, OutcomeOf, Outcome
<1>3. PICK e \in Events :
        /\ ~ Real(e) /\ Real(e)' /\ outbox'[e].of = p /\ outbox'[e].type = type
        /\ \A f \in Events : f # e => outbox'[f] = outbox[f]
  <2>1. OutboxType
    BY DEF PaymentInv
  <2> QED
    BY <1>1, <1>2, <2>1, NewRow
<1>4. SentInv'
  BY <1>1, <1>3 DEF LifeInv, SentInv, Real
<1>5. ASSUME AloneInv PROVE AloneInv'
  BY <1>1, <1>5 DEF AloneInv, Creating, Closing
<1>6. ASSUME AloneInv, NewsInv PROVE NewsInv'
  <2>1. \A f \in Events : f # e => (Tells(f)' => Tells(f)) /\ outbox'[f] = outbox[f]
    BY <1>3 DEF Tells, Real
  <2>2. Tells(e)' => /\ pc[h] = "queueOutcome" /\ status[p] = type
                     /\ \A f \in Events : Tells(f) => outbox[f].of # p
    BY <1>2, <1>3, <1>6 DEF Tells, Outcome, NewsInv
  <2>3. ASSUME NEW k \in Handlers, pc'[k] = "queueOutcome"
        PROVE  k # h /\ pc[k] = "queueOutcome" /\ job'[k] = job[k]
    BY <1>1, <2>3
  <2>4. ASSUME NEW k \in Handlers, pc'[k] = "queueOutcome", Tells(e)' PROVE job[k] # p
    BY <1>6, <2>2, <2>3, <2>4 DEF AloneInv, Closing
  <2>5. \A f \in Events : Tells(f)' => status'[outbox'[f].of] = outbox'[f].type
    BY <1>1, <1>3, <1>6, <2>1, <2>2 DEF NewsInv
  <2>6. \A d, f \in Events : Tells(d)' /\ Tells(f)' /\ outbox'[d].of = outbox'[f].of => d = f
    BY <1>3, <1>6, <2>1, <2>2 DEF NewsInv
  <2>7. ASSUME NEW k \in Handlers, pc'[k] = "queueOutcome"
        PROVE  /\ (status[job[k]] = OutcomeOf(job[k]))'
               /\ \A f \in Events : Tells(f)' => outbox'[f].of # job'[k]
    <3>1. status'[job'[k]] = status[job[k]] /\ gateway'[job'[k]] = gateway[job[k]]
      BY <1>1, <2>3, <2>7
    <3>2. status[job[k]] = OutcomeOf(job[k]) /\ \A f \in Events : Tells(f) => outbox[f].of # job[k]
      BY <1>6, <2>3, <2>7 DEF NewsInv
    <3> QED
      BY <1>3, <2>1, <2>3, <2>4, <2>7, <3>1, <3>2 DEF OutcomeOf
  <2> QED
    BY <2>5, <2>6, <2>7 DEF NewsInv
<1> QED
  BY <1>1, <1>4, <1>5, <1>6 DEF LifeInv

LEMMA LifeWorld ==
  ASSUME PaymentInv, LifeInv, NEW p \in Pays,
         (\E answer \in {"paid", "declined"} : Pay(p, answer)) \/ GetsLate(p) \/ ExpireSave(p)
  PROVE  LifeInv'
<1>1. UNCHANGED <<outbox, sent, mode, pc, job>> /\ status \in [Pays -> Status]
  BY DEF Pay, GetsLate, ExpireSave, rows, world, outboxJobs, requests, PaymentInv, PaymentType
<1>2. ASSUME NEW answer \in {"paid", "declined"}, Pay(p, answer) PROVE LifeInv'
  <2>1. /\ UNCHANGED <<status, late, sweep>> /\ gateway[p] = "open"
        /\ \A q : q # p => gateway'[q] = gateway[q]
    BY <1>2 DEF Pay, rows, PaymentInv, PaymentType
  <2>2. \A k \in Handlers : pc[k] \in Closing => job[k] # p
    BY <2>1 DEF PaymentInv, GatewayInv
  <2>3. mode.apart => AloneInv'
    BY <1>1, <2>1 DEF LifeInv, AloneInv
  <2>4. mode.apart => \A k \in Handlers : pc'[k] = "queueOutcome" =>
           /\ (status[job[k]] = OutcomeOf(job[k]))'
           /\ \A e \in Events : Tells(e) => outbox[e].of # job'[k]
    BY <1>1, <2>1, <2>2 DEF LifeInv, NewsInv, OutcomeOf, Closing
  <2> QED
    BY <1>1, <2>1, <2>3, <2>4, LifeKept DEF LifeInv, SentInv
<1>3. CASE GetsLate(p)
  <2>1. /\ UNCHANGED <<status, sweep, gateway>> /\ late' = late \cup {p} /\ status[p] # "NONE"
        /\ \A k \in Handlers : job[k] = p => pc[k] \in Closing
    BY <1>3 DEF GetsLate, rows, Closing
  <2>2. mode.apart => AloneInv'
    BY <1>1, <2>1 DEF LifeInv, AloneInv, Creating, Closing
  <2>3. mode.apart => \A k \in Handlers : pc'[k] = "queueOutcome" =>
           /\ (status[job[k]] = OutcomeOf(job[k]))'
           /\ \A e \in Events : Tells(e) => outbox[e].of # job'[k]
    BY <1>1, <2>1 DEF LifeInv, NewsInv, OutcomeOf
  <2> QED
    BY <1>1, <2>1, <2>2, <2>3, LifeKept DEF LifeInv, SentInv
<1>4. CASE ExpireSave(p)
  <2>1. /\ UNCHANGED <<late, gateway>> /\ p \in sweep /\ sweep' = sweep \ {p}
        /\ \A q \in Pays : q # p => status'[q] = status[q]
        /\ status'[p] = "EXPIRED"
    BY <1>1, <1>4 DEF ExpireSave, world, SaveStatus
  <2>2. mode.apart =>
          /\ status[p] = "PENDING" /\ p \in late
          /\ \A k \in Handlers : pc[k] \in Creating \cup Closing => job[k] # p /\ job[k] \in Pays
    BY <2>1 DEF LifeInv, AloneInv, PaymentInv, RequestType, Creating, Closing
  <2>3. mode.apart => AloneInv'
    <3> SUFFICES ASSUME mode.apart, AloneInv PROVE AloneInv'
      BY DEF LifeInv
    <3>1. \A q \in late : status'[q] # "NONE"
      BY <2>1 DEF AloneInv, LifeInv, SentInv
    <3>2. \A k \in Handlers : pc[k] \in Creating \cup {"saveOutcome"} => status'[job[k]] = "PENDING"
      BY <2>1, <2>2 DEF AloneInv, Closing
    <3>3. \A q \in sweep' : q \in late /\ status'[q] = "PENDING"
      BY <2>1 DEF AloneInv, LifeInv, SentInv
    <3> QED
      BY <1>1, <2>1, <3>1, <3>2, <3>3 DEF AloneInv
  <2>4. mode.apart => \A e \in Events : Tells(e) => status'[outbox[e].of] = status[outbox[e].of]
    <3>1. \A e \in Events : Tells(e) => outbox[e].of \in Pays
      BY RealRow DEF Tells, PaymentInv, AnyRow
    <3> QED
      BY <2>1, <2>2, <3>1 DEF LifeInv, NewsInv, Tells, Outcome
  <2>5. mode.apart => \A k \in Handlers : pc'[k] = "queueOutcome" =>
           /\ (status[job[k]] = OutcomeOf(job[k]))'
           /\ \A e \in Events : Tells(e) => outbox[e].of # job'[k]
    BY <1>1, <2>1, <2>2 DEF LifeInv, NewsInv, OutcomeOf, Closing
  <2> QED
    BY <1>1, <2>1, <2>3, <2>4, <2>5, LifeKept DEF LifeInv, SentInv
<1> QED
  BY <1>2, <1>3, <1>4

LEMMA LifeFinds ==
  ASSUME PaymentInv, LifeInv, ExpireFind
  PROVE  LifeInv'
<1>1. /\ UNCHANGED <<outbox, sent, mode, pc, job, status, gateway, late>> /\ sweep' \subseteq late
      /\ \A p \in sweep' : status[p] = "PENDING"
      /\ mode.apart => \A p \in sweep' : ~ Answering(p)
  BY DEF ExpireFind, rows, world, outboxJobs, requests
<1>2. mode.apart => AloneInv'
  BY <1>1 DEF LifeInv, AloneInv, Answering, Closing
<1>3. mode.apart => \A k \in Handlers : pc'[k] = "queueOutcome" =>
         /\ (status[job[k]] = OutcomeOf(job[k]))'
         /\ \A e \in Events : Tells(e) => outbox[e].of # job'[k]
  BY <1>1 DEF LifeInv, NewsInv, OutcomeOf
<1> QED
  BY <1>1, <1>2, <1>3, LifeKept DEF LifeInv, SentInv

LEMMA LifeFailure ==
  ASSUME PaymentInv, LifeInv, (\E h \in Handlers : Abort(h)) \/ ExpireGivesUp \/ Crash
  PROVE  LifeInv'
<1>1. /\ UNCHANGED <<outbox, sent, mode, status, gateway, late>> /\ sweep' \in {sweep, {}}
  BY DEF Abort, ExpireGivesUp, Crash, rows, world, outboxJobs
<1>2. \A h \in Handlers : pc'[h] # "idle" => pc'[h] = pc[h] /\ job'[h] = job[h]
  BY DEF Abort, ExpireGivesUp, Crash, Finish, requests, PaymentInv, RequestType
<1>3. \A h \in Handlers : pc'[h] \in Creating \cup Closing \cup {"insert"} => pc'[h] # "idle"
  BY DEF Creating, Closing
<1>4. mode.apart => AloneInv'
  BY <1>1, <1>2, <1>3 DEF LifeInv, AloneInv, Creating, Closing
<1>5. mode.apart => \A k \in Handlers : pc'[k] = "queueOutcome" =>
         /\ (status[job[k]] = OutcomeOf(job[k]))'
         /\ \A e \in Events : Tells(e) => outbox[e].of # job'[k]
  BY <1>1, <1>2 DEF LifeInv, NewsInv, OutcomeOf
<1> QED
  BY <1>1, <1>4, <1>5, LifeKept DEF LifeInv, SentInv

LEMMA LifeJobs ==
  ASSUME PaymentInv, LifeInv, Publisher \/ Logger \/ \E e \in Events : BackoffEnds(e)
  PROVE  LifeInv'
<1>1. OutboxType
  BY DEF PaymentInv
<1>2. RowsStay
  BY <1>1, PublisherKeepsRows, LoggerKeepsRows, BackoffKeepsRows
<1>3. UNCHANGED <<status, world, requests, sweep>>
  BY DEF Publisher, Logger, BackoffEnds, PublisherFind, PublisherGivesUp, PublisherSend,
         PublisherSendFails, PublisherMark, PublisherMarkFails, PublisherMarkFailed,
         LoggerFind, LoggerGivesUp, LoggerMark, LoggerMarkFails, Archive, rows
<1>4. \/ sent' = sent
      \/ \E e \in DOMAIN batch, n \in {0, 1} : sent' = [sent EXCEPT ![e] = @ + n]
  BY DEF Publisher, Logger, BackoffEnds, PublisherFind, PublisherGivesUp, PublisherSend,
         PublisherSendFails, PublisherMark, PublisherMarkFails, PublisherMarkFailed,
         LoggerFind, LoggerGivesUp, LoggerMark, LoggerMarkFails, Archive, outboxJobs
<1>5. sent' \in [Events -> Nat] /\ \A e \in Events : ~ Real(e) => sent'[e] = sent[e]
  <2>1. CASE sent' = sent
    BY <2>1 DEF LifeInv, SentInv
  <2>2. ASSUME NEW e \in DOMAIN batch, NEW n \in {0, 1}, sent' = [sent EXCEPT ![e] = @ + n]
        PROVE  sent' \in [Events -> Nat] /\ \A f \in Events : ~ Real(f) => sent'[f] = sent[f]
    <3>1. e \in Events /\ Real(e) /\ sent \in [Events -> Nat]
      BY <1>1 DEF OutboxType, Copies, LifeInv, SentInv
    <3>2. \A f \in Events : f # e => sent'[f] = sent[f]
      BY <2>2, <3>1
    <3>3. sent[e] + n \in Nat
      BY <3>1
    <3>4. sent' \in [Events -> Nat]
      BY <2>2, <3>1, <3>3
    <3> QED
      BY <3>1, <3>2, <3>4
  <2> QED
    BY <1>4, <2>1, <2>2
<1> QED
  BY <1>2, <1>3, <1>5, LifeOutbox

LEMMA LifeStep ==
  ASSUME PaymentInv, LifeInv, [Next]_vars
  PROVE  LifeInv'
<1>1. CASE UNCHANGED vars
  <2>1. RowsStay
    BY <1>1 DEF vars, rows, RowsStay, Real
  <2> QED
    BY <1>1, <2>1, LifeOutbox DEF vars, rows, outboxJobs, LifeInv, SentInv
<1> QED
  BY <1>1, LifeStarts, LifeCreation, LifeCallback, LifeQueue, LifeWorld, LifeFinds, LifeFailure,
     LifeJobs DEF Next, Serve

----------------------------------------------------------------------------
(* The refinement.                                                         *)

Told(p) == {<<e, outbox[e].type>> : e \in Announced(p)}
News == [p \in Pays |-> Told(p)]
Shown == IF mode.apart THEN status ELSE [p \in Pays |-> "NONE"]

(* The step is none of the lifecycle, or one of them.                      *)
Advance == Lifecycle!Next \/ (Shown' = Shown /\ News' = News)

(* What has been announced changes only with an outcome that is sent.      *)
LEMMA SameNews ==
  ASSUME mode' = mode,
         \A e \in Events :
           \/ UNCHANGED <<sent[e], outbox[e]>>
           \/ Real(e) /\ Real(e)' /\ UNCHANGED <<sent[e], outbox[e].of, outbox[e].type>>
           \/ sent[e] = 0 /\ sent'[e] = 0
           \/ Real(e) /\ outbox[e].type \notin Outcome /\ outbox'[e] = outbox[e]
  PROVE  News' = News
<1>1. ASSUME NEW p \in Pays PROVE Announced(p)' = Announced(p)
  BY DEF Announced, Queued, Real, Outcome
<1>2. ASSUME NEW p \in Pays, NEW e \in Announced(p) PROVE outbox'[e].type = outbox[e].type
  BY <1>2 DEF Announced, Queued, Real, Outcome
<1>3. ASSUME NEW p \in Pays PROVE Told(p)' = Told(p)
  BY <1>1, <1>2 DEF Told
<1> QED
  BY <1>3 DEF News

(* The mode is chosen once.                                                *)
LEMMA ModeStays ==
  ASSUME [Next]_vars
  PROVE  mode' = mode
BY DEF Next, vars, Create, Callback, Serve, CreateInsert, CreateAsk, CreateSaveFailed, CreateSaveUrl,
       CreateQueueInitiated, CallbackSave, CallbackQueue, Abort, Pay, GetsLate, ExpireSave,
       ExpireFind, ExpireGivesUp, Publisher, PublisherFind, PublisherGivesUp, PublisherSend,
       PublisherSendFails, PublisherMark, PublisherMarkFails, PublisherMarkFailed, Logger,
       LoggerFind, LoggerGivesUp, LoggerMark, LoggerMarkFails, Archive, BackoffEnds, Crash, world

(* In the other mode nothing is shown to the lifecycle.                    *)
LEMMA NothingToldOtherwise ==
  ASSUME ~ mode.apart, mode' = mode
  PROVE  Advance
<1>1. \A p : Announced(p) = {} /\ Announced(p)' = {}
  BY DEF Announced
<1>2. \A p : Told(p)' = Told(p)
  BY <1>1 DEF Told
<1> QED
  BY <1>2 DEF Advance, News, Shown

(* Steps of the lifecycle.                                                 *)
LEMMA Opens ==
  ASSUME NEW p \in Pays, Shown[p] = "NONE", Shown' = [Shown EXCEPT ![p] = "PENDING"], News' = News
  PROVE  Advance
BY DEF Advance, Lifecycle!Next, Lifecycle!Open, Shown, News, Told

LEMMA Closes ==
  ASSUME NEW p \in Pays, NEW outcome \in Final, Shown[p] = "PENDING",
         Shown' = [Shown EXCEPT ![p] = outcome], News' = News
  PROVE  Advance
BY DEF Advance, Lifecycle!Next, Lifecycle!Close, Shown, News, Told, Final

LEMMA Announces ==
  ASSUME NEW p \in Pays, NEW e \in Events, Shown[p] \in Outcome, News[p] = {},
         News' = [News EXCEPT ![p] = {<<e, Shown[p]>>}], Shown' = Shown
  PROVE  Advance
BY DEF Advance, Lifecycle!Next, Lifecycle!Announce, Shown, News, Told, Outcome

(* The jobs on the outbox announce an outcome, the first time they send it, *)
(* and do nothing else the lifecycle sees.                                 *)
LEMMA JobsAdvance ==
  ASSUME PaymentInv, LifeInv, mode.apart, mode' = mode,
         Publisher \/ Logger \/ \E e \in Events : BackoffEnds(e)
  PROVE  Advance
<1>1. OutboxType /\ SentInv /\ NewsInv
  BY DEF PaymentInv, LifeInv
<1>2. RowsStay /\ OutboxType'
  BY <1>1, PublisherKeepsRows, LoggerKeepsRows, BackoffKeepsRows
<1>3. UNCHANGED status
  BY DEF Publisher, Logger, BackoffEnds, PublisherFind, PublisherGivesUp, PublisherSend,
         PublisherSendFails, PublisherMark, PublisherMarkFails, PublisherMarkFailed,
         LoggerFind, LoggerGivesUp, LoggerMark, LoggerMarkFails, Archive, rows
<1>4. \/ sent' = sent
      \/ \E e \in DOMAIN batch, n \in {0, 1} :
           sent' = [sent EXCEPT ![e] = @ + n] /\ outbox' = outbox
  BY DEF Publisher, Logger, BackoffEnds, PublisherFind, PublisherGivesUp, PublisherSend,
         PublisherSendFails, PublisherMark, PublisherMarkFails, PublisherMarkFailed,
         LoggerFind, LoggerGivesUp, LoggerMark, LoggerMarkFails, Archive, outboxJobs, rows
<1>5. Shown' = Shown
  BY <1>3 DEF Shown
<1>6. CASE sent' = sent
  <2>1. \A e \in Events : \/ Real(e) /\ Real(e)' /\ UNCHANGED <<sent[e], outbox[e].of, outbox[e].type>>
                          \/ sent[e] = 0 /\ sent'[e] = 0
    BY <1>1, <1>2, <1>6 DEF RowsStay, SentInv
  <2>2. News' = News
    BY <2>1, SameNews
  <2> QED
    BY <1>5, <2>2 DEF Advance
<1>7. ASSUME NEW e \in DOMAIN batch, NEW n \in {0, 1}, sent' = [sent EXCEPT ![e] = @ + n],
             outbox' = outbox
      PROVE  Advance
  <2>1. e \in Events /\ Real(e) /\ \A f \in Events : f # e => sent'[f] = sent[f]
    BY <1>1, <1>7 DEF OutboxType, Copies, SentInv
  <2>2. sent[e] \in Nat /\ sent'[e] = sent[e] + n
    BY <1>1, <1>7, <2>1 DEF SentInv
  <2>3. CASE outbox[e].type \notin Outcome \/ n = 0
    <3>1. News' = News
      BY <1>7, <2>1, <2>2, <2>3, SameNews
    <3> QED
      BY <1>5, <3>1 DEF Advance
  <2>4. CASE Tells(e) /\ n = 1
    <3>1. PICK p \in Pays : p = outbox[e].of /\ Shown[p] = outbox[e].type /\ outbox[e].type \in Outcome
      BY <1>1, <2>1, <2>4, RealRow DEF NewsInv, Tells, AnyRow, Shown
    <3>2. \A f \in Events : Tells(f) /\ outbox[f].of = p => f = e
      BY <1>1, <2>1, <2>4, <3>1 DEF NewsInv
    <3>3. CASE sent[e] > 0
      <4>1. \A q \in Pays : Announced(q)' = Announced(q)
        BY <1>7, <2>1, <2>2, <3>3 DEF Announced, Queued
      <4>2. \A q \in Pays : Told(q)' = Told(q)
        BY <1>7, <4>1 DEF Told
      <4> QED
        BY <1>5, <4>2 DEF Advance, News
    <3>4. CASE sent[e] = 0
      <4>1. Announced(p) = {}
        BY <3>2, <3>4 DEF Announced, Queued, Tells, Real, Outcome
      <4>2. Announced(p)' = {e}
        BY <1>7, <2>1, <2>2, <2>4, <3>1, <3>2, <3>4 DEF Announced, Queued, Tells, Real, Outcome
      <4>3. \A q \in Pays : q # p => Announced(q)' = Announced(q)
        BY <1>7, <2>1, <3>1 DEF Announced, Queued
      <4>4. Told(p) = {} /\ Told(p)' = {<<e, Shown[p]>>}
        BY <1>7, <2>1, <3>1, <4>1, <4>2 DEF Told
      <4>5. \A q \in Pays : q # p => Told(q)' = Told(q)
        BY <1>7, <4>3 DEF Told
      <4>6. News[p] = {} /\ News' = [News EXCEPT ![p] = {<<e, Shown[p]>>}]
        <5>1. News[p] = {} /\ DOMAIN News = Pays /\ \A q \in Pays : News[q] = Told(q)
          BY <3>1, <4>4 DEF News
        <5>2. News' = [q \in Pays |-> IF q = p THEN {<<e, Shown[p]>>} ELSE Told(q)]
          BY <4>4, <4>5 DEF News
        <5> QED
          BY <5>1, <5>2, Zenon
      <4> QED
        BY <1>5, <2>1, <3>1, <4>6, Announces
    <3> QED
      BY <2>2, <3>3, <3>4
  <2> QED
    BY <2>1, <2>3, <2>4 DEF Tells
<1> QED
  BY <1>4, <1>6, <1>7

(* Requests open payments and close the ones that are PENDING.             *)
LEMMA RequestsAdvance ==
  ASSUME PaymentInv, LifeInv, mode.apart, mode' = mode, NEW h \in Handlers, Serve(h)
  PROVE  Advance
<1>1. OutboxType /\ SentInv /\ NewsInv /\ AloneInv /\ status \in [Pays -> Status] /\ sent' = sent
  BY DEF PaymentInv, PaymentType, LifeInv, Serve, CreateInsert, CreateAsk, CreateSaveFailed,
         CreateSaveUrl, CreateQueueInitiated, CallbackSave, CallbackQueue, outboxJobs
<1>2. Shown = status /\ Shown' = status'
  BY DEF Shown
<1>3. outbox' = outbox => News' = News
  BY <1>1, SameNews
<1>4. pc[h] # "idle" => job[h] \in Pays
  BY DEF PaymentInv, RequestType
<1>5. CASE CreateInsert(h)
  BY <1>2, <1>3, <1>4, <1>5, Opens DEF CreateInsert, At, SaveStatus, Advance
<1>6. CASE CreateAsk(h)
  BY <1>2, <1>3, <1>6 DEF CreateAsk, rows, Advance
<1>7. CASE CreateSaveFailed(h)
  <2>1. status[job[h]] = "PENDING"
    BY <1>1, <1>7 DEF CreateSaveFailed, At, AloneInv, Creating
  <2> QED
    BY <1>2, <1>3, <1>4, <1>7, <2>1, Closes DEF CreateSaveFailed, At, SaveStatus, Final
<1>8. CASE CreateSaveUrl(h)
  <2>1. status[job[h]] = "PENDING"
    BY <1>1, <1>8 DEF CreateSaveUrl, At, AloneInv, Creating
  <2>2. status' = status
    BY <1>1, <1>8, <2>1 DEF CreateSaveUrl, SaveStatus
  <2> QED
    BY <1>2, <1>3, <1>8, <2>2 DEF CreateSaveUrl, Advance
<1>9. CASE CallbackSave(h)
  <2>1. status[job[h]] = "PENDING"
    BY <1>1, <1>9 DEF CallbackSave, At, AloneInv
  <2>2. OutcomeOf(job[h]) \in Final
    BY DEF OutcomeOf, Final
  <2> QED
    BY <1>2, <1>3, <1>4, <1>9, <2>1, <2>2, Closes DEF CallbackSave, At, SaveStatus
<1>10. CASE CreateQueueInitiated(h) \/ CallbackQueue(h)
  <2>1. /\ UNCHANGED <<status, batch, skim, posting>> /\ job[h] \in Pays
        /\ \E type \in {"INITIATED"} \cup Outcome : SaveToOutbox(job[h], type)
    BY <1>4, <1>10 DEF CreateQueueInitiated, CallbackQueue, At, OutcomeOf, Outcome, outboxJobs
  <2>2. PICK e \in Events : ~ Real(e) /\ \A f \in Events : f # e => outbox'[f] = outbox[f]
    BY <1>1, <2>1, NewRow
  <2>3. sent[e] = 0
    BY <1>1, <2>2 DEF SentInv
  <2>4. News' = News
    BY <1>1, <2>2, <2>3, SameNews
  <2> QED
    BY <1>2, <2>1, <2>4 DEF Advance
<1> QED
  BY <1>5, <1>6, <1>7, <1>8, <1>9, <1>10 DEF Serve

(* A step maps to one of the lifecycle, or none.                           *)
LEMMA LifecycleStep ==
  ASSUME PaymentInv, LifeInv, [Next]_vars
  PROVE  Advance
<1>1. mode' = mode
  BY ModeStays
<1>2. CASE ~ mode.apart
  BY <1>1, <1>2, NothingToldOtherwise
<1>3. CASE mode.apart
  <2>1. CASE Publisher \/ Logger \/ \E e \in Events : BackoffEnds(e)
    BY <1>1, <1>3, <2>1, JobsAdvance
  <2>2. CASE \E h \in Handlers : Serve(h)
    BY <1>1, <1>3, <2>2, RequestsAdvance
  <2>3. ASSUME UNCHANGED <<outbox, sent>> PROVE News' = News
    BY <1>1, <2>3, SameNews
  <2>4. CASE UNCHANGED <<status, outbox, sent>>
    BY <1>1, <2>3, <2>4 DEF Advance, Shown
  <2>5. ASSUME NEW p \in Pays, ExpireSave(p) PROVE Advance
    <3>1. status[p] = "PENDING"
      BY <1>3, <2>5 DEF ExpireSave, LifeInv, AloneInv
    <3>2. Shown' = [Shown EXCEPT ![p] = "EXPIRED"] /\ Shown[p] = "PENDING"
      BY <1>1, <1>3, <2>5, <3>1 DEF ExpireSave, SaveStatus, Shown
    <3> QED
      BY <2>3, <2>5, <3>2, Closes DEF ExpireSave, outboxJobs, Final
  <2> QED
    BY <2>1, <2>2, <2>4, <2>5 DEF Next, vars, Create, Callback, Abort, Pay, GetsLate, ExpireFind,
                                  ExpireGivesUp, Crash, rows, outboxJobs
<1> QED
  BY <1>2, <1>3

(***************************************************************************)
(* Payment_Service implements PaymentLifecycle, for every number of        *)
(* payments, requests and events, whatever fails, as long as callbacks and *)
(* the expiry of one payment do not overlap: it is opened once and closed  *)
(* once, and at most one event that reached the broker tells its outcome,  *)
(* the one it has, however often the gateway calls back.                   *)
(***************************************************************************)
THEOREM FollowsLifecycle == Spec => ImplementsLifecycle
<1>1. Init => Lifecycle!Init
  <2> SUFFICES ASSUME Init PROVE Lifecycle!Init
    OBVIOUS
  <2>1. \A p \in Pays : Told(p) = {}
    BY DEF Init, Told, Announced, Queued
  <2> QED
    BY <2>1 DEF Init, Lifecycle!Init, Told
<1>2. Advance => [Lifecycle!Next]_(Lifecycle!vars)
  BY DEF Advance, Lifecycle!vars, Shown, News, Told
<1> QED
  BY <1>1, <1>2, LifeInit, LifeStep, LifecycleStep, PaymentsKeepInv, PTL
     DEF Spec, ImplementsLifecycle, Lifecycle!Spec

----------------------------------------------------------------------------
(* Types.                                                                  *)

(* An event has been retried no more often than something failed, also as  *)
(* the jobs have read it, and the publisher has not counted yet the        *)
(* failure it is about to save.                                            *)
Counted(s) == s = [e \in DOMAIN s |-> s[e]] /\ \A e \in DOMAIN s : s[e].retry <= faults

RetryInv ==
  /\ \A e \in Events : Real(e) => outbox[e].retry <= faults
  /\ Counted(batch) /\ Counted(skim)
  /\ posting = Resting \/ \E e \in DOMAIN batch, step \in {"mark", "markFailed"} :
                            posting = [event |-> e, step |-> step]
  /\ posting.step = "markFailed" => batch[posting.event].retry < faults

(* A handler that rests has no payment; requests and failures are bounded. *)
BoundInv ==
  /\ \A h \in Handlers : pc[h] = "idle" => job[h] = None
  /\ calls \in [Pays -> 0 .. MaxCalls]
  /\ faults \in 0 .. mode.faults

LEMMA NoneCounted == Counted(NoRows)
BY DEF Counted, NoRows

LEMMA RowCount ==
  ASSUME NEW r \in AnyRow, NEW s, NEW d
  PROVE  /\ r.retry \in Nat
         /\ [r EXCEPT !.status = s].retry = r.retry
         /\ [r EXCEPT !.due = d].retry = r.retry
         /\ [r EXCEPT !.status = s, !.retry = @ + 1, !.due = d].retry = r.retry + 1
         /\ [r EXCEPT !.retry = @ + 1, !.status = s, !.due = d].retry = r.retry + 1
<1>1. r = [of |-> r.of, type |-> r.type, status |-> r.status, retry |-> r.retry, due |-> r.due]
  BY DEF AnyRow
<1> QED
  BY <1>1 DEF AnyRow

(* The rows are left alone, and failures only get more.                    *)
LEMMA RetriesKept ==
  ASSUME RetryInv, OutboxType, faults \in Nat, faults' \in {faults, faults + 1},
         UNCHANGED <<outbox, batch, skim, posting>>
  PROVE  RetryInv'
<1>1. \A r \in AnyRow : r.retry \in Nat
  BY DEF AnyRow
<1>2. \A e \in Events : Real(e) => outbox[e].retry \in Nat
  BY <1>1, RealRow
<1>3. \A e \in DOMAIN batch : batch[e].retry \in Nat
  BY <1>1 DEF OutboxType
<1>4. \A e \in DOMAIN skim : skim[e].retry \in Nat
  BY <1>1 DEF OutboxType
<1> QED
  BY <1>2, <1>3, <1>4 DEF RetryInv, Counted, Real, OutboxType

(* A job has read the rows it found, or forgets one.                       *)
LEMMA FoundCounted ==
  ASSUME RetryInv, NEW found \in SUBSET Events, \A e \in found : outbox[e].status # "NONE",
         NEW s, s = Restrict(outbox, found)
  PROVE  Counted(s)
<1>1. \A e \in found : outbox[e].retry <= faults
  BY DueIsReal DEF RetryInv
<1> QED
  BY <1>1 DEF Counted, Restrict

LEMMA WithoutCounted ==
  ASSUME NEW s, NEW e, Counted(s)
  PROVE  Counted(Without(s, e))
<1>1. Without(s, e) = [f \in DOMAIN s \ {e} |-> s[f]]
  BY DEF Without, Restrict
<1> QED
  BY <1>1 DEF Counted

LEMMA PublisherRetries ==
  ASSUME RetryInv, OutboxType, faults \in Nat, Publisher
  PROVE  RetryInv'
<1>1. CASE PublisherFind
  <2>1. /\ batch' = Restrict(outbox, {e \in Events : Publishable(e)}) /\ batch = NoRows
        /\ UNCHANGED <<outbox, skim, posting, faults>>
    BY <1>1 DEF PublisherFind, rows
  <2>2. \A e \in {f \in Events : Publishable(f)} : outbox[e].status # "NONE"
    BY DEF Publishable, Due
  <2>3. Counted(batch')
    BY <2>1, <2>2, FoundCounted
  <2>4. posting = Resting
    BY <2>1 DEF RetryInv, NoRows
  <2> QED
    BY <2>1, <2>3, <2>4 DEF RetryInv, Counted, Real, Resting
<1>2. CASE PublisherGivesUp
  <2>1. /\ batch' = NoRows /\ posting' = Resting /\ faults' = faults + 1
        /\ UNCHANGED <<outbox, skim>>
    BY <1>2 DEF PublisherGivesUp, rows
  <2>2. Counted(batch)' /\ Resting.step = "none"
    BY <2>1 DEF Counted, NoRows, Resting
  <2>3. \A e \in Events : Real(e) => outbox[e].retry \in Nat
    BY RealRow, RowCount
  <2>4. \A e \in DOMAIN skim : skim[e].retry \in Nat
    BY RowCount DEF OutboxType
  <2> QED
    BY <2>1, <2>2, <2>3, <2>4 DEF RetryInv, Counted, Real
<1>3. ASSUME NEW e \in Events, PublisherSend(e)
      PROVE  RetryInv'
  BY <1>3 DEF PublisherSend, RetryInv, Counted, Real, rows
<1>4. ASSUME NEW e \in Events, PublisherSendFails(e) \/ PublisherMarkFails(e)
      PROVE  RetryInv'
  <2>1. /\ e \in DOMAIN batch /\ posting' = [event |-> e, step |-> "markFailed"]
        /\ faults' = faults + 1 /\ UNCHANGED <<outbox, batch, skim>>
    BY <1>4 DEF PublisherSendFails, PublisherMarkFails, OutboxType, rows
  <2>2. \A f \in Events : Real(f) => outbox[f].retry \in Nat
    BY RealRow, RowCount
  <2>3. \A f \in DOMAIN skim : skim[f].retry \in Nat
    BY RowCount DEF OutboxType
  <2>4. \A f \in DOMAIN batch : batch[f].retry \in Nat
    BY RowCount DEF OutboxType
  <2> QED
    BY <2>1, <2>2, <2>3, <2>4 DEF RetryInv, Counted, Real
<1>5. ASSUME NEW e \in Events, PublisherMark(e) \/ PublisherMarkFailed(e)
      PROVE  RetryInv'
  <2>1. /\ e \in DOMAIN batch /\ batch' = Without(batch, e) /\ posting' = Resting
        /\ UNCHANGED <<skim, faults>>
    BY <1>5 DEF PublisherMark, PublisherMarkFailed, OutboxType
  <2>2. batch[e] \in AnyRow /\ batch[e].retry \in Nat
    BY <2>1, RowCount DEF OutboxType
  <2>3. PICK r : outbox' = [outbox EXCEPT ![e] = r] /\ r.retry <= faults
    <3>1. CASE PublisherMark(e)
      <4>1. PICK r : r = [batch[e] EXCEPT !.status = "PUBLISHED"]
        OBVIOUS
      <4>2. r.retry <= faults
        BY <2>1, <2>2, <4>1, RowCount DEF RetryInv, Counted
      <4> QED
        BY <3>1, <4>1, <4>2 DEF PublisherMark
    <3>2. CASE PublisherMarkFailed(e)
      <4>1. batch[e].retry + 1 <= faults
        BY <2>2, <3>2 DEF PublisherMarkFailed, RetryInv
      <4>2. PICK r : r = [batch[e] EXCEPT !.status = "FAILED", !.retry = @ + 1, !.due = FALSE]
        OBVIOUS
      <4>3. r.retry <= faults
        BY <2>2, <4>1, <4>2, RowCount
      <4> QED
        BY <3>2, <4>2, <4>3 DEF PublisherMarkFailed
    <3> QED
      BY <1>5, <3>1, <3>2
  <2>4. outbox'[e] = r /\ \A f \in Events : f # e => outbox'[f] = outbox[f]
    BY <2>3 DEF OutboxType
  <2>5. Counted(batch)'
    <3>1. Counted(batch')
      BY <2>1, WithoutCounted DEF RetryInv
    <3> QED
      BY <2>1, <3>1 DEF Counted
  <2> QED
    BY <2>1, <2>3, <2>4, <2>5 DEF RetryInv, Counted, Real, Resting
<1> QED
  BY <1>1, <1>2, <1>3, <1>4, <1>5 DEF Publisher

LEMMA OthersRetry ==
  ASSUME RetryInv, OutboxType, faults \in Nat, Logger \/ \E e \in Events : BackoffEnds(e)
  PROVE  RetryInv'
<1>0. /\ \A e \in Events : Real(e) => outbox[e] \in AnyRow /\ outbox[e].retry \in Nat
      /\ \A e \in DOMAIN batch : batch[e].retry \in Nat
      /\ \A e \in DOMAIN skim : e \in Events /\ skim[e] \in AnyRow /\ skim[e].retry \in Nat
  BY RealRow, RowCount DEF OutboxType
<1>1. CASE LoggerFind
  <2>1. /\ skim' = Restrict(outbox, {e \in Events : Due(e)})
        /\ UNCHANGED <<outbox, batch, posting, faults>>
    BY <1>1 DEF LoggerFind, rows
  <2>2. \A e \in {f \in Events : Due(f)} : outbox[e].status # "NONE"
    BY DEF Due
  <2>3. Counted(skim')
    BY <2>1, <2>2, FoundCounted
  <2> QED
    BY <2>1, <2>3 DEF RetryInv, Counted, Real
<1>2. CASE LoggerGivesUp
  <2>1. skim' = NoRows /\ faults' = faults + 1 /\ UNCHANGED <<outbox, batch, posting>>
    BY <1>2 DEF LoggerGivesUp, rows
  <2>2. Counted(skim)'
    BY <2>1 DEF Counted, NoRows
  <2> QED
    BY <1>0, <2>1, <2>2 DEF RetryInv, Counted, Real, OutboxType
<1>3. ASSUME NEW e \in Events, LoggerMark(e) \/ LoggerMarkFails(e)
      PROVE  RetryInv'
  <2>1. /\ e \in DOMAIN skim /\ skim' = Without(skim, e) /\ UNCHANGED <<batch, posting>>
        /\ faults' \in {faults, faults + 1}
    BY <1>3 DEF LoggerMark, LoggerMarkFails
  <2>2. PICK r : outbox' = [outbox EXCEPT ![e] = r] /\ r.retry <= faults'
    <3>1. CASE LoggerMark(e)
      <4>1. PICK r : r = [skim[e] EXCEPT !.status = "PUBLISHED"]
        OBVIOUS
      <4>2. r.retry <= faults /\ faults' = faults
        BY <1>0, <2>1, <3>1, <4>1, RowCount DEF LoggerMark, RetryInv, Counted
      <4> QED
        BY <3>1, <4>1, <4>2 DEF LoggerMark
    <3>2. CASE LoggerMarkFails(e)
      <4>1. PICK s, d : outbox' = [outbox EXCEPT ![e] =
                          [skim[e] EXCEPT !.retry = @ + 1, !.status = s, !.due = d]]
        BY <3>2 DEF LoggerMarkFails
      <4>2. skim[e].retry + 1 <= faults'
        BY <1>0, <2>1, <3>2 DEF LoggerMarkFails, RetryInv, Counted
      <4>3. PICK r : r = [skim[e] EXCEPT !.retry = @ + 1, !.status = s, !.due = d]
        OBVIOUS
      <4>4. r.retry <= faults'
        BY <1>0, <2>1, <4>2, <4>3, RowCount
      <4> QED
        BY <4>1, <4>3, <4>4
    <3> QED
      BY <1>3, <3>1, <3>2
  <2>3. outbox'[e] = r /\ \A f \in Events : f # e => outbox'[f] = outbox[f]
    BY <2>2 DEF OutboxType
  <2>4. Counted(skim)'
    <3>1. /\ skim' = [f \in DOMAIN skim' |-> skim'[f]]
          /\ \A f \in DOMAIN skim' : f \in DOMAIN skim /\ skim'[f] = skim[f]
      BY <2>1 DEF Without, Restrict
    <3> QED
      BY <1>0, <2>1, <3>1 DEF RetryInv, Counted
  <2> QED
    BY <1>0, <2>1, <2>2, <2>3, <2>4 DEF RetryInv, Counted, Real, OutboxType
<1>4. ASSUME NEW e \in Events, Archive(e) \/ BackoffEnds(e)
      PROVE  RetryInv'
  <2>1. Real(e) /\ UNCHANGED <<batch, skim, posting, faults>>
    BY <1>4, DueIsReal DEF Archive, BackoffEnds, outboxJobs
  <2>2. PICK r : outbox' = [outbox EXCEPT ![e] = r] /\ r.retry <= faults
    <3>1. PICK r : r = IF Archive(e) THEN [outbox[e] EXCEPT !.status = "ARCHIVED"]
                       ELSE [outbox[e] EXCEPT !.due = TRUE]
      OBVIOUS
    <3>2. r.retry <= faults
      BY <1>0, <2>1, <3>1, RowCount DEF RetryInv
    <3>3. outbox' = [outbox EXCEPT ![e] = r]
      BY <1>4, <3>1 DEF Archive, BackoffEnds
    <3> QED
      BY <3>2, <3>3
  <2>3. outbox'[e] = r /\ \A f \in Events : f # e => outbox'[f] = outbox[f]
    BY <2>2 DEF OutboxType
  <2> QED
    BY <2>1, <2>2, <2>3 DEF RetryInv, Counted, Real
<1> QED
  BY <1>1, <1>2, <1>3, <1>4 DEF Logger

(* Whatever fails is counted.                                              *)
LEMMA FailuresCounted ==
  ASSUME [Next]_vars
  PROVE  UNCHANGED faults \/ (faults < mode.faults /\ faults' = faults + 1)
BY DEF Next, vars, Create, Callback, Serve, CreateInsert, CreateAsk, CreateSaveFailed, CreateSaveUrl,
       CreateQueueInitiated, CallbackSave, CallbackQueue, Abort, Pay, GetsLate, ExpireSave,
       ExpireFind, ExpireGivesUp, Publisher, PublisherFind, PublisherGivesUp, PublisherSend,
       PublisherSendFails, PublisherMark, PublisherMarkFails, PublisherMarkFailed, Logger,
       LoggerFind, LoggerGivesUp, LoggerMark, LoggerMarkFails, Archive, BackoffEnds, Crash

LEMMA RetryStep ==
  ASSUME RetryInv, OutboxType, RequestType, faults \in Nat, [Next]_vars
  PROVE  RetryInv'
<1>1. faults' \in {faults, faults + 1}
  BY FailuresCounted
<1>2. CASE Publisher \/ Logger \/ \E e \in Events : BackoffEnds(e)
  BY <1>2, PublisherRetries, OthersRetry
<1>3. CASE Crash
  <2>1. /\ batch' = NoRows /\ skim' = NoRows /\ posting' = Resting /\ outbox' = outbox
        /\ faults' = faults + 1
    BY <1>3 DEF Crash, rows
  <2>2. Counted(batch)' /\ Counted(skim)' /\ Resting.step = "none"
    BY <2>1 DEF Counted, NoRows, Resting
  <2>3. \A e \in Events : Real(e) => outbox[e].retry \in Nat
    BY RealRow, RowCount
  <2> QED
    BY <2>1, <2>2, <2>3 DEF RetryInv, Real
<1>4. ASSUME NEW h \in Handlers, CreateQueueInitiated(h) \/ CallbackQueue(h)
      PROVE  RetryInv'
  <2>1. PICK e \in Events : outbox' = [outbox EXCEPT ![e] = outbox'[e]] /\ outbox'[e].retry = 0
    <3>1. PICK p, type : SaveToOutbox(p, type)
      BY <1>4 DEF CreateQueueInitiated, CallbackQueue
    <3>2. PICK e \in Events : outbox' = [outbox EXCEPT ![e] =
            [of |-> p, type |-> type, status |-> "PENDING", retry |-> 0, due |-> FALSE]]
      BY <3>1 DEF SaveToOutbox, Unused
    <3> QED
      BY <3>2 DEF OutboxType
  <2>2. \A f \in Events : f # e => outbox'[f] = outbox[f]
    BY <2>1 DEF OutboxType
  <2>3. UNCHANGED <<batch, skim, posting, faults>>
    BY <1>4 DEF CreateQueueInitiated, CallbackQueue, outboxJobs
  <2> QED
    BY <2>1, <2>2, <2>3 DEF RetryInv, Counted, Real
<1>5. ASSUME UNCHANGED <<outbox, batch, skim, posting>>
      PROVE  RetryInv'
  BY <1>1, <1>5, RetriesKept
<1>6. CASE \/ \E h \in Handlers, p \in Pays : Create(h, p) \/ Callback(h, p)
           \/ \E h \in Handlers : \/ CreateInsert(h) \/ CreateAsk(h) \/ CreateSaveFailed(h)
                                  \/ CreateSaveUrl(h) \/ CallbackSave(h) \/ Abort(h)
           \/ \E p \in Pays : \/ \E answer \in {"paid", "declined"} : Pay(p, answer)
                              \/ GetsLate(p) \/ ExpireSave(p)
           \/ ExpireFind \/ ExpireGivesUp \/ UNCHANGED vars
  BY <1>5, <1>6
     DEF Create, Callback, CreateInsert, CreateAsk, CreateSaveFailed, CreateSaveUrl, CallbackSave,
         Abort, Pay, GetsLate, ExpireSave, ExpireFind, ExpireGivesUp, vars, rows, outboxJobs
<1> QED
  BY <1>2, <1>3, <1>4, <1>6 DEF Next, Serve

LEMMA BoundStep ==
  ASSUME BoundInv, RequestType, mode \in Modes, [Next]_vars
  PROVE  BoundInv'
<1>1. faults' \in 0 .. mode'.faults
  <2>1. mode.faults \in Nat /\ faults \in Nat /\ faults <= mode.faults
    BY PaymentsAssumption DEF PaymentsAssumption, BoundInv
  <2> QED
    BY <2>1, FailuresCounted, ModeStays
<1>2. ASSUME NEW h \in Handlers, NEW p \in Pays, Create(h, p) \/ Callback(h, p)
      PROVE  BoundInv'
  <2>1. /\ calls[p] < MaxCalls /\ calls' = [calls EXCEPT ![p] = @ + 1]
        /\ \/ UNCHANGED <<pc, job>>
           \/ \E label \in {"insert", "saveOutcome"} :
                pc' = [pc EXCEPT ![h] = label] /\ job' = [job EXCEPT ![h] = p]
    BY <1>2 DEF Create, Callback, Start, Refuse, requests
  <2>2. calls' \in [Pays -> 0 .. MaxCalls]
    <3>1. calls[p] + 1 \in 0 .. MaxCalls
      BY <2>1, PaymentsAssumption DEF PaymentsAssumption, BoundInv
    <3> QED
      BY <2>1, <3>1 DEF BoundInv
  <2> QED
    BY <1>1, <2>1, <2>2 DEF BoundInv, RequestType
<1>3. ASSUME NEW h \in Handlers, Serve(h) \/ Abort(h)
      PROVE  BoundInv'
  <2>1. /\ calls' = calls
        /\ \/ \E label \in Labels \ {"idle"} : pc' = [pc EXCEPT ![h] = label] /\ job' = job
           \/ pc' = [pc EXCEPT ![h] = "idle"] /\ job' = [job EXCEPT ![h] = None]
    BY <1>3 DEF Serve, CreateInsert, CreateAsk, CreateSaveFailed, CreateSaveUrl,
                CreateQueueInitiated, CallbackSave, CallbackQueue, Abort, Goto, Finish, Labels
  <2> QED
    BY <1>1, <2>1 DEF BoundInv, RequestType
<1>4. CASE Crash
  BY <1>1, <1>4 DEF Crash, BoundInv
<1>5. CASE UNCHANGED <<pc, job, calls>>
  BY <1>1, <1>5 DEF BoundInv
<1> QED
  BY <1>2, <1>3, <1>4, <1>5
     DEF Next, vars, requests, Pay, GetsLate, ExpireSave, ExpireFind, ExpireGivesUp, Publisher,
         PublisherFind, PublisherGivesUp, PublisherSend, PublisherSendFails, PublisherMark,
         PublisherMarkFails, PublisherMarkFailed, Logger, LoggerFind, LoggerGivesUp, LoggerMark,
         LoggerMarkFails, Archive, BackoffEnds

LEMMA CountsInit == Init => RetryInv /\ BoundInv
<1> SUFFICES ASSUME Init PROVE RetryInv /\ BoundInv
  OBVIOUS
<1>1. Resting.step = "none" /\ Counted(NoRows)
  BY NoneCounted DEF Resting
<1>2. RetryInv
  BY <1>1 DEF Init, RetryInv, Real
<1>3. mode.faults \in Nat /\ MaxCalls \in Nat
  BY PaymentsAssumption DEF PaymentsAssumption, Init
<1> QED
  BY <1>2, <1>3 DEF Init, BoundInv

LEMMA CountsTypes ==
  ASSUME PaymentInv, LifeInv, RetryInv, BoundInv
  PROVE  TypeOK
<1>1. mode \in Modes /\ mode.faults \in 0 .. MaxFaults /\ MaxRetry \in Nat /\ MaxFaults \in Nat
  BY PaymentsAssumption DEF PaymentsAssumption, LifeInv, SentInv
<1>2. faults \in Nat /\ faults <= MaxFaults
  BY <1>1 DEF BoundInv
<1>3. ASSUME NEW r \in AnyRow, r.retry <= faults
      PROVE  r \in EventRow
  <2>1. r.retry \in 0 .. MaxRetry + MaxFaults
    BY <1>1, <1>2, <1>3 DEF AnyRow
  <2> QED
    BY <2>1 DEF AnyRow, EventRow
<1>4. outbox \in [Events -> EventRow \cup {NoEvent}]
  <2>1. \A e \in Events : outbox[e] \in EventRow \cup {NoEvent}
    BY <1>3 DEF PaymentInv, OutboxType, RetryInv, Real
  <2> QED
    BY <2>1 DEF PaymentInv, OutboxType
<1>5. \A s \in {batch, skim} : DOMAIN s \subseteq Events /\ s \in [DOMAIN s -> EventRow]
  <2>1. \A e \in DOMAIN batch : batch[e] \in EventRow
    BY <1>3 DEF PaymentInv, OutboxType, RetryInv, Counted
  <2>2. \A e \in DOMAIN skim : skim[e] \in EventRow
    BY <1>3 DEF PaymentInv, OutboxType, RetryInv, Counted
  <2>3. batch \in [DOMAIN batch -> EventRow] /\ skim \in [DOMAIN skim -> EventRow]
    BY <2>1, <2>2 DEF RetryInv, Counted
  <2> QED
    BY <2>3 DEF PaymentInv, OutboxType
<1>6. /\ posting \in [event : Events \cup {None}, step : {"none", "mark", "markFailed"}]
      /\ posting = Resting \/ posting.event \in DOMAIN batch
  BY DEF RetryInv, Resting, PaymentInv, OutboxType
<1>7. \A h \in Handlers : pc[h] = "idle" <=> job[h] = None
  BY PaymentsAssumption DEF PaymentsAssumption, BoundInv, PaymentInv, RequestType
<1> QED
  BY <1>1, <1>4, <1>5, <1>6, <1>7
     DEF TypeOK, PaymentInv, PaymentType, RequestType, LifeInv, SentInv, BoundInv

(***************************************************************************)
(* The rows, what the jobs remember of them and where the handlers stand   *)
(* keep their types: however the two outbox jobs write each other's rows   *)
(* back, an event has not been retried more often than something failed.   *)
(***************************************************************************)
THEOREM TypeCorrect == Spec => []TypeOK
<1>1. Spec => []LifeInv
  BY LifeInit, LifeStep, PaymentsKeepInv, PTL DEF Spec
<1>2. PaymentInv /\ LifeInv /\ RetryInv /\ BoundInv /\ [Next]_vars => RetryInv' /\ BoundInv'
  BY RetryStep, BoundStep DEF PaymentInv, PaymentType, LifeInv, SentInv
<1>3. Spec => [](RetryInv /\ BoundInv)
  BY <1>1, <1>2, CountsInit, PaymentsKeepInv, PTL DEF Spec
<1>4. PaymentInv /\ LifeInv /\ RetryInv /\ BoundInv => TypeOK
  BY CountsTypes
<1> QED
  BY <1>1, <1>3, <1>4, PaymentsKeepInv, PTL

=============================================================================
