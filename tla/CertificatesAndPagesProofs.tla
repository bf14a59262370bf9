-------------------- MODULE CertificatesAndPagesProofs ---------------------
(***************************************************************************)
(* Theorems about two components that share no state.                      *)
(*                                                                         *)
(* First Certificate-Service, for every set of purchases and of request    *)
(* threads, and every bound.                                               *)
(*                                                                         *)
(* Then the pages of CCM-Frontend: for every page that Screens describes,  *)
(* any rows and any number of gestures.                                    *)
(***************************************************************************)
EXTENDS Certificates, Pages, SequenceTheorems, FiniteSetTheorems, TLAPS

Certs == [of : Purchases \cup {None}, status : Status, pdf : BOOLEAN]

----------------------------------------------------------------------------
(* What the steps do to the table and to the queue.                        *)

LEMMA InsertedRow ==
  ASSUME TypeOK, NEW w \in Workers, NEW p \in Purchases \cup {None}, Insert(w, p)
  PROVE  /\ certs' \in Seq(Certs)
         /\ DOMAIN certs' = DOMAIN certs \cup {Len(certs) + 1}
         /\ Len(certs) + 1 \in Nat \ DOMAIN certs
         /\ \A c \in DOMAIN certs : certs'[c] = certs[c]
         /\ certs'[Len(certs) + 1].of = p
         /\ certs'[Len(certs) + 1].pdf = FALSE
<1>1. Certificate(p) \in Certs
  BY DEF Certificate, Certs, Status
<1>2. certs \in Seq(Certs)
  BY DEF TypeOK, Certs
<1>3. certs' = Append(certs, Certificate(p))
  BY DEF Insert
<1> HIDE DEF Certs
<1>4. /\ Len(certs) \in Nat /\ DOMAIN certs = 1 .. Len(certs)
  BY <1>2, LenProperties
<1>5. /\ certs' \in Seq(Certs) /\ Len(certs') = Len(certs) + 1
      /\ \A c \in 1 .. Len(certs) : certs'[c] = certs[c]
      /\ certs'[Len(certs) + 1] = Certificate(p)
  BY <1>1, <1>2, <1>3, AppendProperties
<1>6. DOMAIN certs' = 1 .. Len(certs')
  BY <1>5, LenProperties
<1>7. Certificate(p).of = p /\ Certificate(p).pdf = FALSE
  BY DEF Certificate
<1> QED
  BY <1>4, <1>5, <1>6, <1>7

(* Writing one column of a row leaves the rows, and the other columns.     *)
LEMMA WrittenRow ==
  ASSUME TypeOK, NEW c \in DOMAIN certs, NEW row \in Certs, row.of = certs[c].of,
         certs' = [certs EXCEPT ![c] = row]
  PROVE  /\ certs' \in Seq(Certs)
         /\ DOMAIN certs' = DOMAIN certs
         /\ \A d \in DOMAIN certs : certs'[d] = IF d = c THEN row ELSE certs[d]
         /\ \A d \in DOMAIN certs : certs'[d].of = certs[d].of
<1>1. certs \in Seq(Certs)
  BY DEF TypeOK, Certs
<1> HIDE DEF Certs
<1>2. DOMAIN certs = 1 .. Len(certs)
  BY <1>1, LenProperties
<1>3. certs' \in Seq(Certs)
  BY <1>1, <1>2, ExceptSeq
<1>4. DOMAIN certs' = DOMAIN certs
  OBVIOUS
<1>5. \A d \in DOMAIN certs : certs'[d] = IF d = c THEN row ELSE certs[d]
  OBVIOUS
<1> QED
  BY <1>3, <1>4, <1>5

LEMMA RowType ==
  ASSUME TypeOK, NEW c \in DOMAIN certs
  PROVE  certs[c] \in Certs
<1>1. certs \in Seq(Certs)
  BY DEF TypeOK, Certs
<1> HIDE DEF Certs
<1> QED
  BY <1>1, LenProperties, ElementOfSeq

LEMMA SavedUrl ==
  ASSUME TypeOK, NEW c \in DOMAIN certs
  PROVE  /\ [certs[c] EXCEPT !.pdf = TRUE] \in Certs
         /\ [certs[c] EXCEPT !.pdf = TRUE].of = certs[c].of
         /\ [certs[c] EXCEPT !.status = "revoked"] \in Certs
         /\ [certs[c] EXCEPT !.status = "revoked"].of = certs[c].of
         /\ [certs[c] EXCEPT !.status = "revoked"].pdf = certs[c].pdf
BY RowType DEF Certs, Status

LEMMA AnsweredQueue ==
  ASSUME TypeOK, queue # <<>>
  PROVE  /\ Head(queue) \in Purchases
         /\ Tail(queue) \in Seq(Purchases)
         /\ 1 \in DOMAIN queue /\ Head(queue) = queue[1]
         /\ \A i \in DOMAIN Tail(queue) :
              i + 1 \in DOMAIN queue /\ i + 1 # 1 /\ Tail(queue)[i] = queue[i + 1]
         /\ \A i \in DOMAIN Tail(queue) : i \in Int
<1>1. queue \in Seq(Purchases)
  BY DEF TypeOK
<1>2. /\ Head(queue) \in Purchases
      /\ Tail(queue) \in Seq(Purchases)
      /\ Len(Tail(queue)) = Len(queue) - 1
      /\ \A i \in 1 .. Len(Tail(queue)) : Tail(queue)[i] = queue[i + 1]
  BY <1>1, HeadTailProperties
<1>3. /\ Len(queue) \in Nat /\ DOMAIN queue = 1 .. Len(queue)
      /\ DOMAIN Tail(queue) = 1 .. Len(Tail(queue))
  BY <1>1, <1>2, LenProperties
<1>4. Len(queue) # 0
  BY <1>1, EmptySeq
<1>5. Head(queue) = queue[1]
  BY <1>1
<1> QED
  BY <1>2, <1>3, <1>4, <1>5

----------------------------------------------------------------------------
(* Type correctness.                                                       *)

WorkType ==
  /\ work \in [Workers -> [op : {"idle", "inserted", "printed", "saved", "checked"}, cert : Nat]]
  /\ \A w \in Workers : IF At(w, "idle") THEN work[w] = Idle ELSE work[w].cert \in DOMAIN certs

LEMMA GoesType ==
  ASSUME TypeOK, NEW w \in Workers, NEW c \in Nat,
         NEW op \in {"inserted", "printed", "saved", "checked"}, Goes(w, op, c),
         c \in DOMAIN certs', DOMAIN certs \subseteq DOMAIN certs'
  PROVE  WorkType'
BY DEF TypeOK, Goes, At, WorkType

LEMMA CloseType ==
  ASSUME TypeOK, NEW w \in Workers, Close(w), DOMAIN certs \subseteq DOMAIN certs'
  PROVE  WorkType'
BY DEF TypeOK, Close, At, Idle, WorkType

LEMMA CertNumber ==
  ASSUME TypeOK, NEW c \in DOMAIN certs
  PROVE  c \in Nat
<1>1. certs \in Seq(Certs)
  BY DEF TypeOK, Certs
<1> HIDE DEF Certs
<1> QED
  BY <1>1, LenProperties

LEMMA WorkedOn ==
  ASSUME TypeOK, NEW w \in Workers, ~ At(w, "idle")
  PROVE  work[w].cert \in DOMAIN certs /\ work[w].cert \in Nat
BY CertNumber DEF TypeOK

LEMMA BusyIsNotIdle ==
  ASSUME TypeOK, NEW w \in Workers
  PROVE  work[w] # Idle <=> ~ At(w, "idle")
BY DEF TypeOK, Idle, At

(* The consumer works on the message at the head of the queue.             *)
QueueInv ==
  /\ \A i \in DOMAIN queue : queue[i] \in announced
  /\ \A i, j \in DOMAIN queue : queue[i] = queue[j] => i = j
  /\ ~ At(Consumer, "idle") =>
       queue # <<>> /\ certs[work[Consumer].cert].of = Head(queue)

LEMMA RedeliveredType ==
  ASSUME TypeOK, QueueInv, NEW w \in Workers, Redelivered(w)
  PROVE  again' \subseteq Purchases
BY AnsweredQueue, BusyIsNotIdle DEF TypeOK, Redelivered, QueueInv, Workers

LEMMA AckType ==
  ASSUME TypeOK, QueueInv, NEW w \in Workers, ~ At(w, "idle"), Ack(w)
  PROVE  queue' \in Seq(Purchases)
BY AnsweredQueue DEF TypeOK, Ack, QueueInv

LEMMA TypeInit == Init => TypeOK
<1> SUFFICES ASSUME Init PROVE TypeOK
  OBVIOUS
<1>1. /\ queue \in Seq(Purchases)
      /\ certs \in Seq([of : Purchases \cup {None}, status : Status, pdf : BOOLEAN])
  BY EmptySeq DEF Init
<1>2. \A w \in Workers : At(w, "idle") /\ work[w] = Idle
  BY DEF Init, At, Idle
<1>3. calls \in 0 .. MaxCalls /\ faults \in 0 .. MaxFaults
  BY CertificatesAssumption DEF Init
<1> QED
  BY <1>1, <1>2, <1>3 DEF Init, TypeOK, Idle

LEMMA InsertType ==
  ASSUME TypeOK, NEW w \in Workers, NEW p \in Purchases \cup {None}, Insert(w, p),
         UNCHANGED <<process, announced, files, failed, again>>,
         queue' = queue, calls' \in 0 .. MaxCalls, faults' \in 0 .. MaxFaults
  PROVE  TypeOK'
<1>1. WorkType'
  BY InsertedRow, GoesType DEF Insert
<1>2. certs' \in Seq(Certs) /\ files' \subseteq DOMAIN certs'
  BY InsertedRow DEF TypeOK
<1> QED
  BY <1>1, <1>2 DEF TypeOK, WorkType, Certs

LEMMA TypeStep ==
  ASSUME TypeOK, QueueInv, [Next]_vars
  PROVE  TypeOK'
<1> USE CertificatesAssumption
<1>0. \A n, m \in Nat : n \in 0 .. m /\ n < m => n + 1 \in 0 .. m
  OBVIOUS
<1>b. /\ (Fault \/ NoFault) => faults' \in 0 .. MaxFaults
      /\ Call => calls' \in 0 .. MaxCalls
  BY <1>0 DEF TypeOK, Fault, NoFault, Call
<1>1. ASSUME NEW p \in Purchases, Announce(p) PROVE TypeOK'
  <2>1. queue' \in Seq(Purchases)
    BY <1>1, AppendProperties DEF Announce, TypeOK
  <2> QED
    BY <1>1, <1>b, <2>1 DEF Announce, TypeOK, At
<1>2. CASE Receive
  <2>1. CASE Insert(Consumer, Head(queue)) /\ NoFault /\ UNCHANGED queue
    BY <1>2, <1>b, <2>1, InsertType, AnsweredQueue DEF Receive, Workers, TypeOK
  <2>2. CASE Nack /\ (NoFault \/ Fault) /\ UNCHANGED <<certs, work>>
    BY <1>2, <1>b, <2>2 DEF Receive, TypeOK, At, Nack
  <2> QED
    BY <1>2, <2>1, <2>2 DEF Receive
<1>3. ASSUME NEW h \in Handlers, Generate(h) PROVE TypeOK'
  BY <1>3, <1>b, InsertType DEF Generate, Workers, TypeOK
<1>4. ASSUME NEW w \in Workers, WritePdf(w) PROVE TypeOK'
  <2>1. work[w].cert \in DOMAIN certs /\ work[w].cert \in Nat
    BY <1>4, WorkedOn DEF WritePdf, At
  <2>2. WorkType'
    BY <1>4, <2>1, GoesType DEF WritePdf
  <2> QED
    BY <1>4, <1>b, <2>1, <2>2 DEF WritePdf, TypeOK, WorkType
<1>5. ASSUME NEW w \in Workers, SaveUrl(w) PROVE TypeOK'
  <2> DEFINE c == work[w].cert
  <2>1. c \in DOMAIN certs /\ c \in Nat
    BY <1>5, WorkedOn DEF SaveUrl, At
  <2>2. certs' = [certs EXCEPT ![c] = [certs[c] EXCEPT !.pdf = TRUE]]
    BY <1>5 DEF SaveUrl
  <2> HIDE DEF c
  <2>3. certs' \in Seq(Certs) /\ DOMAIN certs' = DOMAIN certs
    BY <2>1, <2>2, WrittenRow, SavedUrl
  <2>4. WorkType'
    BY <1>5, <2>1, <2>3, GoesType DEF SaveUrl, c
  <2> QED
    BY <1>5, <2>3, <2>4 DEF SaveUrl, TypeOK, WorkType, Certs
<1>6. ASSUME NEW w \in Workers, Issued(w) PROVE TypeOK'
  <2>1. WorkType'
    BY <1>6, CloseType DEF Issued
  <2>2. queue' \in Seq(Purchases)
    BY <1>6, AckType DEF Issued, At
  <2> QED
    BY <1>6, <2>1, <2>2 DEF Issued, TypeOK, WorkType
<1>7. ASSUME NEW w \in Workers, SaveFails(w) PROVE TypeOK'
  <2>1. WorkType'
    BY <1>7, CloseType DEF SaveFails
  <2> QED
    BY <1>7, <1>b, <2>1, RedeliveredType DEF SaveFails, TypeOK, WorkType
<1>8. CASE Crash
  <2>1. again' \subseteq Purchases
    BY <1>8, RedeliveredType DEF Crash, Workers
  <2> QED
    BY <1>8, <1>b, <2>1 DEF Crash, TypeOK, At, Idle
<1>13. CASE Disconnect
  <2>1. again' \subseteq Purchases /\ WorkType'
    BY <1>13, RedeliveredType, CloseType DEF Disconnect, Workers
  <2>2. process' \in Started
    BY <1>13 DEF Disconnect, TypeOK, Started
  <2> QED
    BY <1>13, <1>b, <2>1, <2>2 DEF Disconnect, TypeOK, WorkType
<1>9. ASSUME NEW h \in Handlers, Serve(h) PROVE TypeOK'
  <2>1. WorkType'
    BY <1>9, CloseType DEF Serve, Workers
  <2> QED
    BY <1>9, <2>1 DEF Serve, TypeOK, WorkType
<1>10. ASSUME NEW c \in DOMAIN certs, Revoke(c) PROVE TypeOK'
  <2>1. certs' = [certs EXCEPT ![c] = [certs[c] EXCEPT !.status = "revoked"]]
    BY <1>10 DEF Revoke
  <2>2. certs' \in Seq(Certs) /\ DOMAIN certs' = DOMAIN certs
    BY <2>1, WrittenRow, SavedUrl
  <2> QED
    BY <1>10, <1>b, <2>2 DEF Revoke, TypeOK, At, Certs
<1>11. ASSUME NEW h \in Handlers, NEW c \in DOMAIN certs, Download(h, c) PROVE TypeOK'
  <2>1. WorkType'
    BY <1>11, GoesType, CertNumber DEF Download, Workers
  <2> QED
    BY <1>11, <1>b, <2>1 DEF Download, TypeOK, WorkType
<1>12. CASE UNCHANGED vars
  BY <1>12 DEF vars, TypeOK, At
<1> QED
  BY <1>1, <1>2, <1>3, <1>4, <1>5, <1>6, <1>7, <1>8, <1>9, <1>10, <1>11, <1>12, <1>13
     DEF Next, Step

LEMMA QueueInit == Init => QueueInv
<1> SUFFICES ASSUME Init PROVE QueueInv
  OBVIOUS
<1>1. DOMAIN queue = {}
  BY DEF Init
<1>2. At(Consumer, "idle")
  BY DEF Init, At, Idle, Workers
<1> QED
  BY <1>1, <1>2 DEF QueueInv

(* A row keeps its purchase.                                               *)
KeepsRows ==
  /\ DOMAIN certs \subseteq DOMAIN certs'
  /\ \A c \in DOMAIN certs : certs'[c].of = certs[c].of

LEMMA RowsAreKept ==
  ASSUME TypeOK, [Next]_vars
  PROVE  KeepsRows
<1>1. ASSUME NEW w \in Workers, NEW p \in Purchases \cup {None}, Insert(w, p)
      PROVE  KeepsRows
  BY <1>1, InsertedRow DEF KeepsRows
<1>2. ASSUME NEW w \in Workers, SaveUrl(w) PROVE KeepsRows
  <2> DEFINE c == work[w].cert
  <2>1. c \in DOMAIN certs
    BY <1>2, WorkedOn DEF SaveUrl, At
  <2>2. certs' = [certs EXCEPT ![c] = [certs[c] EXCEPT !.pdf = TRUE]]
    BY <1>2 DEF SaveUrl
  <2> HIDE DEF c
  <2> QED
    BY <2>1, <2>2, WrittenRow, SavedUrl DEF KeepsRows
<1>3. ASSUME NEW c \in DOMAIN certs, Revoke(c) PROVE KeepsRows
  <2>1. certs' = [certs EXCEPT ![c] = [certs[c] EXCEPT !.status = "revoked"]]
    BY <1>3 DEF Revoke
  <2> QED
    BY <2>1, WrittenRow, SavedUrl DEF KeepsRows
<1>4. CASE certs' = certs
  BY <1>4 DEF KeepsRows
<1>5. ASSUME Receive
      PROVE  (Insert(Consumer, Head(queue)) /\ Head(queue) \in Purchases) \/ certs' = certs
  BY <1>5, AnsweredQueue DEF Receive
<1>6. ASSUME NEW h \in Handlers, Generate(h) PROVE Insert(h, None)
  BY <1>6 DEF Generate
<1>7. \/ \E w \in Workers, p \in Purchases \cup {None} : Insert(w, p)
      \/ \E w \in Workers : SaveUrl(w)
      \/ \E c \in DOMAIN certs : Revoke(c)
      \/ certs' = certs
  BY <1>5, <1>6 DEF Next, Step, Announce, WritePdf, Issued, SaveFails, Disconnect, Crash, Serve,
                    Download, vars, Workers
<1> QED
  BY <1>1, <1>2, <1>3, <1>4, <1>7

LEMMA QueueStep ==
  ASSUME TypeOK, QueueInv, [Next]_vars
  PROVE  QueueInv'
<1> USE RowsAreKept DEF KeepsRows
<1>1. ASSUME NEW p \in Purchases, Announce(p) PROVE QueueInv'
  <2>1. queue \in Seq(Purchases) /\ p \notin announced
    BY <1>1 DEF TypeOK, Announce
  <2>2. CASE queue' = queue
    BY <1>1, <2>2 DEF Announce, QueueInv, At
  <2>3. CASE queue' = Append(queue, p)
    <3>1. /\ Len(queue) \in Nat /\ DOMAIN queue = 1 .. Len(queue)
          /\ DOMAIN queue' = 1 .. Len(queue) + 1
          /\ \A i \in DOMAIN queue : queue'[i] = queue[i]
          /\ queue'[Len(queue) + 1] = p
      BY <2>1, <2>3, AppendProperties, LenProperties
    <3>2. queue # <<>> => queue' # <<>> /\ Head(queue') = Head(queue)
      <4>1. SUFFICES ASSUME queue # <<>> PROVE queue' # <<>> /\ Head(queue') = Head(queue)
        OBVIOUS
      <4>2. Head(queue) = queue[1] /\ 1 \in DOMAIN queue
        BY <4>1, AnsweredQueue
      <4>3. queue' # <<>> /\ Head(queue') = queue'[1]
        BY <2>3, <3>1
      <4> QED
        BY <3>1, <4>2, <4>3
    <3>3. /\ \A i \in DOMAIN queue' : queue'[i] \in announced'
          /\ \A i, j \in DOMAIN queue' : queue'[i] = queue'[j] => i = j
      BY <1>1, <2>1, <3>1 DEF Announce, QueueInv
    <3> QED
      BY <1>1, <3>2, <3>3 DEF Announce, QueueInv, At
  <2> QED
    BY <1>1, <2>2, <2>3 DEF Announce
<1>2. CASE Receive
  <2>1. CASE Insert(Consumer, Head(queue)) /\ UNCHANGED queue
    <3>1. /\ work'[Consumer].cert = Len(certs) + 1
          /\ certs'[Len(certs) + 1].of = Head(queue)
      BY <1>2, <2>1, InsertedRow, AnsweredQueue
         DEF Receive, Insert, Goes, TypeOK, Workers
    <3> QED
      BY <1>2, <2>1, <3>1 DEF Receive, QueueInv
  <2>2. CASE Nack /\ UNCHANGED <<certs, work>>
    BY <1>2, <2>2 DEF Receive, QueueInv, Nack, At
  <2> QED
    BY <1>2, <2>1, <2>2 DEF Receive
<1>3. ASSUME NEW h \in Handlers, Generate(h) \/ Serve(h) \/ \E c \in DOMAIN certs : Download(h, c)
      PROVE  QueueInv'
  <2>1. work'[Consumer] = work[Consumer]
    BY <1>3, CertificatesAssumption
       DEF Generate, Serve, Download, Insert, Goes, Close, TypeOK, Workers
  <2>2. ~ At(Consumer, "idle") => work[Consumer].cert \in DOMAIN certs
    BY WorkedOn DEF Workers
  <2> QED
    BY <1>3, <2>1, <2>2 DEF Generate, Serve, Download, QueueInv, At
<1>4. ASSUME NEW w \in Workers, WritePdf(w) \/ SaveUrl(w) PROVE QueueInv'
  <2>1. /\ work'[Consumer].cert = work[Consumer].cert
        /\ At(Consumer, "idle") <=> At(Consumer, "idle")'
    BY <1>4 DEF WritePdf, SaveUrl, Goes, TypeOK, Workers, At
  <2>2. ~ At(Consumer, "idle") => work[Consumer].cert \in DOMAIN certs
    BY WorkedOn DEF Workers
  <2> QED
    BY <1>4, <2>1, <2>2 DEF WritePdf, SaveUrl, QueueInv
<1>5. ASSUME NEW w \in Workers, Issued(w) \/ SaveFails(w) PROVE QueueInv'
  <2>1. CASE w = Consumer
    <3>1. At(Consumer, "idle")'
      BY <1>5, <2>1 DEF Issued, SaveFails, Close, At, Idle, TypeOK
    <3>2. queue' = queue \/ (queue # <<>> /\ queue' = Tail(queue))
      BY <1>5, <2>1 DEF Issued, SaveFails, Ack, At, QueueInv
    <3>3. announced' = announced
      BY <1>5 DEF Issued, SaveFails
    <3> QED
      BY <3>1, <3>2, <3>3, AnsweredQueue DEF QueueInv
  <2>2. CASE w # Consumer
    <3>1. work'[Consumer] = work[Consumer] /\ queue' = queue /\ certs' = certs /\ announced' = announced
      BY <1>5, <2>2 DEF Issued, SaveFails, Close, Ack, TypeOK, Workers
    <3> QED
      BY <3>1 DEF QueueInv, At
  <2> QED
    BY <2>1, <2>2
<1>6. CASE Crash
  BY <1>6 DEF Crash, QueueInv, At, Idle, Workers
<1>8. CASE Disconnect
  BY <1>8 DEF Disconnect, Close, QueueInv, At, Idle, TypeOK, Workers
<1>7. CASE (\E c \in DOMAIN certs : Revoke(c)) \/ UNCHANGED vars
  <2>1. ~ At(Consumer, "idle") => work[Consumer].cert \in DOMAIN certs
    BY WorkedOn DEF Workers
  <2> QED
    BY <1>7, <2>1 DEF Revoke, QueueInv, At, vars
<1> QED
  BY <1>1, <1>2, <1>3, <1>4, <1>5, <1>6, <1>7, <1>8 DEF Next, Step

----------------------------------------------------------------------------
(* Certificates are not made twice.                                        *)

(* Two certificates for one purchase need a message delivered again.  One  *)
(* whose message is still in the queue is the one the consumer works on.   *)
CertInv ==
  /\ \A c \in DOMAIN certs : certs[c].of = None \/ certs[c].of \in announced
  /\ \A c, d \in DOMAIN certs :
       certs[c].of = certs[d].of /\ certs[c].of # None /\ certs[c].of \notin again => c = d
  /\ \A c \in DOMAIN certs, i \in DOMAIN queue :
       certs[c].of = queue[i] /\ queue[i] \notin again =>
         ~ At(Consumer, "idle") /\ c = work[Consumer].cert

LEMMA CertInit == Init => CertInv
<1> SUFFICES ASSUME Init PROVE CertInv
  OBVIOUS
<1>1. DOMAIN certs = {}
  BY DEF Init
<1> QED
  BY <1>1 DEF CertInv

(* Steps that make no certificate, and leave the consumer at its message.  *)
LEMMA QuietStep ==
  ASSUME TypeOK, CertInv, DOMAIN certs' = DOMAIN certs,
         \A c \in DOMAIN certs : certs'[c].of = certs[c].of,
         UNCHANGED <<announced, queue, again>>,
         work'[Consumer].cert = work[Consumer].cert,
         At(Consumer, "idle") <=> At(Consumer, "idle")'
  PROVE  CertInv'
BY DEF CertInv

LEMMA CertStep ==
  ASSUME TypeOK, QueueInv, CertInv, [Next]_vars
  PROVE  CertInv'
<1>0. None \notin Purchases /\ queue \in Seq(Purchases)
  BY CertificatesAssumption DEF TypeOK
<1>a. \A i \in DOMAIN queue : queue[i] \in Purchases
  BY <1>0, LenProperties, ElementOfSeq
<1>1. ASSUME NEW p \in Purchases, Announce(p) PROVE CertInv'
  <2>1. /\ announced' = announced \cup {p} /\ p \notin announced /\ p # None
        /\ UNCHANGED <<certs, work, again>>
    BY <1>0, <1>1 DEF Announce
  <2>2. \A i \in DOMAIN queue' : (i \in DOMAIN queue /\ queue'[i] = queue[i]) \/ queue'[i] = p
    <3>1. CASE queue' = queue
      BY <3>1
    <3>2. CASE queue' = Append(queue, p)
      BY <1>0, <3>2, AppendProperties, LenProperties
    <3> QED
      BY <1>1, <3>1, <3>2 DEF Announce
  <2> QED
    BY <2>1, <2>2 DEF CertInv, At
<1>2. ASSUME NEW w \in Workers, NEW p \in Purchases \cup {None}, Insert(w, p),
             UNCHANGED <<announced, queue, again>>,
             p = None \/ (w = Consumer /\ At(w, "idle") /\ queue # <<>> /\ p = Head(queue)),
             p = None => w # Consumer
      PROVE  CertInv'
  <2> DEFINE n == Len(certs) + 1
  <2>1. /\ DOMAIN certs' = DOMAIN certs \cup {n} /\ n \notin DOMAIN certs
        /\ \A c \in DOMAIN certs : certs'[c].of = certs[c].of
        /\ certs'[n].of = p
    BY <1>2, InsertedRow
  <2>2. CASE p = None
    <3>1. work'[Consumer] = work[Consumer]
      BY <1>2, <2>2 DEF Insert, Goes, TypeOK, Workers
    <3> HIDE DEF n
    <3> QED
      BY <1>0, <1>a, <1>2, <2>1, <2>2, <3>1 DEF CertInv, At
  <2>3. CASE p # None
    <3>1. /\ At(Consumer, "idle") /\ p = queue[1] /\ 1 \in DOMAIN queue
          /\ work'[Consumer].cert = n /\ ~ At(Consumer, "idle")'
      BY <1>2, <2>3, AnsweredQueue DEF Insert, Goes, TypeOK, Workers, At
    <3> HIDE DEF n
    <3>2. \A c \in DOMAIN certs, i \in DOMAIN queue :
            queue[i] \notin again => certs[c].of # queue[i]
      BY <3>1 DEF CertInv
    <3>3. p \in announced
      BY <3>1 DEF QueueInv
    <3>4. \A i \in DOMAIN queue : queue[i] = p => i = 1
      BY <3>1 DEF QueueInv
    <3> QED
      BY <1>0, <1>2, <2>1, <2>3, <3>1, <3>2, <3>3, <3>4 DEF CertInv
  <2> QED
    BY <2>2, <2>3
<1>3. CASE Receive
  <2>1. CASE Insert(Consumer, Head(queue)) /\ UNCHANGED queue
    <3>1. Head(queue) \in Purchases /\ At(Consumer, "idle")
      BY <1>3, AnsweredQueue DEF Receive, At, Idle
    <3> QED
      BY <1>0, <1>2, <1>3, <2>1, <3>1 DEF Receive, Workers
  <2>2. CASE Nack /\ UNCHANGED <<certs, work>>
    BY <1>3, <2>2, QuietStep DEF Receive, Nack, At
  <2> QED
    BY <1>3, <2>1, <2>2 DEF Receive
<1>4. ASSUME NEW h \in Handlers, Generate(h) PROVE CertInv'
  BY <1>2, <1>4, CertificatesAssumption DEF Generate, Workers
<1>5. ASSUME NEW h \in Handlers, Serve(h) \/ \E c \in DOMAIN certs : Download(h, c)
      PROVE  CertInv'
  <2>1. work'[Consumer] = work[Consumer]
    BY <1>5, CertificatesAssumption DEF Serve, Download, Goes, Close, TypeOK, Workers
  <2> QED
    BY <1>5, <2>1, QuietStep DEF Serve, Download, At
<1>6. ASSUME NEW w \in Workers, WritePdf(w) \/ SaveUrl(w) PROVE CertInv'
  <2>1. /\ work'[Consumer].cert = work[Consumer].cert
        /\ At(Consumer, "idle") <=> At(Consumer, "idle")'
    BY <1>6 DEF WritePdf, SaveUrl, Goes, TypeOK, Workers, At
  <2>2. DOMAIN certs' = DOMAIN certs
    BY <1>6 DEF WritePdf, SaveUrl
  <2>3. \A c \in DOMAIN certs : certs'[c].of = certs[c].of
    BY RowsAreKept DEF KeepsRows
  <2> QED
    BY <1>6, <2>1, <2>2, <2>3, QuietStep DEF WritePdf, SaveUrl
<1>7. ASSUME NEW c \in DOMAIN certs, Revoke(c) PROVE CertInv'
  <2>1. \A d \in DOMAIN certs : certs'[d].of = certs[d].of
    BY RowsAreKept DEF KeepsRows
  <2>2. DOMAIN certs' = DOMAIN certs
    BY <1>7 DEF Revoke
  <2> QED
    BY <1>7, <2>1, <2>2, QuietStep DEF Revoke, At
(* The consumer takes its message out of the queue, and any certificate    *)
(* made for it is the one it has just made.                                *)
<1>8. CASE Issued(Consumer)
  <2>1. /\ queue # <<>> /\ queue' = Tail(queue) /\ ~ At(Consumer, "idle")
        /\ certs[work[Consumer].cert].of = queue[1] /\ 1 \in DOMAIN queue
        /\ UNCHANGED <<announced, certs, again>>
    BY <1>8, AnsweredQueue DEF Issued, Ack, At, QueueInv
  <2>2. \A i \in DOMAIN queue' : \E j \in DOMAIN queue : j # 1 /\ queue'[i] = queue[j]
    BY <2>1, AnsweredQueue
  <2>3. \A j \in DOMAIN queue : j # 1 => queue[j] # queue[1]
    BY <2>1 DEF QueueInv
  <2>4. \A c \in DOMAIN certs, i \in DOMAIN queue' : queue'[i] \notin again => certs[c].of # queue'[i]
    BY <2>1, <2>2, <2>3 DEF CertInv
  <2> QED
    BY <2>1, <2>4 DEF CertInv
(* Its message stays, and will be delivered again.                         *)
<1>9. ASSUME Redelivered(Consumer), UNCHANGED <<announced, queue, certs>>
      PROVE  CertInv'
  <2>1. CASE At(Consumer, "idle")
    <3>1. again' = again
      BY <1>9, <2>1, BusyIsNotIdle DEF Redelivered, Workers
    <3> QED
      BY <1>9, <2>1, <3>1 DEF CertInv
  <2>2. CASE ~ At(Consumer, "idle")
    <3>1. /\ again' = again \cup {queue[1]} /\ 1 \in DOMAIN queue
          /\ certs[work[Consumer].cert].of = queue[1]
      BY <1>9, <2>2, BusyIsNotIdle, AnsweredQueue DEF Redelivered, Workers, QueueInv
    <3>2. \A c \in DOMAIN certs, i \in DOMAIN queue : queue[i] \notin again' => certs[c].of # queue[i]
      BY <3>1 DEF CertInv
    <3> QED
      BY <1>9, <3>1, <3>2 DEF CertInv
  <2> QED
    BY <2>1, <2>2
<1>10. ASSUME NEW h \in Handlers, Issued(h) \/ SaveFails(h) PROVE CertInv'
  <2>1. work'[Consumer] = work[Consumer] /\ UNCHANGED <<queue, certs, announced, again>>
    BY <1>10, CertificatesAssumption
       DEF Issued, SaveFails, Close, Ack, Redelivered, TypeOK, Workers
  <2> QED
    BY <2>1, QuietStep DEF At
<1>11. CASE UNCHANGED vars
  BY <1>11, QuietStep DEF vars, At
<1> QED
  BY <1>1, <1>3, <1>4, <1>5, <1>6, <1>7, <1>8, <1>9, <1>10, <1>11
     DEF Next, Step, SaveFails, Disconnect, Crash, Workers

LEMMA CertInvHolds == Spec => [](TypeOK /\ QueueInv /\ CertInv)
<1>1. Init => TypeOK /\ QueueInv /\ CertInv
  BY TypeInit, QueueInit, CertInit
<1>2. TypeOK /\ QueueInv /\ CertInv /\ [Next]_vars => (TypeOK /\ QueueInv /\ CertInv)'
  BY TypeStep, QueueStep, CertStep
<1> QED
  BY <1>1, <1>2, PTL DEF Spec

(* Every variable keeps its type.                                          *)
THEOREM TypeCorrect == Spec => []TypeOK
BY CertInvHolds, PTL

(* One certificate for each purchase, for any number of purchases, of      *)
(* failures and of crashes, unless its message was delivered again after   *)
(* the row was committed.                                                  *)
THEOREM OnceCertified == Spec => []CertifiedOnce
<1>1. TypeOK /\ CertInv => CertifiedOnce
  <2> SUFFICES ASSUME TypeOK, CertInv, NEW p \in Purchases \ again
               PROVE  Cardinality({c \in DOMAIN certs : certs[c].of = p}) <= 1
    BY DEF CertifiedOnce
  <2> DEFINE S == {c \in DOMAIN certs : certs[c].of = p}
  <2>1. \A c, d \in S : c = d
    BY CertificatesAssumption DEF CertInv
  <2>2. CASE S = {}
    BY <2>2, FS_EmptySet
  <2>3. ASSUME NEW c \in S PROVE Cardinality(S) <= 1
    <3>1. S = {c}
      BY <2>1, <2>3
    <3>2. Cardinality({c}) = 1
      BY FS_Singleton
    <3> QED
      BY <3>1, <3>2
  <2> QED
    BY <2>2, <2>3
<1> QED
  BY <1>1, CertInvHolds, PTL

----------------------------------------------------------------------------
(* Downloads find their file.                                              *)

FilesInv ==
  /\ ~ failed
  /\ \A c \in DOMAIN certs : certs[c].pdf => c \in files
  /\ \A w \in Workers : At(w, "printed") \/ At(w, "checked") => work[w].cert \in files

LEMMA FilesStep ==
  ASSUME TypeOK, FilesInv, [Next]_vars
  PROVE  FilesInv'
<1>1. ASSUME NEW w \in Workers, NEW p \in Purchases \cup {None}, Insert(w, p),
             UNCHANGED <<files, failed>>
      PROVE  FilesInv'
  <2>1. \A c \in DOMAIN certs' : certs'[c].pdf => c \in files
    BY <1>1, InsertedRow DEF FilesInv
  <2>2. \A v \in Workers : (At(v, "printed") \/ At(v, "checked"))' =>
          (At(v, "printed") \/ At(v, "checked")) /\ work'[v] = work[v]
    BY <1>1 DEF Insert, Goes, At, TypeOK
  <2> QED
    BY <1>1, <2>1, <2>2 DEF FilesInv
<1>2. CASE Receive
  <2>1. CASE UNCHANGED <<certs, work>>
    BY <1>2, <2>1 DEF Receive, FilesInv, At
  <2> QED
    BY <1>1, <1>2, <2>1, AnsweredQueue DEF Receive, Workers
<1>3. ASSUME NEW h \in Handlers, Generate(h) PROVE FilesInv'
  BY <1>1, <1>3 DEF Generate, Workers
<1>4. ASSUME NEW w \in Workers, WritePdf(w) PROVE FilesInv'
  <2>1. \A v \in Workers : v # w => work'[v] = work[v]
    BY <1>4 DEF WritePdf, Goes, TypeOK
  <2>2. CASE files' = files \cup {work[w].cert} /\ Goes(w, "printed", work[w].cert)
    BY <1>4, <2>1, <2>2 DEF WritePdf, Goes, FilesInv, At, TypeOK
  <2>3. CASE UNCHANGED files /\ Goes(w, "saved", work[w].cert)
    BY <1>4, <2>1, <2>3 DEF WritePdf, Goes, FilesInv, At, TypeOK
  <2> QED
    BY <1>4, <2>2, <2>3 DEF WritePdf
(* The URL is saved by a worker that has written the file.                 *)
<1>5. ASSUME NEW w \in Workers, SaveUrl(w) PROVE FilesInv'
  <2> DEFINE c == work[w].cert
  <2>1. c \in DOMAIN certs /\ c \in files
    BY <1>5, WorkedOn DEF SaveUrl, At, FilesInv
  <2>2. certs' = [certs EXCEPT ![c] = [certs[c] EXCEPT !.pdf = TRUE]]
    BY <1>5 DEF SaveUrl
  <2>3. \A v \in Workers : (At(v, "printed") \/ At(v, "checked"))' =>
          (At(v, "printed") \/ At(v, "checked")) /\ work'[v] = work[v]
    BY <1>5 DEF SaveUrl, Goes, At, TypeOK
  <2>4. \A d \in DOMAIN certs' : certs'[d].pdf => d \in files
    <3> HIDE DEF c
    <3> QED
      BY <2>1, <2>2, WrittenRow, SavedUrl DEF FilesInv
  <2> QED
    BY <1>5, <2>3, <2>4 DEF SaveUrl, FilesInv
<1>6. ASSUME NEW w \in Workers, Issued(w) \/ SaveFails(w) PROVE FilesInv'
  <2>1. \A v \in Workers : (At(v, "printed") \/ At(v, "checked"))' =>
          (At(v, "printed") \/ At(v, "checked")) /\ work'[v] = work[v]
    BY <1>6 DEF Issued, SaveFails, Close, Idle, At, TypeOK
  <2> QED
    BY <1>6, <2>1 DEF Issued, SaveFails, FilesInv
<1>7. CASE Crash
  BY <1>7 DEF Crash, FilesInv, At, Idle
<1>12. CASE Disconnect
  BY <1>12 DEF Disconnect, Close, FilesInv, At, Idle, TypeOK
<1>8. ASSUME NEW h \in Handlers, Serve(h) PROVE FilesInv'
  <2>1. \A v \in Workers : (At(v, "printed") \/ At(v, "checked"))' =>
          (At(v, "printed") \/ At(v, "checked")) /\ work'[v] = work[v]
    BY <1>8 DEF Serve, Close, Idle, At, TypeOK
  <2>2. failed' = FALSE
    BY <1>8 DEF Serve, FilesInv, Workers, At
  <2> QED
    BY <1>8, <2>1, <2>2 DEF Serve, FilesInv
<1>9. ASSUME NEW c \in DOMAIN certs, Revoke(c) PROVE FilesInv'
  <2>1. certs' = [certs EXCEPT ![c] = [certs[c] EXCEPT !.status = "revoked"]]
    BY <1>9 DEF Revoke
  <2>2. \A d \in DOMAIN certs' : certs'[d].pdf => d \in files
    BY <2>1, WrittenRow, SavedUrl DEF FilesInv
  <2> QED
    BY <1>9, <2>2 DEF Revoke, FilesInv, At
(* A download is let through when the row has a URL.                       *)
<1>10. ASSUME NEW h \in Handlers, NEW c \in DOMAIN certs, Download(h, c) PROVE FilesInv'
  <2>1. work'[h].cert = c /\ c \in files /\ \A v \in Workers : v # h => work'[v] = work[v]
    BY <1>10 DEF Download, Goes, TypeOK, FilesInv, Workers
  <2> QED
    BY <1>10, <2>1 DEF Download, FilesInv, At
<1>11. CASE (\E p \in Purchases : Announce(p)) \/ UNCHANGED vars
  BY <1>11 DEF Announce, vars, FilesInv, At
<1> QED
  BY <1>2, <1>3, <1>4, <1>5, <1>6, <1>7, <1>8, <1>9, <1>10, <1>11, <1>12 DEF Next, Step

(* A download that was let through finds its file, for any number of       *)
(* threads and whatever failed: the URL is only saved after the file.      *)
THEOREM DownloadsFindFiles == Spec => []DownloadsSucceed
<1>1. Init => FilesInv
  BY DEF Init, FilesInv, At, Idle
<1>2. TypeOK /\ FilesInv /\ [Next]_vars => FilesInv'
  BY FilesStep
<1>3. FilesInv => DownloadsSucceed
  BY DEF FilesInv, DownloadsSucceed
<1> QED
  BY <1>1, <1>2, <1>3, TypeCorrect, PTL DEF Spec

----------------------------------------------------------------------------
(* The pages of CCM-Frontend.                                              *)

Questions == [asks : Fields, since : Versions]
Requested == [row : Rows \cup {Form}, action : DOMAIN page.actions, again : Fields]

(* Unless something overlapped or failed, one question at most is in       *)
(* flight, and it, or the rows if there is none, are as of the last action *)
(* and, unless a reset sent it, what the user asked for.                   *)
ListInv ==
  /\ field \in Fields /\ asked \in Fields /\ loads \in Seq(Questions)
  /\ rows \in [asks : Fields, seen : Versions] \cup {Nothing}
  /\ loading \in BOOLEAN /\ refreshing \in BOOLEAN /\ quiet \in BOOLEAN /\ stale \in BOOLEAN
  /\ quiet =>
       /\ Len(loads) <= 1
       /\ loads # <<>> => loads[1].since = version /\ (stale \/ loads[1].asks = asked)
       /\ loads = <<>> => rows # Nothing /\ rows.seen = version /\ (stale \/ rows.asks = asked)

(* Every action in flight takes a gesture.                                 *)
ActionsInv ==
  /\ dialog = NoDialog \/ (dialog.row \in Rows \cup {Form} /\ dialog.action \in DOMAIN page.actions)
  /\ posts \in Seq(Requested) /\ busy \in Rows \cup {Form, NoRow}
  /\ version \in Nat /\ gestures \in Versions /\ version + Len(posts) <= gestures

(* What the guard of all rows lets through keeps the flag up.              *)
Guarded(i) == Works(posts[i].action).guard = "any"
FlagInv ==
  KeepsFlag /\ (\A a \in DOMAIN page.actions : Works(a).guard # "row") =>
    \A i \in DOMAIN posts : Guarded(i) => busy # NoRow /\ \A j \in DOMAIN posts : Guarded(j) => i = j

(* Unless two questions crossed or the last one failed, the one in flight  *)
(* is about the row of the dialog, and what has come is about it, too.     *)
DetailsInv ==
  /\ detail \in [row : Rows \cup {NoRow}, shows : Rows \cup {NoRow}, waits : BOOLEAN]
  /\ views \in Seq(Rows) /\ mixed \in {"no", "crossed", "failed"}
  /\ page.detail.opens \notin {"first", "last"} => views = <<>>
  /\ mixed = "no" =>
       /\ Len(views) <= 1
       /\ detail.row # NoRow =>
            /\ views # <<>> => views[1] = detail.row
            /\ ~detail.waits => detail.shows = detail.row
            /\ detail.waits /\ page.detail.before = "clears" => detail.shows = NoRow

PagesInv == page \in Shown /\ ListInv /\ ActionsInv /\ FlagInv /\ DetailsInv

----------------------------------------------------------------------------
(* Sequences and fields.                                                   *)

(* One entry is taken out: those behind it move up.                        *)
LEMMA RemovedAt ==
  ASSUME NEW S, NEW s \in Seq(S), NEW i \in DOMAIN s, NEW r, r = RemoveAt(s, i)
  PROVE  /\ r \in Seq(S) /\ Len(s) \in Nat \ {0} /\ Len(r) = Len(s) - 1 /\ s[i] \in S
         /\ DOMAIN s = 1 .. Len(s) /\ DOMAIN r = 1 .. Len(s) - 1
         /\ \A j \in 1 .. Len(s) - 1 : r[j] = s[IF j < i THEN j ELSE j + 1]
<1>1. /\ Len(s) \in Nat /\ i \in 1 .. Len(s) /\ DOMAIN s = 1 .. Len(s)
      /\ \A j \in 1 .. Len(s) : s[j] \in S
  BY LenProperties, ElementOfSeq
<1> DEFINE a == SubSeq(s, 1, i - 1)
           b == SubSeq(s, i + 1, Len(s))
<1>2. /\ a \in Seq(S) /\ Len(a) = i - 1
      /\ \A j \in 1 .. i - 1 : a[j] = s[j]
  <2>1. \A j \in 1 .. i - 1 : s[j] \in S
    BY <1>1
  <2>2. /\ a \in Seq(S) /\ Len(a) = IF 1 <= i - 1 THEN i - 1 - 1 + 1 ELSE 0
        /\ \A j \in 1 .. i - 1 - 1 + 1 : a[j] = s[1 + j - 1]
    BY <1>1, <2>1, SubSeqProperties
  <2> QED
    BY <1>1, <2>2
<1>3. /\ b \in Seq(S) /\ Len(b) = Len(s) - i
      /\ \A j \in 1 .. Len(s) - i : b[j] = s[i + j]
  <2>1. \A j \in i + 1 .. Len(s) : s[j] \in S
    BY <1>1
  <2>2. /\ b \in Seq(S) /\ Len(b) = IF i + 1 <= Len(s) THEN Len(s) - (i + 1) + 1 ELSE 0
        /\ \A j \in 1 .. Len(s) - (i + 1) + 1 : b[j] = s[i + 1 + j - 1]
    BY <1>1, <2>1, SubSeqProperties
  <2> HIDE DEF b
  <2>3. ASSUME NEW j \in 1 .. Len(s) - i PROVE b[j] = s[i + j]
    <3>1. j \in 1 .. Len(s) - (i + 1) + 1 /\ i + 1 + j - 1 = i + j
      BY <1>1
    <3> QED
      BY <2>2, <3>1
  <2>4. Len(b) = Len(s) - i
    BY <1>1, <2>2
  <2> QED
    BY <2>2, <2>3, <2>4
<1>4. r = a \o b
  BY DEF RemoveAt
<1> HIDE DEF a, b
<1>5. /\ r \in Seq(S) /\ Len(r) = Len(s) - 1
      /\ \A j \in 1 .. Len(s) - 1 : r[j] = IF j <= i - 1 THEN a[j] ELSE b[j - (i - 1)]
  <2>1. /\ r \in Seq(S) /\ Len(r) = Len(a) + Len(b)
        /\ \A j \in 1 .. Len(a) + Len(b) : r[j] = IF j <= Len(a) THEN a[j] ELSE b[j - Len(a)]
    <3>1. /\ a \o b \in Seq(S) /\ Len(a \o b) = Len(a) + Len(b)
          /\ \A j \in 1 .. Len(a) + Len(b) :
               (a \o b)[j] = IF j <= Len(a) THEN a[j] ELSE b[j - Len(a)]
      BY <1>2, <1>3, ConcatProperties
    <3> QED
      BY <1>4, <3>1
  <2>2. Len(a) = i - 1 /\ Len(a) + Len(b) = Len(s) - 1
    BY <1>1, <1>2, <1>3
  <2> QED
    BY <2>1, <2>2
<1>6. ASSUME NEW j \in 1 .. Len(s) - 1
      PROVE  r[j] = s[IF j < i THEN j ELSE j + 1]
  <2>1. CASE j < i
    BY <1>1, <1>2, <1>5, <2>1
  <2>2. CASE ~(j < i)
    <3>1. j - (i - 1) \in 1 .. Len(s) - i /\ i + (j - (i - 1)) = j + 1
      BY <1>1, <2>2
    <3> QED
      BY <1>1, <1>3, <1>5, <2>2, <3>1
  <2> QED
    BY <2>1, <2>2
<1>7. DOMAIN r = 1 .. Len(s) - 1
  BY <1>5, LenProperties
<1> QED
  BY <1>1, <1>5, <1>6, <1>7

(* Where one was, none is left.                                            *)
LEMMA OnlyOneRemoved ==
  ASSUME NEW S, NEW s \in Seq(S), NEW i \in DOMAIN s, Len(s) <= 1
  PROVE  i = 1 /\ s # <<>> /\ RemoveAt(s, i) = <<>>
<1>1. /\ RemoveAt(s, i) \in Seq(S) /\ Len(s) \in Nat \ {0} /\ DOMAIN s = 1 .. Len(s)
      /\ Len(RemoveAt(s, i)) = Len(s) - 1
  BY RemovedAt
<1>2. Len(s) = 1 /\ Len(RemoveAt(s, i)) = 0 /\ i = 1
  BY <1>1
<1>3. s # <<>>
  BY <1>2, EmptySeq
<1> QED
  BY <1>1, <1>2, <1>3, EmptySeq

LEMMA Appended ==
  ASSUME NEW S, NEW s \in Seq(S), NEW e \in S, NEW r, r = Append(s, e)
  PROVE  /\ r \in Seq(S) /\ r # <<>> /\ Len(s) \in Nat /\ Len(r) = Len(s) + 1
         /\ DOMAIN s = 1 .. Len(s) /\ DOMAIN r = 1 .. Len(s) + 1
         /\ r[Len(s) + 1] = e /\ \A j \in 1 .. Len(s) : r[j] = s[j]
         /\ s = <<>> => Len(r) = 1 /\ r[1] = e
<1>1. /\ r \in Seq(S) /\ Len(s) \in Nat /\ Len(r) = Len(s) + 1
      /\ r[Len(s) + 1] = e /\ \A j \in 1 .. Len(s) : r[j] = s[j]
  BY AppendProperties, LenProperties
<1>2. s = <<>> => Len(s) = 0
  BY EmptySeq
<1>3. r # <<>>
  BY <1>1, EmptySeq
<1> QED
  BY <1>1, <1>2, <1>3, LenProperties

LEMMA SameFields ==
  ASSUME NEW f \in Fields, NEW g \in Fields, f.page = g.page, f.pick = g.pick, f.text = g.text
  PROVE  f = g
BY DEF Fields

LEMMA FieldsSet ==
  ASSUME NEW f \in Fields, NEW k \in {0, 1}
  PROVE  /\ [f EXCEPT !.page = k] \in Fields
         /\ [f EXCEPT !.pick = k, !.page = 0] \in Fields
         /\ [f EXCEPT !.pick = k] \in Fields
         /\ [f EXCEPT !.text = k] \in Fields
         /\ First \in Fields /\ Lookup \in Fields
BY DEF Fields, First, Lookup

LEMMA ListOfFields ==
  ASSUME NEW f \in Fields
  PROVE  ListOf(f) \in Fields
BY DEF Fields, ListOf

LEMMA NothingIsNoAnswer ==
  ASSUME NEW q, NEW v
  PROVE  [asks |-> q, seen |-> v] # Nothing
<1>1. DOMAIN [asks |-> q, seen |-> v] = {"asks", "seen"} /\ DOMAIN Nothing = {"asks"}
  BY DEF Nothing
<1> QED
  BY <1>1

(* The text is the only field that is cleared and not watched.             *)
LEMMA ClearedFields ==
  ASSUME field \in Fields
  PROVE  /\ Cleared \in Fields /\ ListOf(Cleared) \in Fields
         /\ Watched(Cleared) = Watched(field) /\ ListOf(field).text = 0
              => ListOf(Cleared) = ListOf(field)
<1>1. DOMAIN field = {"page", "pick", "text"} /\ field.page \in {0, 1} /\ field.pick \in {0, 1}
      /\ field.text \in {0, 1}
  BY DEF Fields
<1> DEFINE c(x) == IF x \in page.list.clears THEN 0 ELSE field[x]
<1>2. Cleared = [page |-> c("page"), pick |-> c("pick"), text |-> c("text")]
  BY <1>1 DEF Cleared
<1>3. Cleared.page = c("page") /\ Cleared.pick = c("pick") /\ Cleared.text = c("text")
  BY <1>2
<1>4. Cleared \in Fields
  BY <1>1, <1>2 DEF Fields
<1>5. ASSUME Watched(Cleared) = Watched(field), ListOf(field).text = 0
      PROVE  ListOf(Cleared) = ListOf(field)
  <2>1. Cleared.page = field.page /\ Cleared.pick = field.pick
    BY <1>5 DEF Watched
  <2>2. CASE page.list.typed = "sent"
    <3>1. field.text = 0 /\ Cleared.text = 0
      BY <1>1, <1>3, <1>5, <2>2 DEF ListOf
    <3>2. Cleared = field
      BY <1>4, <2>1, <3>1, SameFields
    <3> QED
      BY <3>2
  <2>3. CASE page.list.typed # "sent"
    <3>1. ListOf(Cleared) = [Cleared EXCEPT !.text = 0] /\ ListOf(field) = [field EXCEPT !.text = 0]
      BY <2>3 DEF ListOf
    <3>2. ListOf(Cleared) \in Fields /\ ListOf(field) \in Fields
      BY <1>4, ListOfFields
    <3>3. /\ ListOf(Cleared).page = Cleared.page /\ ListOf(field).page = field.page
          /\ ListOf(Cleared).pick = Cleared.pick /\ ListOf(field).pick = field.pick
          /\ ListOf(Cleared).text = 0
      BY <1>4, <3>1 DEF Fields
    <3> QED
      BY <1>5, <2>1, <3>2, <3>3, SameFields
  <2> QED
    BY <2>2, <2>3
<1> QED
  BY <1>4, <1>5, ListOfFields

----------------------------------------------------------------------------
(* What the pages have in common.                                          *)

LEMMA ScreenDetail ==
  ASSUME NEW l, NEW t, NEW a, NEW d
  PROVE  Screen(l, t, a, d).detail = d
BY DEF Screen

Known(d) ==
  /\ d.before \in {"keeps", "clears", "covers"}
  /\ d.again => d.opens = "first" /\ d.before = "covers"

LEMMA KnownDetails ==
  /\ Known(Unasked) /\ Known(Local) /\ Known(TripsDetail) /\ Known(ListingsDetail)
  /\ Known(MyListingsDetail) /\ Known(PaymentsDetail) /\ Known(UsersHistory)
  /\ Known(AdminTransactionsHistory) /\ Known(AdminWalletsDetail) /\ Known(OverridesDetail)
  /\ Known(AdminsDetail) /\ Known(AuditLogsDetail)
BY DEF Known, Detail, Unasked, Local, TripsDetail, TripsDialog, ListingsDetail, MyListingsDetail,
       MyListingsBids, PaymentsDetail, PaymentsDialog, UsersHistory, UsersHistoryDialog,
       AdminTransactionsHistory, AdminWalletsDetail, AdminWalletsDialog, OverridesDetail,
       AdminsDetail, AuditLogsDetail

LEMMA DetailsAreKnown ==
  ASSUME NEW p \in Routes
  PROVE  Known(p.detail)
<1>1. p \in {Trips, Listings, MyListings, Payments, Users, AdminTransactions, AdminWallets, Overrides,
             Admins, AuditLogs} => Known(p.detail)
  BY KnownDetails, ScreenDetail
     DEF Trips, Listings, MyListings, Payments, Users, AdminTransactions, AdminWallets, Overrides,
         Admins, AuditLogs
<1>2. p \in {Kyc, Transactions, AdminKyc, AdminListings, ListingTransactions} => Known(p.detail)
  BY KnownDetails, ScreenDetail
     DEF Kyc, KycPreview, Transactions, TransactionsDetail, AdminKyc, AdminKycPreview,
         AdminListings, AdminListingsDetail, ListingTransactions, ListingTransactionsDetail
<1>3. p \in {Wallet, Credits, Certificates, MyBids, Dashboard, Profile, Preferences, Bell,
             Verifications, CVACertificates, CVAReports, Withdrawals, AdminCredits,
             AdminDashboard, Reports} => Known(p.detail)
  BY KnownDetails, ScreenDetail
     DEF Wallet, Credits, Certificates, MyBids, Dashboard, Profile, Preferences, Bell,
         Verifications, CVACertificates, CVAReports, Withdrawals, AdminCredits,
         AdminDashboard, Reports
<1> QED
  BY <1>1, <1>2, <1>3 DEF Routes

----------------------------------------------------------------------------
(* The rows.                                                               *)

LEMMA ListUnseen ==
  ASSUME ListInv, UNCHANGED <<list, version>>
  PROVE  ListInv'
BY DEF ListInv, list, Questions

LEMMA FlagUnseen ==
  ASSUME FlagInv, UNCHANGED <<page, posts, busy>>
  PROVE  FlagInv'
BY DEF FlagInv, Guarded, KeepsFlag, Works, The

LEMMA ActionsUnseen ==
  ASSUME ActionsInv, UNCHANGED <<page, actions>>, gestures' = gestures \/ Gesturing
  PROVE  ActionsInv'
BY PagesAssumption DEF ActionsInv, actions, Gesturing, Requested, Versions, PagesAssumption

LEMMA DetailsUnseen ==
  ASSUME DetailsInv, UNCHANGED <<page, details>>
  PROVE  DetailsInv'
BY DEF DetailsInv, details

(* One question at most is the handler's own.                              *)
LEMMA QuestionsSent ==
  ASSUME NEW g \in Fields, NEW own \in {<<>>} \cup {<<q>> : q \in Fields}, NEW sent,
         sent = own \o IF Watched(g) = Watched(field) THEN <<>> ELSE <<ListOf(g)>>
  PROVE  /\ Len(sent) \in Nat /\ DOMAIN sent = 1 .. Len(sent)
         /\ \A i \in 1 .. Len(sent) : sent[i] \in Fields
         /\ Watched(g) = Watched(field) => sent = own
         /\ Watched(g) # Watched(field) /\ Len(sent) = 1 => own = <<>> /\ sent[1] = ListOf(g)
         /\ Watched(g) # Watched(field) => sent # <<>>
<1> DEFINE rest == IF Watched(g) = Watched(field) THEN <<>> ELSE <<ListOf(g)>>
<1>1. rest \in Seq(Fields) /\ own \in Seq(Fields)
  <2>1. <<>> \in Seq(Fields)
    BY EmptySeq
  <2>2. \A f \in Fields : <<f>> \in Seq(Fields)
    OBVIOUS
  <2>3. ListOf(g) \in Fields
    BY ListOfFields
  <2>4. own \in Seq(Fields)
    BY <2>1, <2>2
  <2>5. <<ListOf(g)>> \in Seq(Fields)
    BY <2>2, <2>3
  <2> QED
    BY <2>1, <2>4, <2>5
<1>2. sent \in Seq(Fields) /\ Len(sent) = Len(own) + Len(rest)
      /\ \A i \in 1 .. Len(own) + Len(rest) :
           sent[i] = IF i <= Len(own) THEN own[i] ELSE rest[i - Len(own)]
  BY <1>1, ConcatProperties
<1>3. Len(sent) \in Nat /\ DOMAIN sent = 1 .. Len(sent) /\ Len(own) \in Nat
      /\ \A i \in 1 .. Len(sent) : sent[i] \in Fields
  BY <1>1, <1>2, LenProperties, ElementOfSeq
<1>4. Watched(g) = Watched(field) => sent = own
  BY <1>1, ConcatEmptySeq
<1>5. ASSUME Watched(g) # Watched(field)
      PROVE  sent # <<>> /\ (Len(sent) = 1 => own = <<>> /\ sent[1] = ListOf(g))
  <2>1. rest = <<ListOf(g)>> /\ Len(rest) = 1 /\ rest[1] = ListOf(g)
    BY <1>5
  <2>2. Len(sent) = Len(own) + 1
    BY <1>2, <2>1
  <2>3. Len(own) = 0 => own = <<>>
    BY <1>1, EmptySeq
  <2>4. Len(own) = 0 => sent[1] = ListOf(g)
    BY <1>2, <2>1
  <2>5. sent # <<>>
    BY <1>2, <1>3, <2>2, EmptySeq
  <2> QED
    BY <1>3, <2>2, <2>3, <2>4, <2>5
<1> QED
  BY <1>3, <1>4, <1>5

(* What a handler may do: to what is watched it adds no question of its    *)
(* own, or one; what it meant is what is then asked, if it asks once.      *)
Meaning(g, own, meant, old) ==
  /\ own = <<>> => meant = IF Watched(g) = Watched(field) THEN asked ELSE ListOf(g)
  /\ Watched(g) = Watched(field) /\ ~old => \A q \in Fields : own = <<q>> => meant = q

(* What the user does, for every handler that means what it asks.          *)
LEMMA GestureStep ==
  ASSUME PagesInv, NEW g \in Fields, NEW own \in {<<>>} \cup {<<q>> : q \in Fields},
         NEW meant \in Fields, NEW old \in BOOLEAN, Gesture(g, own, meant, old),
         Meaning(g, own, meant, old)
  PROVE  PagesInv'
<1> USE DEF list, actions, details, PagesInv
<1> DEFINE sent == own \o IF Watched(g) = Watched(field) THEN <<>> ELSE <<ListOf(g)>>
           asks == [i \in DOMAIN sent |-> Ask(sent[i], version)]
<1>1. /\ Gesturing /\ field' = g /\ asked' = meant
      /\ UNCHANGED <<page, rows, refreshing, dialog, posts, version, details>>
      /\ IF sent = <<>> THEN UNCHANGED <<loads, loading, quiet, stale, busy>>
         ELSE /\ loads' = loads \o asks /\ loading' = TRUE
              /\ quiet' = (loads = <<>> /\ posts = <<>> /\ Len(sent) = 1) /\ stale' = old
              /\ busy' = IF KeepsFlag THEN busy ELSE NoRow
  BY DEF Gesture
<1>2. version \in Versions
  BY PagesAssumption DEF ActionsInv, Versions, PagesAssumption
<1>s. sent = own \o IF Watched(g) = Watched(field) THEN <<>> ELSE <<ListOf(g)>>
  OBVIOUS
<1> HIDE DEF sent
<1>3. /\ Len(sent) \in Nat /\ DOMAIN sent = 1 .. Len(sent)
      /\ \A i \in 1 .. Len(sent) : sent[i] \in Fields
      /\ Watched(g) = Watched(field) => sent = own
      /\ Watched(g) # Watched(field) /\ Len(sent) = 1 => own = <<>> /\ sent[1] = ListOf(g)
      /\ Watched(g) # Watched(field) => sent # <<>>
  BY <1>s, QuestionsSent
<1>5. asks \in Seq(Questions) /\ Len(asks) = Len(sent)
  <2>1. asks = [i \in 1 .. Len(sent) |-> Ask(sent[i], version)]
    BY <1>3
  <2>2. \A i \in 1 .. Len(sent) : Ask(sent[i], version) \in Questions
    BY <1>2, <1>3 DEF Ask, Questions
  <2> QED
    BY <1>3, <2>1, <2>2
<1>4. ListInv'
  <2>1. CASE sent = <<>>
    <3>1. meant = asked
      <4>1. Watched(g) = Watched(field) /\ own = <<>>
        BY <1>3, <2>1
      <4> QED
        BY <4>1 DEF Meaning
    <3> QED
      BY <1>1, <2>1, <3>1 DEF ListInv, Questions
  <2>2. CASE sent # <<>>
    <3>1. /\ loads' = loads \o asks /\ loading' = TRUE
          /\ quiet' = (loads = <<>> /\ posts = <<>> /\ Len(sent) = 1) /\ stale' = old
      BY <1>1, <2>2
    <3>2. loads' \in Seq(Questions)
      BY <1>5, <3>1, ConcatProperties DEF ListInv
    <3>3. ASSUME quiet'
          PROVE  Len(loads') = 1 /\ loads'[1].since = version /\ (old \/ loads'[1].asks = meant)
      <4>1. loads' = asks /\ Len(asks) = 1
        BY <1>5, <3>1, <3>3, ConcatEmptySeq
      <4>2. asks[1] = Ask(sent[1], version)
        BY <1>3, <1>5, <4>1
      <4>3. old \/ sent[1] = meant
        <5>1. CASE Watched(g) # Watched(field)
          BY <1>3, <1>5, <4>1, <5>1 DEF Meaning
        <5>2. CASE Watched(g) = Watched(field)
          <6>1. sent = own
            BY <1>3, <5>2
          <6>2. PICK q \in Fields : own = <<q>>
            BY <2>2, <6>1
          <6> QED
            BY <4>1, <5>2, <6>1, <6>2 DEF Meaning
        <5> QED
          BY <5>1, <5>2
      <4> QED
        BY <4>1, <4>2, <4>3 DEF Ask
    <3>4. loads' # <<>> \/ ~quiet'
      BY <3>3, EmptySeq
    <3>5. quiet' \in BOOLEAN
      BY <3>1
    <3> QED
      BY <1>1, <3>1, <3>2, <3>3, <3>4, <3>5 DEF ListInv, Questions
  <2> QED
    BY <2>1, <2>2
<1>6. ActionsInv'
  BY <1>1, PagesAssumption DEF ActionsInv, Gesturing, Requested, Versions, PagesAssumption
<1>7. FlagInv'
  <2>1. KeepsFlag => busy' = busy
    BY <1>1
  <2> QED
    BY <1>1, <2>1 DEF FlagInv, Guarded, KeepsFlag, Works, The
<1>8. DetailsInv'
  BY <1>1, DetailsUnseen
<1> QED
  BY <1>1, <1>4, <1>6, <1>7, <1>8

(* A question that leaves the rows in sight.                               *)
LEMMA AskAsideStep ==
  ASSUME PagesInv, AskAside
  PROVE  PagesInv'
<1>1. /\ Gesturing /\ asked' = ListOf(field) /\ refreshing' = TRUE /\ stale' = FALSE
      /\ loads' = Append(loads, Ask(ListOf(field), version))
      /\ quiet' = (loads = <<>> /\ posts = <<>>)
      /\ UNCHANGED <<page, field, rows, loading, dialog, posts, busy, version, details>>
  BY DEF AskAside
<1>2. ListOf(field) \in Fields /\ version \in Versions
  BY ListOfFields, PagesAssumption
     DEF PagesInv, ListInv, ActionsInv, Versions, PagesAssumption
<1>3. /\ Ask(ListOf(field), version) \in Questions
      /\ Ask(ListOf(field), version).asks = ListOf(field)
      /\ Ask(ListOf(field), version).since = version
  BY <1>2 DEF Ask, Questions
<1>4. /\ loads' \in Seq(Questions) /\ loads' # <<>>
      /\ loads = <<>> => Len(loads') = 1 /\ loads'[1] = Ask(ListOf(field), version)
  BY <1>1, <1>3, Appended DEF PagesInv, ListInv
<1>5. quiet' \in BOOLEAN /\ (quiet' => loads = <<>>)
  BY <1>1
<1>6. ListInv'
  <2>1. /\ field' \in Fields /\ asked' \in Fields /\ loads' \in Seq(Questions)
        /\ rows' \in [asks : Fields, seen : Versions] \cup {Nothing}
        /\ loading' \in BOOLEAN /\ refreshing' \in BOOLEAN /\ stale' \in BOOLEAN
    BY <1>1, <1>2, <1>4 DEF PagesInv, ListInv
  <2>2. ASSUME quiet'
        PROVE  Len(loads') <= 1 /\ loads'[1].since = version' /\ loads'[1].asks = asked'
    BY <1>1, <1>3, <1>4, <1>5, <2>2
  <2> QED
    BY <1>4, <1>5, <2>1, <2>2 DEF ListInv, Questions
<1>7. ActionsInv' /\ FlagInv' /\ DetailsInv'
  BY <1>1, ActionsUnseen, FlagUnseen, DetailsUnseen DEF PagesInv, actions
<1> QED
  BY <1>1, <1>6, <1>7 DEF PagesInv

LEMMA GesturesStep ==
  ASSUME PagesInv,
         \/ \E k \in {0, 1} : Turn(k) \/ Resize(k) \/ Filter(k) \/ Type(k)
         \/ Search \/ ClearFields \/ Refresh \/ Poll
  PROVE  PagesInv'
<1>0. /\ field \in Fields /\ asked \in Fields /\ First \in Fields /\ Lookup \in Fields
      /\ ListOf(field) \in Fields
      /\ \A q \in Fields : <<q>> # <<>> /\ \A r \in Fields : <<q>> = <<r>> => q = r
  BY ListOfFields, FieldsSet DEF PagesInv, ListInv
<1>o. ASSUME NEW g \in Fields, Watched(g) # Watched(field), Gesture(g, <<>>, ListOf(g), FALSE)
      PROVE  PagesInv'
  <2>1. Meaning(g, <<>>, ListOf(g), FALSE)
    BY <1>0, <1>o DEF Meaning
  <2> QED
    BY <1>o, <2>1, ListOfFields, GestureStep
<1>q. ASSUME NEW g \in Fields, NEW q \in Fields, NEW meant \in Fields, NEW old \in BOOLEAN,
             Gesture(g, <<q>>, meant, old), Watched(g) = Watched(field) /\ ~old => q = meant
      PROVE  PagesInv'
  <2>1. Meaning(g, <<q>>, meant, old)
    BY <1>0, <1>q DEF Meaning
  <2> QED
    BY <1>q, <2>1, GestureStep
<1>1. ASSUME NEW k \in {0, 1}, Turn(k)
      PROVE  PagesInv'
  <2>1. [field EXCEPT !.page = k] \in Fields /\ k # field.page
        /\ Gesture([field EXCEPT !.page = k], <<>>, ListOf([field EXCEPT !.page = k]), FALSE)
    BY <1>0, <1>1, FieldsSet DEF Turn
  <2>2. Watched([field EXCEPT !.page = k]) # Watched(field)
    BY <1>0, <2>1 DEF Watched, Fields
  <2> QED
    BY <1>o, <2>1, <2>2
<1>2. ASSUME NEW k \in {0, 1}, NEW g \in {[field EXCEPT !.pick = k, !.page = 0],
                                          [field EXCEPT !.pick = k]},
             k # field.pick, Gesture(g, <<>>, ListOf(g), FALSE)
      PROVE  PagesInv'
  <2>1. g \in Fields /\ g.pick = k
    <3>1. CASE g = [field EXCEPT !.pick = k, !.page = 0]
      BY <1>0, <3>1, FieldsSet DEF Fields
    <3>2. CASE g = [field EXCEPT !.pick = k]
      BY <1>0, <3>2, FieldsSet DEF Fields
    <3> QED
      BY <1>2, <3>1, <3>2
  <2>2. Watched(g) # Watched(field)
    BY <1>2, <2>1 DEF Watched
  <2> QED
    BY <1>o, <1>2, <2>1, <2>2
<1>3. ASSUME NEW k \in {0, 1}, Filter(k)
      PROVE  PagesInv'
  <2>1. PICK how \in page.list.filters :
          Gesture([field EXCEPT !.pick = k, !.page = IF how = "rewinds" THEN 0 ELSE @], <<>>,
                  ListOf([field EXCEPT !.pick = k, !.page = IF how = "rewinds" THEN 0 ELSE @]), FALSE)
    BY <1>3 DEF Filter
  <2>2. k # field.pick
    BY <1>3 DEF Filter
  <2>3. CASE how = "rewinds"
    <3>1. [field EXCEPT !.pick = k, !.page = IF how = "rewinds" THEN 0 ELSE @]
            = [field EXCEPT !.pick = k, !.page = 0]
      BY <2>3
    <3> QED
      BY <1>2, <2>1, <2>2, <3>1
  <2>4. CASE how # "rewinds"
    <3>1. [field EXCEPT !.pick = k, !.page = IF how = "rewinds" THEN 0 ELSE @]
            = [field EXCEPT !.pick = k]
      BY <1>0, <2>4 DEF Fields
    <3> QED
      BY <1>2, <2>1, <2>2, <3>1
  <2> QED
    BY <2>3, <2>4
<1>4. ASSUME NEW k \in {0, 1}, Type(k)
      PROVE  PagesInv'
  <2>1. [field EXCEPT !.text = k] \in Fields /\ Gesture([field EXCEPT !.text = k], <<>>, asked, FALSE)
    BY <1>0, <1>4, FieldsSet DEF Type
  <2>2. Watched([field EXCEPT !.text = k]) = Watched(field)
    BY <1>0 DEF Watched, Fields
  <2>3. Meaning([field EXCEPT !.text = k], <<>>, asked, FALSE)
    BY <1>0, <2>2 DEF Meaning
  <2> QED
    BY <1>0, <2>1, <2>3, GestureStep
<1>5. CASE Search
  <2>1. CASE Gesture(field, <<ListOf(field)>>, ListOf(field), FALSE)
    BY <1>0, <1>q, <2>1
  <2>2. CASE Gesture(Rewound, <<ListOf(field)>>, ListOf(Rewound), FALSE)
    <3>1. Rewound \in Fields /\ ListOf(Rewound) \in Fields
      BY <1>0, FieldsSet, ListOfFields DEF Rewound
    <3>2. ASSUME Watched(Rewound) = Watched(field) PROVE Rewound = field
      <4>1. Rewound.page = field.page /\ Rewound.pick = field.pick
        BY <3>2 DEF Watched
      <4>2. Rewound.text = field.text
        BY <1>0 DEF Rewound, Fields
      <4> QED
        BY <1>0, <3>1, <4>1, <4>2, SameFields
    <3> QED
      BY <1>0, <1>q, <2>2, <3>1, <3>2
  <2>3. CASE Gesture(field, <<IF field.text = 0 THEN ListOf(field) ELSE Lookup>>,
                     IF field.text = 0 THEN ListOf(field) ELSE Lookup, FALSE)
    BY <1>0, <1>q, <2>3
  <2> QED
    BY <1>5, <2>1, <2>2, <2>3 DEF Search
<1>6. CASE ClearFields
  <2>1. Gesture(Cleared, <<ListOf(field)>>, ListOf(Cleared), ListOf(field).text # 0)
    BY <1>6 DEF ClearFields
  <2> QED
    BY <1>0, <1>q, <2>1, ClearedFields
<1>7. CASE Refresh \/ Poll
  BY <1>0, <1>7, <1>q, AskAsideStep DEF Refresh, Poll
<1>8. ASSUME NEW k \in {0, 1}, Resize(k)
      PROVE  PagesInv'
  BY <1>2, <1>8 DEF Resize
<1> QED
  BY <1>1, <1>3, <1>4, <1>5, <1>6, <1>7, <1>8

(* The only answer there is to come is to the last question.               *)
LEMMA LoadStep ==
  ASSUME PagesInv, NEW i \in DOMAIN loads, AnswerLoad(i) \/ FailLoad(i)
  PROVE  PagesInv'
<1> USE DEF list, PagesInv
<1>1. /\ loads' = RemoveAt(loads, i)
      /\ UNCHANGED <<page, field, asked, stale, actions, details, gestures>>
      /\ loading' = FALSE /\ refreshing' = FALSE
  BY DEF AnswerLoad, FailLoad
<1>2. loads' \in Seq(Questions) /\ loads[i] \in Questions
  BY <1>1, RemovedAt DEF ListInv
<1>3. ListInv'
  <2>1. CASE AnswerLoad(i)
    <3>1. PICK v \in loads[i].since .. version : rows' = [asks |-> loads[i].asks, seen |-> v]
      BY <2>1 DEF AnswerLoad
    <3>2. UNCHANGED quiet
      BY <2>1 DEF AnswerLoad
    <3>3. /\ loads[i].asks \in Fields /\ loads[i].since \in Versions
          /\ version \in Versions /\ Versions \subseteq Nat
      BY <1>2, PagesAssumption DEF Questions, ActionsInv, Versions, PagesAssumption
    <3>4. v \in Versions
      BY <3>3, PagesAssumption DEF Versions, PagesAssumption
    <3>5. rows' \in [asks : Fields, seen : Versions] /\ rows'.asks = loads[i].asks /\ rows'.seen = v
      BY <3>1, <3>3, <3>4
    <3>6. rows' # Nothing
      BY <3>1, NothingIsNoAnswer
    <3>7. ASSUME quiet
          PROVE  loads' = <<>> /\ v = version /\ (stale \/ loads[i].asks = asked)
      <4>1. i = 1 /\ loads # <<>> /\ loads' = <<>>
        BY <1>1, <3>7, OnlyOneRemoved DEF ListInv
      <4>2. loads[1].since = version /\ (stale \/ loads[1].asks = asked)
        BY <3>7, <4>1 DEF ListInv
      <4> QED
        BY <3>3, <4>1, <4>2
    <3>8. Len(<<>>) <= 1
      BY EmptySeq
    <3> QED
      BY <1>1, <1>2, <3>2, <3>5, <3>6, <3>7, <3>8 DEF ListInv, actions, Questions
  <2>2. CASE FailLoad(i)
    BY <1>1, <1>2, <2>2 DEF FailLoad, ListInv, actions, Questions
  <2> QED
    BY <2>1, <2>2
<1>4. ActionsInv' /\ FlagInv'
  BY <1>1, ActionsUnseen, FlagUnseen DEF actions
<1> QED
  BY <1>1, <1>3, <1>4, DetailsUnseen

----------------------------------------------------------------------------
(* The actions.                                                            *)

LEMMA OpenStep ==
  ASSUME PagesInv, NEW r \in Rows \cup {Form}, NEW a \in DOMAIN page.actions, Open(r, a)
  PROVE  PagesInv'
<1>1. /\ Gesturing /\ dialog' = [row |-> r, action |-> a]
      /\ UNCHANGED <<page, list, posts, busy, version, details>>
  BY DEF Open
<1>2. dialog'.row = r /\ dialog'.action = a
  BY <1>1
<1>3. ActionsInv'
  BY <1>1, <1>2, PagesAssumption
     DEF PagesInv, ActionsInv, Gesturing, Requested, Versions, PagesAssumption
<1> QED
  BY <1>1, <1>3, ListUnseen, FlagUnseen, DetailsUnseen DEF PagesInv

LEMMA DismissStep ==
  ASSUME PagesInv, Dismiss
  PROVE  PagesInv'
<1>1. dialog' = NoDialog /\ UNCHANGED <<page, list, posts, busy, version, details, gestures>>
  BY DEF Dismiss
<1>2. ActionsInv'
  BY <1>1 DEF PagesInv, ActionsInv, Requested
<1> QED
  BY <1>1, <1>2, ListUnseen, FlagUnseen, DetailsUnseen DEF PagesInv

LEMMA PostStep ==
  ASSUME PagesInv, NEW r \in Rows \cup {Form}, NEW a \in DOMAIN page.actions, Post(r, a)
  PROVE  PagesInv'
<1> DEFINE p == [row |-> r, action |-> a, again |-> ListOf(field)]
<1>1. /\ Gesturing /\ Enabled(r, a) /\ posts' = Append(posts, p)
      /\ busy' = IF Flags(a) THEN r ELSE busy
      /\ UNCHANGED <<page, list, dialog, version, details>>
  BY DEF Post
<1>2. p \in Requested /\ p.action = a
  BY ListOfFields DEF PagesInv, ListInv, Requested
<1> HIDE DEF p
<1>3. posts \in Seq(Requested)
  BY DEF PagesInv, ActionsInv
<1>4. /\ posts' \in Seq(Requested) /\ Len(posts) \in Nat /\ Len(posts') = Len(posts) + 1
      /\ DOMAIN posts = 1 .. Len(posts) /\ DOMAIN posts' = 1 .. Len(posts) + 1
      /\ posts'[Len(posts) + 1] = p /\ \A j \in 1 .. Len(posts) : posts'[j] = posts[j]
  BY <1>1, <1>2, <1>3, Appended
<1>5. Requested' = Requested
  BY <1>1 DEF Requested
<1>6. ActionsInv'
  BY <1>1, <1>4, <1>5, PagesAssumption
     DEF PagesInv, ActionsInv, Gesturing, Versions, PagesAssumption
<1>7. FlagInv'
  <2> SUFFICES ASSUME KeepsFlag, \A b \in DOMAIN page.actions : Works(b).guard # "row",
                      NEW j \in 1 .. Len(posts) + 1, Works(posts'[j].action).guard = "any"
               PROVE  /\ busy' # NoRow
                      /\ \A k \in 1 .. Len(posts) + 1 : Works(posts'[k].action).guard = "any" => j = k
    BY <1>1, <1>4 DEF FlagInv, Guarded, KeepsFlag, Works, The
  <2>1. \A k \in 1 .. Len(posts) : Works(posts[k].action).guard = "any" =>
          busy # NoRow /\ \A l \in 1 .. Len(posts) : Works(posts[l].action).guard = "any" => k = l
    BY <1>4 DEF PagesInv, FlagInv, Guarded
  <2>2. Flags(a) <=> Works(a).guard = "any"
    BY DEF Flags
  <2>3. r # NoRow
    BY PagesAssumption DEF PagesAssumption, NoRow, Form
  <2>4. CASE Works(a).guard = "any"
    <3>1. busy = NoRow /\ busy' = r
      BY <1>1, <2>2, <2>4 DEF Enabled
    <3>2. \A k \in 1 .. Len(posts) : Works(posts'[k].action).guard # "any"
      BY <1>4, <2>1, <3>1
    <3> QED
      BY <1>4, <2>3, <3>1, <3>2
  <2>5. CASE Works(a).guard # "any"
    <3>1. busy' = busy
      BY <1>1, <2>2, <2>5
    <3>2. Works(posts'[Len(posts) + 1].action).guard # "any"
      BY <1>2, <1>4, <2>5
    <3>3. \A k \in 1 .. Len(posts) + 1 : Works(posts'[k].action).guard = "any" =>
            k \in 1 .. Len(posts) /\ posts'[k] = posts[k]
      BY <1>4, <3>2
    <3> QED
      BY <2>1, <3>1, <3>3
  <2> QED
    BY <2>4, <2>5
<1> QED
  BY <1>1, <1>6, <1>7, ListUnseen, DetailsUnseen DEF PagesInv

(* An action comes back: the flag it raised goes down.                     *)
LEMMA FlagLowered ==
  ASSUME ActionsInv, FlagInv, NEW i \in DOMAIN posts, posts' = RemoveAt(posts, i), UNCHANGED page,
         KeepsFlag => busy' = Done(posts[i].action)
  PROVE  FlagInv'
<1> SUFFICES ASSUME KeepsFlag, \A b \in DOMAIN page.actions : Works(b).guard # "row",
                    NEW j \in DOMAIN posts', Works(posts'[j].action).guard = "any"
             PROVE  /\ busy' # NoRow
                    /\ \A k \in DOMAIN posts' : Works(posts'[k].action).guard = "any" => j = k
  BY DEF FlagInv, Guarded, KeepsFlag, Works, The
<1>1. /\ Len(posts) \in Nat \ {0} /\ posts[i] \in Requested
      /\ DOMAIN posts = 1 .. Len(posts) /\ DOMAIN posts' = 1 .. Len(posts) - 1
      /\ \A k \in 1 .. Len(posts) - 1 : posts'[k] = posts[IF k < i THEN k ELSE k + 1]
  BY RemovedAt DEF ActionsInv
<1> DEFINE was(k) == IF k < i THEN k ELSE k + 1
<1>2. \A k \in DOMAIN posts' : was(k) \in DOMAIN posts /\ was(k) # i /\ posts'[k] = posts[was(k)]
  BY <1>1
<1>3. \A k \in DOMAIN posts' : was(j) = was(k) => j = k
  BY <1>1
<1> HIDE DEF was
<1>4. \A k \in DOMAIN posts : Works(posts[k].action).guard = "any" =>
        busy # NoRow /\ \A l \in DOMAIN posts : Works(posts[l].action).guard = "any" => k = l
  BY DEF FlagInv, Guarded
<1>5. Works(posts[i].action).guard # "any"
  BY <1>2, <1>4
<1>6. busy' = busy
  BY <1>1, <1>5 DEF Done, Flags, Requested
<1> QED
  BY <1>2, <1>3, <1>4, <1>6

(* It asks for the rows as its closure knows them: quiet if nothing else   *)
(* is on its way.                                                          *)
LEMMA AnsweredStep ==
  ASSUME PagesInv, NEW i \in DOMAIN posts, AnswerPost(i) \/ FailPost(i)
  PROVE  PagesInv'
<1>1. /\ posts' = RemoveAt(posts, i) /\ UNCHANGED <<page, field, rows, details, gestures>>
      /\ version' \in {version, version + 1}
      /\ dialog' \in {dialog, NoDialog}
  BY DEF AnswerPost, FailPost
<1>2. /\ posts' \in Seq(Requested) /\ Len(posts) \in Nat \ {0} /\ Len(posts') = Len(posts) - 1
      /\ posts[i] \in Requested /\ Requested' = Requested
  BY <1>1, RemovedAt DEF PagesInv, ActionsInv, Requested
<1>3. busy' \in {busy, NoRow} /\ (KeepsFlag => busy' = Done(posts[i].action))
  BY DEF AnswerPost, FailPost, Done
<1>4. ActionsInv'
  <2>1. /\ busy' \in Rows \cup {Form, NoRow} /\ gestures' = gestures
        /\ dialog' = NoDialog \/ (dialog'.row \in Rows \cup {Form} /\ dialog'.action \in DOMAIN page'.actions)
    BY <1>1, <1>3 DEF PagesInv, ActionsInv
  <2>2. /\ version' \in Nat /\ version' + Len(posts') <= gestures
    BY <1>1, <1>2 DEF PagesInv, ActionsInv, Versions
  <2> QED
    BY <1>2, <2>1, <2>2 DEF PagesInv, ActionsInv
<1>5. FlagInv'
  BY <1>1, <1>3, FlagLowered DEF PagesInv
<1>6. posts[i].again \in Fields /\ version \in Nat /\ version' \in Versions
  BY <1>1, <1>2, <1>4, PagesAssumption
     DEF PagesInv, ActionsInv, Requested, Versions, PagesAssumption
<1>7. ListInv'
  <2>1. CASE UNCHANGED <<version, asked, loads, loading, refreshing, quiet, stale>>
    BY <1>1, <2>1, ListUnseen DEF PagesInv, list
  <2>2. CASE quiet' = FALSE /\ UNCHANGED <<asked, loads, loading, refreshing, stale>>
    BY <1>1, <2>2 DEF PagesInv, ListInv, Questions
  <2>3. CASE /\ asked' = posts[i].again /\ loads' = Append(loads, Ask(posts[i].again, version'))
             /\ loading' = TRUE /\ quiet' \in {FALSE, (quiet /\ loads = <<>>)}
             /\ stale' \in {FALSE, stale} /\ refreshing' = refreshing
    <3>1. /\ Ask(posts[i].again, version') \in Questions
          /\ Ask(posts[i].again, version').asks = posts[i].again
          /\ Ask(posts[i].again, version').since = version'
      BY <1>6 DEF Ask, Questions
    <3>2. /\ loads' \in Seq(Questions) /\ loads' # <<>>
          /\ loads = <<>> => Len(loads') = 1 /\ loads'[1] = Ask(posts[i].again, version')
      BY <2>3, <3>1, Appended DEF PagesInv, ListInv
    <3>3. quiet' \in BOOLEAN /\ (quiet' => loads = <<>>)
      BY <2>3
    <3>4. /\ field' \in Fields /\ asked' \in Fields
          /\ rows' \in [asks : Fields, seen : Versions] \cup {Nothing}
          /\ loading' \in BOOLEAN /\ refreshing' \in BOOLEAN /\ stale' \in BOOLEAN
      BY <1>1, <1>6, <2>3 DEF PagesInv, ListInv
    <3>5. ASSUME quiet'
          PROVE  Len(loads') <= 1 /\ loads'[1].since = version' /\ loads'[1].asks = asked'
      BY <2>3, <3>1, <3>2, <3>3, <3>5
    <3> QED
      BY <3>2, <3>3, <3>4, <3>5 DEF ListInv, Questions
  <2>4. CASE AnswerPost(i)
    BY <2>1, <2>3, <2>4 DEF AnswerPost, Reload
  <2>5. CASE FailPost(i)
    BY <2>2, <2>3, <2>5 DEF FailPost
  <2> QED
    BY <2>4, <2>5
<1> QED
  BY <1>1, <1>4, <1>5, <1>7, DetailsUnseen DEF PagesInv

----------------------------------------------------------------------------
(* The details.                                                            *)

LEMMA DetailsOnly ==
  ASSUME PagesInv, UNCHANGED <<page, list, actions>>, gestures' = gestures \/ Gesturing, DetailsInv'
  PROVE  PagesInv'
BY ListUnseen, ActionsUnseen, FlagUnseen DEF PagesInv, actions

LEMMA DetailKnown ==
  ASSUME PagesInv
  PROVE  /\ page.detail.before \in {"keeps", "clears", "covers"}
         /\ page.detail.again => page.detail.opens = "first" /\ page.detail.before = "covers"
BY DetailsAreKnown, PagesAssumption DEF PagesInv, PagesAssumption, Known

LEMMA OpenDetailStep ==
  ASSUME PagesInv, NEW r \in Rows, OpenDetail(r)
  PROVE  PagesInv'
<1> DEFINE seen == IF page.detail.before = "clears" THEN NoRow ELSE detail.shows
<1>1. /\ Gesturing /\ page.detail.opens \in {"first", "last"} /\ detail.row = NoRow
      /\ detail' = IF page.detail.opens = "last" THEN detail
                   ELSE [row |-> r, waits |-> TRUE, shows |-> seen]
      /\ views' = Append(views, r) /\ mixed' = IF views = <<>> THEN "no" ELSE "crossed"
      /\ UNCHANGED <<page, list, actions>>
  BY DEF OpenDetail, RowsUsable, Usable
<1>2. /\ views' \in Seq(Rows) /\ (views = <<>> => Len(views') = 1 /\ views'[1] = r)
  BY <1>1, Appended DEF PagesInv, DetailsInv
<1>3. CASE page.detail.opens = "last"
  <2>1. detail' = detail
    BY <1>1, <1>3
  <2>2. DetailsInv'
    BY <1>1, <1>2, <2>1 DEF PagesInv, DetailsInv
  <2> QED
    BY <1>1, <2>2, DetailsOnly
<1>4. CASE page.detail.opens # "last"
  <2>1. detail' = [row |-> r, waits |-> TRUE, shows |-> seen]
    BY <1>1, <1>4
  <2>2. detail'.row = r /\ detail'.waits = TRUE /\ detail'.shows = seen
    BY <2>1
  <2>3. seen \in Rows \cup {NoRow} /\ (page.detail.before = "clears" => seen = NoRow)
    BY DEF PagesInv, DetailsInv
  <2>4. detail' \in [row : Rows \cup {NoRow}, shows : Rows \cup {NoRow}, waits : BOOLEAN]
    BY <2>1, <2>3
  <2>5. DetailsInv'
    BY <1>1, <1>2, <2>2, <2>3, <2>4 DEF DetailsInv
  <2> QED
    BY <1>1, <2>5, DetailsOnly
<1> QED
  BY <1>3, <1>4

LEMMA LookStep ==
  ASSUME PagesInv, NEW r \in Rows, Look(r)
  PROVE  PagesInv'
<1>1. /\ Gesturing /\ page.detail.opens = "local" /\ detail' = [row |-> r, shows |-> r, waits |-> FALSE]
      /\ UNCHANGED <<page, list, actions, views, mixed>>
  BY DEF Look
<1>2. /\ detail'.row = r /\ detail'.shows = r /\ detail'.waits = FALSE
      /\ detail' \in [row : Rows \cup {NoRow}, shows : Rows \cup {NoRow}, waits : BOOLEAN]
  BY <1>1
<1>3. views = <<>>
  BY <1>1 DEF PagesInv, DetailsInv
<1>4. DetailsInv'
  BY <1>1, <1>2, <1>3 DEF PagesInv, DetailsInv
<1> QED
  BY <1>1, <1>4, DetailsOnly

LEMMA LookAgainStep ==
  ASSUME PagesInv, LookAgain
  PROVE  PagesInv'
<1>1. /\ Gesturing /\ page.detail.again /\ detail.row # NoRow
      /\ detail' = [detail EXCEPT !.waits = TRUE] /\ views' = Append(views, detail.row)
      /\ mixed' = IF views = <<>> THEN "no" ELSE "crossed"
      /\ UNCHANGED <<page, list, actions>>
  BY DEF LookAgain
<1>2. detail.row \in Rows /\ page.detail.opens = "first" /\ page.detail.before = "covers"
  BY <1>1, DetailKnown DEF PagesInv, DetailsInv
<1>3. /\ views' \in Seq(Rows) /\ (views = <<>> => Len(views') = 1 /\ views'[1] = detail.row)
  BY <1>1, <1>2, Appended DEF PagesInv, DetailsInv
<1>4. /\ detail'.row = detail.row /\ detail'.waits = TRUE
      /\ detail' \in [row : Rows \cup {NoRow}, shows : Rows \cup {NoRow}, waits : BOOLEAN]
  BY <1>1 DEF PagesInv, DetailsInv
<1>5. DetailsInv'
  BY <1>1, <1>2, <1>3, <1>4 DEF DetailsInv
<1> QED
  BY <1>1, <1>5, DetailsOnly

LEMMA AnswerDetailStep ==
  ASSUME PagesInv, NEW i \in DOMAIN views, AnswerDetail(i)
  PROVE  PagesInv'
<1> DEFINE of == IF page.detail.opens = "last" THEN views[i] ELSE detail.row
<1>1. /\ detail' = [row |-> of, shows |-> views[i], waits |-> FALSE] /\ views' = RemoveAt(views, i)
      /\ UNCHANGED <<page, list, actions, mixed, gestures>>
  BY DEF AnswerDetail
<1>2. views' \in Seq(Rows) /\ views[i] \in Rows
  BY <1>1, RemovedAt DEF PagesInv, DetailsInv
<1>3. of \in Rows \cup {NoRow}
  BY <1>2 DEF PagesInv, DetailsInv
<1>4. detail'.row = of /\ detail'.shows = views[i] /\ detail'.waits = FALSE
  BY <1>1
<1>5. detail' \in [row : Rows \cup {NoRow}, shows : Rows \cup {NoRow}, waits : BOOLEAN]
  BY <1>1, <1>2, <1>3
<1>6. ASSUME mixed = "no"
      PROVE  views' = <<>> /\ (of # NoRow => views[i] = of)
  <2>1. i = 1 /\ views # <<>> /\ views' = <<>>
    BY <1>1, <1>6, OnlyOneRemoved DEF PagesInv, DetailsInv
  <2> QED
    BY <1>6, <2>1 DEF PagesInv, DetailsInv
<1>7. page.detail.opens \in {"first", "last"}
  <2>1. views # <<>>
    BY EmptySeq, RemovedAt DEF PagesInv, DetailsInv
  <2> QED
    BY <2>1 DEF PagesInv, DetailsInv
<1>8. Len(<<>>) = 0
  BY EmptySeq
<1> HIDE DEF of
<1>9. DetailsInv'
  BY <1>1, <1>2, <1>4, <1>5, <1>6, <1>7, <1>8 DEF PagesInv, DetailsInv
<1> QED
  BY <1>1, <1>9, DetailsOnly

LEMMA FailDetailStep ==
  ASSUME PagesInv, NEW i \in DOMAIN views, FailDetail(i)
  PROVE  PagesInv'
<1> DEFINE of == IF page.detail.failure = "closes" THEN NoRow ELSE detail.row
           what == IF page.detail.failure = "clears" THEN NoRow ELSE detail.shows
<1>1. /\ detail' = [row |-> of, shows |-> what, waits |-> FALSE] /\ views' = RemoveAt(views, i)
      /\ mixed' = IF mixed = "no" THEN "failed" ELSE mixed
      /\ UNCHANGED <<page, list, actions, gestures>>
  BY DEF FailDetail
<1>2. views' \in Seq(Rows)
  BY <1>1, RemovedAt DEF PagesInv, DetailsInv
<1>3. of \in Rows \cup {NoRow} /\ what \in Rows \cup {NoRow}
  BY DEF PagesInv, DetailsInv
<1>4. detail' \in [row : Rows \cup {NoRow}, shows : Rows \cup {NoRow}, waits : BOOLEAN]
  BY <1>1, <1>3
<1>5. mixed' \in {"crossed", "failed"}
  BY <1>1 DEF PagesInv, DetailsInv
<1>6. page.detail.opens \in {"first", "last"}
  <2>1. views # <<>>
    BY EmptySeq, RemovedAt DEF PagesInv, DetailsInv
  <2> QED
    BY <2>1 DEF PagesInv, DetailsInv
<1>7. DetailsInv'
  BY <1>1, <1>2, <1>4, <1>5, <1>6 DEF DetailsInv
<1> QED
  BY <1>1, <1>7, DetailsOnly

LEMMA CloseDetailStep ==
  ASSUME PagesInv, CloseDetail
  PROVE  PagesInv'
<1>1. detail' = [detail EXCEPT !.row = NoRow] /\ UNCHANGED <<page, list, actions, views, mixed, gestures>>
  BY DEF CloseDetail
<1>2. /\ detail'.row = NoRow
      /\ detail' \in [row : Rows \cup {NoRow}, shows : Rows \cup {NoRow}, waits : BOOLEAN]
  BY <1>1 DEF PagesInv, DetailsInv
<1>3. DetailsInv'
  BY <1>1, <1>2 DEF PagesInv, DetailsInv
<1> QED
  BY <1>1, <1>3, DetailsOnly

----------------------------------------------------------------------------
(* The page as a whole.                                                    *)

LEMMA PagesInitially == PagesInit => PagesInv
<1> SUFFICES ASSUME PagesInit PROVE PagesInv
  OBVIOUS
<1> USE PagesAssumption DEF PagesInit, PagesAssumption
<1>1. /\ 0 \in Versions /\ First \in Fields /\ Nothing \in {Nothing}
      /\ Ask(First, 0) \in Questions /\ Ask(First, 0).asks = First /\ Ask(First, 0).since = 0
  BY DEF Versions, First, Fields, Ask, Questions
<1>2. /\ loads \in Seq(Questions) /\ Len(loads) = 1 /\ loads[1] = Ask(First, 0) /\ loads # <<>>
  <2>1. <<Ask(First, 0)>> \in Seq(Questions)
    BY <1>1
  <2> QED
    BY <2>1, EmptySeq
<1>3. ListInv
  <2>1. loads[1].since = version /\ loads[1].asks = asked
    BY <1>1, <1>2
  <2>2. /\ field \in Fields /\ asked \in Fields /\ rows = Nothing
        /\ loading = TRUE /\ refreshing = FALSE /\ quiet = TRUE /\ stale = FALSE
    BY <1>1
  <2>3. Len(loads) <= 1
    BY <1>2
  <2> QED
    BY ONLY <1>2, <2>1, <2>2, <2>3, Zenon DEF ListInv
<1>4. /\ posts \in Seq(Requested) /\ Len(posts) = 0 /\ DOMAIN posts = {}
      /\ views \in Seq(Rows) /\ Len(views) = 0
  BY EmptySeq
<1>5. ActionsInv /\ FlagInv
  BY <1>1, <1>4 DEF ActionsInv, FlagInv
<1>6. detail.row = NoRow /\ detail \in [row : Rows \cup {NoRow}, shows : Rows \cup {NoRow}, waits : BOOLEAN]
  OBVIOUS
<1>7. DetailsInv
  BY <1>4, <1>6 DEF DetailsInv
<1> QED
  BY <1>3, <1>5, <1>7 DEF PagesInv

(* Every action of the user and every answer keeps the invariant.          *)
LEMMA PagesStep == PagesInv /\ [PagesNext]_pagesVars => PagesInv'
<1> SUFFICES ASSUME PagesInv, [PagesNext]_pagesVars PROVE PagesInv'
  OBVIOUS
<1>1. CASE UNCHANGED pagesVars
  <2>1. UNCHANGED <<page, list, actions, details>> /\ gestures' = gestures
    BY <1>1 DEF pagesVars
  <2> QED
    BY <2>1, DetailsOnly, DetailsUnseen DEF PagesInv
<1>2. CASE Confirm
  <2>1. dialog # NoDialog /\ Post(dialog.row, dialog.action)
    BY <1>2 DEF Confirm
  <2>2. dialog.row \in Rows \cup {Form} /\ dialog.action \in DOMAIN page.actions
    BY <2>1 DEF PagesInv, ActionsInv
  <2> QED
    BY <2>1, <2>2, PostStep
<1>3. ASSUME NEW r \in Rows \cup {Form}, NEW a \in DOMAIN page.actions, Open(r, a) \/ Click(r, a)
      PROVE  PagesInv'
  BY <1>3, OpenStep, PostStep DEF Click
<1>4. CASE Answers
  BY <1>4, LoadStep, AnsweredStep, AnswerDetailStep, FailDetailStep DEF Answers
<1>5. CASE Dismiss \/ LookAgain \/ CloseDetail \/ \E r \in Rows : OpenDetail(r) \/ Look(r)
  BY <1>5, DismissStep, LookAgainStep, CloseDetailStep, OpenDetailStep, LookStep
<1>6. CASE \/ \E k \in {0, 1} : Turn(k) \/ Resize(k) \/ Filter(k) \/ Type(k)
           \/ Search \/ ClearFields \/ Refresh \/ Poll
  BY <1>6, GesturesStep
<1> QED
  BY <1>1, <1>2, <1>3, <1>4, <1>5, <1>6 DEF PagesNext

LEMMA PagesInvHolds == PagesSpec => []PagesInv
BY PagesInitially, PagesStep, PTL DEF PagesSpec

LEMMA PagesTyped == PagesInv => PagesTypeOK
<1> SUFFICES ASSUME PagesInv PROVE PagesTypeOK
  OBVIOUS
<1>1. \A i \in DOMAIN loads : loads[i] \in [asks : Fields, since : Versions]
  BY RemovedAt DEF PagesInv, ListInv, Questions
<1>2. \A i \in DOMAIN posts : posts[i].action \in DOMAIN page.actions /\ posts[i].again \in Fields
  <2>1. \A i \in DOMAIN posts : posts[i] \in Requested
    BY RemovedAt DEF PagesInv, ActionsInv
  <2> QED
    BY <2>1 DEF Requested
<1>3. \A i \in DOMAIN views : views[i] \in Rows
  BY RemovedAt DEF PagesInv, DetailsInv
<1>4. version \in Versions
  BY PagesAssumption, LenProperties DEF PagesInv, ActionsInv, Versions, PagesAssumption
<1> QED
  BY <1>1, <1>2, <1>3, <1>4 DEF PagesInv, ListInv, ActionsInv, DetailsInv, PagesTypeOK

(* Every page in Routes keeps its types, whatever the user does and in     *)
(* whatever order the answers come; no more actions change the rows than   *)
(* the user started.                                                       *)
THEOREM PagesTypeCorrect == PagesSpec => []PagesTypeOK
BY PagesInvHolds, PagesTyped, PTL

(* Undisturbed rows answer the last question, on every page of Screens,    *)
(* unless a reset asked it, which still sends the text it cleared; and a   *)
(* dialog of details shows no other row than the one it was opened for,    *)
(* but while MyListings waits for the bids.                                *)
THEOREM RowsAnswer == PagesSpec => []RowsAnswerWhatWasAsked
<1>1. PagesInv => RowsAnswerWhatWasAsked
  <2> SUFFICES ASSUME PagesInv PROVE RowsAnswerWhatWasAsked
    OBVIOUS
  <2>1. quiet /\ ~stale /\ loads = <<>> => rows # Nothing /\ rows.asks = asked
    BY DEF PagesInv, ListInv
  <2>2. ASSUME detail.row # NoRow, mixed = "no"
        PROVE  Seen = detail.row \/ (detail.waits /\ (Seen = NoRow \/ page.detail.before = "keeps"))
    BY <2>2, DetailKnown DEF PagesInv, DetailsInv, Seen
  <2> QED
    BY <2>1, <2>2 DEF RowsAnswerWhatWasAsked
<1> QED
  BY <1>1, PagesInvHolds, PTL

(* Undisturbed rows, those after a reset among them, show the effect of    *)
(* every action of their page.                                             *)
THEOREM RowsShow == PagesSpec => []RowsShowOwnActions
<1>1. PagesInv => RowsShowOwnActions
  BY DEF PagesInv, ListInv, RowsShowOwnActions
<1> QED
  BY <1>1, PagesInvHolds, PTL

(* One flag for the page lets one guarded action through at a time, also   *)
(* when its dialog is dismissed and opened for another row.                *)
THEOREM OneGoesAtATime == PagesSpec => []OneAtATime
<1>1. PagesInv => OneAtATime
  <2> SUFFICES ASSUME PagesInv, KeepsFlag, \A a \in DOMAIN page.actions : Works(a).guard # "row"
               PROVE  Cardinality({i \in DOMAIN posts : Guarded(i)}) < 2
    BY DEF OneAtATime, Guarded
  <2> DEFINE S == {i \in DOMAIN posts : Guarded(i)}
  <2>1. CASE S = {}
    BY <2>1, FS_EmptySet
  <2>2. CASE S # {}
    <3>1. PICK i : i \in S
      BY <2>2
    <3>2. S = {i}
      BY <3>1 DEF PagesInv, FlagInv
    <3>3. Cardinality(S) = 1
      BY <3>2, FS_Singleton
    <3> QED
      BY <3>3
  <2> QED
    BY <2>1, <2>2
<1> QED
  BY <1>1, PagesInvHolds, PTL
=============================================================================
