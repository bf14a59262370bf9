---------------------------- MODULE Certificates ----------------------------
(***************************************************************************)
(* Certificate-Service: one consumer issues a certificate for every        *)
(* purchase it hears of, requests issue, download and revoke them, each in *)
(* a thread of its own.  A certificate is a row in the database and a PDF  *)
(* file, which no transaction covers together.                             *)
(*                                                                         *)
(* The service announces nothing: the connection its publisher writes to   *)
(* is never opened, and the error is swallowed.  Records of downloads and  *)
(* of verifications are only ever inserted, and left out.                  *)
(***************************************************************************)
EXTENDS Integers, Sequences, FiniteSets

CONSTANTS
  Purchases,
  Unreadable,   \* those announced with a date that is a number, not a string
  Consumer,     \* the thread that hears of purchases
  Handlers,     \* requests in progress
  None,
  MaxCalls,     \* bound: requests
  MaxFaults     \* bound: failures of the database or the disk, crashes

Workers == Handlers \cup {Consumer}
Status == {"valid", "revoked"}

ASSUME CertificatesAssumption ==
  /\ Unreadable \subseteq Purchases /\ None \notin Purchases
  /\ Consumer \notin Handlers
  /\ MaxCalls \in Nat /\ MaxFaults \in Nat

VARIABLES
  process,      \* whether its database is set up, and its consumer runs
  announced,    \* purchases announced so far
  queue,        \* certificate_service_queue
  certs,        \* table certificates; rows are never deleted
  files,        \* certificates whose PDF is on disk
  work,         \* what each worker is doing to which certificate
  failed,       \* history: downloads that did not find the file
  again,        \* history: purchases whose message was delivered after a commit
  calls, faults

vars == <<process, announced, queue, certs, files, work, failed, again, calls, faults>>

Idle == [op |-> "idle", cert |-> 0]
At(w, op) == work[w].op = op
Certificate(p) == [of |-> p, status |-> "valid", pdf |-> FALSE]

(* What the start-up makes of a process, for as long as it lives.          *)
Started == [initialised : BOOLEAN, listening : BOOLEAN]

TypeOK ==
  /\ process \in Started
  /\ announced \subseteq Purchases
  /\ queue \in Seq(Purchases)
  /\ certs \in Seq([of : Purchases \cup {None}, status : Status, pdf : BOOLEAN])
  /\ files \subseteq DOMAIN certs
  /\ work \in [Workers -> [op : {"idle", "inserted", "printed", "saved", "checked"}, cert : Nat]]
  /\ \A w \in Workers : IF At(w, "idle") THEN work[w] = Idle ELSE work[w].cert \in DOMAIN certs
  /\ failed \in BOOLEAN /\ again \subseteq Purchases
  /\ calls \in 0 .. MaxCalls /\ faults \in 0 .. MaxFaults

Init ==
  /\ process \in Started
  /\ announced = {} /\ queue = <<>>
  /\ certs = <<>> /\ files = {}
  /\ work = [w \in Workers |-> Idle]
  /\ failed = FALSE /\ again = {}
  /\ calls = 0 /\ faults = 0

Fault == faults < MaxFaults /\ faults' = faults + 1
NoFault == UNCHANGED faults
Call == calls < MaxCalls /\ calls' = calls + 1

Goes(w, op, c) == work' = [work EXCEPT ![w] = [op |-> op, cert |-> c]]
Close(w) == work' = [work EXCEPT ![w] = Idle]

----------------------------------------------------------------------------
(* The services that sell credits announce a purchase once; an error is    *)
(* swallowed.                                                              *)
Announce(p) ==
  /\ p \notin announced
  /\ announced' = announced \cup {p}
  /\ \/ queue' = Append(queue, p) /\ NoFault
     \/ UNCHANGED queue /\ Fault
  /\ UNCHANGED <<process, certs, files, work, failed, again, calls>>

----------------------------------------------------------------------------
(* create_certificate, in three steps: the row, the file, the row's URL.   *)

Insert(w, p) ==
  /\ certs' = Append(certs, Certificate(p))
  /\ Goes(w, "inserted", Len(certs) + 1)

(* Fault: the message is not requeued.                                     *)
NackDropped == queue' = Tail(queue)

(* basic_nack with requeue: the only consumer takes one message at a time, *)
(* and gets this one back before any other.                                *)
Nack == UNCHANGED queue

(* An event that cannot be read raises each time, and without a database   *)
(* no event is looked at.                                                  *)
Receive ==
  /\ process.listening /\ work[Consumer] = Idle /\ queue # <<>>
  /\ \/ /\ process.initialised /\ Head(queue) \notin Unreadable
        /\ Insert(Consumer, Head(queue)) /\ NoFault /\ UNCHANGED queue
     \/ /\ ~process.initialised \/ Head(queue) \in Unreadable
        /\ Nack /\ NoFault /\ UNCHANGED <<certs, work>>
     \/ Nack /\ Fault /\ UNCHANGED <<certs, work>>
  /\ UNCHANGED <<process, announced, files, failed, again, calls>>

(* generate_certificate                                                    *)
Generate(h) ==
  /\ process.initialised /\ work[h] = Idle /\ Call
  /\ Insert(h, None)
  /\ UNCHANGED <<process, announced, queue, files, failed, again, faults>>

(* Fault: the URL is saved before the file is written.                     *)
WritePdfLater(w) ==
  LET c == work[w].cert IN
  /\ At(w, "inserted")
  /\ \/ files' = files \cup {c} /\ NoFault
     \/ UNCHANGED files /\ Fault
  /\ certs' = [certs EXCEPT ![c].pdf = TRUE]
  /\ Goes(w, "printed", c)
  /\ UNCHANGED <<process, announced, queue, failed, again, calls>>

(* "Certificate still valid without PDF": the error is swallowed.          *)
WritePdf(w) ==
  LET c == work[w].cert IN
  /\ At(w, "inserted")
  /\ \/ files' = files \cup {c} /\ Goes(w, "printed", c) /\ NoFault
     \/ UNCHANGED files /\ Goes(w, "saved", c) /\ Fault
  /\ UNCHANGED <<process, announced, queue, certs, failed, again, calls>>

(* SQLAlchemy writes the columns that were assigned, and no others.        *)
SaveUrl(w) ==
  /\ At(w, "printed")
  /\ certs' = [certs EXCEPT ![work[w].cert].pdf = TRUE]
  /\ Goes(w, "saved", work[w].cert)
  /\ UNCHANGED <<process, announced, queue, files, failed, again, calls, faults>>

(* Fault: a certificate without a PDF is asked for again.                  *)
AckComplete(w) ==
  queue' = IF w = Consumer /\ certs[work[w].cert].pdf THEN Tail(queue) ELSE queue

Ack(w) == queue' = IF w = Consumer THEN Tail(queue) ELSE queue

Issued(w) ==
  /\ At(w, "saved")
  /\ Ack(w)
  /\ Close(w)
  /\ UNCHANGED <<process, announced, certs, files, failed, again, calls, faults>>

Redelivered(w) ==
  again' = IF w = Consumer /\ work[w] # Idle THEN again \cup {Head(queue)} ELSE again

(* The database fails to save the URL.  The handler of the error reads the *)
(* certificate and raises in turn, and the message is requeued.            *)
SaveFails(w) ==
  /\ At(w, "printed") /\ Fault
  /\ Redelivered(w)
  /\ Close(w)
  /\ UNCHANGED <<process, announced, queue, certs, files, failed, calls>>

(* The connection to the broker is lost: the consumer's thread ends where  *)
(* it waits for a message, or where it would acknowledge one, and nothing  *)
(* starts another.  Requests are served as before.                         *)
Disconnect ==
  /\ process.listening /\ Fault
  /\ At(Consumer, "idle") \/ At(Consumer, "saved")
  /\ Redelivered(Consumer)
  /\ Close(Consumer)
  /\ process' = [process EXCEPT !.listening = FALSE]
  /\ UNCHANGED <<announced, queue, certs, files, failed, calls>>

(* The process stops: files and rows remain, and so does the message.  It  *)
(* is started again.  That it cannot reach the database, after 10 tries,   *)
(* or the broker, is logged, and the process goes on without.              *)
Crash ==
  /\ Fault
  /\ Redelivered(Consumer)
  /\ work' = [w \in Workers |-> Idle]
  /\ process' \in Started
  /\ UNCHANGED <<announced, queue, certs, files, failed, calls>>

----------------------------------------------------------------------------
(* Requests about a certificate.                                           *)

(* download_certificate checks the row, and records the download.          *)
Download(h, c) ==
  /\ process.initialised /\ work[h] = Idle /\ Call
  /\ certs[c].status # "revoked" /\ certs[c].pdf
  /\ Goes(h, "checked", c)
  /\ UNCHANGED <<process, announced, queue, certs, files, failed, again, faults>>

(* It then looks for the file.                                             *)
Serve(h) ==
  /\ At(h, "checked")
  /\ failed' = (failed \/ work[h].cert \notin files)
  /\ Close(h)
  /\ UNCHANGED <<process, announced, queue, certs, files, again, calls, faults>>

(* revoke_certificate: again and again, and never taken back.              *)
Revoke(c) ==
  /\ process.initialised /\ Call
  /\ certs' = [certs EXCEPT ![c].status = "revoked"]
  /\ UNCHANGED <<process, announced, queue, files, work, failed, again, faults>>

----------------------------------------------------------------------------
Step(w) == WritePdf(w) \/ SaveUrl(w) \/ Issued(w)

Next ==
  \/ \E p \in Purchases : Announce(p)
  \/ Receive
  \/ \E w \in Workers : Step(w) \/ SaveFails(w)
  \/ Disconnect
  \/ Crash
  \/ \E h \in Handlers : Generate(h) \/ Serve(h)
  \/ \E c \in DOMAIN certs : Revoke(c) \/ \E h \in Handlers : Download(h, c)

Spec == Init /\ [][Next]_vars

(* The consumer's thread takes its steps as long as it runs: until the     *)
(* connection or the process fails.  Nothing promises a Crash, which is    *)
(* all that would start an ended thread again.                             *)
FairSpec == Spec /\ WF_vars(Receive) /\ WF_vars(Step(Consumer))

----------------------------------------------------------------------------
(* Properties.                                                             *)

(* A purchase has one certificate, unless its message was delivered again  *)
(* after the row was committed: nothing in the row tells which purchase it *)
(* is for.  (A lost PDF is no reason to ask for another.)                  *)
CertifiedOnce ==
  \A p \in Purchases \ again : Cardinality({c \in DOMAIN certs : certs[c].of = p}) <= 1

(* What a certificate's URL promises is on disk, whatever failed while it  *)
(* was made: a download that was let through finds its file.               *)
DownloadsSucceed == ~failed

(* Every purchase in the queue is certified in the end, although the       *)
(* database fails at times and the process stops.  Three things keep it    *)
(* waiting, and are exempted: an event before it that cannot be read, a    *)
(* consumer that lost its connection or never had one, and a database that *)
(* was not there when the process started.  None is ever repaired but by   *)
(* a restart, and the first not even then.                                 *)
Clear(p) == \E i \in DOMAIN queue : queue[i] = p /\ \A j \in 1 .. i : queue[j] \notin Unreadable

PurchasesAreCertified ==
  \A p \in Purchases :
    Clear(p) ~> \/ \E c \in DOMAIN certs : certs[c].of = p
               \/ ~process.listening \/ ~process.initialised
=============================================================================
