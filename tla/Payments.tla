------------------------------ MODULE Payments ------------------------------
(***************************************************************************)
(* Payment_Service: createPayment, handleCallback and the expiry job of    *)
(* PaymentService, the outbox table, and the two jobs that empty it:       *)
(* OutboxPublisherService, which publishes to RabbitMQ, and OutboxService, *)
(* which only logs the events and marks them PUBLISHED.                    *)
(*                                                                         *)
(* Every await of the database or the broker is a step; an entity read     *)
(* before an await is saved whole after it.  Callback records and the      *)
(* payment_events history are written next to these steps and read by      *)
(* nothing, so they are left out.                                          *)
(***************************************************************************)
EXTENDS Integers, FiniteSets, Functions

CONSTANTS
  Pays,       \* payments, each with its own idempotency key
  Events,     \* rows the outbox can hold
  None,
  Handlers,   \* HTTP requests the service can have in flight at once
  Modes,      \* the modes of operation under study, see mode
  MaxRetry,   \* MAX_RETRY, and the default of max_retries
  MaxCalls,   \* bound: requests about one payment
  MaxFaults   \* bound: failing database or broker calls, and crashes

ASSUME PaymentsAssumption ==
  /\ None \notin Pays \cup Events
  /\ Modes \subseteq [jobs : SUBSET {"publisher", "logger"}, apart : BOOLEAN,
                      faults : 0 .. MaxFaults]
  /\ MaxRetry \in Nat /\ MaxRetry > 1
  /\ MaxCalls \in Nat
  /\ MaxFaults \in Nat

VARIABLES
  mode,      \* of the behaviour: the outbox jobs that run (the service starts
             \* both), whether the callbacks and the expiry of one payment are
             \* kept apart, and a bound on its faults
  status,    \* of the payment's row, "NONE" if there is none
  gateway,   \* what the payer did at the gateway
  late,      \* payments past expired_at
  outbox,    \* rows of outbox_events
  sent,      \* how often the broker accepted each event
  batch,     \* the publisher's events still to do, as it read them
  posting,   \* where the publisher stands with one of them
  skim,      \* the logging job's events still to do, as it read them
  sweep,     \* payments the expiry job still has to save
  pc, job,   \* where each handler stands and the payment it works on
  calls, faults

rows == <<status, outbox>>
world == <<gateway, late, mode>>
outboxJobs == <<sent, batch, posting, skim>>
requests == <<pc, job>>
vars == <<rows, world, outboxJobs, sweep, requests, calls, faults>>

Final == {"COMPLETED", "FAILED", "EXPIRED"}
Status == {"NONE", "PENDING"} \cup Final
Outcome == {"COMPLETED", "FAILED"}
OutboxStatus == {"PENDING", "PUBLISHED", "FAILED", "ARCHIVED"}
EventRow == [of : Pays, type : {"INITIATED"} \cup Outcome,
             status : OutboxStatus, retry : 0 .. MaxRetry + MaxFaults,
             due : BOOLEAN]
NoEvent == [status |-> "NONE"]
NoRows == [e \in {} |-> NoEvent]
Resting == [event |-> None, step |-> "none"]
Labels == {"idle", "insert", "ask", "saveUrl", "saveFailed",
           "queueInitiated", "saveOutcome", "queueOutcome"}

TypeOK ==
  /\ status \in [Pays -> Status]
  /\ mode \in Modes
  /\ gateway \in [Pays -> {"closed", "open", "paid", "declined"}]
  /\ late \subseteq Pays
  /\ outbox \in [Events -> EventRow \cup {NoEvent}]
  /\ sent \in [Events -> Nat]
  /\ \A s \in {batch, skim} :
       /\ DOMAIN s \subseteq Events
       /\ s \in [DOMAIN s -> EventRow]
  /\ posting \in [event : Events \cup {None}, step : {"none", "mark", "markFailed"}]
  /\ posting = Resting \/ posting.event \in DOMAIN batch
  /\ sweep \subseteq Pays
  /\ pc \in [Handlers -> Labels]
  /\ job \in [Handlers -> Pays \cup {None}]
  /\ \A h \in Handlers : pc[h] = "idle" <=> job[h] = None
  /\ calls \in [Pays -> 0 .. MaxCalls]
  /\ faults \in 0 .. mode.faults

Init ==
  /\ status = [p \in Pays |-> "NONE"]
  /\ mode \in Modes
  /\ gateway = [p \in Pays |-> "closed"]
  /\ late = {}
  /\ outbox = [e \in Events |-> NoEvent]
  /\ sent = [e \in Events |-> 0]
  /\ batch = NoRows
  /\ posting = Resting
  /\ skim = NoRows
  /\ sweep = {}
  /\ pc = [h \in Handlers |-> "idle"]
  /\ job = [h \in Handlers |-> None]
  /\ calls = [p \in Pays |-> 0]
  /\ faults = 0

-----------------------------------------------------------------------------
(* Helpers.                                                                *)

Busy(p) == \E h \in Handlers : job[h] = p
Answering(p) == \E h \in Handlers :
                  job[h] = p /\ pc[h] \in {"saveOutcome", "queueOutcome"}
Queued(p, type) ==
  {e \in Events : outbox[e] # NoEvent /\ outbox[e].of = p /\ outbox[e].type = type}

At(h, label) == pc[h] = label

Start(h, p, label) ==
  /\ pc[h] = "idle"
  /\ calls[p] < MaxCalls
  /\ calls' = [calls EXCEPT ![p] = @ + 1]
  /\ pc' = [pc EXCEPT ![h] = label]
  /\ job' = [job EXCEPT ![h] = p]

(* A request that returns or throws at once, having written nothing.       *)
Refuse(h, p) ==
  /\ pc[h] = "idle"
  /\ calls[p] < MaxCalls
  /\ calls' = [calls EXCEPT ![p] = @ + 1]
  /\ UNCHANGED requests

Goto(h, label) == pc' = [pc EXCEPT ![h] = label] /\ UNCHANGED job

Finish(h) == /\ pc' = [pc EXCEPT ![h] = "idle"]
             /\ job' = [job EXCEPT ![h] = None]

SaveStatus(p, s) == status' = [status EXCEPT ![p] = s]

(* saveToOutbox: the next row, with a new event id.                        *)
Unused == {e \in Events : outbox[e] = NoEvent}

SaveToOutbox(p, type) ==
  LET e == CHOOSE unused \in Events : unused \in Unused
  IN /\ Unused # {}
     /\ outbox' = [outbox EXCEPT ![e] =
          [of |-> p, type |-> type, status |-> "PENDING", retry |-> 0, due |-> FALSE]]

Without(s, e) == Restrict(s, DOMAIN s \ {e})

-----------------------------------------------------------------------------
(* createPayment                                                           *)

(* A payment with the same idempotency key is returned if it is PENDING    *)
(* and refused otherwise; neither writes.                                  *)
Create(h, p) ==
  /\ IF status[p] = "NONE" THEN Start(h, p, "insert") ELSE Refuse(h, p)
  /\ UNCHANGED <<rows, world, outboxJobs, sweep, faults>>

(* The unique idempotency key makes a second insert throw.                 *)
CreateInsert(h) ==
  /\ At(h, "insert")
  /\ IF status[job[h]] = "NONE"
     THEN SaveStatus(job[h], "PENDING") /\ Goto(h, "ask")
     ELSE Finish(h) /\ UNCHANGED status
  /\ UNCHANGED <<outbox, world, outboxJobs, sweep, calls, faults>>

CreateAsk(h) ==
  /\ At(h, "ask")
  /\ \E label \in {"saveUrl", "saveFailed"} : Goto(h, label)
  /\ UNCHANGED <<rows, world, outboxJobs, sweep, calls, faults>>

CreateSaveFailed(h) ==
  /\ At(h, "saveFailed")
  /\ SaveStatus(job[h], "FAILED")
  /\ Finish(h)
  /\ UNCHANGED <<outbox, world, outboxJobs, sweep, calls, faults>>

(* From here on the payment URL can reach the payer.                       *)
CreateSaveUrl(h) ==
  /\ At(h, "saveUrl")
  /\ SaveStatus(job[h], "PENDING")
  /\ gateway' = [gateway EXCEPT ![job[h]] = "open"]
  /\ Goto(h, "queueInitiated")
  /\ UNCHANGED <<outbox, late, mode, outboxJobs, sweep, calls, faults>>

CreateQueueInitiated(h) ==
  /\ At(h, "queueInitiated")
  /\ SaveToOutbox(job[h], "INITIATED")
  /\ Finish(h)
  /\ UNCHANGED <<status, world, outboxJobs, sweep, calls, faults>>

-----------------------------------------------------------------------------
(* The gateway, and time.                                                  *)

Pay(p, answer) ==
  /\ gateway[p] = "open"
  /\ gateway' = [gateway EXCEPT ![p] = answer]
  /\ UNCHANGED <<rows, late, mode, outboxJobs, sweep, requests, calls, faults>>

(* A payment lives fifteen minutes; creating it takes far less.            *)
GetsLate(p) ==
  /\ status[p] # "NONE" /\ p \notin late
  /\ \A h \in Handlers : job[h] = p => pc[h] \in {"saveOutcome", "queueOutcome"}
  /\ late' = late \cup {p}
  /\ UNCHANGED <<rows, gateway, mode, outboxJobs, sweep, requests, calls, faults>>

-----------------------------------------------------------------------------
(* handleCallback: the return URL and the IPN of one payment, each         *)
(* possibly repeated.                                                      *)

(* Fault: the response code is ignored.                                    *)
OutcomeAssumed(p) == "COMPLETED"

OutcomeOf(p) == IF gateway[p] = "paid" THEN "COMPLETED" ELSE "FAILED"

(* Fault: a callback for a payment the service has closed is processed.    *)
CallbackReopens(h, p) ==
  /\ gateway[p] \in {"paid", "declined"}
  /\ mode.apart => ~Answering(p) /\ p \notin sweep
  /\ Start(h, p, "saveOutcome")
  /\ UNCHANGED <<rows, world, outboxJobs, sweep, faults>>

Callback(h, p) ==
  /\ gateway[p] \in {"paid", "declined"}
  /\ mode.apart => ~Answering(p) /\ p \notin sweep
  /\ IF status[p] = "PENDING" THEN Start(h, p, "saveOutcome") ELSE Refuse(h, p)
  /\ UNCHANGED <<rows, world, outboxJobs, sweep, faults>>

(* Fault: the event is meant to be queued by a later retry.                *)
CallbackSavesOnly(h) ==
  /\ At(h, "saveOutcome")
  /\ SaveStatus(job[h], OutcomeOf(job[h]))
  /\ Finish(h)
  /\ UNCHANGED <<outbox, world, outboxJobs, sweep, calls, faults>>

CallbackSave(h) ==
  /\ At(h, "saveOutcome")
  /\ SaveStatus(job[h], OutcomeOf(job[h]))
  /\ Goto(h, "queueOutcome")
  /\ UNCHANGED <<outbox, world, outboxJobs, sweep, calls, faults>>

CallbackQueue(h) ==
  /\ At(h, "queueOutcome")
  /\ SaveToOutbox(job[h], OutcomeOf(job[h]))
  /\ Finish(h)
  /\ UNCHANGED <<status, world, outboxJobs, sweep, calls, faults>>

-----------------------------------------------------------------------------
(* expirePendingPayments                                                   *)

ExpireFind ==
  LET found == {p \in late : status[p] = "PENDING"}
  IN /\ sweep = {} /\ found # {}
     /\ mode.apart => \A p \in found : ~Answering(p)
     /\ sweep' = found
     /\ UNCHANGED <<rows, world, outboxJobs, requests, calls, faults>>

ExpireSave(p) ==
  /\ p \in sweep
  /\ SaveStatus(p, "EXPIRED")
  /\ sweep' = sweep \ {p}
  /\ UNCHANGED <<outbox, world, outboxJobs, requests, calls, faults>>

-----------------------------------------------------------------------------
(* OutboxPublisherService.  isPublishing is TRUE while batch is not empty. *)

Due(e) == \/ outbox[e].status = "PENDING"
          \/ outbox[e].status = "FAILED" /\ outbox[e].due

Publishable(e) == Due(e) /\ outbox[e].retry < MaxRetry

(* Fault: only events that have not failed yet are read.                   *)
PublisherFindPending ==
  LET found == {e \in Events : outbox[e].status = "PENDING"}
  IN /\ "publisher" \in mode.jobs
     /\ batch = NoRows /\ found # {}
     /\ batch' = Restrict(outbox, found)
     /\ UNCHANGED <<rows, world, sent, posting, skim, sweep, requests,
                    calls, faults>>

PublisherFind ==
  LET found == {e \in Events : Publishable(e)}
  IN /\ "publisher" \in mode.jobs
     /\ batch = NoRows /\ found # {}
     /\ batch' = Restrict(outbox, found)
     /\ UNCHANGED <<rows, world, sent, posting, skim, sweep, requests,
                    calls, faults>>

PublisherSend(e) ==
  /\ posting = Resting /\ e \in DOMAIN batch
  /\ sent' = [sent EXCEPT ![e] = @ + 1]
  /\ posting' = [event |-> e, step |-> "mark"]
  /\ UNCHANGED <<rows, world, batch, skim, sweep, requests, calls, faults>>

(* The broker does not confirm; the message may have reached it.           *)
PublisherSendFails(e) ==
  /\ posting = Resting /\ e \in DOMAIN batch
  /\ faults < mode.faults /\ faults' = faults + 1
  /\ \E reached \in {0, 1} : sent' = [sent EXCEPT ![e] = @ + reached]
  /\ posting' = [event |-> e, step |-> "markFailed"]
  /\ UNCHANGED <<rows, world, batch, skim, sweep, requests, calls>>

PublisherMark(e) ==
  /\ posting = [event |-> e, step |-> "mark"]
  /\ outbox' = [outbox EXCEPT ![e] = [batch[e] EXCEPT !.status = "PUBLISHED"]]
  /\ batch' = Without(batch, e)
  /\ posting' = Resting
  /\ UNCHANGED <<status, world, sent, skim, sweep, requests, calls, faults>>

PublisherMarkFails(e) ==
  /\ posting = [event |-> e, step |-> "mark"]
  /\ faults < mode.faults /\ faults' = faults + 1
  /\ posting' = [event |-> e, step |-> "markFailed"]
  /\ UNCHANGED <<rows, world, sent, batch, skim, sweep, requests, calls>>

PublisherMarkFailed(e) ==
  /\ posting = [event |-> e, step |-> "markFailed"]
  /\ outbox' = [outbox EXCEPT ![e] =
       [batch[e] EXCEPT !.status = "FAILED", !.retry = @ + 1, !.due = FALSE]]
  /\ batch' = Without(batch, e)
  /\ posting' = Resting
  /\ UNCHANGED <<status, world, sent, skim, sweep, requests, calls, faults>>

(* Saving the failure fails too: the rest of the batch is given up.        *)
PublisherGivesUp ==
  /\ posting.step = "markFailed"
  /\ faults < mode.faults /\ faults' = faults + 1
  /\ batch' = NoRows
  /\ posting' = Resting
  /\ UNCHANGED <<rows, world, sent, skim, sweep, requests, calls>>

(* next_retry_at has passed.                                               *)
BackoffEnds(e) ==
  /\ outbox[e].status = "FAILED" /\ ~outbox[e].due
  /\ outbox' = [outbox EXCEPT ![e].due = TRUE]
  /\ UNCHANGED <<status, world, outboxJobs, sweep, requests, calls, faults>>

-----------------------------------------------------------------------------
(* OutboxService: processOutboxEvents and archiveOldEvents.                *)

LoggerFind ==
  LET found == {e \in Events : Due(e)}
  IN /\ "logger" \in mode.jobs
     /\ skim = NoRows /\ found # {}
     /\ skim' = Restrict(outbox, found)
     /\ UNCHANGED <<rows, world, sent, batch, posting, sweep, requests,
                    calls, faults>>

LoggerMark(e) ==
  /\ e \in DOMAIN skim
  /\ outbox' = [outbox EXCEPT ![e] = [skim[e] EXCEPT !.status = "PUBLISHED"]]
  /\ skim' = Without(skim, e)
  /\ UNCHANGED <<status, world, sent, batch, posting, sweep, requests,
                 calls, faults>>

(* The save fails; the entity, its status already PUBLISHED, is saved      *)
(* again with the retry counted.                                           *)
LoggerMarkFails(e) ==
  LET row == skim[e]
      spent == row.retry + 1 >= MaxRetry
  IN /\ e \in DOMAIN skim
     /\ faults < mode.faults /\ faults' = faults + 1
     /\ outbox' = [outbox EXCEPT ![e] =
          [row EXCEPT !.retry = @ + 1,
                      !.status = IF spent THEN "FAILED" ELSE "PUBLISHED",
                      !.due = spent]]
     /\ skim' = Without(skim, e)
     /\ UNCHANGED <<status, world, sent, batch, posting, sweep, requests,
                    calls>>

LoggerGivesUp ==
  /\ skim # NoRows
  /\ faults < mode.faults /\ faults' = faults + 1
  /\ skim' = NoRows
  /\ UNCHANGED <<rows, world, sent, batch, posting, sweep, requests, calls>>

(* Thirty days later: no run of a job still holds the event.               *)
Archive(e) ==
  /\ outbox[e].status = "PUBLISHED"
  /\ "logger" \in mode.jobs
  /\ e \notin DOMAIN batch \cup DOMAIN skim
  /\ outbox' = [outbox EXCEPT ![e].status = "ARCHIVED"]
  /\ UNCHANGED <<status, world, outboxJobs, sweep, requests, calls, faults>>

-----------------------------------------------------------------------------
(* A database call of a request or of the expiry job fails; the process    *)
(* dies and restarts.                                                      *)

Abort(h) ==
  /\ pc[h] # "idle"
  /\ faults < mode.faults /\ faults' = faults + 1
  /\ Finish(h)
  /\ UNCHANGED <<rows, world, outboxJobs, sweep, calls>>

ExpireGivesUp ==
  /\ sweep # {}
  /\ faults < mode.faults /\ faults' = faults + 1
  /\ sweep' = {}
  /\ UNCHANGED <<rows, world, outboxJobs, requests, calls>>

Crash ==
  /\ faults < mode.faults /\ faults' = faults + 1
  /\ batch' = NoRows /\ posting' = Resting /\ skim' = NoRows /\ sweep' = {}
  /\ pc' = [h \in Handlers |-> "idle"]
  /\ job' = [h \in Handlers |-> None]
  /\ UNCHANGED <<rows, world, sent, calls>>

Serve(h) ==
  \/ CreateInsert(h) \/ CreateAsk(h) \/ CreateSaveFailed(h)
  \/ CreateSaveUrl(h) \/ CreateQueueInitiated(h)
  \/ CallbackSave(h) \/ CallbackQueue(h)

Publisher ==
  \/ PublisherFind \/ PublisherGivesUp
  \/ \E e \in Events :
       \/ PublisherSend(e) \/ PublisherSendFails(e) \/ PublisherMark(e)
       \/ PublisherMarkFails(e) \/ PublisherMarkFailed(e)

Logger ==
  \/ LoggerFind \/ LoggerGivesUp
  \/ \E e \in Events : LoggerMark(e) \/ LoggerMarkFails(e) \/ Archive(e)

Next ==
  \/ \E h \in Handlers, p \in Pays : Create(h, p) \/ Callback(h, p)
  \/ \E h \in Handlers : Serve(h) \/ Abort(h)
  \/ \E p \in Pays : \/ \E answer \in {"paid", "declined"} : Pay(p, answer)
                     \/ GetsLate(p) \/ ExpireSave(p)
  \/ ExpireFind \/ ExpireGivesUp
  \/ Publisher \/ Logger
  \/ \E e \in Events : BackoffEnds(e)
  \/ Crash

Spec == Init /\ [][Next]_vars

(* The scheduler starts the publisher every ten seconds, what it started   *)
(* runs on, and a backoff of some minutes ends.                            *)
Fairness ==
  /\ WF_vars(PublisherFind)
  /\ WF_vars(\E e \in Events : PublisherSend(e) \/ PublisherMark(e)
                                 \/ PublisherMarkFailed(e))
  /\ \A e \in Events : WF_vars(BackoffEnds(e))

FairSpec == Spec /\ Fairness

-----------------------------------------------------------------------------
(* Properties of every interleaving, failures and crashes included.        *)

(* The outbox never tells of an outcome the gateway did not report, and a  *)
(* payment is COMPLETED only if it was paid, however callbacks, expiry and *)
(* failed creations overwrite one another.                                 *)
OutcomesAreTrue ==
  \A p \in Pays :
    /\ status[p] = "COMPLETED" \/ Queued(p, "COMPLETED") # {} => gateway[p] = "paid"
    /\ Queued(p, "FAILED") # {} => gateway[p] = "declined"

(* An event marked PUBLISHED was handed to the broker.                     *)
PublishedMeansSent ==
  \A e \in Events : outbox[e].status \in {"PUBLISHED", "ARCHIVED"} => sent[e] > 0

(* With the publisher alone, every queued event reaches the broker, or is  *)
(* parked after MAX_RETRY failed attempts.                                 *)
EventuallySent ==
  \A e \in Events :
    mode.jobs = {"publisher"} /\ outbox[e].status = "PENDING" ~>
      sent[e] > 0 \/ (outbox[e] # NoEvent /\ outbox[e].retry >= MaxRetry)

(* A COMPLETED payment that no request is working on has its               *)
(* payment.completed event in the outbox.                                  *)
CompletedIsQueued ==
  \A p \in Pays : status[p] = "COMPLETED" /\ ~Busy(p) => Queued(p, "COMPLETED") # {}

(* As long as nothing fails that is so, even if the return URL, the IPN    *)
(* and the expiry job overlap.                                             *)
OnlyFaultsLoseEvents == faults = 0 => CompletedIsQueued

-----------------------------------------------------------------------------
(* Properties of the mode in which callbacks and expiry of a payment do    *)
(* not overlap.                                                            *)

(* The events about the outcome of p that reached the broker.              *)
Announced(p) ==
  {e \in Queued(p, "COMPLETED") \cup Queued(p, "FAILED") : mode.apart /\ sent[e] > 0}

(* A payment goes through the documented lifecycle, and one event, however *)
(* often the gateway repeats its callbacks, announces its outcome to the   *)
(* other services: the one it really has.                                  *)
Lifecycle == INSTANCE PaymentLifecycle WITH
  status <- IF mode.apart THEN status ELSE [p \in Pays |-> "NONE"],
  announced <- [p \in Pays |-> {<<e, outbox[e].type>> : e \in Announced(p)}]

ImplementsLifecycle == Lifecycle!Spec
=============================================================================
