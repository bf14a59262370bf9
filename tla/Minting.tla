------------------------------- MODULE Minting -------------------------------
(***************************************************************************)
(* How a trip becomes credits, across three services with a database each: *)
(* trip-service, Verification-Service and credit-service.                  *)
(*                                                                         *)
(* A trip earns credits in two ways.  Submitting it makes a verification,  *)
(* and the approval of that is announced to credit-service, which mints.   *)
(* Completing it mints through a call of credit-service made inside the    *)
(* transaction that completes it.                                          *)
(*                                                                         *)
(* Requests that are refused change nothing and are left out.              *)
(***************************************************************************)
EXTENDS Integers, FiniteSets, FiniteSetsExt

CONSTANTS
  Trips, Users,
  Handlers,     \* requests of trip-service in progress
  Listener,     \* the thread of trip-service that hears of approvals
  Minter,       \* the thread of credit-service that hears of approvals
  None,
  Driver,       \* Driver[t]: who made trip t
  Co2,          \* Co2[t]: what it saved; a very short trip is rounded to 0
  MaxCalls,     \* bound: requests to submit, complete or delete a trip
  MaxFaults     \* bound: rolled back transactions, lost or repeated messages

Workers == Handlers \cup {Listener}
NoRow == {"NEW", "DELETED"}
Status == NoRow \cup {"CALCULATED", "SUBMITTED_FOR_VERIFICATION", "VERIFIED"}
Decision == {"NONE", "PENDING", "APPROVED", "REJECTED"}
Ways == {"completion", "approval"}
NoAccount == -1

ASSUME MintingAssumption ==
  /\ IsFiniteSet(Trips)
  /\ Driver \in [Trips -> Users] /\ Co2 \in [Trips -> Nat]
  /\ Minter \notin Workers /\ Listener \notin Handlers /\ None \notin Trips
  /\ MaxCalls \in Nat /\ MaxFaults \in Nat

VARIABLES
  trip,         \* trip-service: status of each trip; NEW and DELETED ones have no row
  work,         \* trip-service: what each worker is doing to which trip
  verification, \* Verification-Service: the row for each trip
  submitted,    \* queue of Verification-Service: trip.submitted, per trip
  heard,        \* queue of trip-service: verification.approved, per trip
  approved,     \* queue of credit-service: verification.approved, per trip
  account,      \* credit-service: balance of each user
  adding,       \* credit-service: transactions of addCredit in progress
  minted,       \* credit-service: records of credits earned, per trip and way
  torn,         \* history: trips that two workers had open at once
  raced,        \* history: accounts that two transactions had open at once
  again,        \* history: trips with a fault after the credits were minted
  calls, faults

trips == <<trip, work, torn>>
queues == <<submitted, heard, approved>>
credits == <<account, adding, minted, raced>>
vars == <<trips, verification, queues, credits, again, calls, faults>>

Idle == [op |-> "idle", stage |-> "read", trip |-> None]
NotAdding == [trip |-> None, balance |-> 0]

TypeOK ==
  /\ trip \in [Trips -> Status]
  /\ \A w \in Workers :
       /\ work[w].op \in {"idle", "submit", "complete", "delete", "hear"}
       /\ work[w].stage \in {"read", "called", "minted", "published"}
       /\ work[w].trip \in Trips \cup {None}
  /\ verification \in [Trips -> Decision]
  /\ submitted \in [Trips -> Nat] /\ heard \in [Trips -> Nat] /\ approved \in [Trips -> Nat]
  /\ account \in [Users -> Nat \cup {NoAccount}]
  /\ \A w \in Handlers \cup {Minter} :
       adding[w] \in [trip : Trips \cup {None}, balance : Nat \cup {NoAccount}]
  /\ minted \in [Trips -> [Ways -> Nat]]
  /\ torn \subseteq Trips /\ raced \subseteq Users /\ again \subseteq Trips
  /\ calls \in 0 .. MaxCalls /\ faults \in 0 .. MaxFaults

Init ==
  /\ trip = [t \in Trips |-> "NEW"]
  /\ work = [w \in Workers |-> Idle]
  /\ verification = [t \in Trips |-> "NONE"]
  /\ submitted = [t \in Trips |-> 0] /\ heard = submitted /\ approved = submitted
  /\ account = [u \in Users |-> NoAccount]
  /\ adding = [w \in Handlers \cup {Minter} |-> NotAdding]
  /\ minted = [t \in Trips |-> [way \in Ways |-> 0]]
  /\ torn = {} /\ raced = {} /\ again = {}
  /\ calls = 0 /\ faults = 0

Fault == faults < MaxFaults /\ faults' = faults + 1
NoFault == UNCHANGED faults

Publish(queue, t) == [queue EXCEPT ![t] = @ + 1]

Ack(queue, t) == [queue EXCEPT ![t] = @ - 1]

-----------------------------------------------------------------------------
(* trip-service.  A request reads the row, and writes all of it back.      *)

Open(w, op, t) ==
  /\ work[w] = Idle /\ trip[t] \notin NoRow
  /\ work' = [work EXCEPT ![w] = [op |-> op, stage |-> "read", trip |-> t]]
  /\ torn' = IF \E v \in Workers : work[v].trip = t THEN torn \cup {t} ELSE torn
  /\ UNCHANGED <<trip, verification, queues, credits, again>>

Request(h, op, t) == calls < MaxCalls /\ calls' = calls + 1 /\ Open(h, op, t) /\ NoFault

At(w, op, stage) == work[w].op = op /\ work[w].stage = stage

Stage(w, stage) == work' = [work EXCEPT ![w].stage = stage]

Close(w) == work' = [work EXCEPT ![w] = Idle]

(* The commit of one row: an UPDATE of a row that is gone fails, and the   *)
(* transaction with it.                                                    *)
Write(t, status) ==
  trip' = IF trip[t] \in NoRow THEN trip ELSE [trip EXCEPT ![t] = status]

(* uploadTrip                                                              *)
Upload(t) ==
  /\ trip[t] = "NEW"
  /\ trip' = [trip EXCEPT ![t] = "CALCULATED"]
  /\ UNCHANGED <<work, torn, verification, queues, credits, again, calls, faults>>

IsFinal(status) == status = "VERIFIED"

CanSubmit(t) == trip[t] = "CALCULATED"

(* submitForVerification                                                   *)
Submit(h, t) == CanSubmit(t) /\ Request(h, "submit", t)

(* Fault: a trip can be completed again.                                   *)
CanCompleteAny(t) == trip[t] \notin NoRow

CanComplete(t) == trip[t] # "VERIFIED"

(* completeTrip.  A trip that saved nothing is calculated again, by a      *)
(* coarser formula: of a very short one that makes nothing either.         *)
Complete(h, t) == CanComplete(t) /\ Request(h, "complete", t)

(* deleteTrip                                                              *)
Delete(h, t) == ~IsFinal(trip[t]) /\ Request(h, "delete", t)

(* trip.submitted is published before the commit, its errors are           *)
(* swallowed.                                                              *)
PublishSubmitted(h) ==
  LET t == work[h].trip IN
  /\ At(h, "submit", "read") \/ At(h, "complete", "minted")
  /\ \/ submitted' = Publish(submitted, t) /\ NoFault
     \/ UNCHANGED submitted /\ Fault
  /\ Stage(h, "published")
  /\ UNCHANGED <<trip, torn, verification, heard, approved, credits, again, calls>>

SubmitCommit(h) ==
  /\ At(h, "submit", "published")
  /\ Write(work[h].trip, "SUBMITTED_FOR_VERIFICATION")
  /\ Close(h)
  /\ UNCHANGED <<torn, verification, queues, credits, again, calls, faults>>

CompleteCommit(h) ==
  /\ At(h, "complete", "published")
  /\ Write(work[h].trip, "VERIFIED")
  /\ Close(h)
  /\ UNCHANGED <<torn, verification, queues, credits, again, calls, faults>>

DeleteCommit(h) ==
  /\ At(h, "delete", "read")
  /\ trip' = [trip EXCEPT ![work[h].trip] = "DELETED"]
  /\ Close(h)
  /\ UNCHANGED <<torn, verification, queues, credits, again, calls, faults>>

(* The database fails: what was published or minted remains.               *)
Abort(h) ==
  /\ work[h].stage # "called" /\ work[h] # Idle /\ h \in Handlers
  /\ Fault
  /\ Close(h)
  /\ again' = IF minted[work[h].trip]["completion"] > 0 THEN again \cup {work[h].trip} ELSE again
  /\ UNCHANGED <<trip, torn, verification, queues, credits, calls>>

(* VerificationEventListener of trip-service reads and saves in two        *)
(* transactions.                                                           *)
Hear(t) ==
  /\ work[Listener] = Idle /\ heard[t] > 0
  /\ IF trip[t] \in NoRow
     THEN heard' = Ack(heard, t) /\ UNCHANGED <<trips, verification, submitted, approved, credits, again>>
     ELSE Open(Listener, "hear", t)
  /\ UNCHANGED <<calls, faults>>

(* Errors are swallowed, and the message is acknowledged.                  *)
HearSave ==
  LET t == work[Listener].trip IN
  /\ At(Listener, "hear", "read")
  /\ \/ Write(t, "VERIFIED") /\ NoFault
     \/ UNCHANGED trip /\ Fault
  /\ heard' = Ack(heard, t)
  /\ Close(Listener)
  /\ UNCHANGED <<torn, verification, submitted, approved, credits, again, calls>>

-----------------------------------------------------------------------------
(* credit-service.  addCredit reads the row of the account and writes all  *)
(* of it back, with a record of the credits.                               *)

BeginAdd(w, t) ==
  LET u == Driver[t] IN
  /\ adding[w] = NotAdding
  /\ adding' = [adding EXCEPT ![w] = [trip |-> t, balance |-> account[u]]]
  /\ raced' = IF \E v \in DOMAIN adding : adding[v].trip # None /\ Driver[adding[v].trip] = u
              THEN raced \cup {u} ELSE raced
  /\ UNCHANGED <<account, minted>>

(* Fault: the record is written, the balance is not.                       *)
AddRecordOnly(w, t, way) ==
  /\ account' = [account EXCEPT ![Driver[t]] = IF @ = NoAccount THEN 0 ELSE @]
  /\ minted' = [minted EXCEPT ![t][way] = @ + 1]

(* addCredit                                                               *)
Add(w, t, way) ==
  /\ account' = [account EXCEPT ![Driver[t]] =
                   Co2[t] + IF adding[w].balance = NoAccount THEN 0 ELSE adding[w].balance]
  /\ minted' = [minted EXCEPT ![t][way] = @ + 1]

EndAdd(w) == adding' = [adding EXCEPT ![w] = NotAdding] /\ UNCHANGED raced

(* The row of an account that another transaction has inserted meanwhile   *)
(* cannot be inserted again: user_id is unique.                            *)
CanAdd(w, t) ==
  /\ Co2[t] > 0
  /\ adding[w].balance = NoAccount => account[Driver[t]] = NoAccount

(* The call of credit-service in completeTrip.                             *)
Call(h) ==
  /\ At(h, "complete", "read")
  /\ Stage(h, "called")
  /\ BeginAdd(h, work[h].trip)
  /\ UNCHANGED <<trip, torn, verification, queues, again, calls, faults>>

(* The answer of credit-service.  An error is swallowed, and the event is  *)
(* not published: the trip is completed without credits.                   *)
Answer(h) ==
  LET t == work[h].trip IN
  /\ At(h, "complete", "called")
  /\ EndAdd(h)
  /\ \/ CanAdd(h, t) /\ Add(h, t, "completion") /\ Stage(h, "minted") /\ NoFault
     \/ ~CanAdd(h, t) /\ Stage(h, "published") /\ UNCHANGED <<account, minted>> /\ NoFault
     \/ Stage(h, "published") /\ UNCHANGED <<account, minted>> /\ Fault
     \/ CanAdd(h, t) /\ Add(h, t, "completion") /\ Stage(h, "published") /\ Fault
  /\ UNCHANGED <<trip, torn, verification, queues, again, calls>>

(* VerificationEventListener of credit-service makes sure of the account   *)
(* in a transaction of its own: createCreditAccount.                       *)
CreateAccount(t) ==
  /\ approved[t] > 0 /\ account[Driver[t]] = NoAccount
  /\ account' = [account EXCEPT ![Driver[t]] = 0]
  /\ UNCHANGED <<trips, verification, queues, adding, minted, raced, again, calls, faults>>

HearApproved(t) ==
  /\ approved[t] > 0 /\ account[Driver[t]] # NoAccount
  /\ BeginAdd(Minter, t)
  /\ UNCHANGED <<trips, verification, queues, again, calls, faults>>

(* Fault: the exception is swallowed, and the message is acknowledged.     *)
RetrySwallowed(t) == approved' = Ack(approved, t)

(* The exception is thrown again: the message goes back to the queue.      *)
Retry(t) == UNCHANGED approved

(* Credits of 0 are refused, each time.  A crash after the commit delivers *)
(* the message again.                                                      *)
Mint ==
  LET t == adding[Minter].trip IN
  /\ t # None
  /\ EndAdd(Minter)
  /\ \/ /\ CanAdd(Minter, t) /\ Add(Minter, t, "approval") /\ NoFault
        /\ approved' = Ack(approved, t) /\ UNCHANGED again
     \/ /\ ~CanAdd(Minter, t) /\ UNCHANGED <<account, minted, again>> /\ NoFault
        /\ Retry(t)
     \/ /\ UNCHANGED <<account, minted, again>> /\ Fault
        /\ Retry(t)
     \/ /\ CanAdd(Minter, t) /\ Add(Minter, t, "approval") /\ Fault
        /\ UNCHANGED approved /\ again' = again \cup {t}
  /\ UNCHANGED <<trips, verification, submitted, heard, calls>>

-----------------------------------------------------------------------------
(* Verification-Service.  A request is handled without a pause by the only *)
(* process; the consumer of trip.submitted, a thread, only inserts.        *)

(* handle_trip_submitted.  trip_id is unique: the message for a trip that  *)
(* has a row is refused, and not requeued.                                 *)
HandleTripSubmitted(t) ==
  /\ submitted[t] > 0
  /\ submitted' = Ack(submitted, t)
  /\ \/ verification[t] = "NONE" /\ NoFault
        /\ verification' = [verification EXCEPT ![t] = "PENDING"]
     \/ verification[t] # "NONE" /\ UNCHANGED verification /\ NoFault
     \/ UNCHANGED verification /\ Fault
  /\ UNCHANGED <<trips, heard, approved, credits, again, calls>>

(* create_verification, a request that trip-service does not make.         *)
CreateVerification(t) ==
  /\ verification[t] = "NONE" /\ trip[t] # "NEW"
  /\ calls < MaxCalls /\ calls' = calls + 1
  /\ verification' = [verification EXCEPT ![t] = "PENDING"]
  /\ UNCHANGED <<trips, queues, credits, again, faults>>

OpenToDecision(t) == verification[t] = "PENDING"

(* approve_verification commits and then publishes; if it fails to, the    *)
(* verification is not PENDING any more and cannot be approved again.      *)
Approve(t) ==
  /\ OpenToDecision(t)
  /\ verification' = [verification EXCEPT ![t] = "APPROVED"]
  /\ \/ heard' = Publish(heard, t) /\ approved' = Publish(approved, t) /\ NoFault
     \/ UNCHANGED <<heard, approved>> /\ Fault
  /\ UNCHANGED <<trips, submitted, credits, again, calls>>

(* reject_verification: nobody but the notifications hears of it.          *)
Reject(t) ==
  /\ OpenToDecision(t)
  /\ verification' = [verification EXCEPT ![t] = "REJECTED"]
  /\ UNCHANGED <<trips, queues, credits, again, calls, faults>>

-----------------------------------------------------------------------------
HandlerStep(h) ==
  \/ PublishSubmitted(h) \/ SubmitCommit(h) \/ CompleteCommit(h) \/ DeleteCommit(h)
  \/ Call(h) \/ Answer(h)

Consume ==
  \/ HearSave \/ Mint
  \/ \E t \in Trips : Hear(t) \/ CreateAccount(t) \/ HearApproved(t) \/ HandleTripSubmitted(t)

Next ==
  \/ \E t \in Trips :
       \/ Upload(t) \/ CreateVerification(t) \/ Approve(t) \/ Reject(t)
       \/ \E h \in Handlers : Submit(h, t) \/ Complete(h, t) \/ Delete(h, t)
  \/ \E h \in Handlers : HandlerStep(h) \/ Abort(h)
  \/ Consume

Spec == Init /\ [][Next]_vars

(* Requests end, and every message in a queue is delivered again until it  *)
(* is acknowledged; a poisonous one does not keep the others back.         *)
Fairness ==
  /\ \A h \in Handlers : WF_vars(HandlerStep(h))
  /\ WF_vars(HearSave) /\ WF_vars(Mint)
  /\ \A t \in Trips :
       /\ WF_vars(Hear(t)) /\ WF_vars(CreateAccount(t)) /\ SF_vars(HearApproved(t))
       /\ WF_vars(HandleTripSubmitted(t))

FairSpec == Spec /\ Fairness

-----------------------------------------------------------------------------
(* Properties.                                                             *)

(* A trip earns its credits once on each way, unless two requests had it   *)
(* open at once, or a fault struck between the commit that minted and what *)
(* should keep it from happening again: the acknowledgement of the         *)
(* message, or the commit of the completed trip.  (A trip can earn them on *)
(* both ways: nothing in the code prevents that.)                          *)
MintedOnce ==
  \A t \in Trips :
    /\ minted[t]["completion"] > 1 => t \in torn \cup again
    /\ minted[t]["approval"] > 1 => t \in again

(* A balance is the sum of the credits on record, unless two transactions  *)
(* had the account open at once and one was overwritten.                   *)
BalanceIsEarned ==
  \A u \in Users \ raced :
    account[u] # NoAccount =>
      account[u] = MapThenSumSet(LAMBDA t : Co2[t] * (minted[t]["completion"] + minted[t]["approval"]),
                                 {t \in Trips : Driver[t] = u})

(* Credits of an approval that was announced are minted in the end,        *)
(* however often the transaction fails: the message is requeued.           *)
AnnouncedIsMinted ==
  \A t \in Trips : approved[t] > 0 /\ Co2[t] > 0 ~> minted[t]["approval"] > 0

=============================================================================
