------------------------------ MODULE Reviews ------------------------------
(***************************************************************************)
(* What admins decide about one user, and what User_Service and            *)
(* Admin_Service each keep of it: the user's KYC documents and kyc_status  *)
(* (KycService), the profile row and its copy in Redis (UserService), the  *)
(* managed_user row (UserManagementService and the consumer of user.*      *)
(* events), and override requests (OverrideRequestService).                *)
(*                                                                         *)
(* Every await of a database or a broker is a step; save writes the whole  *)
(* row a handler holds.  A profile field is known by who wrote it last.    *)
(* Audit rows and the user's log of actions are written beside these steps *)
(* and read by nothing here.                                               *)
(***************************************************************************)
EXTENDS Integers, Sequences, FiniteSets

CONSTANTS
  Docs,       \* KYC documents the user may upload
  Overrides,  \* override requests
  Admins,
  Handlers,   \* requests and deliveries in progress at once
  MaxCalls,   \* bound: requests
  MaxFaults   \* bound: failing database or broker calls

ASSUME ReviewsAssumption ==
  /\ Overrides \cap {"papers", "profile", "managed", "nothing"} = {}
  /\ Cardinality(Admins) > 1
  /\ MaxCalls \in Nat /\ MaxFaults \in Nat

VARIABLES
  papers,    \* status of each row of kyc_documents, "NONE" if there is none
  kyc,       \* users.kyc_status
  profile,   \* who wrote each field of user_profiles
  cached,    \* the profile in Redis
  managed,   \* the row of managed_user
  override,  \* rows of override_request
  executed,  \* overrides whose row was ever saved as COMPLETED: the effect
             \* itself is a mock that only logs
  toAdmin,   \* user.kyc.status_updated, in the queue of Admin_Service
  toUser,    \* admin.user.updated, in the queue of User_Service
  work,      \* what each handler does, and the row it holds
  disturbed, \* history: what was handled twice at once or cut short, whether
             \* an event was lost or a KYC status set by hand
  calls, faults

reviews == <<papers, kyc>>
queues == <<toAdmin, toUser>>
vars == <<reviews, profile, cached, managed, override, executed, queues, work,
          disturbed, calls, faults>>

Verdicts == {"APPROVED", "REJECTED"}
KycStatus == {"PENDING"} \cup Verdicts
ManagedKyc == {"PENDING", "VERIFIED", "REJECTED"}
Fields == {"fullName", "phone"}
Profile == [Fields -> {"signup", "user", "admin"}]
Topics == {"papers", "profile", "managed"} \cup Overrides

None == [kyc |-> "NONE"]
Managed == [kyc : ManagedKyc, profile : Profile]
Cached == [kyc : KycStatus, profile : Profile]
Override == [status : {"PENDING", "COMPLETED", "FAILED"} \cup Verdicts,
             requester : Admins]
Idle == [on |-> "nothing"]

TypeOK ==
  /\ papers \in [Docs -> KycStatus \cup {"NONE"}]
  /\ kyc \in KycStatus
  /\ profile \in Profile
  /\ cached \in Cached \cup {None}
  /\ managed \in Managed \cup {None}
  /\ \A r \in Overrides : override[r] \in Override \cup {None}
  /\ executed \subseteq Overrides
  /\ toAdmin \in Seq(KycStatus) /\ toUser \in Seq(Profile)
  /\ \A h \in Handlers : work[h] = Idle \/ work[h].on \in Topics
  /\ disturbed \subseteq Topics \cup {"lost", "byHand"}
  /\ calls \in 0 .. MaxCalls /\ faults \in 0 .. MaxFaults

Untouched == [f \in Fields |-> "signup"]

(* The user has registered; Admin_Service may not have heard of it yet.    *)
Init ==
  /\ papers = [d \in Docs |-> "NONE"]
  /\ kyc = "PENDING"
  /\ profile = Untouched
  /\ cached = None
  /\ managed = None
  /\ override = [r \in Overrides |-> None]
  /\ executed = {}
  /\ toAdmin = <<>> /\ toUser = <<>>
  /\ work = [h \in Handlers |-> Idle]
  /\ disturbed = {}
  /\ calls = 0 /\ faults = 0

-----------------------------------------------------------------------------
(* Handlers.                                                               *)

Busy(topic) == \E h \in Handlers : work[h].on = topic

Begin(h, job) ==
  /\ work[h] = Idle
  /\ work' = [work EXCEPT ![h] = job]
  /\ disturbed' = disturbed \cup IF Busy(job.on) THEN {job.on} ELSE {}

Call == calls < MaxCalls /\ calls' = calls + 1

At(h, on, step) == work[h].on = on /\ work[h].step = step

Goto(h, step) == work' = [work EXCEPT ![h].step = step]

Finish(h) == work' = [work EXCEPT ![h] = Idle]

-----------------------------------------------------------------------------
(* KycService.                                                             *)

UploadDocument(d) ==
  /\ papers[d] = "NONE"
  /\ Call
  /\ papers' = [papers EXCEPT ![d] = "PENDING"]
  /\ UNCHANGED <<kyc, profile, cached, managed, override, executed, queues, work,
                 disturbed, faults>>

(* An approved document is refused.                                        *)
DeleteDocument(h, d) ==
  /\ papers[d] \in {"PENDING", "REJECTED"}
  /\ Call
  /\ Begin(h, [on |-> "papers", step |-> "remove", doc |-> d])
  /\ UNCHANGED <<reviews, profile, cached, managed, override, executed, queues, faults>>

RemoveDocument(h) ==
  /\ At(h, "papers", "remove")
  /\ papers' = [papers EXCEPT ![work[h].doc] = "NONE"]
  /\ Finish(h)
  /\ UNCHANGED <<kyc, profile, cached, managed, override, executed, queues,
                 disturbed, calls, faults>>

VerifyDocument(h, d, verdict) ==
  /\ papers[d] # "NONE"
  /\ Call
  /\ Begin(h, [on |-> "papers", step |-> "saveDocument", doc |-> d, verdict |-> verdict])
  /\ UNCHANGED <<reviews, profile, cached, managed, override, executed, queues, faults>>

(* A document removed since it was read is inserted again.                 *)
SaveDocument(h) ==
  /\ At(h, "papers", "saveDocument")
  /\ papers' = [papers EXCEPT ![work[h].doc] = work[h].verdict]
  /\ Goto(h, "findDocuments")
  /\ UNCHANGED <<kyc, profile, cached, managed, override, executed, queues,
                 disturbed, calls, faults>>

(* Fault: one approved document is enough.                                 *)
StatusOfAny ==
  LET statuses == {papers[d] : d \in Docs} \ {"NONE"}
  IN CASE "APPROVED" \in statuses -> "APPROVED"
       [] "REJECTED" \in statuses -> "REJECTED"
       [] OTHER -> "PENDING"

StatusOfDocuments ==
  LET statuses == {papers[d] : d \in Docs} \ {"NONE"}
  IN CASE statuses = {"APPROVED"} -> "APPROVED"
       [] "REJECTED" \in statuses -> "REJECTED"
       [] OTHER -> "PENDING"

FindDocuments(h) ==
  /\ At(h, "papers", "findDocuments")
  /\ work' = [work EXCEPT ![h] =
       [on |-> "papers", step |-> "saveKyc", status |-> StatusOfDocuments]]
  /\ UNCHANGED <<reviews, profile, cached, managed, override, executed, queues,
                 disturbed, calls, faults>>

SaveKyc(h) ==
  /\ At(h, "papers", "saveKyc")
  /\ kyc' = work[h].status
  /\ Goto(h, "publish")
  /\ UNCHANGED <<papers, profile, cached, managed, override, executed, queues,
                 disturbed, calls, faults>>

PublishKyc(h) ==
  /\ At(h, "papers", "publish")
  /\ toAdmin' = Append(toAdmin, work[h].status)
  /\ Finish(h)
  /\ UNCHANGED <<reviews, profile, cached, managed, override, executed, toUser,
                 disturbed, calls, faults>>

(* Any request that saves the user's row whole, such as updateUserStatus.  *)
UpdateUser(h) ==
  /\ Call
  /\ Begin(h, [on |-> "papers", step |-> "saveUser", status |-> kyc])
  /\ UNCHANGED <<reviews, profile, cached, managed, override, executed, queues, faults>>

SaveUser(h) ==
  /\ At(h, "papers", "saveUser")
  /\ kyc' = work[h].status
  /\ Finish(h)
  /\ UNCHANGED <<papers, profile, cached, managed, override, executed, queues,
                 disturbed, calls, faults>>

-----------------------------------------------------------------------------
(* The profile: updateProfile, getProfile, handleAdminUserUpdated.         *)

UpdateProfile(h, f) ==
  /\ Call
  /\ Begin(h, [on |-> "profile", step |-> "saveProfile",
               row |-> [profile EXCEPT ![f] = "user"]])
  /\ UNCHANGED <<reviews, profile, cached, managed, override, executed, queues, faults>>

(* Fault: the cached profile is left to expire.                            *)
SaveProfileOnly(h) ==
  /\ At(h, "profile", "saveProfile")
  /\ profile' = work[h].row
  /\ Goto(h, "lookUp")
  /\ UNCHANGED <<reviews, cached, managed, override, executed, queues, disturbed,
                 calls, faults>>

SaveProfile(h) ==
  /\ At(h, "profile", "saveProfile")
  /\ profile' = work[h].row
  /\ Goto(h, "invalidate")
  /\ UNCHANGED <<reviews, cached, managed, override, executed, queues, disturbed,
                 calls, faults>>

InvalidateProfile(h) ==
  /\ At(h, "profile", "invalidate")
  /\ cached' = None
  /\ Goto(h, "lookUp")
  /\ UNCHANGED <<reviews, profile, managed, override, executed, queues, disturbed,
                 calls, faults>>

GetProfile(h) ==
  /\ Call
  /\ Begin(h, [on |-> "profile", step |-> "lookUp"])
  /\ UNCHANGED <<reviews, profile, cached, managed, override, executed, queues, faults>>

(* A hit is returned.  After a miss the user's row is read, then the       *)
(* profile.                                                                *)
LookUp(h) ==
  /\ At(h, "profile", "lookUp")
  /\ IF cached # None THEN Finish(h)
     ELSE work' = [work EXCEPT ![h] =
                     [on |-> "profile", step |-> "findProfile", kyc |-> kyc]]
  /\ UNCHANGED <<reviews, profile, cached, managed, override, executed, queues,
                 disturbed, calls, faults>>

FindProfile(h) ==
  /\ At(h, "profile", "findProfile")
  /\ work' = [work EXCEPT ![h] = [on |-> "profile", step |-> "cache",
                row |-> [kyc |-> work[h].kyc, profile |-> profile]]]
  /\ UNCHANGED <<reviews, profile, cached, managed, override, executed, queues,
                 disturbed, calls, faults>>

CacheProfile(h) ==
  /\ At(h, "profile", "cache")
  /\ cached' = work[h].row
  /\ Finish(h)
  /\ UNCHANGED <<reviews, profile, managed, override, executed, queues, disturbed,
                 calls, faults>>

CacheExpires ==
  /\ cached # None /\ cached' = None
  /\ UNCHANGED <<reviews, profile, managed, override, executed, queues, work,
                 disturbed, calls, faults>>

(* Both fields of the event are copied, and the cached profile stays.      *)
HandleAdminUserUpdated(h) ==
  /\ toUser # <<>> /\ toUser' = Tail(toUser)
  /\ IF Head(toUser) = profile
     THEN work[h] = Idle /\ UNCHANGED <<work, disturbed>>
     ELSE Begin(h, [on |-> "profile", step |-> "sync", row |-> Head(toUser)])
  /\ UNCHANGED <<reviews, profile, cached, managed, override, executed, toAdmin,
                 calls, faults>>

SyncProfile(h) ==
  /\ At(h, "profile", "sync")
  /\ profile' = work[h].row
  /\ Finish(h)
  /\ UNCHANGED <<reviews, cached, managed, override, executed, queues, disturbed,
                 calls, faults>>

-----------------------------------------------------------------------------
(* Admin_Service: user.created, user.kyc.status_updated, updateUser.       *)

HandleUserCreated ==
  /\ managed = None
  /\ managed' = [kyc |-> "PENDING", profile |-> Untouched]
  /\ UNCHANGED <<reviews, profile, cached, override, executed, queues, work,
                 disturbed, calls, faults>>

AdminWord == [PENDING |-> "PENDING", APPROVED |-> "VERIFIED", REJECTED |-> "REJECTED"]

(* Of a user it does not know the service only logs the event.             *)
HandleKycStatusUpdated(h) ==
  /\ toAdmin # <<>> /\ toAdmin' = Tail(toAdmin)
  /\ IF managed = None
     THEN /\ work[h] = Idle /\ UNCHANGED work
          /\ disturbed' = disturbed \cup {"lost"}
     ELSE Begin(h, [on |-> "managed", step |-> "saveManaged", by |-> "event",
                    row |-> [managed EXCEPT !.kyc = AdminWord[Head(toAdmin)]]])
  /\ UNCHANGED <<reviews, profile, cached, managed, override, executed, toUser,
                 calls, faults>>

(* The admin changes one field, or the KYC status.                         *)
Changes == {[managed EXCEPT !.profile[f] = "admin"] : f \in Fields}
Rulings == {[managed EXCEPT !.kyc = status] : status \in ManagedKyc}

UpdateManaged(h) ==
  /\ managed # None
  /\ Call
  /\ \E row \in Changes \cup Rulings :
       Begin(h, [on |-> "managed", step |-> "saveManaged", by |-> "admin", row |-> row])
  /\ UNCHANGED <<reviews, profile, cached, managed, override, executed, queues, faults>>

(* Fault: what is saved is the row as it is now.                           *)
SaveManagedNothing(h) ==
  /\ At(h, "managed", "saveManaged")
  /\ IF work[h].by = "admin" THEN Goto(h, "publish") ELSE Finish(h)
  /\ UNCHANGED <<reviews, profile, cached, managed, override, executed, queues,
                 disturbed, calls, faults>>

SaveManaged(h) ==
  /\ At(h, "managed", "saveManaged")
  /\ managed' = work[h].row
  /\ IF work[h].by = "admin" THEN Goto(h, "publish") ELSE Finish(h)
  /\ disturbed' = disturbed \cup
       IF work[h].by = "admin" /\ work[h].row.kyc # managed.kyc THEN {"byHand"} ELSE {}
  /\ UNCHANGED <<reviews, profile, cached, override, executed, queues, calls, faults>>

(* fullName and phone are sent, whatever was changed; the KYC status is    *)
(* not, and publishAdminKycUpdated has no caller.                          *)
PublishUpdate(h) ==
  /\ At(h, "managed", "publish")
  /\ toUser' = Append(toUser, work[h].row.profile)
  /\ Finish(h)
  /\ UNCHANGED <<reviews, profile, cached, managed, override, executed, toAdmin,
                 disturbed, calls, faults>>

(* Both services swallow what a publisher throws.                          *)
PublishFails(h) ==
  /\ work[h] # Idle /\ work[h].step = "publish"
  /\ faults < MaxFaults /\ faults' = faults + 1
  /\ disturbed' = disturbed \cup {"lost"}
  /\ Finish(h)
  /\ UNCHANGED <<reviews, profile, cached, managed, override, executed, queues, calls>>

-----------------------------------------------------------------------------
(* OverrideRequestService.                                                 *)

CreateOverride(r, a) ==
  /\ override[r] = None
  /\ Call
  /\ override' = [override EXCEPT ![r] = [status |-> "PENDING", requester |-> a]]
  /\ UNCHANGED <<reviews, profile, cached, managed, executed, queues, work,
                 disturbed, faults>>

Decide(h, r, verdict) ==
  Begin(h, [on |-> r, step |-> "saveDecision", verdict |-> verdict])

Undecided(r) == override[r] # None /\ override[r].status = "PENDING"

(* Fault: a request that was decided can be rejected all the same.         *)
RejectAny(h, r) ==
  /\ override[r] # None
  /\ Call
  /\ Decide(h, r, "REJECTED")
  /\ UNCHANGED <<reviews, profile, cached, managed, override, executed, queues, faults>>

Reject(h, r) ==
  /\ Undecided(r)
  /\ Call
  /\ Decide(h, r, "REJECTED")
  /\ UNCHANGED <<reviews, profile, cached, managed, override, executed, queues, faults>>

Approve(h, r, a) ==
  /\ Undecided(r) /\ override[r].requester # a
  /\ Call
  /\ Decide(h, r, "APPROVED")
  /\ UNCHANGED <<reviews, profile, cached, managed, override, executed, queues, faults>>

SetStatus(r, status) == override' = [override EXCEPT ![r].status = status]

SaveDecision(h) ==
  LET r == work[h].on
  IN /\ r \in Overrides /\ At(h, r, "saveDecision")
     /\ SetStatus(r, work[h].verdict)
     /\ IF work[h].verdict = "APPROVED" THEN Goto(h, "execute") ELSE Finish(h)
     /\ UNCHANGED <<reviews, profile, cached, managed, executed, queues, disturbed,
                    calls, faults>>

ExecuteOverride(h) ==
  LET r == work[h].on
  IN /\ r \in Overrides /\ At(h, r, "execute")
     /\ SetStatus(r, "COMPLETED")
     /\ executed' = executed \cup {r}
     /\ Finish(h)
     /\ UNCHANGED <<reviews, profile, cached, managed, queues, disturbed, calls, faults>>

(* Saving COMPLETED throws and the row is saved as FAILED.  Nothing else   *)
(* in the try block can: AuditLogService.log catches whatever its save     *)
(* throws (audit-log.service.ts:26-47), so a missing audit row does not    *)
(* turn an executed override into a failed one.                            *)
ExecuteFails(h) ==
  LET r == work[h].on
  IN /\ r \in Overrides /\ At(h, r, "execute")
     /\ faults < MaxFaults /\ faults' = faults + 1
     /\ SetStatus(r, "FAILED")
     /\ Finish(h)
     /\ UNCHANGED <<reviews, profile, cached, managed, executed, queues, disturbed, calls>>

-----------------------------------------------------------------------------
(* A database call fails: a request throws, a consumer logs the error and  *)
(* the delivery is over.                                                   *)
Abort(h) ==
  /\ work[h] # Idle
  /\ faults < MaxFaults /\ faults' = faults + 1
  /\ disturbed' = disturbed \cup {work[h].on}
  /\ Finish(h)
  /\ UNCHANGED <<reviews, profile, cached, managed, override, executed, queues, calls>>

Kyc(h) ==
  \/ \E d \in Docs : \/ DeleteDocument(h, d)
                     \/ \E verdict \in Verdicts : VerifyDocument(h, d, verdict)
  \/ RemoveDocument(h) \/ SaveDocument(h) \/ FindDocuments(h) \/ SaveKyc(h)
  \/ PublishKyc(h) \/ UpdateUser(h) \/ SaveUser(h)

Profiles(h) ==
  \/ \E f \in Fields : UpdateProfile(h, f)
  \/ SaveProfile(h) \/ InvalidateProfile(h) \/ GetProfile(h) \/ LookUp(h)
  \/ FindProfile(h) \/ CacheProfile(h) \/ HandleAdminUserUpdated(h) \/ SyncProfile(h)

ManagedUsers(h) ==
  \/ HandleKycStatusUpdated(h) \/ UpdateManaged(h) \/ SaveManaged(h) \/ PublishUpdate(h)

Requests(h) ==
  \/ \E r \in Overrides : Reject(h, r) \/ \E a \in Admins : Approve(h, r, a)
  \/ SaveDecision(h) \/ ExecuteOverride(h) \/ ExecuteFails(h)

Next ==
  \/ \E d \in Docs : UploadDocument(d)
  \/ \E r \in Overrides, a \in Admins : CreateOverride(r, a)
  \/ CacheExpires \/ HandleUserCreated
  \/ \E h \in Handlers :
       Kyc(h) \/ Profiles(h) \/ ManagedUsers(h) \/ Requests(h) \/ PublishFails(h) \/ Abort(h)

Spec == Init /\ [][Next]_vars

-----------------------------------------------------------------------------
(* Properties.                                                             *)

Calm(topics) == topics \cap disturbed = {} /\ \A t \in topics : ~Busy(t)

(* Whatever was uploaded, verified again and deleted, and in which order,  *)
(* a user whose KYC is APPROVED has an approved document and none that was *)
(* rejected, unless verifications, deletions and saves of the user's row   *)
(* overlapped or were cut short.                                           *)
ApprovedHasEvidence ==
  Calm({"papers"}) /\ kyc = "APPROVED" =>
    /\ \E d \in Docs : papers[d] = "APPROVED"
    /\ \A d \in Docs : papers[d] # "REJECTED"

(* Once its events are handled, Admin_Service shows the KYC status         *)
(* User_Service goes by, unless an event was lost, found no user, or       *)
(* overlapped another save of the row, or an admin set the status by hand. *)
AdminKnowsKyc ==
  Calm({"papers", "managed", "lost", "byHand"}) /\ toAdmin = <<>> /\ managed # None =>
    managed.kyc = AdminWord[kyc]

(* An override is COMPLETED if and only if it was executed: what was       *)
(* rejected or FAILED never was, and what was executed is not shown as     *)
(* rejected or FAILED later, unless two admins decided at the same time or *)
(* a handler was cut short.                                                *)
DecisionStands ==
  \A r \in Overrides : Calm({r}) /\ override[r] # None =>
    (r \in executed <=> override[r].status = "COMPLETED")

(* What the user wrote and nobody has overwritten is what the cached       *)
(* profile shows, unless a reader and a writer overlapped.                 *)
OwnEditsAreSeen ==
  Calm({"profile"}) /\ cached # None =>
    \A f \in Fields : profile[f] = "user" => cached.profile[f] = "user"

=============================================================================
