---------------------------- MODULE ReviewsProofs ----------------------------
(***************************************************************************)
(* Theorems about KYC statuses, override requests and cached profiles, for *)
(* every set of documents, overrides, admins and handlers, and any number  *)
(* of requests and faults.                                                 *)
(***************************************************************************)
EXTENDS Reviews, SequenceTheorems, TLAPS

(* What Admin_Service keeps of a profile is never what the user wrote: the *)
(* user's edits are not sent to it.                                        *)
Theirs == [Fields -> {"signup", "admin"}]
ManagedRow == [kyc : ManagedKyc, profile : Theirs]

RemoveJob == [on : {"papers"}, step : {"remove"}, doc : Docs]
VerdictJob == [on : {"papers"}, step : {"saveDocument", "findDocuments"},
               doc : Docs, verdict : Verdicts]
KycJob == [on : {"papers"}, step : {"saveKyc", "publish", "saveUser"}, status : KycStatus]
EditJob == [on : {"profile"}, step : {"saveProfile", "invalidate", "lookUp"}, row : Profile]
ReadJob == [on : {"profile"}, step : {"lookUp"}]
FindJob == [on : {"profile"}, step : {"findProfile"}, kyc : KycStatus]
CacheJob == [on : {"profile"}, step : {"cache"}, row : Cached]
SyncJob == [on : {"profile"}, step : {"sync"}, row : Theirs]
ManagedJob == [on : {"managed"}, step : {"saveManaged", "publish"},
               by : {"event", "admin"}, row : ManagedRow]
Status == {"PENDING", "COMPLETED", "FAILED"} \cup Verdicts
DecisionJob == [on : Overrides, step : {"saveDecision", "execute"}, verdict : Verdicts]

PapersJob == RemoveJob \cup VerdictJob \cup KycJob
ProfileJob == EditJob \cup ReadJob \cup FindJob \cup CacheJob \cup SyncJob
Jobs == {Idle} \cup PapersJob \cup ProfileJob \cup ManagedJob \cup DecisionJob

WorkType == work \in [Handlers -> Jobs]
RowType ==
  /\ papers \in [Docs -> KycStatus \cup {"NONE"}] /\ kyc \in KycStatus
  /\ profile \in Profile /\ cached \in Cached \cup {None}
  /\ managed \in ManagedRow \cup {None}
  /\ toAdmin \in Seq(KycStatus) /\ toUser \in Seq(Theirs)
  /\ override = [r \in Overrides |-> override[r]]
  /\ \A r \in Overrides : override[r] \in Override \cup {None}
  /\ executed \subseteq Overrides

(* What is being decided has been asked for.                               *)
Filed == \A h \in Handlers : work[h].on \in Overrides => override[work[h].on] \in Override

ReviewType == WorkType /\ RowType /\ Filed

(* One handler goes on with, begins or ends what it does about topic t.    *)
Moves(h, t) ==
  /\ work' \in [Handlers -> Jobs]
  /\ \A g \in Handlers : g # h => work'[g] = work[g]
  /\ work[h].on \in {t, "nothing"} /\ work'[h].on \in {t, "nothing"}
  /\ disturbed \subseteq disturbed'

(* It moves override r and no other.                                       *)
Acts(h, r) ==
  /\ Moves(h, r)
  /\ \A s \in Overrides \ {r} :
       override'[s] = override[s] /\ (s \in executed' <=> s \in executed)

LEMMA Topical ==
  ASSUME NEW j \in Jobs
  PROVE  /\ j.on = "papers" <=> j \in PapersJob
         /\ j.on = "profile" <=> j \in ProfileJob
         /\ j.on = "managed" <=> j \in ManagedJob
         /\ j.on \in Overrides <=> j \in DecisionJob
         /\ j.on = "nothing" <=> j = Idle
         /\ j.on \in Topics \cup {"nothing"}
<1> USE ReviewsAssumption DEF Idle, Topics
<1>1. CASE j = Idle
  BY <1>1 DEF PapersJob, ProfileJob, RemoveJob, VerdictJob, KycJob, EditJob, ReadJob, FindJob,
              CacheJob, SyncJob, ManagedJob, DecisionJob
<1>2. CASE j \in PapersJob
  BY <1>2 DEF PapersJob, ProfileJob, RemoveJob, VerdictJob, KycJob, EditJob, ReadJob, FindJob,
              CacheJob, SyncJob, ManagedJob, DecisionJob
<1>3. CASE j \in ProfileJob
  BY <1>3 DEF PapersJob, ProfileJob, RemoveJob, VerdictJob, KycJob, EditJob, ReadJob, FindJob,
              CacheJob, SyncJob, ManagedJob, DecisionJob
<1>4. CASE j \in ManagedJob
  BY <1>4 DEF PapersJob, ProfileJob, RemoveJob, VerdictJob, KycJob, EditJob, ReadJob, FindJob,
              CacheJob, SyncJob, ManagedJob, DecisionJob
<1>5. CASE j \in DecisionJob
  BY <1>5 DEF PapersJob, ProfileJob, RemoveJob, VerdictJob, KycJob, EditJob, ReadJob, FindJob,
              CacheJob, SyncJob, ManagedJob, DecisionJob
<1> QED
  BY <1>1, <1>2, <1>3, <1>4, <1>5 DEF Jobs

LEMMA Replaced ==
  ASSUME WorkType, NEW h \in Handlers, NEW j \in Jobs, NEW t,
         work' = [work EXCEPT ![h] = j],
         work[h].on \in {t, "nothing"}, j.on \in {t, "nothing"},
         disturbed \subseteq disturbed'
  PROVE  Moves(h, t) /\ work'[h] = j
BY DEF Moves, WorkType

LEMMA BeginMoves ==
  ASSUME WorkType, NEW h \in Handlers, NEW j \in Jobs, Begin(h, j)
  PROVE  Moves(h, j.on) /\ work'[h] = j /\ work[h] = Idle
<1>1. work[h] = Idle /\ work' = [work EXCEPT ![h] = j] /\ disturbed \subseteq disturbed'
  BY DEF Begin
<1>2. work[h].on = "nothing"
  BY <1>1 DEF Idle
<1> QED
  BY <1>1, <1>2, Replaced

LEMMA FinishMoves ==
  ASSUME WorkType, NEW h \in Handlers, NEW t, work[h].on \in {t, "nothing"}, Finish(h),
         disturbed \subseteq disturbed'
  PROVE  Moves(h, t) /\ work'[h] = Idle
BY Replaced DEF Finish, Idle, Jobs

LEMMA GotoMoves ==
  ASSUME WorkType, NEW h \in Handlers, NEW j \in Jobs, NEW s, Goto(h, s),
         j = [work[h] EXCEPT !.step = s], j.on = work[h].on,
         disturbed \subseteq disturbed'
  PROVE  Moves(h, j.on) /\ work'[h] = j
<1>1. work' = [work EXCEPT ![h] = j]
  BY DEF Goto, WorkType
<1> QED
  BY <1>1, Replaced

----------------------------------------------------------------------------
(* Types.                                                                  *)

LEMMA KycStep ==
  ASSUME ReviewType, NEW h \in Handlers, Kyc(h)
  PROVE  /\ Moves(h, "papers") /\ RowType'
         /\ UNCHANGED <<profile, cached, managed, override, executed, toUser>>
<1>t. WorkType /\ work[h] \in Jobs
  BY DEF ReviewType, WorkType
<1> USE DEF reviews, queues
<1>1. ASSUME NEW d \in Docs, DeleteDocument(h, d)
      PROVE  Moves(h, "papers") /\ RowType'
  <2> DEFINE j == [on |-> "papers", step |-> "remove", doc |-> d]
  <2>1. j \in Jobs /\ j.on = "papers"
    BY DEF Jobs, PapersJob, RemoveJob
  <2>5. Moves(h, "papers")
    BY <1>1, <1>t, <2>1, BeginMoves DEF DeleteDocument
  <2>6. RowType'
    BY <1>1, <1>t, <2>1 DEF DeleteDocument, ReviewType, RowType
  <2> QED
    BY <2>5, <2>6
<1>2. ASSUME NEW d \in Docs, NEW verdict \in Verdicts, VerifyDocument(h, d, verdict)
      PROVE  Moves(h, "papers") /\ RowType'
  <2> DEFINE j == [on |-> "papers", step |-> "saveDocument", doc |-> d, verdict |-> verdict]
  <2>1. j \in Jobs /\ j.on = "papers"
    BY DEF Jobs, PapersJob, VerdictJob
  <2>5. Moves(h, "papers")
    BY <1>2, <1>t, <2>1, BeginMoves DEF VerifyDocument
  <2>6. RowType'
    BY <1>2, <1>t, <2>1 DEF VerifyDocument, ReviewType, RowType
  <2> QED
    BY <2>5, <2>6
<1>3. ASSUME RemoveDocument(h) PROVE Moves(h, "papers") /\ RowType'
  <2>1. work[h].doc \in Docs
    BY <1>3, <1>t, Topical DEF RemoveDocument, At, PapersJob, RemoveJob, VerdictJob, KycJob
  <2>5. Moves(h, "papers")
    BY <1>3, <1>t, <2>1, FinishMoves DEF RemoveDocument, At
  <2>6. RowType'
    BY <1>3, <1>t, <2>1 DEF RemoveDocument, At, ReviewType, RowType
  <2> QED
    BY <2>5, <2>6
<1>4. ASSUME SaveDocument(h) PROVE Moves(h, "papers") /\ RowType'
  <2>1. work[h] \in VerdictJob
    BY <1>4, <1>t, Topical DEF SaveDocument, At, PapersJob, RemoveJob, VerdictJob, KycJob
  <2> DEFINE j == [work[h] EXCEPT !.step = "findDocuments"]
  <2>2. j \in Jobs /\ j.on = "papers" /\ work[h].on = "papers"
    BY <2>1 DEF Jobs, PapersJob, VerdictJob
  <2>3. work[h].verdict \in KycStatus
    BY <2>1 DEF VerdictJob, KycStatus
  <2>5. Moves(h, "papers")
    BY <1>4, <1>t, <2>2, <2>3, GotoMoves DEF SaveDocument
  <2>6. RowType'
    BY <1>4, <1>t, <2>2, <2>3 DEF SaveDocument, ReviewType, RowType
  <2> QED
    BY <2>5, <2>6
<1>5. ASSUME FindDocuments(h) PROVE Moves(h, "papers") /\ RowType'
  <2> DEFINE j == [on |-> "papers", step |-> "saveKyc", status |-> StatusOfDocuments]
  <2>1. StatusOfDocuments \in KycStatus
    BY DEF StatusOfDocuments, KycStatus, Verdicts
  <2>2. j \in Jobs /\ j.on = "papers"
    BY <2>1 DEF Jobs, PapersJob, KycJob
  <2>5. Moves(h, "papers")
    BY <1>5, <1>t, <2>2, Replaced DEF FindDocuments, At
  <2>6. RowType'
    BY <1>5, <1>t, <2>2 DEF FindDocuments, At, ReviewType, RowType
  <2> QED
    BY <2>5, <2>6
<1>6. ASSUME SaveKyc(h) PROVE Moves(h, "papers") /\ RowType'
  <2>1. work[h] \in KycJob
    BY <1>6, <1>t, Topical DEF SaveKyc, At, PapersJob, RemoveJob, VerdictJob, KycJob
  <2> DEFINE j == [work[h] EXCEPT !.step = "publish"]
  <2>2. j \in Jobs /\ j.on = "papers" /\ work[h].on = "papers" /\ work[h].status \in KycStatus
    BY <2>1 DEF Jobs, PapersJob, KycJob
  <2>5. Moves(h, "papers")
    BY <1>6, <1>t, <2>2, GotoMoves DEF SaveKyc
  <2>6. RowType'
    BY <1>6, <1>t, <2>2 DEF SaveKyc, ReviewType, RowType
  <2> QED
    BY <2>5, <2>6
<1>7. ASSUME PublishKyc(h) PROVE Moves(h, "papers") /\ RowType'
  <2>1. work[h] \in KycJob
    BY <1>7, <1>t, Topical DEF PublishKyc, At, PapersJob, RemoveJob, VerdictJob, KycJob
  <2>2. work[h].status \in KycStatus
    BY <2>1 DEF KycJob
  <2>3. toAdmin' \in Seq(KycStatus)
    BY <1>7, <2>2 DEF PublishKyc, ReviewType, RowType
  <2>5. Moves(h, "papers")
    BY <1>7, <1>t, <2>3, FinishMoves DEF PublishKyc, At
  <2>6. RowType'
    BY <1>7, <2>3 DEF PublishKyc, ReviewType, RowType
  <2> QED
    BY <2>5, <2>6
<1>8. ASSUME UpdateUser(h) PROVE Moves(h, "papers") /\ RowType'
  <2> DEFINE j == [on |-> "papers", step |-> "saveUser", status |-> kyc]
  <2>1. j \in Jobs /\ j.on = "papers" /\ Begin(h, j)
    BY <1>8 DEF UpdateUser, Jobs, PapersJob, KycJob, ReviewType, RowType
  <2> HIDE DEF j
  <2>5. Moves(h, "papers")
    BY <1>t, <2>1, BeginMoves
  <2>6. RowType'
    BY <1>8 DEF UpdateUser, ReviewType, RowType
  <2> QED
    BY <2>5, <2>6
<1>9. ASSUME SaveUser(h) PROVE Moves(h, "papers") /\ RowType'
  <2>1. work[h] \in KycJob
    BY <1>9, <1>t, Topical DEF SaveUser, At, PapersJob, RemoveJob, VerdictJob, KycJob
  <2>2. work[h].status \in KycStatus
    BY <2>1 DEF KycJob
  <2>5. Moves(h, "papers")
    BY <1>9, <1>t, <2>2, FinishMoves DEF SaveUser, At
  <2>6. RowType'
    BY <1>9, <1>t, <2>2 DEF SaveUser, At, ReviewType, RowType
  <2> QED
    BY <2>5, <2>6
<1>10. UNCHANGED <<profile, cached, managed, override, executed, toUser>>
  BY DEF Kyc, DeleteDocument, VerifyDocument, RemoveDocument, SaveDocument, FindDocuments,
         SaveKyc, PublishKyc, UpdateUser, SaveUser
<1> QED
  BY <1>1, <1>2, <1>3, <1>4, <1>5, <1>6, <1>7, <1>8, <1>9, <1>10 DEF Kyc

LEMMA ProfilesStep ==
  ASSUME ReviewType, NEW h \in Handlers, Profiles(h)
  PROVE  /\ Moves(h, "profile") /\ RowType'
         /\ UNCHANGED <<reviews, managed, override, executed, toAdmin>>
<1>t. WorkType /\ RowType /\ work[h] \in Jobs
  BY DEF ReviewType, WorkType
<1> USE DEF reviews, queues
<1>1. ASSUME NEW f \in Fields, UpdateProfile(h, f)
      PROVE  Moves(h, "profile") /\ RowType'
  <2> DEFINE j == [on |-> "profile", step |-> "saveProfile", row |-> [profile EXCEPT ![f] = "user"]]
  <2>1. j \in Jobs /\ j.on = "profile" /\ Begin(h, j)
    BY <1>1, <1>t DEF UpdateProfile, Jobs, ProfileJob, EditJob, Profile, RowType
  <2> HIDE DEF j
  <2>2. Moves(h, "profile")
    BY <1>t, <2>1, BeginMoves
  <2>3. RowType'
    BY <1>1, <1>t DEF UpdateProfile, RowType
  <2> QED
    BY <2>2, <2>3
<1>2. ASSUME SaveProfile(h) PROVE Moves(h, "profile") /\ RowType'
  <2>1. work[h] \in EditJob
    BY <1>2, <1>t, Topical DEF SaveProfile, At, ProfileJob, EditJob, ReadJob, FindJob, CacheJob, SyncJob
  <2> DEFINE j == [work[h] EXCEPT !.step = "invalidate"]
  <2>2. j \in Jobs /\ j.on = "profile" /\ work[h].on = "profile"
    BY <2>1 DEF Jobs, ProfileJob, EditJob
  <2>3. Moves(h, "profile")
    BY <1>2, <1>t, <2>2, GotoMoves DEF SaveProfile
  <2>4. RowType'
    BY <1>2, <1>t, <2>1 DEF SaveProfile, RowType, EditJob
  <2> QED
    BY <2>3, <2>4
<1>3. ASSUME InvalidateProfile(h) PROVE Moves(h, "profile") /\ RowType'
  <2>1. work[h] \in EditJob
    BY <1>3, <1>t, Topical DEF InvalidateProfile, At, ProfileJob, EditJob, ReadJob, FindJob, CacheJob, SyncJob
  <2> DEFINE j == [work[h] EXCEPT !.step = "lookUp"]
  <2>2. j \in Jobs /\ j.on = "profile" /\ work[h].on = "profile"
    BY <2>1 DEF Jobs, ProfileJob, EditJob
  <2>3. Moves(h, "profile")
    BY <1>3, <1>t, <2>2, GotoMoves DEF InvalidateProfile
  <2>4. RowType'
    BY <1>3, <1>t, <2>1 DEF InvalidateProfile, RowType, EditJob
  <2> QED
    BY <2>3, <2>4
<1>4. ASSUME GetProfile(h)
      PROVE  Moves(h, "profile") /\ RowType'
  <2> DEFINE j == [on |-> "profile", step |-> "lookUp"]
  <2>1. j \in Jobs /\ j.on = "profile" /\ Begin(h, j)
    BY <1>4, <1>t DEF GetProfile, Jobs, ProfileJob, ReadJob
  <2> HIDE DEF j
  <2>2. Moves(h, "profile")
    BY <1>t, <2>1, BeginMoves
  <2>3. RowType'
    BY <1>4, <1>t DEF GetProfile, RowType
  <2> QED
    BY <2>2, <2>3
<1>5. ASSUME LookUp(h) PROVE Moves(h, "profile") /\ RowType'
  <2> DEFINE j == [on |-> "profile", step |-> "findProfile", kyc |-> kyc]
  <2>1. j \in Jobs /\ j.on = "profile"
    BY <1>t DEF Jobs, ProfileJob, FindJob, RowType
  <2> HIDE DEF j
  <2>2. CASE cached # None
    BY <1>5, <1>t, <2>2, FinishMoves DEF LookUp, At, RowType
  <2>3. CASE cached = None
    <3>1. work' = [work EXCEPT ![h] = j]
      BY <1>5, <2>3 DEF LookUp, j
    <3> QED
      BY <1>5, <1>t, <2>1, <3>1, Replaced DEF LookUp, At, RowType
  <2> QED
    BY <2>2, <2>3
<1>6. ASSUME FindProfile(h) PROVE Moves(h, "profile") /\ RowType'
  <2> DEFINE j == [on |-> "profile", step |-> "cache",
                   row |-> [kyc |-> work[h].kyc, profile |-> profile]]
  <2>1. work[h] \in FindJob
    BY <1>6, <1>t, Topical DEF FindProfile, At, ProfileJob, EditJob, ReadJob, FindJob, CacheJob, SyncJob
  <2>2. j \in Jobs /\ j.on = "profile" /\ work' = [work EXCEPT ![h] = j]
    BY <1>6, <1>t, <2>1 DEF FindProfile, Jobs, ProfileJob, FindJob, CacheJob, Cached, RowType
  <2> HIDE DEF j
  <2> QED
    BY <1>6, <1>t, <2>2, Replaced DEF FindProfile, At, RowType
<1>7. ASSUME CacheProfile(h) PROVE Moves(h, "profile") /\ RowType'
  <2>1. work[h].row \in Cached
    BY <1>7, <1>t, Topical DEF CacheProfile, At, ProfileJob, EditJob, ReadJob, FindJob, CacheJob, SyncJob
  <2> QED
    BY <1>7, <1>t, <2>1, FinishMoves DEF CacheProfile, At, RowType
<1>8. ASSUME HandleAdminUserUpdated(h) PROVE Moves(h, "profile") /\ RowType'
  <2>1. Head(toUser) \in Theirs /\ Tail(toUser) \in Seq(Theirs)
    BY <1>8, <1>t DEF HandleAdminUserUpdated, RowType
  <2>2. RowType'
    BY <1>8, <1>t, <2>1 DEF HandleAdminUserUpdated, RowType
  <2> DEFINE j == [on |-> "profile", step |-> "sync", row |-> Head(toUser)]
  <2>3. j \in Jobs /\ j.on = "profile"
    BY <2>1 DEF Jobs, ProfileJob, SyncJob
  <2> HIDE DEF j
  <2>4. CASE Head(toUser) = profile
    BY <1>8, <1>t, <2>2, <2>4 DEF HandleAdminUserUpdated, Moves, WorkType, Idle
  <2>5. CASE Head(toUser) # profile
    <3>1. Begin(h, j)
      BY <1>8, <2>5 DEF HandleAdminUserUpdated, j
    <3> QED
      BY <1>t, <2>2, <2>3, <3>1, BeginMoves
  <2> QED
    BY <2>4, <2>5
<1>9. ASSUME SyncProfile(h) PROVE Moves(h, "profile") /\ RowType'
  <2>1. work[h].row \in Theirs
    BY <1>9, <1>t, Topical DEF SyncProfile, At, ProfileJob, EditJob, ReadJob, FindJob, CacheJob, SyncJob
  <2>2. work[h].row \in Profile
    BY <2>1 DEF Theirs, Profile
  <2> QED
    BY <1>9, <1>t, <2>2, FinishMoves DEF SyncProfile, At, RowType
<1>10. UNCHANGED <<reviews, managed, override, executed, toAdmin>>
  BY DEF Profiles, UpdateProfile, SaveProfile, InvalidateProfile, GetProfile, LookUp,
         FindProfile, CacheProfile, HandleAdminUserUpdated, SyncProfile
<1> QED
  BY <1>1, <1>2, <1>3, <1>4, <1>5, <1>6, <1>7, <1>8, <1>9, <1>10 DEF Profiles

LEMMA ManagedStep ==
  ASSUME ReviewType, NEW h \in Handlers, ManagedUsers(h)
  PROVE  /\ Moves(h, "managed") /\ RowType'
         /\ UNCHANGED <<reviews, profile, cached, override, executed>>
<1>t. WorkType /\ RowType /\ work[h] \in Jobs
  BY DEF ReviewType, WorkType
<1> USE DEF reviews, queues
<1>1. ASSUME HandleKycStatusUpdated(h) PROVE Moves(h, "managed") /\ RowType'
  <2>1. Head(toAdmin) \in KycStatus /\ Tail(toAdmin) \in Seq(KycStatus)
    BY <1>1, <1>t DEF HandleKycStatusUpdated, RowType
  <2>2. RowType'
    BY <1>1, <1>t, <2>1 DEF HandleKycStatusUpdated, RowType
  <2>3. CASE managed = None
    BY <1>1, <1>t, <2>2, <2>3 DEF HandleKycStatusUpdated, Moves, WorkType, Idle
  <2>4. CASE managed # None
    <3> DEFINE row == [managed EXCEPT !.kyc = AdminWord[Head(toAdmin)]]
    <3> DEFINE j == [on |-> "managed", step |-> "saveManaged", by |-> "event", row |-> row]
    <3>1. row \in ManagedRow
      BY <1>t, <2>1, <2>4 DEF RowType, ManagedRow, KycStatus, Verdicts, AdminWord, ManagedKyc
    <3>2. j \in Jobs /\ j.on = "managed" /\ Begin(h, j)
      BY <1>1, <2>4, <3>1 DEF HandleKycStatusUpdated, Jobs, ManagedJob
    <3> HIDE DEF j
    <3> QED
      BY <1>t, <2>2, <3>2, BeginMoves
  <2> QED
    BY <2>3, <2>4
<1>2. ASSUME UpdateManaged(h) PROVE Moves(h, "managed") /\ RowType'
  <2>1. PICK row \in Changes \cup Rulings :
          Begin(h, [on |-> "managed", step |-> "saveManaged", by |-> "admin", row |-> row])
    BY <1>2 DEF UpdateManaged
  <2>2. row \in ManagedRow
    BY <1>2, <1>t DEF UpdateManaged, Changes, Rulings, RowType, ManagedRow, Theirs
  <2> DEFINE j == [on |-> "managed", step |-> "saveManaged", by |-> "admin", row |-> row]
  <2>3. j \in Jobs /\ j.on = "managed" /\ Begin(h, j)
    BY <2>1, <2>2 DEF Jobs, ManagedJob
  <2> HIDE DEF j
  <2>4. Moves(h, "managed")
    BY <1>t, <2>3, BeginMoves
  <2>5. RowType'
    BY <1>2, <1>t DEF UpdateManaged, RowType
  <2> QED
    BY <2>4, <2>5
<1>3. ASSUME SaveManaged(h) PROVE Moves(h, "managed") /\ RowType'
  <2>1. work[h] \in ManagedJob
    BY <1>3, <1>t, Topical DEF SaveManaged, At
  <2>2. work[h].row \in ManagedRow /\ work[h].on = "managed"
    BY <2>1 DEF ManagedJob
  <2>3. RowType'
    BY <1>3, <1>t, <2>2 DEF SaveManaged, RowType
  <2>4. CASE work[h].by = "admin"
    <3> DEFINE j == [work[h] EXCEPT !.step = "publish"]
    <3>1. j \in Jobs /\ j.on = "managed" /\ j.on = work[h].on
      BY <2>1 DEF Jobs, ManagedJob
    <3>2. Goto(h, "publish") /\ disturbed \subseteq disturbed'
      BY <1>3, <2>4 DEF SaveManaged
    <3> QED
      BY <1>t, <2>3, <3>1, <3>2, GotoMoves
  <2>5. CASE work[h].by # "admin"
    <3>1. Finish(h) /\ disturbed \subseteq disturbed'
      BY <1>3, <2>5 DEF SaveManaged
    <3> QED
      BY <1>t, <2>2, <2>3, <3>1, FinishMoves
  <2> QED
    BY <2>4, <2>5
<1>4. ASSUME PublishUpdate(h) PROVE Moves(h, "managed") /\ RowType'
  <2>1. work[h].row \in ManagedRow
    BY <1>4, <1>t, Topical DEF PublishUpdate, At, ManagedJob
  <2>2. work[h].row.profile \in Theirs
    BY <2>1 DEF ManagedRow
  <2>3. toUser' \in Seq(Theirs)
    BY <1>4, <1>t, <2>2 DEF PublishUpdate, RowType
  <2>4. RowType'
    BY <1>4, <1>t, <2>3 DEF PublishUpdate, RowType
  <2> QED
    BY <1>4, <1>t, <2>4, FinishMoves DEF PublishUpdate, At
<1>5. UNCHANGED <<reviews, profile, cached, override, executed>>
  BY DEF ManagedUsers, HandleKycStatusUpdated, UpdateManaged, SaveManaged, PublishUpdate
<1> QED
  BY <1>1, <1>2, <1>3, <1>4, <1>5 DEF ManagedUsers

LEMMA RequestsStep ==
  ASSUME ReviewType, NEW h \in Handlers, Requests(h)
  PROVE  /\ \E r \in Overrides : Acts(h, r)
         /\ RowType' /\ Filed' /\ UNCHANGED <<reviews, profile, cached, managed, toAdmin, toUser>>
<1>t. WorkType /\ RowType /\ work[h] \in Jobs
  BY DEF ReviewType, WorkType
<1> USE DEF reviews, queues
<1>1. ASSUME NEW r \in Overrides, NEW verdict \in Verdicts, Decide(h, r, verdict),
             UNCHANGED <<reviews, profile, cached, managed, override, executed, queues>>
      PROVE  Moves(h, r) /\ RowType'
  <2> DEFINE j == [on |-> r, step |-> "saveDecision", verdict |-> verdict]
  <2>1. j \in Jobs /\ j.on = r /\ Begin(h, j)
    BY <1>1 DEF Decide, Jobs, DecisionJob
  <2> HIDE DEF j
  <2>2. Moves(h, r)
    BY <1>t, <2>1, BeginMoves
  <2>3. RowType'
    BY <1>1, <1>t DEF RowType
  <2> QED
    BY <2>2, <2>3
<1>2. ASSUME NEW r \in Overrides, Moves(h, r), RowType',
             override' = override \/ (\E s \in Status : SetStatus(r, s)), override'[r] \in Override,
             executed' = executed \/ executed' = executed \cup {r}
      PROVE  /\ \E s \in Overrides : Acts(h, s)
             /\ RowType' /\ Filed'
  <2>1. \A s \in Overrides \ {r} : override'[s] = override[s]
    BY <1>2, <1>t DEF SetStatus, RowType
  <2>2. \A s \in Overrides \ {r} : s \in executed' <=> s \in executed
    BY <1>2
  <2>3. Filed'
    BY <1>2, <1>t, <2>1, ReviewsAssumption DEF ReviewType, Filed, Moves
  <2> QED
    BY <1>2, <2>1, <2>2, <2>3 DEF Acts
<1>3. ASSUME NEW r \in Overrides, Reject(h, r)
      PROVE  (\E s \in Overrides : Acts(h, s)) /\ RowType' /\ Filed'
  <2>1. "REJECTED" \in Verdicts /\ override[r] \in Override
    BY <1>3, <1>t DEF Verdicts, Reject, Undecided, RowType
  <2> QED
    BY <1>1, <1>2, <1>3, <2>1 DEF Reject
<1>4. ASSUME NEW r \in Overrides, NEW a \in Admins, Approve(h, r, a)
      PROVE  (\E s \in Overrides : Acts(h, s)) /\ RowType' /\ Filed'
  <2>1. "APPROVED" \in Verdicts /\ override[r] \in Override
    BY <1>4, <1>t DEF Verdicts, Approve, Undecided, RowType
  <2> QED
    BY <1>1, <1>2, <1>4, <2>1 DEF Approve
<1>5. ASSUME work[h].on \in Overrides
      PROVE  override[work[h].on] \in Override /\ work[h] \in DecisionJob
             /\ work[h].verdict \in Verdicts
  BY <1>5, <1>t, Topical DEF ReviewType, Filed, DecisionJob
<1>6. ASSUME NEW r \in Overrides, NEW s \in Status, override[r] \in Override, SetStatus(r, s),
             profile' = profile, UNCHANGED <<reviews, cached, managed, toAdmin, toUser>>,
             executed' \subseteq executed \cup {r}
      PROVE  RowType' /\ override'[r] \in Override
  <2>1. override'[r] = [override[r] EXCEPT !.status = s]
    BY <1>6, <1>t DEF SetStatus, RowType
  <2>2. override'[r] \in Override
    BY <1>6, <2>1 DEF Override, Status
  <2>3. \A q \in Overrides \ {r} : override'[q] = override[q]
    BY <1>6, <1>t DEF SetStatus, RowType
  <2>4. override' = [q \in Overrides |-> override'[q]]
    BY <1>6, <1>t DEF SetStatus, RowType
  <2> QED
    BY <1>6, <1>t, <2>2, <2>3, <2>4 DEF RowType
<1>7. ASSUME SaveDecision(h) PROVE (\E s \in Overrides : Acts(h, s)) /\ RowType' /\ Filed'
  <2> DEFINE r == work[h].on
  <2>1. /\ r \in Overrides /\ SetStatus(r, work[h].verdict) /\ disturbed' = disturbed
        /\ IF work[h].verdict = "APPROVED" THEN Goto(h, "execute") ELSE Finish(h)
        /\ UNCHANGED <<reviews, profile, cached, managed, executed, toAdmin, toUser>>
    BY <1>7 DEF SaveDecision
  <2>2. work[h].verdict \in Status /\ work[h] \in DecisionJob /\ override[r] \in Override
    BY <1>5, <2>1 DEF Verdicts, Status
  <2>3. Moves(h, r)
    <3> DEFINE j == [work[h] EXCEPT !.step = "execute"]
    <3>1. j \in Jobs /\ j.on = r
      BY <2>2 DEF Jobs, DecisionJob
    <3> HIDE DEF j
    <3>2. CASE Goto(h, "execute")
      BY <1>t, <2>1, <3>1, <3>2, GotoMoves DEF j
    <3>3. CASE Finish(h)
      BY <1>t, <2>1, <3>3, FinishMoves
    <3> QED
      BY <2>1, <3>2, <3>3
  <2> HIDE DEF r
  <2>4. RowType' /\ override'[r] \in Override
    BY <1>6, <2>1, <2>2 DEF r
  <2> QED
    BY <1>2, <2>1, <2>2, <2>3, <2>4 DEF r
<1>8. ASSUME ExecuteOverride(h) \/ ExecuteFails(h)
      PROVE  (\E s \in Overrides : Acts(h, s)) /\ RowType' /\ Filed'
  <2> DEFINE r == work[h].on
  <2>1. /\ r \in Overrides /\ Finish(h) /\ disturbed' = disturbed
        /\ SetStatus(r, "COMPLETED") \/ SetStatus(r, "FAILED")
        /\ executed' = executed \/ executed' = executed \cup {r}
        /\ UNCHANGED <<reviews, profile, cached, managed, toAdmin, toUser>>
    BY <1>8 DEF ExecuteOverride, ExecuteFails
  <2>2. override[r] \in Override
    BY <1>5, <2>1
  <2>3. Moves(h, r)
    BY <1>t, <2>1, FinishMoves
  <2> HIDE DEF r
  <2>4. PICK s \in Status : SetStatus(r, s)
    BY <2>1 DEF Status
  <2>5. RowType' /\ override'[r] \in Override
    BY <1>6, <2>1, <2>2, <2>4
  <2> QED
    BY <1>2, <2>1, <2>3, <2>4, <2>5
<1>9. UNCHANGED <<reviews, profile, cached, managed, toAdmin, toUser>>
  BY DEF Requests, Reject, Approve, SaveDecision, ExecuteOverride, ExecuteFails
<1> QED
  BY <1>3, <1>4, <1>7, <1>8, <1>9 DEF Requests

LEMMA EndStep ==
  ASSUME ReviewType, NEW h \in Handlers, Abort(h) \/ PublishFails(h)
  PROVE  /\ Moves(h, work[h].on) /\ work'[h] = Idle /\ RowType'
         /\ UNCHANGED <<reviews, profile, cached, managed, override, executed, queues>>
<1>1. /\ WorkType /\ RowType /\ Finish(h) /\ disturbed \subseteq disturbed'
      /\ UNCHANGED <<reviews, profile, cached, managed, override, executed, queues>>
  BY DEF ReviewType, Abort, PublishFails
<1>2. Moves(h, work[h].on) /\ work'[h] = Idle
  BY <1>1, FinishMoves
<1> QED
  BY <1>1, <1>2 DEF RowType, reviews, queues

(* Steps in which no handler takes part.                                   *)
Alone ==
  \/ \E d \in Docs : UploadDocument(d)
  \/ \E r \in Overrides, a \in Admins : CreateOverride(r, a)
  \/ CacheExpires \/ HandleUserCreated \/ UNCHANGED vars

LEMMA AloneStep ==
  ASSUME ReviewType, Alone
  PROVE  UNCHANGED <<work, disturbed>> /\ RowType' /\ Filed'
<1> USE DEF ReviewType, RowType, Filed, reviews, queues
<1>1. ASSUME NEW d \in Docs, UploadDocument(d) PROVE RowType' /\ Filed'
  BY <1>1 DEF UploadDocument, KycStatus
<1>2. ASSUME NEW r \in Overrides, NEW a \in Admins, CreateOverride(r, a)
      PROVE  RowType' /\ Filed'
  <2>1. [status |-> "PENDING", requester |-> a] \in Override
    BY DEF Override
  <2> QED
    BY <1>2, <2>1 DEF CreateOverride
<1>3. CASE CacheExpires
  BY <1>3 DEF CacheExpires
<1>4. CASE HandleUserCreated
  <2>1. [kyc |-> "PENDING", profile |-> Untouched] \in ManagedRow
    BY DEF ManagedRow, ManagedKyc, Untouched, Theirs
  <2> QED
    BY <1>4, <2>1 DEF HandleUserCreated
<1>5. CASE UNCHANGED vars
  BY <1>5 DEF vars
<1>6. UNCHANGED <<work, disturbed>>
  BY DEF Alone, UploadDocument, CreateOverride, CacheExpires, HandleUserCreated, vars
<1> QED
  BY <1>1, <1>2, <1>3, <1>4, <1>5, <1>6 DEF Alone

LEMMA FiledKept ==
  ASSUME ReviewType, NEW h \in Handlers, NEW t, Moves(h, t), UNCHANGED override,
         t \in Overrides => work[h].on = t \/ work'[h].on = "nothing"
  PROVE  Filed'
BY ReviewsAssumption DEF ReviewType, Filed, Moves

LEMMA ReviewInit == Init => ReviewType
<1> SUFFICES ASSUME Init PROVE ReviewType
  OBVIOUS
<1>1. WorkType
  BY DEF Init, WorkType, Jobs
<1>2. Filed
  BY ReviewsAssumption DEF Init, Filed, Idle
<1>3. RowType
  BY DEF Init, RowType, KycStatus, Profile, Untouched
<1> QED
  BY <1>1, <1>2, <1>3 DEF ReviewType

LEMMA ReviewStep ==
  ASSUME ReviewType, [Next]_vars
  PROVE  ReviewType'
<1>1. CASE Alone
  BY <1>1, AloneStep DEF ReviewType, WorkType
<1>2. ASSUME NEW h \in Handlers, Kyc(h) PROVE ReviewType'
  <2>1. Filed'
    BY <1>2, KycStep, FiledKept, ReviewsAssumption
  <2> QED
    BY <1>2, <2>1, KycStep DEF ReviewType, WorkType, Moves
<1>3. ASSUME NEW h \in Handlers, Profiles(h) PROVE ReviewType'
  <2>1. Filed'
    BY <1>3, ProfilesStep, FiledKept, ReviewsAssumption
  <2> QED
    BY <1>3, <2>1, ProfilesStep DEF ReviewType, WorkType, Moves
<1>4. ASSUME NEW h \in Handlers, ManagedUsers(h) PROVE ReviewType'
  <2>1. Filed'
    BY <1>4, ManagedStep, FiledKept, ReviewsAssumption
  <2> QED
    BY <1>4, <2>1, ManagedStep DEF ReviewType, WorkType, Moves
<1>5. ASSUME NEW h \in Handlers, Requests(h) PROVE ReviewType'
  BY <1>5, RequestsStep DEF ReviewType, WorkType, Moves, Acts
<1>6. ASSUME NEW h \in Handlers, Abort(h) \/ PublishFails(h) PROVE ReviewType'
  <2>1. Filed'
    BY <1>6, EndStep, FiledKept
  <2> QED
    BY <1>6, <2>1, EndStep DEF ReviewType, WorkType, Moves
<1> QED
  BY <1>1, <1>2, <1>3, <1>4, <1>5, <1>6 DEF Next, Alone

(* Nothing is done about topic t.                                          *)
Away(t) ==
  /\ \A g \in Handlers : work[g].on = t \/ work'[g].on = t => work'[g] = work[g]
  /\ disturbed \subseteq disturbed'

LEMMA MovesAway ==
  ASSUME WorkType, NEW h \in Handlers, NEW u, Moves(h, u), NEW t \in Topics, t # u
  PROVE  Away(t)
BY ReviewsAssumption DEF Moves, Away, Topics

----------------------------------------------------------------------------
(* Override requests.                                                      *)

(* One handler at most is about to decide or to execute the override, and  *)
(* the row is as it read it.                                               *)
Orderly(r) ==
  /\ \A g, h \in Handlers : work[g].on = r /\ work[h].on = r => g = h
  /\ \A h \in Handlers : work[h].on = r =>
       override[r].status = IF work[h].step = "saveDecision" THEN "PENDING" ELSE "APPROVED"
  /\ override[r] = None => r \notin executed
  /\ override[r] # None => (r \in executed <=> override[r].status = "COMPLETED")

DecisionInv == \A r \in Overrides \ disturbed : Orderly(r)

LEMMA DecisionAway ==
  ASSUME NEW r \in Overrides, r \in disturbed \/ Orderly(r), Away(r), override'[r] = override[r],
         r \in executed' <=> r \in executed
  PROVE  r \in disturbed' \/ Orderly(r)'
BY DEF Away, Orderly

LEMMA DecisionStep ==
  ASSUME ReviewType, DecisionInv, [Next]_vars
  PROVE  DecisionInv'
<1> SUFFICES ASSUME NEW r \in Overrides PROVE r \in disturbed' \/ Orderly(r)'
  BY DEF DecisionInv
<1>t. /\ WorkType /\ RowType /\ r \in Topics /\ (r \in disturbed \/ Orderly(r))
      /\ r \notin {"papers", "profile", "managed", "nothing"}
  BY ReviewsAssumption DEF ReviewType, DecisionInv, Topics
<1>1. CASE Alone
  <2>1. ASSUME NEW a \in Admins, CreateOverride(r, a) PROVE r \in disturbed' \/ Orderly(r)'
    <3>1. /\ override[r] = None /\ UNCHANGED <<work, disturbed, executed>>
          /\ override'[r] = [status |-> "PENDING", requester |-> a]
      BY <2>1, <1>t DEF CreateOverride, RowType
    <3>2. override'[r].status = "PENDING" /\ override'[r] # None
      BY <3>1 DEF None
    <3>3. \A h \in Handlers : work[h].on # r
      BY <1>t, <3>1 DEF ReviewType, Filed, None, Override
    <3> QED
      BY <1>t, <3>1, <3>2, <3>3 DEF Orderly
  <2>2. ASSUME NEW q \in Overrides, NEW a \in Admins, CreateOverride(q, a), q # r
        PROVE  r \in disturbed' \/ Orderly(r)'
    <3>1. override'[r] = override[r] /\ UNCHANGED <<work, disturbed, executed>>
      BY <2>2, <1>t DEF CreateOverride, RowType
    <3> QED
      BY <1>t, <3>1 DEF Orderly
  <2>3. CASE UNCHANGED <<override, executed>>
    BY <1>1, <1>t, <2>3, AloneStep DEF Orderly
  <2> QED
    BY <1>1, <2>1, <2>2, <2>3 DEF Alone, UploadDocument, CacheExpires, HandleUserCreated, vars
<1>2. ASSUME NEW h \in Handlers, Kyc(h) \/ Profiles(h) \/ ManagedUsers(h)
      PROVE  r \in disturbed' \/ Orderly(r)'
  <2>1. Away(r) /\ UNCHANGED <<override, executed>>
    BY <1>2, <1>t, KycStep, ProfilesStep, ManagedStep, MovesAway
  <2> QED
    BY <1>t, <2>1, DecisionAway
<1>3. ASSUME NEW h \in Handlers, Abort(h) \/ PublishFails(h) PROVE r \in disturbed' \/ Orderly(r)'
  <2>1. CASE work[h].on # r
    BY <1>3, <1>t, <2>1, EndStep, MovesAway, DecisionAway
  <2>2. CASE work[h].on = r /\ Abort(h)
    BY <2>2 DEF Abort
  <2>3. CASE work[h].on = r /\ PublishFails(h)
    <3>1. work[h].step \in {"saveDecision", "execute"}
      BY <1>t, <2>3, Topical DEF WorkType, DecisionJob
    <3> QED
      BY <2>3, <3>1 DEF PublishFails
  <2> QED
    BY <1>3, <2>1, <2>2, <2>3
<1>4. ASSUME NEW h \in Handlers, Requests(h) PROVE r \in disturbed' \/ Orderly(r)'
  <2>1. PICK q \in Overrides : Acts(h, q)
    BY <1>4, RequestsStep
  <2>2. CASE q # r
    BY <1>t, <2>1, <2>2, MovesAway, DecisionAway DEF Acts
  <2>3. CASE q = r /\ r \in disturbed
    BY <2>1, <2>3 DEF Acts, Moves
  <2>4. CASE q = r /\ Orderly(r)
    <3>1. Moves(h, r) /\ work[h].on \in {r, "nothing"} /\ work'[h].on \in {r, "nothing"}
      BY <2>1, <2>4 DEF Acts, Moves
    <3>2. \A g \in Handlers : g # h => work'[g] = work[g]
      BY <3>1 DEF Moves
    <3>3. ASSUME NEW verdict \in Verdicts, NEW s \in Overrides, Undecided(s), Decide(h, s, verdict),
                 UNCHANGED <<override, executed>>
          PROVE  r \in disturbed' \/ Orderly(r)'
      <4> DEFINE j == [on |-> s, step |-> "saveDecision", verdict |-> verdict]
      <4>1. j \in Jobs /\ j.on = s /\ j.step = "saveDecision" /\ Begin(h, j)
        BY <3>3 DEF Jobs, DecisionJob, Decide
      <4> HIDE DEF j
      <4>2. work'[h] = j /\ s = r
        BY <1>t, <3>1, <4>1, BeginMoves, ReviewsAssumption
      <4>3. CASE Busy(r)
        BY <4>1, <4>2, <4>3 DEF Begin
      <4>4. CASE ~ Busy(r)
        BY <2>4, <3>2, <3>3, <4>1, <4>2, <4>4 DEF Busy, Orderly, Undecided
      <4> QED
        BY <4>3, <4>4
    <3>4. ASSUME work[h].on \in Overrides
          PROVE  /\ work[h].on = r /\ override[r] \in Override /\ override[r] # None
                 /\ work[h].verdict \in Verdicts
      <4>1. work[h].on = r /\ override[r] \in Override /\ work[h] \in DecisionJob
        BY <1>t, <3>1, <3>4, Topical, ReviewsAssumption DEF ReviewType, Filed, WorkType
      <4>2. override[r] # None
        BY <4>1 DEF Override, None
      <4>3. work[h].verdict \in Verdicts
        BY <4>1 DEF DecisionJob
      <4> QED
        BY <4>1, <4>2, <4>3
    <3>5. ASSUME NEW s \in Status, SetStatus(r, s), override[r] \in Override
          PROVE  override'[r].status = s /\ override'[r] # None
      BY <1>t, <3>5 DEF SetStatus, RowType, Override, None
    <3>6. CASE SaveDecision(h)
      <4>1. /\ SetStatus(r, work[h].verdict) /\ work[h].step = "saveDecision" /\ executed' = executed
            /\ IF work[h].verdict = "APPROVED" THEN Goto(h, "execute") ELSE Finish(h)
            /\ work[h].on = r
        BY <3>4, <3>6 DEF SaveDecision, At
      <4>2. override'[r].status = work[h].verdict /\ override'[r] # None
        BY <3>4, <3>5, <4>1 DEF Verdicts, Status
      <4>3. r \notin executed /\ \A g \in Handlers : g # h => work[g].on # r
        BY <2>4, <3>4, <4>1 DEF Orderly
      <4>4. work[h].verdict = "APPROVED" => work'[h].step = "execute"
        BY <1>t, <3>4, <4>1, Topical DEF WorkType, Goto, DecisionJob
      <4>5. work[h].verdict # "APPROVED" => work'[h] = Idle
        BY <1>t, <4>1, FinishMoves DEF Finish, WorkType
      <4> QED
        BY <3>2, <3>4, <4>1, <4>2, <4>3, <4>4, <4>5, ReviewsAssumption DEF Orderly, Verdicts, Idle
    <3>7. CASE ExecuteOverride(h) \/ ExecuteFails(h)
      <4>1. /\ work[h].step = "execute" /\ Finish(h) /\ work[h].on = r
            /\ \/ SetStatus(r, "COMPLETED") /\ executed' = executed \cup {r}
               \/ SetStatus(r, "FAILED") /\ executed' = executed
        BY <3>4, <3>7 DEF ExecuteOverride, ExecuteFails, At
      <4>2. /\ override'[r] # None
            /\ \/ override'[r].status = "COMPLETED" /\ r \in executed'
               \/ override'[r].status = "FAILED" /\ executed' = executed
        BY <3>4, <3>5, <4>1 DEF Status
      <4>3. r \notin executed /\ \A g \in Handlers : g # h => work[g].on # r
        BY <2>4, <3>4, <4>1 DEF Orderly
      <4>4. work'[h] = Idle
        BY <1>t, <4>1 DEF Finish, WorkType
      <4> QED
        BY <1>t, <3>2, <4>2, <4>3, <4>4 DEF Orderly, Idle
    <3>8. CASE \E s \in Overrides : Reject(h, s) \/ \E a \in Admins : Approve(h, s, a)
      BY <3>3, <3>8 DEF Reject, Approve, Verdicts
    <3> QED
      BY <1>4, <3>6, <3>7, <3>8 DEF Requests
  <2> QED
    BY <1>t, <2>2, <2>3, <2>4
<1> QED
  BY <1>1, <1>2, <1>3, <1>4 DEF Next, Alone

LEMMA Decisions == Spec => [](ReviewType /\ DecisionInv)
<1>1. Init => DecisionInv
  BY ReviewsAssumption DEF Init, DecisionInv, Orderly, Idle
<1> QED
  BY <1>1, ReviewInit, ReviewStep, DecisionStep, PTL DEF Spec

(***************************************************************************)
(* An override that was executed is COMPLETED, one that was rejected is    *)
(* not executed, for good, for any number of overrides and admins, unless  *)
(* two of them were at one override at the same time.                      *)
(***************************************************************************)
THEOREM DecisionsStand == Spec => []DecisionStands
<1>1. DecisionInv => DecisionStands
  BY DEF DecisionInv, DecisionStands, Orderly, Calm
<1> QED
  BY <1>1, Decisions, PTL

----------------------------------------------------------------------------
(* KYC documents.                                                          *)

Evidence == /\ \E d \in Docs : papers[d] = "APPROVED"
            /\ \A d \in Docs : papers[d] # "REJECTED"

AtPapers(h, steps) == work[h].on = "papers" /\ work[h].step \in steps

(* One handler at most has documents or the user's row in hand, and knows  *)
(* what is there; between the verdict and kyc_status they may differ.      *)
PapersInv ==
  /\ \A g, h \in Handlers : work[g].on = "papers" /\ work[h].on = "papers" => g = h
  /\ \A h \in Handlers :
       /\ AtPapers(h, {"remove"}) => papers[work[h].doc] \in {"PENDING", "REJECTED"}
       /\ AtPapers(h, {"saveKyc"}) /\ work[h].status = "APPROVED" => Evidence
       /\ AtPapers(h, {"publish", "saveUser"}) => work[h].status = kyc
  /\ \/ kyc = "APPROVED" => Evidence
     \/ \E h \in Handlers : AtPapers(h, {"findDocuments", "saveKyc"})

EvidenceInv == "papers" \in disturbed \/ PapersInv

LEMMA PapersAway ==
  ASSUME EvidenceInv, Away("papers"), UNCHANGED reviews
  PROVE  EvidenceInv'
BY DEF EvidenceInv, Away, PapersInv, AtPapers, Evidence, reviews

LEMMA Upload ==
  ASSUME ReviewType, EvidenceInv, NEW d \in Docs, UploadDocument(d)
  PROVE  EvidenceInv'
<1>1. /\ papers[d] = "NONE" /\ papers' = [papers EXCEPT ![d] = "PENDING"]
      /\ UNCHANGED <<kyc, work, disturbed>> /\ papers \in [Docs -> KycStatus \cup {"NONE"}]
      /\ WorkType
  BY DEF UploadDocument, ReviewType, RowType
<1>2. Evidence => Evidence'
  BY <1>1 DEF Evidence
<1>3. \A h \in Handlers : AtPapers(h, {"remove"}) => papers[work[h].doc] = papers'[work[h].doc] \/ work[h].doc = d
  BY <1>1
<1> QED
  BY <1>1, <1>2, <1>3 DEF EvidenceInv, PapersInv, AtPapers

LEMMA StatusNeedsEvidence ==
  ASSUME papers \in [Docs -> KycStatus \cup {"NONE"}], StatusOfDocuments = "APPROVED"
  PROVE  Evidence
<1> DEFINE statuses == {papers[d] : d \in Docs} \ {"NONE"}
<1>1. statuses = {"APPROVED"}
  BY DEF StatusOfDocuments
<1>2. PICK d \in Docs : papers[d] = "APPROVED"
  BY <1>1
<1>3. \A e \in Docs : papers[e] \in {"APPROVED", "NONE"}
  BY <1>1
<1> QED
  BY <1>2, <1>3 DEF Evidence

LEMMA KycEvidence ==
  ASSUME ReviewType, EvidenceInv, NEW h \in Handlers, Kyc(h)
  PROVE  EvidenceInv'
<1> SUFFICES ASSUME PapersInv, "papers" \notin disturbed PROVE EvidenceInv'
  BY KycStep DEF EvidenceInv, Moves
<1>t. /\ WorkType /\ RowType /\ work[h] \in Jobs /\ work'[h] \in Jobs
      /\ \A g \in Handlers : g # h => work'[g] = work[g]
      /\ work[h].on \in {"papers", "nothing"} /\ work'[h].on \in {"papers", "nothing"}
  BY KycStep DEF ReviewType, WorkType, Moves
(* A handler that begins, when another is at work, disturbs.               *)
<1>b. ASSUME NEW j \in Jobs, j.on = "papers", Begin(h, j), UNCHANGED reviews,
             j.step \in {"remove", "saveDocument", "saveUser"},
             j.step = "remove" => papers[j.doc] \in {"PENDING", "REJECTED"},
             j.step = "saveUser" => j.status = kyc
      PROVE  EvidenceInv'
  <2>1. work'[h] = j
    BY <1>t, <1>b DEF Begin, WorkType
  <2>2. CASE Busy("papers")
    BY <1>b, <2>2 DEF Begin, EvidenceInv
  <2>3. CASE ~ Busy("papers")
    <3>1. \A g \in Handlers : work'[g].on = "papers" => g = h
      BY <1>t, <2>3 DEF Busy
    <3>2. kyc = "APPROVED" => Evidence
      BY <2>3 DEF PapersInv, Busy, AtPapers
    <3>3. Evidence' <=> Evidence
      BY <1>b DEF Evidence, reviews
    <3> QED
      BY <1>b, <2>1, <3>1, <3>2, <3>3 DEF EvidenceInv, PapersInv, AtPapers, reviews
  <2> QED
    BY <2>2, <2>3
<1>1. ASSUME NEW d \in Docs, DeleteDocument(h, d) PROVE EvidenceInv'
  <2> DEFINE j == [on |-> "papers", step |-> "remove", doc |-> d]
  <2>1. j \in Jobs
    BY DEF Jobs, PapersJob, RemoveJob
  <2> QED
    BY <1>1, <1>b, <2>1 DEF DeleteDocument
<1>2. ASSUME NEW d \in Docs, NEW verdict \in Verdicts, VerifyDocument(h, d, verdict)
      PROVE  EvidenceInv'
  <2> DEFINE j == [on |-> "papers", step |-> "saveDocument", doc |-> d, verdict |-> verdict]
  <2>1. j \in Jobs
    BY DEF Jobs, PapersJob, VerdictJob
  <2> QED
    BY <1>2, <1>b, <2>1 DEF VerifyDocument
<1>3. CASE UpdateUser(h)
  <2> DEFINE j == [on |-> "papers", step |-> "saveUser", status |-> kyc]
  <2>1. j \in Jobs /\ j.on = "papers" /\ j.step = "saveUser" /\ j.status = kyc /\ Begin(h, j)
    BY <1>3, <1>t DEF UpdateUser, Jobs, PapersJob, KycJob, RowType
  <2> HIDE DEF j
  <2> QED
    BY <1>3, <1>b, <2>1 DEF UpdateUser
(* The others are at work already, and alone.                              *)
<1>a. ASSUME work[h].on = "papers" PROVE \A g \in Handlers : g # h => work'[g].on # "papers"
  BY <1>t, <1>a DEF PapersInv
<1>4. CASE RemoveDocument(h)
  <2>1. /\ papers[work[h].doc] \in {"PENDING", "REJECTED"} /\ work'[h] = Idle /\ UNCHANGED <<kyc, disturbed>>
        /\ papers' = [papers EXCEPT ![work[h].doc] = "NONE"] /\ work[h].on = "papers"
        /\ kyc = "APPROVED" => Evidence
    BY <1>4, <1>t, <1>a DEF RemoveDocument, At, PapersInv, AtPapers, Finish, WorkType
  <2>2. Evidence => Evidence'
    BY <1>t, <2>1 DEF Evidence, RowType
  <2> QED
    BY <1>t, <1>a, <2>1, <2>2 DEF EvidenceInv, PapersInv, AtPapers, Idle
<1>5. CASE SaveDocument(h)
  <2>1. work[h] \in VerdictJob
    BY <1>5, <1>t, Topical DEF SaveDocument, At, PapersJob, RemoveJob, VerdictJob, KycJob
  <2>2. work'[h].on = "papers" /\ work'[h].step = "findDocuments" /\ UNCHANGED disturbed
    BY <1>5, <1>t, <2>1 DEF SaveDocument, Goto, WorkType, VerdictJob
  <2> QED
    BY <1>5, <1>t, <1>a, <2>2 DEF SaveDocument, At, EvidenceInv, PapersInv, AtPapers
<1>6. CASE FindDocuments(h)
  <2>1. /\ work'[h] = [on |-> "papers", step |-> "saveKyc", status |-> StatusOfDocuments]
        /\ UNCHANGED <<reviews, disturbed>> /\ work[h].on = "papers"
    BY <1>6, <1>t DEF FindDocuments, At, WorkType
  <2>2. StatusOfDocuments = "APPROVED" => Evidence'
    BY <1>t, <2>1, StatusNeedsEvidence DEF RowType, Evidence, reviews
  <2> QED
    BY <1>t, <1>a, <2>1, <2>2 DEF EvidenceInv, PapersInv, AtPapers
<1>7. CASE SaveKyc(h)
  <2>1. work[h] \in KycJob
    BY <1>7, <1>t, Topical DEF SaveKyc, At, PapersJob, RemoveJob, VerdictJob, KycJob
  <2>2. /\ work'[h].on = "papers" /\ work'[h].step = "publish" /\ work'[h].status = work[h].status
        /\ kyc' = work[h].status /\ UNCHANGED <<papers, disturbed>> /\ work[h].on = "papers"
    BY <1>7, <1>t, <2>1 DEF SaveKyc, At, Goto, WorkType, KycJob
  <2>3. kyc' = "APPROVED" => Evidence'
    BY <1>7, <2>2 DEF SaveKyc, At, PapersInv, AtPapers, Evidence
  <2> QED
    BY <1>t, <1>a, <2>2, <2>3 DEF EvidenceInv, PapersInv, AtPapers
<1>8. CASE PublishKyc(h) \/ SaveUser(h)
  <2>1. work'[h] = Idle /\ UNCHANGED <<papers, disturbed>> /\ work[h].on = "papers" /\ kyc' = kyc
    BY <1>8, <1>t DEF PublishKyc, SaveUser, At, PapersInv, AtPapers, Finish, WorkType, reviews
  <2>2. kyc = "APPROVED" => Evidence'
    BY <1>8, <1>t, <1>a, <2>1 DEF PublishKyc, SaveUser, At, PapersInv, AtPapers, Evidence
  <2> QED
    BY <1>t, <1>a, <2>1, <2>2 DEF EvidenceInv, PapersInv, AtPapers, Idle
<1> QED
  BY <1>1, <1>2, <1>3, <1>4, <1>5, <1>6, <1>7, <1>8 DEF Kyc

LEMMA EvidenceStep ==
  ASSUME ReviewType, EvidenceInv, [Next]_vars
  PROVE  EvidenceInv'
<1>t. WorkType /\ "papers" \in Topics /\ "papers" \notin Overrides
  BY ReviewsAssumption DEF ReviewType, Topics
<1>1. CASE Alone
  <2>1. CASE \E d \in Docs : UploadDocument(d)
    BY <2>1, Upload
  <2>2. CASE UNCHANGED reviews
    BY <1>1, <2>2, AloneStep DEF EvidenceInv, PapersInv, AtPapers, Evidence, reviews
  <2> QED
    BY <1>1, <2>1, <2>2 DEF Alone, CreateOverride, CacheExpires, HandleUserCreated, vars
<1>2. ASSUME NEW h \in Handlers, Profiles(h) \/ ManagedUsers(h) \/ Requests(h)
      PROVE  EvidenceInv'
  <2>1. PICK t \in Topics : Moves(h, t) /\ t # "papers" /\ UNCHANGED reviews
    BY <1>2, <1>t, ProfilesStep, ManagedStep, RequestsStep DEF Acts, Topics
  <2> QED
    BY <1>t, <2>1, MovesAway, PapersAway
<1>3. ASSUME NEW h \in Handlers, Abort(h) \/ PublishFails(h) PROVE EvidenceInv'
  <2>1. CASE work[h].on # "papers"
    BY <1>3, <1>t, <2>1, EndStep, MovesAway, PapersAway
  <2>2. CASE work[h].on = "papers" /\ Abort(h)
    BY <2>2 DEF Abort, EvidenceInv
  <2>3. CASE work[h].on = "papers" /\ PublishFails(h)
    <3>1. work[h].step = "publish" /\ work'[h] = Idle /\ UNCHANGED reviews
      BY <1>3, <2>3, EndStep DEF PublishFails
    <3>2. /\ \A g \in Handlers : g # h => work'[g] = work[g]
          /\ disturbed \subseteq disturbed'
      BY <1>3, EndStep DEF Moves
    <3> QED
      BY <2>3, <3>1, <3>2 DEF EvidenceInv, PapersInv, AtPapers, Evidence, Idle, reviews
  <2> QED
    BY <1>3, <2>1, <2>2, <2>3
<1> QED
  BY <1>1, <1>2, <1>3, KycEvidence DEF Next, Alone

(***************************************************************************)
(* A user whose KYC is APPROVED has an approved document and none that was *)
(* rejected, for any number of documents and admins, unless verifications, *)
(* deletions and saves of the user's row overlapped or were cut short.     *)
(***************************************************************************)
THEOREM ApprovalHasEvidence == Spec => []ApprovedHasEvidence
<1>1. Init => EvidenceInv
  BY DEF Init, EvidenceInv, PapersInv, AtPapers, Idle
<1>2. EvidenceInv => ApprovedHasEvidence
  BY DEF EvidenceInv, PapersInv, AtPapers, Evidence, ApprovedHasEvidence, Calm, Busy
<1> QED
  BY <1>1, <1>2, ReviewInit, ReviewStep, EvidenceStep, PTL DEF Spec

----------------------------------------------------------------------------
(* The cached profile.                                                     *)

AtProfile(h, step) == work[h].on = "profile" /\ work[h].step = step

Shown(row) == \A f \in Fields : profile[f] = "user" => row.profile[f] = "user"

(* One handler at most has the profile in hand; what it is about to cache  *)
(* is what is there, and the copy is old only until it is removed.         *)
ProfileInv ==
  /\ \A g, h \in Handlers : work[g].on = "profile" /\ work[h].on = "profile" => g = h
  /\ \A h \in Handlers : AtProfile(h, "cache") => work[h].row.profile = profile
  /\ (cached = None \/ Shown(cached)) \/ \E h \in Handlers : AtProfile(h, "invalidate")

EditsInv == "profile" \in disturbed \/ ProfileInv

LEMMA ProfileAway ==
  ASSUME EditsInv, Away("profile"), profile' = profile, cached' \in {cached, None}
  PROVE  EditsInv'
<1>1. CASE "profile" \in disturbed
  BY <1>1 DEF EditsInv, Away
<1>2. CASE ProfileInv
  <2>1. \A h \in Handlers : work'[h].on = "profile" => work[h].on = "profile" /\ work'[h] = work[h]
    BY DEF Away
  <2>2. \A h \in Handlers : AtProfile(h, "invalidate") => AtProfile(h, "invalidate")'
    BY DEF Away, AtProfile
  <2>3. \A h \in Handlers : AtProfile(h, "cache")' => AtProfile(h, "cache") /\ work'[h].row = work[h].row
    BY <2>1 DEF AtProfile
  <2>4. Shown(cached) => cached' = None \/ Shown(cached)'
    BY DEF Shown
  <2> QED
    BY <1>2, <2>1, <2>2, <2>3, <2>4 DEF EditsInv, ProfileInv
<1> QED
  BY <1>1, <1>2 DEF EditsInv

LEMMA ProfileEdits ==
  ASSUME ReviewType, EditsInv, NEW h \in Handlers, Profiles(h)
  PROVE  EditsInv'
<1> SUFFICES ASSUME ProfileInv, "profile" \notin disturbed PROVE EditsInv'
  BY ProfilesStep DEF EditsInv, Moves
<1>t. /\ WorkType /\ RowType /\ work[h] \in Jobs /\ work'[h] \in Jobs
      /\ \A g \in Handlers : g # h => work'[g] = work[g]
      /\ work[h].on \in {"profile", "nothing"} /\ work'[h].on \in {"profile", "nothing"}
  BY ProfilesStep DEF ReviewType, WorkType, Moves
(* A handler that begins, when another is at work, disturbs.               *)
<1>b. ASSUME NEW j \in Jobs, j.on = "profile", Begin(h, j), UNCHANGED <<profile, cached>>,
             j.step # "cache"
      PROVE  EditsInv'
  <2>1. work'[h] = j
    BY <1>t, <1>b DEF Begin, WorkType
  <2>2. CASE Busy("profile")
    BY <1>b, <2>2 DEF Begin, EditsInv
  <2>3. CASE ~ Busy("profile")
    <3>1. \A g \in Handlers : work'[g].on = "profile" => g = h
      BY <1>t, <2>3 DEF Busy
    <3>2. cached = None \/ Shown(cached)
      BY <2>3 DEF ProfileInv, Busy, AtProfile
    <3> QED
      BY <1>b, <2>1, <3>1, <3>2 DEF EditsInv, ProfileInv, AtProfile, Shown
  <2> QED
    BY <2>2, <2>3
<1>1. ASSUME NEW f \in Fields, UpdateProfile(h, f) PROVE EditsInv'
  <2> DEFINE j == [on |-> "profile", step |-> "saveProfile", row |-> [profile EXCEPT ![f] = "user"]]
  <2>1. j \in Jobs /\ j.on = "profile" /\ j.step # "cache" /\ Begin(h, j)
    BY <1>1, <1>t DEF UpdateProfile, Jobs, ProfileJob, EditJob, Profile, RowType
  <2> HIDE DEF j
  <2> QED
    BY <1>1, <1>b, <2>1 DEF UpdateProfile
<1>2. CASE GetProfile(h)
  <2> DEFINE j == [on |-> "profile", step |-> "lookUp"]
  <2>1. j \in Jobs /\ j.on = "profile" /\ j.step # "cache" /\ Begin(h, j)
    BY <1>2, <1>t DEF GetProfile, Jobs, ProfileJob, ReadJob
  <2> HIDE DEF j
  <2> QED
    BY <1>2, <1>b, <2>1 DEF GetProfile
<1>3. CASE HandleAdminUserUpdated(h)
  <2>1. CASE Head(toUser) = profile
    BY <1>3, <2>1 DEF HandleAdminUserUpdated, EditsInv, ProfileInv, AtProfile, Shown
  <2>2. CASE Head(toUser) # profile
    <3> DEFINE j == [on |-> "profile", step |-> "sync", row |-> Head(toUser)]
    <3>1. Head(toUser) \in Theirs
      BY <1>3, <1>t DEF HandleAdminUserUpdated, RowType
    <3>2. j \in Jobs /\ j.on = "profile" /\ j.step # "cache" /\ Begin(h, j)
      BY <1>3, <2>2, <3>1 DEF HandleAdminUserUpdated, Jobs, ProfileJob, SyncJob
    <3> HIDE DEF j
    <3> QED
      BY <1>3, <1>b, <3>2 DEF HandleAdminUserUpdated
  <2> QED
    BY <2>1, <2>2
(* The others are at work already, and alone.                              *)
<1>a. ASSUME work[h].on = "profile"
      PROVE  /\ \A g \in Handlers : g # h => work'[g].on # "profile"
             /\ work[h].step # "invalidate" => cached = None \/ Shown(cached)
  BY <1>t, <1>a DEF ProfileInv, AtProfile
<1>4. CASE SaveProfile(h)
  <2>1. work[h] \in EditJob
    BY <1>4, <1>t, Topical DEF SaveProfile, At, ProfileJob, EditJob, ReadJob, FindJob, CacheJob, SyncJob
  <2>2. work'[h].on = "profile" /\ work'[h].step = "invalidate" /\ work[h].on = "profile"
    BY <1>4, <1>t, <2>1 DEF SaveProfile, Goto, WorkType, EditJob
  <2> QED
    BY <1>t, <1>a, <2>2 DEF EditsInv, ProfileInv, AtProfile
<1>5. CASE InvalidateProfile(h)
  <2>1. work[h] \in EditJob
    BY <1>5, <1>t, Topical DEF InvalidateProfile, At, ProfileJob, EditJob, ReadJob, FindJob, CacheJob, SyncJob
  <2>2. work'[h].step = "lookUp" /\ work[h].on = "profile" /\ cached' = None
    BY <1>5, <1>t, <2>1 DEF InvalidateProfile, Goto, WorkType, EditJob
  <2> QED
    BY <1>t, <1>a, <2>2 DEF EditsInv, ProfileInv, AtProfile
<1>6. CASE LookUp(h)
  <2>1. /\ work[h].on = "profile" /\ work[h].step = "lookUp" /\ UNCHANGED <<profile, cached>>
        /\ work'[h] = Idle \/ work'[h] = [on |-> "profile", step |-> "findProfile", kyc |-> kyc]
    BY <1>6, <1>t DEF LookUp, At, Finish, WorkType
  <2>2. ~ AtProfile(h, "cache")'
    BY <2>1 DEF AtProfile, Idle
  <2> QED
    BY <1>t, <1>a, <2>1, <2>2 DEF EditsInv, ProfileInv, AtProfile, Shown
<1>7. CASE FindProfile(h)
  <2>1. /\ work[h].on = "profile" /\ work[h].step = "findProfile" /\ UNCHANGED <<profile, cached>>
        /\ work'[h].row.profile = profile
    BY <1>7, <1>t DEF FindProfile, At, WorkType
  <2> QED
    BY <1>t, <1>a, <2>1 DEF EditsInv, ProfileInv, AtProfile, Shown
<1>8. CASE CacheProfile(h)
  <2>1. /\ cached'.profile = profile /\ profile' = profile /\ work'[h] = Idle /\ work[h].on = "profile"
    BY <1>8, <1>t DEF CacheProfile, At, Finish, WorkType, ProfileInv, AtProfile
  <2> QED
    BY <1>t, <1>a, <2>1 DEF EditsInv, ProfileInv, AtProfile, Shown, Idle
<1>9. CASE SyncProfile(h)
  <2>1. work[h].row \in Theirs
    BY <1>9, <1>t, Topical DEF SyncProfile, At, ProfileJob, EditJob, ReadJob, FindJob, CacheJob, SyncJob
  <2>2. /\ \A f \in Fields : profile'[f] # "user"
        /\ work'[h] = Idle /\ work[h].on = "profile"
    BY <1>9, <1>t, <2>1 DEF SyncProfile, At, Finish, WorkType, Theirs
  <2> QED
    BY <1>t, <1>a, <2>2 DEF EditsInv, ProfileInv, AtProfile, Shown, Idle
<1> QED
  BY <1>1, <1>2, <1>3, <1>4, <1>5, <1>6, <1>7, <1>8, <1>9 DEF Profiles

LEMMA EditsStep ==
  ASSUME ReviewType, EditsInv, [Next]_vars
  PROVE  EditsInv'
<1>t. WorkType /\ "profile" \in Topics /\ "profile" \notin Overrides
  BY ReviewsAssumption DEF ReviewType, Topics
<1>1. CASE Alone
  <2>1. Away("profile")
    BY <1>1, AloneStep DEF Away
  <2>2. profile' = profile /\ cached' \in {cached, None}
    BY <1>1 DEF Alone, UploadDocument, CreateOverride, CacheExpires, HandleUserCreated, vars
  <2> QED
    BY <2>1, <2>2, ProfileAway
<1>2. ASSUME NEW h \in Handlers, Kyc(h) \/ ManagedUsers(h) \/ Requests(h)
      PROVE  EditsInv'
  <2>1. PICK t \in Topics : Moves(h, t) /\ t # "profile" /\ UNCHANGED <<profile, cached>>
    BY <1>2, <1>t, KycStep, ManagedStep, RequestsStep DEF Acts, Topics
  <2> QED
    BY <1>t, <2>1, MovesAway, ProfileAway
<1>3. ASSUME NEW h \in Handlers, Abort(h) \/ PublishFails(h) PROVE EditsInv'
  <2>1. CASE work[h].on # "profile"
    BY <1>3, <1>t, <2>1, EndStep, MovesAway, ProfileAway
  <2>2. CASE work[h].on = "profile" /\ Abort(h)
    BY <2>2 DEF Abort, EditsInv
  <2>3. CASE work[h].on = "profile" /\ PublishFails(h)
    <3>1. work[h].step # "publish"
      BY <1>t, <2>3, Topical DEF WorkType, ProfileJob, EditJob, ReadJob, FindJob, CacheJob, SyncJob
    <3> QED
      BY <2>3, <3>1 DEF PublishFails
  <2> QED
    BY <1>3, <2>1, <2>2, <2>3
<1> QED
  BY <1>1, <1>2, <1>3, ProfileEdits DEF Next, Alone

(***************************************************************************)
(* What the user wrote and nobody has overwritten is what the cached       *)
(* profile shows, for any number of requests and deliveries, unless a      *)
(* reader and a writer overlapped.                                         *)
(***************************************************************************)
THEOREM EditsAreSeen == Spec => []OwnEditsAreSeen
<1>1. Init => EditsInv
  BY DEF Init, EditsInv, ProfileInv, AtProfile, Idle
<1>2. EditsInv => OwnEditsAreSeen
  BY DEF EditsInv, ProfileInv, AtProfile, Shown, OwnEditsAreSeen, Calm, Busy
<1> QED
  BY <1>1, <1>2, ReviewInit, ReviewStep, EditsStep, PTL DEF Spec

----------------------------------------------------------------------------
(* The KYC status Admin_Service shows.                                     *)

Spoilt == disturbed \cap {"papers", "managed", "lost", "byHand"} # {}

Hears(h) == /\ work[h].on = "managed" /\ work[h].step = "saveManaged"
            /\ work[h].by = "event"

(* The last event sent, or else the row about to be saved for one, or else *)
(* the row that is there, has the status User_Service goes by.             *)
Told ==
  IF toAdmin # <<>> THEN toAdmin[Len(toAdmin)] = kyc
  ELSE \/ \E h \in Handlers : Hears(h) /\ work[h].row.kyc = AdminWord[kyc]
       \/ /\ \A h \in Handlers : ~ Hears(h)
          /\ IF managed = None THEN kyc = "PENDING" ELSE managed.kyc = AdminWord[kyc]

(* That holds but while the new status is still to be published.           *)
ToldInv ==
  /\ PapersInv
  /\ \A g, h \in Handlers : work[g].on = "managed" /\ work[h].on = "managed" => g = h
  /\ \A h \in Handlers : work[h].on = "managed" => managed # None
  /\ Told \/ \E h \in Handlers : AtPapers(h, {"publish"})

KnowInv == Spoilt \/ ToldInv

LEMMA SpoiltStays ==
  ASSUME Spoilt, disturbed \subseteq disturbed'
  PROVE  Spoilt'
BY DEF Spoilt

LEMMA HearsStill ==
  ASSUME Told, UNCHANGED <<kyc, toAdmin, managed>>,
         \A h \in Handlers :
           work'[h].on = "managed" \/ work[h].on = "managed" => work'[h] = work[h]
  PROVE  Told'
<1>1. \A h \in Handlers : Hears(h) => Hears(h)' /\ work'[h] = work[h]
  BY DEF Hears
<1>2. \A h \in Handlers : Hears(h)' => Hears(h)
  BY DEF Hears
<1>3. CASE toAdmin # <<>>
  BY <1>3 DEF Told
<1>4. CASE \E h \in Handlers : Hears(h) /\ work[h].row.kyc = AdminWord[kyc]
  BY <1>1, <1>4 DEF Told
<1>5. CASE \A h \in Handlers : ~ Hears(h)
  BY <1>2, <1>5 DEF Told
<1> QED
  BY <1>3, <1>4, <1>5 DEF Told

LEMMA ToldAway ==
  ASSUME ToldInv, Away("managed"), EvidenceInv', UNCHANGED <<kyc, toAdmin, managed>>,
         \A h \in Handlers : AtPapers(h, {"publish"}) => AtPapers(h, {"publish"})'
  PROVE  KnowInv'
<1>1. \A h \in Handlers :
        work'[h].on = "managed" \/ work[h].on = "managed" => work'[h] = work[h]
  BY DEF Away
<1>2. Told => Told'
  BY <1>1, HearsStill
<1>3. CASE "papers" \in disturbed'
  BY <1>3 DEF KnowInv, Spoilt
<1>4. CASE PapersInv'
  <2>1. /\ \A g, h \in Handlers : work'[g].on = "managed" /\ work'[h].on = "managed" => g = h
        /\ \A h \in Handlers : work'[h].on = "managed" => managed' # None
    BY <1>1 DEF ToldInv
  <2> QED
    BY <1>2, <1>4, <2>1 DEF KnowInv, ToldInv
<1> QED
  BY <1>3, <1>4 DEF EvidenceInv

LEMMA KycTold ==
  ASSUME ReviewType, ToldInv, "papers" \notin disturbed, NEW h \in Handlers, Kyc(h),
         PapersInv'
  PROVE  ToldInv'
<1>t. /\ WorkType /\ RowType /\ work[h] \in Jobs /\ Away("managed") /\ managed' = managed
      /\ \A g \in Handlers : g # h => work'[g] = work[g]
      /\ work[h].on \in {"papers", "nothing"}
  BY KycStep, MovesAway DEF ReviewType, WorkType, Moves, Topics
<1>1. \A g \in Handlers :
        work'[g].on = "managed" \/ work[g].on = "managed" => work'[g] = work[g]
  BY <1>t DEF Away
<1>2. /\ \A f, g \in Handlers : work'[f].on = "managed" /\ work'[g].on = "managed" => f = g
      /\ \A g \in Handlers : work'[g].on = "managed" => managed' # None
  BY <1>t, <1>1 DEF ToldInv
<1>3. Told /\ UNCHANGED <<kyc, toAdmin>> => Told'
  BY <1>t, <1>1, HearsStill
<1>4. CASE PublishKyc(h)
  <2>1. work[h].status = kyc /\ kyc' = kyc
    BY <1>4 DEF PublishKyc, At, ToldInv, PapersInv, AtPapers, reviews
  <2>2. toAdmin' = Append(toAdmin, kyc) /\ toAdmin \in Seq(KycStatus) /\ kyc \in KycStatus
    BY <1>4, <1>t, <2>1 DEF PublishKyc, RowType
  <2>3. toAdmin' # <<>> /\ toAdmin'[Len(toAdmin')] = kyc'
    BY <2>1, <2>2
  <2> QED
    BY <1>2, <2>3 DEF ToldInv, Told
<1>5. CASE SaveKyc(h)
  <2>1. work[h] \in KycJob
    BY <1>5, <1>t, Topical DEF SaveKyc, At, PapersJob, RemoveJob, VerdictJob, KycJob
  <2>2. AtPapers(h, {"publish"})'
    BY <1>5, <1>t, <2>1 DEF SaveKyc, Goto, WorkType, KycJob, AtPapers
  <2> QED
    BY <1>2, <2>2 DEF ToldInv
<1>6. ASSUME UNCHANGED <<kyc, toAdmin>>, work[h].on = "papers" => work[h].step # "publish"
      PROVE  ToldInv'
  <2>1. \A g \in Handlers : AtPapers(g, {"publish"}) => AtPapers(g, {"publish"})'
    BY <1>t, <1>6 DEF AtPapers
  <2> QED
    BY <1>2, <1>3, <1>6, <2>1 DEF ToldInv
<1>7. CASE SaveUser(h)
  <2>1. work[h].on = "papers" /\ work[h].step = "saveUser" /\ kyc' = work[h].status
        /\ work[h].status = kyc /\ toAdmin' = toAdmin
    BY <1>7 DEF SaveUser, At, ToldInv, PapersInv, AtPapers, queues
  <2> QED
    BY <1>6, <2>1
<1>8. CASE \/ UpdateUser(h) \/ RemoveDocument(h) \/ SaveDocument(h) \/ FindDocuments(h)
           \/ \E d \in Docs : \/ DeleteDocument(h, d)
                            \/ \E verdict \in Verdicts : VerifyDocument(h, d, verdict)
  <2>1. UNCHANGED <<kyc, toAdmin>>
    BY <1>8 DEF UpdateUser, RemoveDocument, SaveDocument, FindDocuments, DeleteDocument,
                VerifyDocument, reviews, queues
  <2>2. work[h].on = "papers" => work[h].step # "publish"
    BY <1>8 DEF UpdateUser, RemoveDocument, SaveDocument, FindDocuments, DeleteDocument,
                VerifyDocument, At, Begin, Idle
  <2> QED
    BY <1>6, <2>1, <2>2
<1> QED
  BY <1>4, <1>5, <1>7, <1>8 DEF Kyc

LEMMA LastOfTail ==
  ASSUME NEW S, NEW s \in Seq(S), s # <<>>, Tail(s) # <<>>
  PROVE  Tail(s)[Len(Tail(s))] = s[Len(s)]
<1>1. Len(Tail(s)) = Len(s) - 1 /\ Len(s) \in Nat /\ Len(Tail(s)) \in Nat \ {0}
  BY HeadTailProperties, EmptySeq
<1> QED
  BY <1>1, HeadTailProperties

LEMMA ManagedTold ==
  ASSUME ReviewType, ToldInv, ~ Spoilt, NEW h \in Handlers, ManagedUsers(h), PapersInv'
  PROVE  KnowInv'
<1>t. /\ WorkType /\ RowType /\ work[h] \in Jobs /\ UNCHANGED reviews
      /\ \A g \in Handlers : g # h => work'[g] = work[g]
      /\ work[h].on \in {"managed", "nothing"} /\ work'[h].on \in {"managed", "nothing"}
      /\ disturbed \subseteq disturbed' /\ Away("papers") /\ kyc' = kyc
      /\ kyc \in KycStatus
  BY ManagedStep, MovesAway DEF ReviewType, RowType, WorkType, Moves, Topics, reviews
<1>p. \A g \in Handlers : AtPapers(g, {"publish"}) => AtPapers(g, {"publish"})'
  BY <1>t DEF Away, AtPapers
(* A handler that begins, when another is at work, disturbs.               *)
<1>b. ASSUME NEW j \in Jobs, j.on = "managed", Begin(h, j), ~ Spoilt'
      PROVE  /\ work'[h] = j /\ \A g \in Handlers : g # h => work'[g].on # "managed"
             /\ \A g \in Handlers : ~ Hears(g)
  <2>1. ~ Busy("managed")
    BY <1>b DEF Begin, Spoilt
  <2> QED
    BY <1>t, <1>b, <2>1 DEF Begin, WorkType, Busy, Hears
<1>a. ASSUME work[h].on = "managed"
      PROVE  \A g \in Handlers : g # h => work[g].on # "managed" /\ work'[g].on # "managed"
  BY <1>t, <1>a DEF ToldInv
<1>1. CASE HandleKycStatusUpdated(h)
  <2> SUFFICES ASSUME ~ Spoilt' PROVE ToldInv'
    BY DEF KnowInv
  <2>1. /\ toAdmin # <<>> /\ toAdmin' = Tail(toAdmin) /\ toAdmin \in Seq(KycStatus)
        /\ managed # None /\ managed' = managed
    BY <1>1, <1>t DEF HandleKycStatusUpdated, Spoilt, RowType
  <2> DEFINE row == [managed EXCEPT !.kyc = AdminWord[Head(toAdmin)]]
  <2> DEFINE j == [on |-> "managed", step |-> "saveManaged", by |-> "event", row |-> row]
  <2>2. Head(toAdmin) \in KycStatus /\ managed \in ManagedRow
    BY <1>t, <2>1 DEF RowType
  <2>3. row \in ManagedRow /\ row.kyc = AdminWord[Head(toAdmin)]
    BY <2>2 DEF ManagedRow, KycStatus, Verdicts, AdminWord, ManagedKyc
  <2>4. j \in Jobs /\ j.on = "managed" /\ Begin(h, j)
    BY <1>1, <2>1, <2>3 DEF HandleKycStatusUpdated, Jobs, ManagedJob
  <2>5. /\ work'[h].on = "managed" /\ work'[h].step = "saveManaged" /\ work'[h].by = "event"
        /\ work'[h].row.kyc = AdminWord[Head(toAdmin)]
        /\ \A g \in Handlers : g # h => work'[g].on # "managed"
    <3> HIDE DEF row
    <3>1. j.on = "managed" /\ j.step = "saveManaged" /\ j.by = "event" /\ j.row = row
      OBVIOUS
    <3> HIDE DEF j
    <3>2. work'[h] = j /\ \A g \in Handlers : g # h => work'[g].on # "managed"
      BY <1>b, <2>4
    <3> QED
      BY <2>3, <3>1, <3>2
  <2>6. Hears(h)'
    BY <2>5 DEF Hears
  <2> HIDE DEF j, row
  <2>7. toAdmin[Len(toAdmin)] = kyc => Told'
    <3>1. CASE toAdmin' = <<>>
      <4>1. Len(toAdmin) \in Nat /\ Len(Tail(toAdmin)) = Len(toAdmin) - 1
        BY <2>1, HeadTailProperties, LenProperties
      <4>2. Len(Tail(toAdmin)) = 0
        BY <2>1, <3>1, EmptySeq, Zenon
      <4>3. Len(toAdmin) = 1
        BY <4>1, <4>2
      <4>4. toAdmin[1] = Head(toAdmin)
        BY <2>1, <4>3
      <4> QED
        BY <1>t, <2>5, <2>6, <3>1, <4>3, <4>4 DEF Told
    <3>2. CASE toAdmin' # <<>>
      BY <1>t, <2>1, <3>2, LastOfTail DEF Told
    <3> QED
      BY <3>1, <3>2
  <2> QED
    BY <1>p, <2>1, <2>5, <2>7 DEF ToldInv, Told
<1>2. CASE UpdateManaged(h)
  <2> SUFFICES ASSUME ~ Spoilt' PROVE ToldInv'
    BY DEF KnowInv
  <2>1. PICK row \in Changes \cup Rulings :
          Begin(h, [on |-> "managed", step |-> "saveManaged", by |-> "admin", row |-> row])
    BY <1>2 DEF UpdateManaged
  <2>2. row \in ManagedRow
    BY <1>2, <1>t DEF UpdateManaged, Changes, Rulings, RowType, ManagedRow, Theirs
  <2> DEFINE j == [on |-> "managed", step |-> "saveManaged", by |-> "admin", row |-> row]
  <2>3. j \in Jobs /\ j.on = "managed" /\ Begin(h, j) /\ j.by = "admin"
    BY <2>1, <2>2 DEF Jobs, ManagedJob
  <2> HIDE DEF j
  <2>4. /\ work'[h].by = "admin" /\ \A g \in Handlers : g # h => work'[g].on # "managed"
        /\ \A g \in Handlers : ~ Hears(g)
    BY <1>b, <2>3
  <2>5. \A g \in Handlers : ~ Hears(g)'
    BY <2>4 DEF Hears
  <2>6. UNCHANGED <<managed, toAdmin>> /\ managed # None
    BY <1>2 DEF UpdateManaged, queues
  <2>7. Told => Told'
    BY <1>t, <2>4, <2>5, <2>6 DEF Told
  <2> QED
    BY <1>p, <2>4, <2>6, <2>7 DEF ToldInv
<1>3. CASE SaveManaged(h)
  <2> SUFFICES ASSUME ~ Spoilt' PROVE ToldInv'
    BY DEF KnowInv
  <2>1. work[h] \in ManagedJob /\ work[h].on = "managed" /\ work[h].step = "saveManaged"
    BY <1>3, <1>t, Topical DEF SaveManaged, At
  <2>2. managed' = work[h].row /\ work[h].row \in ManagedRow /\ toAdmin' = toAdmin
    BY <1>3, <2>1 DEF SaveManaged, ManagedJob, queues
  <2>3. managed' # None
    BY <2>2 DEF ManagedRow, None
  <2>4. work[h].by = "admin" => managed'.kyc = managed.kyc
    BY <1>3, <2>2 DEF SaveManaged, Spoilt
  <2>5. ~ Hears(h)'
    <3>1. CASE work[h].by = "admin"
      BY <1>3, <1>t, <2>1, <3>1 DEF SaveManaged, Goto, WorkType, Hears, ManagedJob
    <3>2. CASE work[h].by # "admin"
      BY <1>3, <1>t, <3>2 DEF SaveManaged, Finish, WorkType, Hears, Idle
    <3> QED
      BY <3>1, <3>2
  <2>6. \A g \in Handlers : ~ Hears(g)' /\ (g # h => ~ Hears(g))
    BY <1>a, <2>1, <2>5 DEF Hears
  <2>7. ASSUME Told, toAdmin = <<>> PROVE managed'.kyc = AdminWord[kyc]
    <3>1. CASE work[h].by = "event"
      BY <2>1, <2>2, <2>6, <2>7, <3>1 DEF Told, Hears
    <3>2. CASE work[h].by = "admin"
      <4>1. managed # None
        BY <2>1 DEF ToldInv
      <4> QED
        BY <2>4, <2>6, <2>7, <3>2, <4>1 DEF Told, Hears
    <3> QED
      BY <2>1, <3>1, <3>2 DEF ManagedJob
  <2>8. Told => Told'
    BY <1>t, <2>2, <2>3, <2>6, <2>7 DEF Told
  <2> QED
    BY <1>p, <1>a, <2>1, <2>3, <2>8 DEF ToldInv
<1>4. CASE PublishUpdate(h)
  <2>1. /\ work[h].on = "managed" /\ work[h].step = "publish" /\ work'[h] = Idle
        /\ UNCHANGED <<managed, toAdmin>>
    BY <1>4, <1>t DEF PublishUpdate, At, Finish, WorkType
  <2>2. \A g \in Handlers : Hears(g)' <=> Hears(g)
    BY <1>t, <1>a, <2>1 DEF Hears, Idle
  <2>3. \A g \in Handlers : ~ Hears(g)
    BY <1>a, <2>1 DEF Hears
  <2>4. Told => Told'
    BY <1>t, <2>1, <2>2, <2>3 DEF Told
  <2> QED
    BY <1>p, <1>a, <2>1, <2>4 DEF ToldInv, KnowInv, Idle
<1> QED
  BY <1>1, <1>2, <1>3, <1>4 DEF ManagedUsers

LEMMA KnowStep ==
  ASSUME ReviewType, EvidenceInv, KnowInv, [Next]_vars, EvidenceInv'
  PROVE  KnowInv'
<1>t. /\ WorkType /\ RowType /\ {"papers", "managed"} \subseteq Topics
      /\ Overrides \cap {"papers", "managed"} = {}
  BY ReviewsAssumption DEF ReviewType, Topics
<1>s. ASSUME disturbed \subseteq disturbed' PROVE Spoilt => KnowInv'
  BY <1>s, SpoiltStays DEF KnowInv
<1>p. ~ Spoilt' => PapersInv'
  BY DEF EvidenceInv, Spoilt
<1>1. CASE Alone
  <2>1. UNCHANGED <<work, disturbed>>
    BY <1>1, AloneStep
  <2>2. UNCHANGED <<kyc, toAdmin>>
    BY <1>1 DEF Alone, UploadDocument, CreateOverride, CacheExpires, HandleUserCreated, vars,
                reviews, queues
  <2>3. CASE UNCHANGED managed /\ ToldInv
    <3>1. Away("managed")
      BY <2>1 DEF Away
    <3>2. \A h \in Handlers : AtPapers(h, {"publish"}) => AtPapers(h, {"publish"})'
      BY <2>1 DEF AtPapers
    <3> QED
      BY <2>2, <2>3, <3>1, <3>2, ToldAway
  <2>4. CASE HandleUserCreated /\ ToldInv /\ PapersInv'
    <3>1. managed = None /\ managed'.kyc = "PENDING" /\ managed' # None
      BY <2>4 DEF HandleUserCreated, None
    <3>2. \A h \in Handlers : ~ Hears(h) /\ work[h].on # "managed"
      BY <2>4, <3>1 DEF ToldInv, Hears
    <3>3. \A h \in Handlers : ~ Hears(h)'
      BY <2>1, <3>2 DEF Hears
    <3>4. Told => Told'
      <4>1. CASE toAdmin # <<>>
        BY <2>2, <4>1 DEF Told
      <4>2. CASE toAdmin = <<>>
        <5>1. Told => kyc = "PENDING"
          BY <3>1, <3>2, <4>2 DEF Told
        <5>2. AdminWord["PENDING"] = "PENDING"
          BY DEF AdminWord
        <5> QED
          BY <2>2, <3>1, <3>3, <4>2, <5>1, <5>2 DEF Told
      <4> QED
        BY <4>1, <4>2
    <3>5. \A h \in Handlers : AtPapers(h, {"publish"}) => AtPapers(h, {"publish"})'
      BY <2>1 DEF AtPapers
    <3>6. /\ \A g, h \in Handlers : work'[g].on = "managed" /\ work'[h].on = "managed" => g = h
          /\ \A h \in Handlers : work'[h].on = "managed" => managed' # None
      BY <2>1, <3>1, <3>2
    <3> QED
      BY <2>4, <3>4, <3>5, <3>6 DEF KnowInv, ToldInv
  <2>5. CASE Spoilt
    BY <1>s, <2>1, <2>5
  <2>6. UNCHANGED managed \/ HandleUserCreated
    BY <1>1 DEF Alone, UploadDocument, CreateOverride, CacheExpires, vars
  <2> QED
    BY <1>p, <2>3, <2>4, <2>5, <2>6 DEF KnowInv
<1>2. ASSUME NEW h \in Handlers, Kyc(h) PROVE KnowInv'
  <2>1. disturbed \subseteq disturbed'
    BY <1>2, KycStep DEF Moves
  <2> SUFFICES ASSUME ToldInv, ~ Spoilt' PROVE KnowInv'
    BY <1>s, <2>1 DEF KnowInv
  <2>2. "papers" \notin disturbed
    BY <2>1 DEF Spoilt
  <2> QED
    BY <1>2, <1>p, <2>2, KycTold DEF KnowInv
<1>3. ASSUME NEW h \in Handlers, ManagedUsers(h) PROVE KnowInv'
  <2>1. disturbed \subseteq disturbed'
    BY <1>3, ManagedStep DEF Moves
  <2> SUFFICES ASSUME ToldInv, ~ Spoilt, ~ Spoilt' PROVE KnowInv'
    BY <1>s, <2>1 DEF KnowInv
  <2> QED
    BY <1>3, <1>p, ManagedTold
(* A step about something else.                                            *)
<1>a. ASSUME Away("papers"), Away("managed"), UNCHANGED <<kyc, toAdmin, managed>>
      PROVE  KnowInv'
  <2>1. \A h \in Handlers : AtPapers(h, {"publish"}) => AtPapers(h, {"publish"})'
    BY <1>a DEF Away, AtPapers
  <2>2. disturbed \subseteq disturbed'
    BY <1>a DEF Away
  <2> QED
    BY <1>a, <1>s, <2>1, <2>2, ToldAway DEF KnowInv
<1>4. ASSUME NEW h \in Handlers, Profiles(h) \/ Requests(h) PROVE KnowInv'
  <2>1. PICK t : Moves(h, t) /\ t \notin {"papers", "managed"}
                 /\ UNCHANGED <<kyc, toAdmin, managed>>
    BY <1>4, <1>t, ProfilesStep, RequestsStep DEF Acts, reviews
  <2>2. Away("papers") /\ Away("managed")
    BY <1>t, <2>1, MovesAway
  <2> QED
    BY <1>a, <2>1, <2>2
<1>5. ASSUME NEW h \in Handlers, Abort(h) \/ PublishFails(h) PROVE KnowInv'
  <2>1. CASE PublishFails(h)
    BY <2>1 DEF PublishFails, KnowInv, Spoilt
  <2>2. CASE Abort(h) /\ work[h].on \in {"papers", "managed"}
    BY <2>2 DEF Abort, KnowInv, Spoilt
  <2>3. CASE Abort(h) /\ work[h].on \notin {"papers", "managed"}
    <3>1. Moves(h, work[h].on) /\ UNCHANGED <<kyc, toAdmin, managed>>
      BY <1>5, EndStep DEF reviews, queues
    <3>2. Away("papers") /\ Away("managed")
      BY <1>t, <2>3, <3>1, MovesAway
    <3> QED
      BY <1>a, <3>1, <3>2
  <2> QED
    BY <1>5, <2>1, <2>2, <2>3
<1> QED
  BY <1>1, <1>2, <1>3, <1>4, <1>5 DEF Next, Alone

(***************************************************************************)
(* Once its events are handled, Admin_Service shows the KYC status         *)
(* User_Service goes by, however many documents, admins and deliveries     *)
(* there are, unless an event was lost, found no user, or overlapped       *)
(* another save of the row, or an admin set the status by hand.            *)
(***************************************************************************)
THEOREM AdminsKnow == Spec => []AdminKnowsKyc
<1>1. Init => EvidenceInv /\ KnowInv
  <2>1. Init => PapersInv
    BY DEF Init, PapersInv, AtPapers, Idle
  <2>2. Init => Told
    BY DEF Init, Told, Hears, Idle
  <2> QED
    BY <2>1, <2>2 DEF Init, EvidenceInv, KnowInv, ToldInv, Idle
<1>2. KnowInv => AdminKnowsKyc
  BY DEF KnowInv, ToldInv, Told, Hears, AtPapers, Spoilt, AdminKnowsKyc, Calm, Busy
<1> QED
  BY <1>1, <1>2, ReviewInit, ReviewStep, EvidenceStep, KnowStep, PTL DEF Spec

----------------------------------------------------------------------------
(* The bounds, and what can be disturbed: nothing but a topic, or an event *)
(* on its way.                                                             *)
Bounded ==
  /\ disturbed \subseteq Topics \cup {"lost", "byHand"}
  /\ calls \in 0 .. MaxCalls /\ faults \in 0 .. MaxFaults

LEMMA Begun ==
  ASSUME Bounded, NEW h \in Handlers, NEW j, Begin(h, j), j.on \in Topics
  PROVE  disturbed' \subseteq Topics \cup {"lost", "byHand"}
BY DEF Bounded, Begin

LEMMA Counted ==
  ASSUME Bounded
  PROVE  /\ Call => calls' \in 0 .. MaxCalls
         /\ faults < MaxFaults /\ faults' = faults + 1 => faults' \in 0 .. MaxFaults
BY ReviewsAssumption DEF Bounded, Call

LEMMA BoundedStep ==
  ASSUME ReviewType, Bounded, [Next]_vars
  PROVE  Bounded'
<1> USE DEF reviews, queues
<1>0. /\ disturbed \subseteq Topics \cup {"lost", "byHand"}
      /\ calls \in 0 .. MaxCalls /\ faults \in 0 .. MaxFaults
  BY DEF Bounded
<1>1. ASSUME NEW h \in Handlers, Kyc(h) PROVE Bounded'
  <2>1. "papers" \in Topics
    BY DEF Topics
  <2>2. disturbed' \subseteq Topics \cup {"lost", "byHand"}
    BY <1>0, <1>1, <2>1, Begun
       DEF Kyc, DeleteDocument, RemoveDocument, VerifyDocument, SaveDocument, FindDocuments,
           SaveKyc, PublishKyc, UpdateUser, SaveUser
  <2> QED
    BY <1>0, <1>1, <2>2, Counted
       DEF Bounded, Kyc, DeleteDocument, RemoveDocument, VerifyDocument, SaveDocument,
           FindDocuments, SaveKyc, PublishKyc, UpdateUser, SaveUser
<1>2. ASSUME NEW h \in Handlers, Profiles(h) PROVE Bounded'
  <2>1. "profile" \in Topics
    BY DEF Topics
  <2>2. disturbed' \subseteq Topics \cup {"lost", "byHand"}
    BY <1>0, <1>2, <2>1, Begun
       DEF Profiles, UpdateProfile, SaveProfile, InvalidateProfile, GetProfile, LookUp,
           FindProfile, CacheProfile, HandleAdminUserUpdated, SyncProfile
  <2> QED
    BY <1>0, <1>2, <2>2, Counted
       DEF Bounded, Profiles, UpdateProfile, SaveProfile, InvalidateProfile, GetProfile, LookUp,
           FindProfile, CacheProfile, HandleAdminUserUpdated, SyncProfile
<1>3. ASSUME NEW h \in Handlers, ManagedUsers(h) PROVE Bounded'
  <2>1. "managed" \in Topics
    BY DEF Topics
  <2>2. disturbed' \subseteq Topics \cup {"lost", "byHand"}
    BY <1>0, <1>3, <2>1, Begun
       DEF ManagedUsers, HandleKycStatusUpdated, UpdateManaged, SaveManaged, PublishUpdate
  <2> QED
    BY <1>0, <1>3, <2>2, Counted
       DEF Bounded, ManagedUsers, HandleKycStatusUpdated, UpdateManaged, SaveManaged, PublishUpdate
<1>4. ASSUME NEW h \in Handlers, Requests(h) PROVE Bounded'
  <2>1. Overrides \subseteq Topics
    BY DEF Topics
  <2>2. disturbed' \subseteq Topics \cup {"lost", "byHand"}
    BY <1>0, <1>4, <2>1, Begun
       DEF Requests, Reject, Approve, Decide, SaveDecision, ExecuteOverride, ExecuteFails
  <2> QED
    BY <1>0, <1>4, <2>2, Counted
       DEF Bounded, Requests, Reject, Approve, Decide, SaveDecision, ExecuteOverride, ExecuteFails
<1>5. ASSUME NEW h \in Handlers, PublishFails(h) \/ Abort(h) PROVE Bounded'
  <2>1. work[h] # Idle => work[h].on \in Topics
    BY Topical DEF ReviewType, WorkType, Jobs
  <2> QED
    BY <1>0, <1>5, <2>1, Counted DEF Bounded, PublishFails, Abort
<1>6. ASSUME \/ \E d \in Docs : UploadDocument(d)
             \/ \E r \in Overrides, a \in Admins : CreateOverride(r, a)
             \/ CacheExpires \/ HandleUserCreated \/ UNCHANGED vars
      PROVE  Bounded'
  BY <1>0, <1>6, Counted DEF Bounded, UploadDocument, CreateOverride, CacheExpires,
                             HandleUserCreated, vars
<1> QED
  BY <1>1, <1>2, <1>3, <1>4, <1>5, <1>6 DEF Next

LEMMA TypesImply == ReviewType /\ Bounded => TypeOK
<1> SUFFICES ASSUME ReviewType, Bounded PROVE TypeOK
  OBVIOUS
<1>1. Theirs \subseteq Profile /\ ManagedRow \subseteq Managed
  BY DEF Theirs, Profile, ManagedRow, Managed
<1>2. \A h \in Handlers : work[h] = Idle \/ work[h].on \in Topics
  BY Topical DEF ReviewType, WorkType
<1>3. toUser \in Seq(Profile)
  <2>1. toUser \in Seq(Theirs)
    BY DEF ReviewType, RowType
  <2> QED
    BY <1>1, <2>1
<1> QED
  BY <1>1, <1>2, <1>3 DEF ReviewType, RowType, Bounded, TypeOK

(* Every row, cache and event of a review keeps its type, also the rows    *)
(* that handlers saved from memory.                                        *)
THEOREM TypeCorrect == Spec => []TypeOK
<1>1. Init => ReviewType /\ Bounded
  BY ReviewInit, ReviewsAssumption DEF Init, Bounded
<1>2. ReviewType /\ Bounded /\ [Next]_vars => (ReviewType /\ Bounded)'
  BY ReviewStep, BoundedStep
<1>3. ReviewType /\ Bounded => TypeOK
  BY TypesImply
<1> QED
  BY <1>1, <1>2, <1>3, PTL DEF Spec
=============================================================================
