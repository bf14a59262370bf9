---------------------------- MODULE MintingProofs ----------------------------
(***************************************************************************)
(* Theorems about the credits a trip earns and the balances they add up    *)
(* to, for every finite set of trips, every set of users and requests, and *)
(* any number of lost, repeated and failing messages.                      *)
(***************************************************************************)
EXTENDS Minting, FiniteSetTheorems, WellFoundedInduction, TLAPS

Job == [op : {"submit", "complete", "delete", "hear"},
        stage : {"read", "called", "minted", "published"}, trip : Trips]

MintType ==
  /\ trip \in [Trips -> Status]
  /\ work \in [Workers -> Job \cup {Idle}]
  /\ verification \in [Trips -> Decision]
  /\ approved \in [Trips -> Nat]
  /\ minted \in [Trips -> [Ways -> Nat]]
  /\ adding = [w \in Handlers \cup {Minter} |-> adding[w]]

(* Each approval is announced once, and its message is there until the     *)
(* credits are.                                                            *)
ApprovalInv ==
  /\ adding[Minter].trip \in Trips \cup {None}
  /\ \A t \in Trips :
       /\ verification[t] \in {"NONE", "PENDING"} =>
            approved[t] = 0 /\ minted[t]["approval"] = 0
       /\ t \notin again => minted[t]["approval"] + approved[t] <= 1
       /\ adding[Minter].trip = t => approved[t] > 0

(* Work that presumes that the trip has earned nothing by being completed. *)
Earning(w) ==
  \/ work[w].op \in {"submit", "delete"}
  \/ work[w].op = "complete" /\ work[w].stage \in {"read", "called"}

(* Credits of a completed trip are there only when the trip is VERIFIED,   *)
(* or gone, or about to be so.                                             *)
CompletionInv ==
  \A t \in Trips :
    /\ trip[t] = "NEW" =>
         minted[t]["completion"] = 0 /\ \A w \in Workers : work[w].trip # t
    /\ t \notin torn => \A v, w \in Workers : work[v].trip = t /\ work[w].trip = t => v = w
    /\ t \notin torn \cup again =>
         /\ minted[t]["completion"] <= 1
         /\ minted[t]["completion"] > 0 =>
              \/ trip[t] \in {"VERIFIED", "DELETED"}
              \/ \E w \in Workers : /\ work[w].trip = t /\ work[w].op = "complete"
                                    /\ work[w].stage \in {"minted", "published"}
         /\ \A w \in Workers : work[w].trip = t /\ Earning(w) => minted[t]["completion"] = 0

MintInv == MintType /\ ApprovalInv /\ CompletionInv

LEMMA IdleFields == Idle.trip = None /\ Idle.op = "idle" /\ Idle \notin Job
BY DEF Idle, Job

LEMMA Known == None \notin Trips /\ Minter \notin Workers /\ Minter \notin Handlers
BY MintingAssumption DEF MintingAssumption, Workers

LEMMA MintInit == Init => MintInv
<1> SUFFICES ASSUME Init PROVE MintInv
  OBVIOUS
<1>1. MintType
  BY DEF Init, MintType, Status, NoRow, Decision
<1>2. ApprovalInv
  BY Known DEF Init, ApprovalInv, NotAdding, Ways
<1>3. CompletionInv
  BY Known, IdleFields DEF Init, CompletionInv, Ways
<1> QED
  BY <1>1, <1>2, <1>3 DEF MintInv

LEMMA ApprovalKept ==
  ASSUME MintInv, UNCHANGED <<verification, approved>>, adding'[Minter] = adding[Minter],
         \A t \in Trips : minted'[t]["approval"] = minted[t]["approval"], again \subseteq again'
  PROVE  ApprovalInv'
BY DEF MintInv, ApprovalInv

LEMMA CompletionKept ==
  ASSUME MintInv, UNCHANGED <<trip, work, torn>>,
         \A t \in Trips : minted'[t]["completion"] = minted[t]["completion"], again \subseteq again'
  PROVE  CompletionInv'
BY DEF MintInv, CompletionInv, Earning

----------------------------------------------------------------------------
(* trip-service.                                                           *)

LEMMA OpenStep ==
  ASSUME MintInv, NEW w \in Workers, NEW op \in {"submit", "complete", "delete", "hear"},
         NEW t \in Trips, Open(w, op, t),
         op # "hear" => trip[t] # "VERIFIED"
  PROVE  MintInv'
<1> DEFINE j == [op |-> op, stage |-> "read", trip |-> t]
<1>1. /\ trip[t] \notin NoRow /\ work[w] = Idle /\ work' = [work EXCEPT ![w] = j]
      /\ torn' = IF \E v \in Workers : work[v].trip = t THEN torn \cup {t} ELSE torn
      /\ UNCHANGED <<trip, verification, approved, adding, minted, again>>
  BY DEF Open, queues, credits
<1>2. j \in Job /\ j.op = op /\ j.trip = t /\ j.stage = "read"
  BY DEF Job
<1> HIDE DEF j
<1>3. work'[w] = j /\ \A v \in Workers : v # w => work'[v] = work[v]
  BY <1>1 DEF MintInv, MintType
<1>4. MintType'
  BY <1>1, <1>2 DEF MintInv, MintType
<1>5. ApprovalInv'
  BY <1>1, ApprovalKept
<1>6. ASSUME NEW s \in Trips
      PROVE  /\ trip'[s] = "NEW" =>
                  minted'[s]["completion"] = 0 /\ \A v \in Workers : work'[v].trip # s
             /\ s \notin torn' => \A u, v \in Workers : work'[u].trip = s /\ work'[v].trip = s => u = v
             /\ s \notin torn' \cup again' =>
                  /\ minted'[s]["completion"] <= 1
                  /\ minted'[s]["completion"] > 0 =>
                       \/ trip'[s] \in {"VERIFIED", "DELETED"}
                       \/ \E v \in Workers : /\ work'[v].trip = s /\ work'[v].op = "complete"
                                             /\ work'[v].stage \in {"minted", "published"}
                  /\ \A v \in Workers : work'[v].trip = s /\ Earning(v)' => minted'[s]["completion"] = 0
  <2>1. CASE s # t
    BY <1>1, <1>2, <1>3, <2>1, Known, IdleFields DEF MintInv, CompletionInv, Earning
  <2>2. CASE s = t /\ s \in torn'
    BY <1>1, <2>2 DEF NoRow
  <2>3. CASE s = t /\ s \notin torn'
    <3>1. s \notin torn /\ \A v \in Workers : work[v].trip # t
      BY <1>1, <2>3
    <3>2. \A v \in Workers : work'[v].trip = s => v = w
      BY <1>3, <2>3, <3>1
    <3>3. s \notin again => minted[s]["completion"] = 0 \/ op = "hear"
      <4>1. s \notin again => ~ (minted[s]["completion"] > 0) \/ op = "hear"
        BY <1>1, <2>3, <3>1 DEF MintInv, CompletionInv, NoRow
      <4>2. minted[s]["completion"] \in Nat
        BY DEF MintInv, MintType, Ways
      <4> QED
        BY <4>1, <4>2
    <3>4. s \notin again => /\ minted[s]["completion"] <= 1
                            /\ minted[s]["completion"] > 0 => trip[s] \in {"VERIFIED", "DELETED"}
      BY <2>3, <3>1 DEF MintInv, CompletionInv
    <3> QED
      BY <1>1, <1>2, <1>3, <2>3, <3>2, <3>3, <3>4 DEF Earning, NoRow
  <2> QED
    BY <2>1, <2>2, <2>3
<1>7. CompletionInv'
  BY <1>6 DEF CompletionInv
<1> QED
  BY <1>4, <1>5, <1>7 DEF MintInv

(* A request moves on: it still presumes what it presumed, or mints.       *)
LEMMA StageStep ==
  ASSUME MintInv, NEW w \in Workers, work[w] \in Job,
         NEW stage \in {"read", "called", "minted", "published"}, Stage(w, stage),
         UNCHANGED <<trip, torn, again>>,
         \/ /\ minted' = minted
            /\ Earning(w)' => Earning(w)
            /\ work[w].op = "complete" /\ work[w].stage \in {"minted", "published"} =>
                 stage \in {"minted", "published"}
         \/ /\ work[w].op = "complete" /\ Earning(w) /\ stage \in {"minted", "published"}
            /\ minted' = [minted EXCEPT ![work[w].trip]["completion"] = @ + 1]
  PROVE  /\ CompletionInv' /\ work' \in [Workers -> Job \cup {Idle}]
         /\ minted' \in [Trips -> [Ways -> Nat]]
         /\ \A t \in Trips : minted'[t]["approval"] = minted[t]["approval"]
<1> DEFINE t == work[w].trip
<1>1. t \in Trips
  BY DEF Job
<1>2. /\ work'[w].op = work[w].op /\ work'[w].trip = t /\ work'[w].stage = stage
      /\ work'[w] \in Job
      /\ \A v \in Workers : v # w => work'[v] = work[v]
      /\ work' = [v \in Workers |-> work'[v]]
  BY DEF Stage, MintInv, MintType, Job
<1>3. work' \in [Workers -> Job \cup {Idle}]
  BY <1>2 DEF MintInv, MintType
<1>4. CASE minted' = minted
  <2>1. minted # [minted EXCEPT ![t]["completion"] = @ + 1]
    <3>1. minted[t]["completion"] \in Nat
      BY <1>1 DEF MintInv, MintType, Ways
    <3>2. PICK m : m = [minted EXCEPT ![t]["completion"] = @ + 1]
      OBVIOUS
    <3>3. m[t]["completion"] = minted[t]["completion"] + 1
      BY <1>1, <3>2 DEF MintInv, MintType, Ways
    <3> QED
      BY <3>1, <3>2, <3>3
  <2>2. /\ Earning(w)' => Earning(w)
        /\ work[w].op = "complete" /\ work[w].stage \in {"minted", "published"} =>
             stage \in {"minted", "published"}
    BY <1>4, <2>1
  <2>3. \A v \in Workers : /\ work'[v].trip = work[v].trip /\ work'[v].op = work[v].op
                           /\ Earning(v)' => Earning(v)
                           /\ work[v].op = "complete" /\ work[v].stage \in {"minted", "published"} =>
                                work'[v].stage \in {"minted", "published"}
    BY <1>2, <2>2 DEF Earning
  <2>4. CompletionInv'
    BY <1>4, <2>3 DEF MintInv, CompletionInv
  <2> QED
    BY <1>3, <1>4, <2>4 DEF MintInv, MintType
<1>5. CASE /\ work[w].op = "complete" /\ Earning(w) /\ stage \in {"minted", "published"}
           /\ minted' = [minted EXCEPT ![t]["completion"] = @ + 1]
  <2>1. /\ minted' \in [Trips -> [Ways -> Nat]]
        /\ \A s \in Trips : minted'[s]["approval"] = minted[s]["approval"]
        /\ \A s \in Trips : s # t => minted'[s] = minted[s]
        /\ minted'[t]["completion"] = minted[t]["completion"] + 1
    BY <1>1, <1>5 DEF MintInv, MintType, Ways
  <2>2. trip[t] # "NEW"
    BY <1>1 DEF MintInv, CompletionInv
  <2>3. t \notin torn \cup again => /\ minted[t]["completion"] = 0
                                    /\ \A v \in Workers : work[v].trip = t => v = w
    BY <1>1, <1>5 DEF MintInv, CompletionInv
  <2>4. ~ Earning(w)'
    BY <1>2, <1>5 DEF Earning
  <2>5. ASSUME NEW s \in Trips
        PROVE  /\ trip'[s] = "NEW" =>
                    minted'[s]["completion"] = 0 /\ \A v \in Workers : work'[v].trip # s
               /\ s \notin torn' => \A u, v \in Workers : work'[u].trip = s /\ work'[v].trip = s => u = v
               /\ s \notin torn' \cup again' =>
                    /\ minted'[s]["completion"] <= 1
                    /\ minted'[s]["completion"] > 0 =>
                         \/ trip'[s] \in {"VERIFIED", "DELETED"}
                         \/ \E v \in Workers : /\ work'[v].trip = s /\ work'[v].op = "complete"
                                               /\ work'[v].stage \in {"minted", "published"}
                    /\ \A v \in Workers : work'[v].trip = s /\ Earning(v)' => minted'[s]["completion"] = 0
    <3>1. CASE s # t
      BY <1>2, <2>1, <3>1 DEF MintInv, CompletionInv, Earning
    <3>2. CASE s = t
      <4>1. s \notin torn => \A u, v \in Workers : work'[u].trip = s /\ work'[v].trip = s => u = v
        BY <1>1, <1>2, <3>2 DEF MintInv, CompletionInv
      <4>2. s \notin torn \cup again =>
              /\ minted'[s]["completion"] = 1
              /\ work'[w].trip = s /\ work'[w].op = "complete" /\ work'[w].stage \in {"minted", "published"}
              /\ \A v \in Workers : work'[v].trip = s => v = w
        BY <1>2, <1>5, <2>1, <2>3, <3>2
      <4> QED
        BY <2>2, <2>4, <3>2, <4>1, <4>2
    <3> QED
      BY <3>1, <3>2
  <2>6. CompletionInv'
    BY <2>5 DEF CompletionInv
  <2> QED
    BY <1>3, <2>1, <2>6
<1> QED
  BY <1>4, <1>5

(* A request or the listener is done with its trip.                        *)
LEMMA CloseStep ==
  ASSUME MintInv, NEW w \in Workers, work[w] \in Job, NEW t \in Trips, t = work[w].trip,
         Close(w), UNCHANGED <<torn, verification, approved, adding, minted>>,
         trip' \in [Trips -> Status], trip'[t] # "NEW",
         \A s \in Trips : s # t => trip'[s] = trip[s],
         again \subseteq again',
         t \notin torn \cup again' =>
           minted[t]["completion"] = 0 \/ trip'[t] \in {"VERIFIED", "DELETED"}
  PROVE  MintInv'
<1>1. work'[w] = Idle /\ \A v \in Workers : v # w => work'[v] = work[v]
  BY DEF Close, MintInv, MintType
<1>2. MintType'
  BY DEF Close, MintInv, MintType
<1>3. ApprovalInv'
  BY ApprovalKept
<1>4. \A v \in Workers : work'[v].trip \in Trips =>
        v # w /\ work'[v] = work[v] /\ (Earning(v)' => Earning(v))
  BY <1>1, IdleFields, Known DEF Earning
<1>5. ASSUME NEW s \in Trips
      PROVE  /\ trip'[s] = "NEW" =>
                  minted'[s]["completion"] = 0 /\ \A v \in Workers : work'[v].trip # s
             /\ s \notin torn' => \A u, v \in Workers : work'[u].trip = s /\ work'[v].trip = s => u = v
             /\ s \notin torn' \cup again' =>
                  /\ minted'[s]["completion"] <= 1
                  /\ minted'[s]["completion"] > 0 =>
                       \/ trip'[s] \in {"VERIFIED", "DELETED"}
                       \/ \E v \in Workers : /\ work'[v].trip = s /\ work'[v].op = "complete"
                                             /\ work'[v].stage \in {"minted", "published"}
                  /\ \A v \in Workers : work'[v].trip = s /\ Earning(v)' => minted'[s]["completion"] = 0
  <2>1. CASE s # t
    <3>1. \A v \in Workers : work[v].trip = s => v # w /\ work'[v] = work[v]
      BY <1>1, <2>1
    <3> QED
      BY <1>4, <2>1, <3>1 DEF MintInv, CompletionInv
  <2>2. CASE s = t
    BY <1>4, <2>2 DEF MintInv, CompletionInv
  <2> QED
    BY <2>1, <2>2
<1>6. CompletionInv'
  BY <1>5 DEF CompletionInv
<1> QED
  BY <1>2, <1>3, <1>6 DEF MintInv

LEMMA BusyJob ==
  ASSUME MintInv, NEW w \in Workers, work[w].op # "idle" \/ work[w] # Idle
  PROVE  work[w] \in Job /\ work[w].trip \in Trips
BY DEF MintInv, MintType, Idle, Job

LEMMA WriteType ==
  ASSUME MintInv, NEW t \in Trips, NEW status \in Status \ {"NEW"}, Write(t, status),
         trip[t] # "NEW"
  PROVE  /\ trip' \in [Trips -> Status] /\ trip'[t] # "NEW"
         /\ \A s \in Trips : s # t => trip'[s] = trip[s]
         /\ status = "VERIFIED" => trip'[t] \in {"VERIFIED", "DELETED"}
BY DEF Write, MintInv, MintType, NoRow

LEMMA TripRequest ==
  ASSUME MintInv, NEW h \in Handlers, NEW t \in Trips,
         Submit(h, t) \/ Complete(h, t) \/ Delete(h, t)
  PROVE  MintInv'
<1>1. h \in Workers
  BY DEF Workers
<1>2. /\ trip[t] # "VERIFIED"
      /\ \E op \in {"submit", "complete", "delete"} : Open(h, op, t)
  BY DEF Submit, Complete, Delete, CanSubmit, CanComplete, IsFinal, Request
<1> QED
  BY <1>1, <1>2, OpenStep

LEMMA HandlerMoves ==
  ASSUME MintInv, NEW h \in Handlers, PublishSubmitted(h) \/ Call(h) \/ Answer(h)
  PROVE  MintInv'
<1>1. h \in Workers /\ h # Minter
  BY Known DEF Workers
<1>2. work[h] \in Job /\ work[h].trip \in Trips
  BY <1>1, BusyJob DEF PublishSubmitted, Call, Answer, At
<1>3. PICK stage \in {"called", "minted", "published"} : Stage(h, stage)
  BY DEF PublishSubmitted, Call, Answer
<1>4. /\ UNCHANGED <<trip, torn, again, verification, approved>>
      /\ adding' = [w \in Handlers \cup {Minter} |-> adding'[w]]
      /\ adding'[Minter] = adding[Minter]
  BY <1>1 DEF PublishSubmitted, Call, Answer, BeginAdd, EndAdd, credits, queues, MintInv, MintType
<1>5. \/ /\ minted' = minted
         /\ Earning(h)' => Earning(h)
         /\ work[h].op = "complete" /\ work[h].stage \in {"minted", "published"} =>
              stage \in {"minted", "published"}
      \/ /\ work[h].op = "complete" /\ Earning(h) /\ stage \in {"minted", "published"}
         /\ minted' = [minted EXCEPT ![work[h].trip]["completion"] = @ + 1]
  <2>1. work'[h].op = work[h].op /\ work'[h].stage = stage
    BY <1>1, <1>2, <1>3 DEF Stage, MintInv, MintType, Job
  <2>2. CASE PublishSubmitted(h)
    <3>1. minted' = minted /\ (At(h, "submit", "read") \/ At(h, "complete", "minted"))
      BY <2>2 DEF PublishSubmitted, credits
    <3>2. Stage(h, "published")
      BY <2>2 DEF PublishSubmitted
    <3>3. work'[h].stage = "published"
      BY <1>1, <1>2, <3>2 DEF Stage, MintInv, MintType, Job
    <3> QED
      BY <2>1, <3>1, <3>3 DEF At, Earning
  <2>3. CASE Call(h)
    BY <2>1, <2>3 DEF Call, At, BeginAdd, Earning
  <2>4. CASE Answer(h)
    <3>1. work[h].op = "complete" /\ Earning(h)
      BY <2>4 DEF Answer, At, Earning
    <3>2. /\ Stage(h, "minted") \/ Stage(h, "published")
          /\ minted' = minted \/ minted' = [minted EXCEPT ![work[h].trip]["completion"] = @ + 1]
      BY <2>4 DEF Answer, Add
    <3>3. work'[h].stage \in {"minted", "published"}
      BY <1>1, <1>2, <3>2 DEF Stage, MintInv, MintType, Job
    <3> QED
      BY <2>1, <3>1, <3>2, <3>3 DEF Earning
  <2> QED
    BY <2>2, <2>3, <2>4
<1>6. /\ CompletionInv' /\ work' \in [Workers -> Job \cup {Idle}]
      /\ minted' \in [Trips -> [Ways -> Nat]]
      /\ \A t \in Trips : minted'[t]["approval"] = minted[t]["approval"]
  BY <1>1, <1>2, <1>3, <1>4, <1>5, StageStep
<1>7. MintType'
  BY <1>4, <1>6 DEF MintInv, MintType
<1>8. ApprovalInv'
  BY <1>4, <1>6, ApprovalKept
<1> QED
  BY <1>6, <1>7, <1>8 DEF MintInv

LEMMA HandlerCommits ==
  ASSUME MintInv, NEW h \in Handlers, SubmitCommit(h) \/ CompleteCommit(h) \/ DeleteCommit(h) \/ Abort(h)
  PROVE  MintInv'
<1>1. h \in Workers
  BY DEF Workers
<1>2. work[h] \in Job /\ work[h].trip \in Trips
  BY <1>1, BusyJob DEF SubmitCommit, CompleteCommit, DeleteCommit, Abort, At
<1> DEFINE t == work[h].trip
<1>3. /\ Close(h) /\ UNCHANGED <<torn, verification, approved, adding, minted>> /\ again \subseteq again'
      /\ Abort(h) \/ again' = again
  BY DEF SubmitCommit, CompleteCommit, DeleteCommit, Abort, queues, credits
<1>4. trip[t] # "NEW"
  BY <1>1, <1>2 DEF MintInv, CompletionInv
<1>5. /\ trip' \in [Trips -> Status] /\ trip'[t] # "NEW"
      /\ \A s \in Trips : s # t => trip'[s] = trip[s]
  <2>1. CASE SubmitCommit(h) \/ CompleteCommit(h)
    BY <1>2, <1>4, <2>1, WriteType DEF SubmitCommit, CompleteCommit, Status, NoRow
  <2>2. CASE DeleteCommit(h) \/ Abort(h)
    BY <1>2, <1>4, <2>2 DEF DeleteCommit, Abort, MintInv, MintType, Status, NoRow
  <2> QED
    BY <2>1, <2>2
<1>6. t \notin torn \cup again' => minted[t]["completion"] = 0 \/ trip'[t] \in {"VERIFIED", "DELETED"}
  <2>1. CASE SubmitCommit(h) \/ DeleteCommit(h)
    <3>1. Earning(h)
      BY <2>1 DEF SubmitCommit, DeleteCommit, At, Earning
    <3> QED
      BY <1>1, <1>2, <1>3, <3>1 DEF MintInv, CompletionInv
  <2>2. CASE CompleteCommit(h)
    BY <1>2, <1>4, <2>2, WriteType DEF CompleteCommit, Status, NoRow
  <2>3. CASE Abort(h)
    <3>1. t \notin again' => ~ (minted[t]["completion"] > 0)
      BY <2>3 DEF Abort
    <3>2. minted[t]["completion"] \in Nat
      BY <1>2 DEF MintInv, MintType, Ways
    <3> QED
      BY <3>1, <3>2
  <2> QED
    BY <2>1, <2>2, <2>3
<1> QED
  BY <1>1, <1>2, <1>3, <1>5, <1>6, CloseStep

LEMMA ListenerStep ==
  ASSUME MintInv, HearSave \/ \E t \in Trips : Hear(t)
  PROVE  MintInv'
<1>1. Listener \in Workers
  BY DEF Workers
<1>2. ASSUME NEW t \in Trips, Hear(t)
      PROVE  MintInv'
  <2>1. CASE Open(Listener, "hear", t)
    BY <1>1, <2>1, OpenStep
  <2>2. CASE UNCHANGED <<trips, verification, submitted, approved, credits, again>>
    <3>1. ApprovalInv' /\ CompletionInv'
      BY <2>2, ApprovalKept, CompletionKept DEF trips, credits
    <3> QED
      BY <2>2, <3>1 DEF trips, credits, MintInv, MintType
  <2> QED
    BY <1>2, <2>1, <2>2 DEF Hear
<1>3. CASE HearSave
  <2> DEFINE t == work[Listener].trip
  <2>1. work[Listener] \in Job /\ t \in Trips /\ work[Listener].op = "hear"
    BY <1>1, <1>3, BusyJob DEF HearSave, At
  <2>2. /\ Close(Listener) /\ UNCHANGED <<torn, verification, approved, adding, minted, again>>
        /\ Write(t, "VERIFIED") \/ trip' = trip
    BY <1>3 DEF HearSave, credits
  <2>3. trip[t] # "NEW"
    BY <1>1, <2>1 DEF MintInv, CompletionInv
  <2>4. /\ trip' \in [Trips -> Status] /\ trip'[t] # "NEW"
        /\ \A s \in Trips : s # t => trip'[s] = trip[s]
        /\ trip' = trip \/ trip'[t] \in {"VERIFIED", "DELETED"}
    <3>1. CASE trip' = trip
      BY <2>3, <3>1 DEF MintInv, MintType
    <3>2. CASE Write(t, "VERIFIED")
      BY <2>1, <2>3, <3>2, WriteType DEF Status, NoRow
    <3> QED
      BY <2>2, <3>1, <3>2
  <2>5. t \notin torn \cup again => minted[t]["completion"] = 0 \/ trip'[t] \in {"VERIFIED", "DELETED"}
    <3>1. t \notin torn => ~ \E w \in Workers : work[w].trip = t /\ work[w].op = "complete"
      BY <1>1, <2>1 DEF MintInv, CompletionInv
    <3>2. minted[t]["completion"] \in Nat
      BY <2>1 DEF MintInv, MintType, Ways
    <3>3. t \notin torn \cup again /\ minted[t]["completion"] > 0 => trip[t] \in {"VERIFIED", "DELETED"}
      BY <2>1, <3>1 DEF MintInv, CompletionInv
    <3> QED
      BY <2>4, <3>2, <3>3
  <2> QED
    BY <1>1, <2>1, <2>2, <2>4, <2>5, CloseStep
<1> QED
  BY <1>2, <1>3

LEMMA UploadStep ==
  ASSUME MintInv, NEW t \in Trips, Upload(t)
  PROVE  MintInv'
<1>1. /\ trip[t] = "NEW" /\ trip' = [trip EXCEPT ![t] = "CALCULATED"]
      /\ UNCHANGED <<work, torn, verification, approved, adding, minted, again>>
  BY DEF Upload, queues, credits
<1>2. MintType'
  BY <1>1 DEF MintInv, MintType, Status, NoRow
<1>3. ApprovalInv'
  BY <1>1, ApprovalKept
<1>4. /\ trip'[t] = "CALCULATED" /\ \A s \in Trips : s # t => trip'[s] = trip[s]
      /\ minted[t]["completion"] = 0
  BY <1>1 DEF MintInv, MintType, CompletionInv
<1>5. CompletionInv'
  BY <1>1, <1>4 DEF MintInv, CompletionInv, Earning
<1> QED
  BY <1>2, <1>3, <1>5 DEF MintInv

----------------------------------------------------------------------------
(* credit-service and Verification-Service.                                *)

LEMMA DecisionStep ==
  ASSUME MintInv, NEW t \in Trips,
         HandleTripSubmitted(t) \/ CreateVerification(t) \/ Approve(t) \/ Reject(t)
  PROVE  MintInv'
<1>1. UNCHANGED <<trip, work, torn, adding, minted, again>>
  BY DEF HandleTripSubmitted, CreateVerification, Approve, Reject, trips, credits
<1>2. \/ verification' = verification /\ approved' = approved
      \/ /\ verification[t] = "NONE" /\ verification' = [verification EXCEPT ![t] = "PENDING"]
         /\ approved' = approved
      \/ /\ verification[t] = "PENDING"
         /\ \E verdict \in {"APPROVED", "REJECTED"} :
              verification' = [verification EXCEPT ![t] = verdict]
         /\ approved' = approved \/ approved' = [approved EXCEPT ![t] = @ + 1]
  BY DEF HandleTripSubmitted, CreateVerification, Approve, Reject, OpenToDecision, Publish, queues
<1>3. MintType'
  BY <1>1, <1>2 DEF MintInv, MintType, Decision
<1>4. CompletionInv'
  BY <1>1, CompletionKept
<1>5. ASSUME NEW s \in Trips
      PROVE  /\ verification'[s] \in {"NONE", "PENDING"} => approved'[s] = 0 /\ minted[s]["approval"] = 0
             /\ s \notin again => minted[s]["approval"] + approved'[s] <= 1
             /\ adding[Minter].trip = s => approved'[s] > 0
  <2>1. CASE verification' = verification /\ approved' = approved
    BY <2>1 DEF MintInv, ApprovalInv
  <2>2. CASE /\ verification[t] \in {"NONE", "PENDING"}
             /\ \E d \in Decision : verification' = [verification EXCEPT ![t] = d]
             /\ approved' = approved
    BY <2>2 DEF MintInv, MintType, ApprovalInv
  <2>3. CASE /\ verification[t] = "PENDING" /\ approved' = [approved EXCEPT ![t] = @ + 1]
             /\ \E verdict \in {"APPROVED", "REJECTED"} :
                  verification' = [verification EXCEPT ![t] = verdict]
    <3>1. /\ approved[t] = 0 /\ minted[t]["approval"] = 0 /\ approved'[t] = 1
          /\ verification'[t] \in {"APPROVED", "REJECTED"}
          /\ s # t => approved'[s] = approved[s] /\ verification'[s] = verification[s]
      BY <2>3 DEF MintInv, MintType, ApprovalInv
    <3> QED
      BY <3>1 DEF MintInv, ApprovalInv
  <2> QED
    BY <1>2, <2>1, <2>2, <2>3 DEF Decision
<1>6. ApprovalInv'
  BY <1>1, <1>5 DEF MintInv, ApprovalInv
<1> QED
  BY <1>3, <1>4, <1>6 DEF MintInv

LEMMA AccountStep ==
  ASSUME MintInv, NEW t \in Trips, CreateAccount(t) \/ HearApproved(t)
  PROVE  MintInv'
<1>1. /\ UNCHANGED <<trip, work, torn, verification, approved, minted, again>>
      /\ approved[t] > 0
  BY DEF CreateAccount, HearApproved, BeginAdd, trips, queues
<1>2. adding' = [w \in Handlers \cup {Minter} |-> adding'[w]]
  BY DEF CreateAccount, HearApproved, BeginAdd, MintInv, MintType
<1>3. adding'[Minter] = adding[Minter] \/ adding'[Minter].trip = t
  BY DEF CreateAccount, HearApproved, BeginAdd, MintInv, MintType
<1>4. MintType'
  BY <1>1, <1>2 DEF MintInv, MintType
<1>5. CompletionInv'
  BY <1>1, CompletionKept
<1>6. ApprovalInv'
  BY <1>1, <1>3 DEF MintInv, ApprovalInv
<1> QED
  BY <1>4, <1>5, <1>6 DEF MintInv

LEMMA MintStep ==
  ASSUME MintInv, Mint
  PROVE  MintInv'
<1> DEFINE t == adding[Minter].trip
<1>1. t \in Trips /\ approved[t] > 0 /\ UNCHANGED <<trip, work, torn, verification>>
  BY DEF Mint, trips, MintInv, ApprovalInv
<1>2. /\ adding' = [w \in Handlers \cup {Minter} |-> adding'[w]]
      /\ adding'[Minter].trip = None
  BY DEF Mint, EndAdd, NotAdding, MintInv, MintType
<1>3. \/ UNCHANGED <<minted, approved, again>>
      \/ /\ minted' = [minted EXCEPT ![t]["approval"] = @ + 1]
         /\ \/ approved' = [approved EXCEPT ![t] = @ - 1] /\ again' = again
            \/ approved' = approved /\ again' = again \cup {t}
  BY DEF Mint, Add, Ack, Retry
<1>4. /\ minted' \in [Trips -> [Ways -> Nat]]
      /\ \A s \in Trips : minted'[s]["completion"] = minted[s]["completion"]
      /\ \A s \in Trips : s # t => minted'[s] = minted[s]
      /\ approved' \in [Trips -> Nat]
      /\ \A s \in Trips : s # t => approved'[s] = approved[s]
      /\ again \subseteq again' /\ again' \subseteq again \cup {t}
      /\ \/ UNCHANGED <<minted, approved>>
         \/ /\ minted'[t]["approval"] = minted[t]["approval"] + 1
            /\ approved'[t] = approved[t] - 1 \/ t \in again'
  <2>1. /\ minted \in [Trips -> [Ways -> Nat]] /\ approved \in [Trips -> Nat]
        /\ minted[t]["approval"] \in Nat /\ approved[t] \in Nat \ {0}
    BY <1>1 DEF MintInv, MintType, Ways
  <2>2. CASE UNCHANGED <<minted, approved, again>>
    BY <2>1, <2>2
  <2>3. CASE /\ minted' = [minted EXCEPT ![t]["approval"] = @ + 1]
             /\ \/ approved' = [approved EXCEPT ![t] = @ - 1] /\ again' = again
                \/ approved' = approved /\ again' = again \cup {t}
    <3>1. /\ minted' \in [Trips -> [Ways -> Nat]]
          /\ \A s \in Trips : minted'[s]["completion"] = minted[s]["completion"]
          /\ \A s \in Trips : s # t => minted'[s] = minted[s]
          /\ minted'[t]["approval"] = minted[t]["approval"] + 1
      BY <1>1, <2>1, <2>3 DEF Ways
    <3>2. /\ approved' \in [Trips -> Nat]
          /\ \A s \in Trips : s # t => approved'[s] = approved[s]
          /\ again \subseteq again' /\ again' \subseteq again \cup {t}
          /\ approved'[t] = approved[t] - 1 \/ t \in again'
      BY <1>1, <2>1, <2>3
    <3> QED
      BY <3>1, <3>2
  <2> QED
    BY <1>3, <2>2, <2>3
<1>5. MintType'
  BY <1>1, <1>2, <1>4 DEF MintInv, MintType
<1>6. CompletionInv'
  BY <1>1, <1>4, CompletionKept
<1>7. ASSUME NEW s \in Trips
      PROVE  /\ verification[s] \in {"NONE", "PENDING"} => approved'[s] = 0 /\ minted'[s]["approval"] = 0
             /\ s \notin again' => minted'[s]["approval"] + approved'[s] <= 1
  <2>1. CASE s # t
    BY <1>4, <2>1 DEF MintInv, ApprovalInv
  <2>2. CASE s = t
    <3>1. verification[t] \notin {"NONE", "PENDING"}
      BY <1>1 DEF MintInv, ApprovalInv
    <3>2. minted[t]["approval"] \in Nat /\ approved[t] \in Nat
      BY <1>1 DEF MintInv, MintType, Ways
    <3>3. t \notin again' => minted[t]["approval"] + approved[t] <= 1
      BY <1>1, <1>4 DEF MintInv, ApprovalInv
    <3> QED
      BY <1>4, <2>2, <3>1, <3>2, <3>3
  <2> QED
    BY <2>1, <2>2
<1>8. ApprovalInv'
  BY <1>1, <1>2, <1>7, Known DEF ApprovalInv
<1> QED
  BY <1>5, <1>6, <1>8 DEF MintInv

LEMMA MintingStep == MintInv /\ [Next]_vars => MintInv'
<1> SUFFICES ASSUME MintInv, [Next]_vars PROVE MintInv'
  OBVIOUS
<1>1. ASSUME NEW t \in Trips, \/ Upload(t) \/ CreateVerification(t) \/ Approve(t) \/ Reject(t)
                              \/ \E h \in Handlers : Submit(h, t) \/ Complete(h, t) \/ Delete(h, t)
      PROVE  MintInv'
  BY <1>1, UploadStep, DecisionStep, TripRequest
<1>2. ASSUME NEW h \in Handlers, HandlerStep(h) \/ Abort(h)
      PROVE  MintInv'
  BY <1>2, HandlerMoves, HandlerCommits DEF HandlerStep
<1>3. CASE Consume
  BY <1>3, ListenerStep, MintStep, AccountStep, DecisionStep DEF Consume
<1>4. CASE UNCHANGED vars
  <2>1. ApprovalInv' /\ CompletionInv'
    BY <1>4, ApprovalKept, CompletionKept DEF vars, trips, queues, credits
  <2> QED
    BY <1>4, <2>1 DEF vars, trips, queues, credits, MintInv, MintType
<1> QED
  BY <1>1, <1>2, <1>3, <1>4 DEF Next

(***************************************************************************)
(* A trip that no two requests had open at once, and that no fault struck  *)
(* after its credits were minted, earns them once by being completed and   *)
(* once by being approved, in whatever order the messages of three         *)
(* services arrive.                                                        *)
(***************************************************************************)
THEOREM CreditsMintedOnce == Spec => []MintedOnce
<1>1. Spec => []MintInv
  BY MintInit, MintingStep, PTL DEF Spec
<1>2. MintInv => MintedOnce
  <2> SUFFICES ASSUME MintInv, NEW t \in Trips
               PROVE  /\ minted[t]["completion"] > 1 => t \in torn \cup again
                      /\ minted[t]["approval"] > 1 => t \in again
    BY DEF MintedOnce
  <2>1. minted[t]["completion"] \in Nat /\ minted[t]["approval"] \in Nat /\ approved[t] \in Nat
    BY DEF MintInv, MintType, Ways
  <2>2. /\ t \notin torn \cup again => minted[t]["completion"] <= 1
        /\ t \notin again => minted[t]["approval"] + approved[t] <= 1
    BY DEF MintInv, CompletionInv, ApprovalInv
  <2> QED
    BY <2>1, <2>2
<1> QED
  BY <1>1, <1>2, PTL

----------------------------------------------------------------------------
(* Sums.  MapThenSumSet adds up in the order in which CHOOSE takes the     *)
(* elements of a set.  What is said of the sums over all subsets of a set  *)
(* is shown by an induction on their size: of the subsets it does not hold *)
(* for there would be a smallest.                                          *)

Chosen(S) == CHOOSE x \in S : TRUE

Adding(f, it, s) == IF s = {} THEN 0 ELSE f[Chosen(s)] + it[s \ {Chosen(s)}]

IsIter(f, it, S) == it = [s \in SUBSET S |-> Adding(f, it, s)]

LEMMA LeastNumber ==
  ASSUME NEW N \in SUBSET Nat, N # {}
  PROVE  \E x \in N : \A y \in N : x <= y
<1>1. PICK R : R = OpToRel(<, Nat)
  OBVIOUS
<1>2. IsWellFoundedOn(R, Nat)
  BY <1>1, NatLessThanWellFounded
<1>3. PICK x \in N : \A y \in N : ~ (<<y, x>> \in R)
  BY <1>2, WFMin
<1>4. \A y \in N : y < x => <<y, x>> \in R
  BY <1>1 DEF OpToRel
<1>5. \A y \in N : ~ (y < x) /\ y \in Nat /\ x \in Nat
  BY <1>3, <1>4
<1> QED
  BY <1>5

LEMMA SmallestSet ==
  ASSUME NEW S, IsFiniteSet(S), NEW B \in SUBSET SUBSET S, B # {}
  PROVE  \E s \in B : \A r \in B : Cardinality(s) <= Cardinality(r)
<1>1. \A s \in SUBSET S : Cardinality(s) \in Nat
  BY FS_Subset, FS_CardinalityType
<1>2. PICK N : N = {Cardinality(s) : s \in B}
  OBVIOUS
<1>3. N \in SUBSET Nat /\ N # {}
  BY <1>1, <1>2
<1>4. PICK x \in N : \A y \in N : x <= y
  BY <1>3, LeastNumber
<1> QED
  BY <1>2, <1>4

LEMMA Smaller ==
  ASSUME NEW S, IsFiniteSet(S), NEW s \in SUBSET S, NEW x \in s
  PROVE  /\ s \ {x} \in SUBSET S /\ Cardinality(s) \in Nat
         /\ Cardinality(s \ {x}) = Cardinality(s) - 1
<1>1. IsFiniteSet(s)
  BY FS_Subset
<1> QED
  BY <1>1, FS_RemoveElement, FS_CardinalityType

LEMMA ChosenIn ==
  ASSUME NEW s, s # {}
  PROVE  Chosen(s) \in s
BY DEF Chosen

(* A function that adds up all subsets of S whose size is at most n.       *)
AddsUpTo(f, g, S, n) ==
  /\ g = [s \in SUBSET S |-> g[s]]
  /\ \A s \in SUBSET S : Cardinality(s) <= n => g[s] = Adding(f, g, s)

LEMMA AddsFurther ==
  ASSUME NEW S, IsFiniteSet(S), NEW f, NEW n \in Nat, NEW g, AddsUpTo(f, g, S, n)
  PROVE  \E k : AddsUpTo(f, k, S, n + 1)
<1>1. PICK k : k = [s \in SUBSET S |-> Adding(f, g, s)]
  OBVIOUS
<1>2. \A s \in SUBSET S : k[s] = Adding(f, g, s)
  BY <1>1
<1>3. ASSUME NEW s \in SUBSET S, Cardinality(s) <= n + 1
      PROVE  k[s] = Adding(f, k, s)
  <2>1. CASE s = {}
    BY <1>2, <2>1 DEF Adding
  <2>2. CASE s # {}
    <3>1. PICK x \in s : x = Chosen(s)
      BY <2>2, ChosenIn
    <3>2. PICK r \in SUBSET S : r = s \ {x} /\ Cardinality(r) <= n
      <4>1. /\ s \ {x} \in SUBSET S /\ Cardinality(s) \in Nat
            /\ Cardinality(s \ {x}) = Cardinality(s) - 1
        BY Smaller
      <4> QED
        BY <1>3, <4>1
    <3>3. g[r] = k[r]
      BY <1>2, <3>2 DEF AddsUpTo
    <3> QED
      BY <1>2, <2>2, <3>1, <3>2, <3>3 DEF Adding
  <2> QED
    BY <2>1, <2>2
<1>4. k = [s \in SUBSET S |-> k[s]]
  BY <1>1
<1> QED
  BY <1>3, <1>4 DEF AddsUpTo

LEMMA IterExists ==
  ASSUME NEW S, IsFiniteSet(S), NEW f
  PROVE  \E it : IsIter(f, it, S)
<1>1. PICK N : N = {n \in Nat : ~ \E g : AddsUpTo(f, g, S, n)}
  OBVIOUS
<1>2. 0 \notin N
  <2>1. PICK g : g = [s \in SUBSET S |-> 0]
    OBVIOUS
  <2>2. \A s \in SUBSET S : Cardinality(s) <= 0 => s = {}
    BY FS_Subset, FS_CardinalityType, FS_EmptySet
  <2>3. AddsUpTo(f, g, S, 0)
    BY <2>1, <2>2 DEF AddsUpTo, Adding
  <2> QED
    BY <1>1, <2>3
<1>3. N = {}
  <2> SUFFICES ASSUME N # {} PROVE FALSE
    OBVIOUS
  <2>1. PICK n \in N : \A m \in N : n <= m
    BY <1>1, LeastNumber
  <2>2. n \in Nat /\ n # 0 /\ n - 1 \in Nat /\ n - 1 \notin N
    BY <1>1, <1>2, <2>1
  <2>3. PICK g : AddsUpTo(f, g, S, n - 1)
    BY <1>1, <2>2
  <2>4. \E k : AddsUpTo(f, k, S, (n - 1) + 1)
    BY <2>2, <2>3, AddsFurther
  <2>5. (n - 1) + 1 = n
    BY <2>2
  <2> QED
    BY <1>1, <2>1, <2>4, <2>5
<1>4. Cardinality(S) \in Nat /\ \A s \in SUBSET S : Cardinality(s) <= Cardinality(S)
  BY FS_Subset, FS_CardinalityType
<1>5. PICK g : AddsUpTo(f, g, S, Cardinality(S))
  BY <1>1, <1>3, <1>4
<1>6. g = [s \in SUBSET S |-> g[s]] /\ \A s \in SUBSET S : g[s] = Adding(f, g, s)
  BY <1>4, <1>5 DEF AddsUpTo
<1>7. g = [s \in SUBSET S |-> Adding(f, g, s)]
  BY <1>6
<1> QED
  BY <1>7 DEF IsIter

(* A function that differs from another at one element only changes the    *)
(* sums over the sets with that element, and by as much.                   *)
LEMMA IterChanges ==
  ASSUME NEW S, IsFiniteSet(S), NEW f, NEW g, NEW i, NEW j, NEW t, NEW c \in Int,
         IsIter(f, i, S), IsIter(g, j, S), \A x \in S : f[x] \in Int,
         \A x \in S : g[x] = IF x = t THEN f[x] + c ELSE f[x]
  PROVE  i[S] \in Int /\ j[S] = IF t \in S THEN i[S] + c ELSE i[S]
<1> DEFINE Right(s) == i[s] \in Int /\ j[s] = IF t \in s THEN i[s] + c ELSE i[s]
<1>1. PICK B : B = {s \in SUBSET S : ~ Right(s)}
  OBVIOUS
<1>2. /\ \A s \in SUBSET S : i[s] = Adding(f, i, s)
      /\ \A s \in SUBSET S : j[s] = Adding(g, j, s)
  BY DEF IsIter
<1>3. B = {}
  <2> SUFFICES ASSUME B # {} PROVE FALSE
    OBVIOUS
  <2>1. PICK s \in B : \A r \in B : Cardinality(s) <= Cardinality(r)
    BY <1>1, SmallestSet
  <2>2. s \in SUBSET S /\ ~ Right(s) /\ i[s] = Adding(f, i, s) /\ j[s] = Adding(g, j, s)
    BY <1>1, <1>2
  <2>3. s # {}
    BY <2>2 DEF Adding
  <2>4. PICK x \in s : x = Chosen(s)
    BY <2>3, ChosenIn
  <2>5. PICK r \in SUBSET S : r = s \ {x} /\ ~ (Cardinality(s) <= Cardinality(r))
    <3>1. /\ s \ {x} \in SUBSET S /\ Cardinality(s) \in Nat
          /\ Cardinality(s \ {x}) = Cardinality(s) - 1
      BY <2>2, Smaller
    <3> QED
      BY <3>1
  <2>6. Right(r)
    BY <1>1, <2>1, <2>5
  <2>7. f[x] \in Int /\ g[x] = IF x = t THEN f[x] + c ELSE f[x]
    BY <2>2
  <2>8. i[s] = f[x] + i[r] /\ j[s] = g[x] + j[r]
    BY <2>2, <2>3, <2>4, <2>5 DEF Adding
  <2>9. t \in s <=> (t = x \/ t \in r)
    BY <2>4, <2>5
  <2>10. x \notin r
    BY <2>5
  <2> QED
    BY <2>2, <2>6, <2>7, <2>8, <2>9, <2>10
<1> QED
  BY <1>1, <1>3

LEMMA IterOfZeros ==
  ASSUME NEW S, IsFiniteSet(S), NEW f, NEW i, IsIter(f, i, S), \A x \in S : f[x] = 0
  PROVE  i[S] = 0
<1>1. PICK B : B = {s \in SUBSET S : i[s] # 0}
  OBVIOUS
<1>2. \A s \in SUBSET S : i[s] = Adding(f, i, s)
  BY DEF IsIter
<1>3. B = {}
  <2> SUFFICES ASSUME B # {} PROVE FALSE
    OBVIOUS
  <2>1. PICK s \in B : \A r \in B : Cardinality(s) <= Cardinality(r)
    BY <1>1, SmallestSet
  <2>2. s \in SUBSET S /\ i[s] # 0 /\ i[s] = Adding(f, i, s)
    BY <1>1, <1>2
  <2>3. s # {}
    BY <2>2 DEF Adding
  <2>4. PICK x \in s : x = Chosen(s)
    BY <2>3, ChosenIn
  <2>5. PICK r \in SUBSET S : r = s \ {x} /\ ~ (Cardinality(s) <= Cardinality(r))
    <3>1. /\ s \ {x} \in SUBSET S /\ Cardinality(s) \in Nat
          /\ Cardinality(s \ {x}) = Cardinality(s) - 1
      BY <2>2, Smaller
    <3> QED
      BY <3>1
  <2>6. i[r] = 0 /\ f[x] = 0
    BY <1>1, <2>1, <2>2, <2>5
  <2> QED
    BY <2>2, <2>3, <2>4, <2>5, <2>6 DEF Adding
<1> QED
  BY <1>1, <1>3

(* The credits of a trip, and of all trips of a driver, by the records m.  *)
Earned(m, t) == Co2[t] * (m[t]["completion"] + m[t]["approval"])

TripsOf(u) == {t \in Trips : Driver[t] = u}

EarnedBy(m, u) ==
  MapThenSumSet(LAMBDA t : Co2[t] * (m[t]["completion"] + m[t]["approval"]),
                {t \in Trips : Driver[t] = u})

LEMMA EarnedIsIter ==
  ASSUME NEW m, NEW u, IsFiniteSet(Trips), NEW f, \A t \in Trips : f[t] = Earned(m, t)
  PROVE  \E i : IsIter(f, i, TripsOf(u)) /\ EarnedBy(m, u) = i[TripsOf(u)]
<1> DEFINE Is(i) ==
      i = [s \in SUBSET {t \in Trips : Driver[t] = u} |->
             IF s = {} THEN 0
             ELSE Co2[CHOOSE x \in s : TRUE] * (m[CHOOSE x \in s : TRUE]["completion"]
                                                + m[CHOOSE x \in s : TRUE]["approval"])
                  + i[s \ {CHOOSE x \in s : TRUE}]]
<1>1. EarnedBy(m, u) = (CHOOSE i : Is(i))[{t \in Trips : Driver[t] = u}]
  BY DEF EarnedBy, MapThenSumSet, MapThenFoldSet
<1>2. ASSUME NEW i
      PROVE  Is(i) <=> IsIter(f, i, TripsOf(u))
  <2>1. \A s \in SUBSET TripsOf(u) : s # {} => Chosen(s) \in Trips
    BY ChosenIn DEF TripsOf
  <2>2. \A s \in SUBSET TripsOf(u) :
          Adding(f, i, s) = IF s = {} THEN 0
                            ELSE Earned(m, Chosen(s)) + i[s \ {Chosen(s)}]
    BY <2>1 DEF Adding
  <2>3. [s \in SUBSET TripsOf(u) |-> Adding(f, i, s)]
        = [s \in SUBSET TripsOf(u) |-> IF s = {} THEN 0
                                       ELSE Earned(m, Chosen(s)) + i[s \ {Chosen(s)}]]
    BY <2>2
  <2>4. Is(i) <=> i = [s \in SUBSET TripsOf(u) |->
                         IF s = {} THEN 0 ELSE Earned(m, Chosen(s)) + i[s \ {Chosen(s)}]]
    BY DEF TripsOf, Earned, Chosen
  <2> QED
    BY <2>3, <2>4 DEF IsIter
<1> HIDE DEF Is
<1>3. \E i : Is(i)
  <2>1. IsFiniteSet(TripsOf(u))
    BY FS_Subset DEF TripsOf
  <2>2. PICK i : IsIter(f, i, TripsOf(u))
    BY <2>1, IterExists
  <2> QED
    BY <1>2, <2>2
<1>4. PICK i : Is(i) /\ EarnedBy(m, u) = i[{t \in Trips : Driver[t] = u}]
  BY <1>1, <1>3
<1>5. IsIter(f, i, TripsOf(u))
  BY <1>2, <1>4
<1> QED
  BY <1>4, <1>5 DEF TripsOf

OneMore(m, n, t, way) == n = [m EXCEPT ![t][way] = @ + 1]

(* What one record more adds.                                              *)
LEMMA EarnsMore ==
  ASSUME IsFiniteSet(Trips), NEW m \in [Trips -> [Ways -> Nat]], NEW u,
         NEW t \in Trips, NEW way \in Ways, NEW n, OneMore(m, n, t, way)
  PROVE  /\ EarnedBy(m, u) \in Int
         /\ EarnedBy(n, u) = EarnedBy(m, u) + IF Driver[t] = u THEN Co2[t] ELSE 0
<1>1. PICK f : f = [x \in Trips |-> Earned(m, x)]
  OBVIOUS
<1>2. PICK g : g = [x \in Trips |-> Earned(n, x)]
  OBVIOUS
<1>3. PICK i : IsIter(f, i, TripsOf(u)) /\ EarnedBy(m, u) = i[TripsOf(u)]
  BY <1>1, EarnedIsIter
<1>4. PICK j : IsIter(g, j, TripsOf(u)) /\ EarnedBy(n, u) = j[TripsOf(u)]
  BY <1>2, EarnedIsIter
<1>5. IsFiniteSet(TripsOf(u)) /\ TripsOf(u) \subseteq Trips
  BY FS_Subset DEF TripsOf
<1>6. Co2 \in [Trips -> Nat]
  BY MintingAssumption DEF MintingAssumption
<1>7. \A x \in Trips : f[x] \in Int /\ g[x] = IF x = t THEN f[x] + Co2[t] ELSE f[x]
  <2> TAKE x \in Trips
  <2>1. m[x]["completion"] \in Nat /\ m[x]["approval"] \in Nat /\ Co2[x] \in Nat
    BY <1>6 DEF Ways
  <2>2. PICK k \in Nat : k = m[x]["completion"] + m[x]["approval"]
    BY <2>1
  <2>3. f[x] = Co2[x] * k /\ f[x] \in Int
    BY <1>1, <2>1, <2>2 DEF Earned
  <2>4. CASE x # t
    <3>1. n[x] = m[x]
      BY <2>4 DEF OneMore
    <3> QED
      BY <1>2, <2>2, <2>3, <2>4, <3>1 DEF Earned
  <2>5. CASE x = t
    <3>1. n[x]["completion"] + n[x]["approval"] = k + 1
      BY <2>1, <2>2, <2>5 DEF OneMore, Ways
    <3>2. g[x] = Co2[x] * (k + 1)
      BY <1>2, <3>1 DEF Earned
    <3>3. Co2[x] * (k + 1) = Co2[x] * k + Co2[x]
      BY <2>1, <2>2
    <3> QED
      BY <2>3, <2>5, <3>2, <3>3
  <2> QED
    BY <2>4, <2>5
<1>8. /\ i[TripsOf(u)] \in Int
      /\ j[TripsOf(u)] = IF t \in TripsOf(u) THEN i[TripsOf(u)] + Co2[t] ELSE i[TripsOf(u)]
  <2>1. Co2[t] \in Nat
    BY <1>6
  <2>2. PICK c \in Int : c = Co2[t]
    BY <2>1
  <2>3. /\ \A x \in TripsOf(u) : f[x] \in Int
        /\ \A x \in TripsOf(u) : g[x] = IF x = t THEN f[x] + c ELSE f[x]
    BY <1>5, <1>7, <2>2
  <2>4. /\ i[TripsOf(u)] \in Int
        /\ j[TripsOf(u)] = IF t \in TripsOf(u) THEN i[TripsOf(u)] + c ELSE i[TripsOf(u)]
    BY ONLY <1>3, <1>4, <1>5, <2>3, c \in Int, IterChanges
  <2> QED
    BY <2>2, <2>4
<1>9. t \in TripsOf(u) <=> Driver[t] = u
  BY DEF TripsOf
<1> QED
  BY <1>3, <1>4, <1>8, <1>9

LEMMA NothingEarned ==
  ASSUME IsFiniteSet(Trips), NEW m, \A t \in Trips : \A way \in Ways : m[t][way] = 0, NEW u
  PROVE  EarnedBy(m, u) = 0
<1>1. PICK f : f = [x \in Trips |-> Earned(m, x)]
  OBVIOUS
<1>2. PICK i : IsIter(f, i, TripsOf(u)) /\ EarnedBy(m, u) = i[TripsOf(u)]
  BY <1>1, EarnedIsIter
<1>3. IsFiniteSet(TripsOf(u)) /\ TripsOf(u) \subseteq Trips
  BY FS_Subset DEF TripsOf
<1>4. \A x \in TripsOf(u) : f[x] = 0
  <2> TAKE x \in TripsOf(u)
  <2>1. Co2[x] \in Nat /\ m[x]["completion"] + m[x]["approval"] = 0
    BY <1>3, MintingAssumption DEF MintingAssumption, Ways
  <2>2. f[x] = Co2[x] * 0
    BY <1>1, <1>3, <2>1 DEF Earned
  <2> QED
    BY <2>1, <2>2
<1> QED
  BY <1>2, <1>3, <1>4, IterOfZeros

----------------------------------------------------------------------------
(* Balances.                                                               *)

Adders == Handlers \cup {Minter}

AddingFor(w, u) == adding[w].trip # None /\ Driver[adding[w].trip] = u

Held(u) == IF account[u] = NoAccount THEN 0 ELSE account[u]

(* Alone on an account, a transaction has read what is there; or it found  *)
(* no account, and one was created since, which it will not get past.      *)
ReadIsCurrent(w, u) ==
  AddingFor(w, u) =>
    /\ adding[w].balance = account[u] \/ (adding[w].balance = NoAccount /\ account[u] = 0)
    /\ \A v \in Adders : AddingFor(v, u) => v = w

BooksInv ==
  /\ account \in [Users -> Nat \cup {NoAccount}]
  /\ adding \in [Adders -> [trip : Trips \cup {None}, balance : Nat \cup {NoAccount}]]
  /\ minted \in [Trips -> [Ways -> Nat]]
  /\ \A u \in Users \ raced :
       /\ Held(u) = EarnedBy(minted, u)
       /\ \A w \in Adders : ReadIsCurrent(w, u)

CallsInv ==
  \A h \in Handlers : At(h, "complete", "called") => adding[h].trip = work[h].trip

BalanceInv == BooksInv /\ CallsInv

LEMMA FiniteTrips == IsFiniteSet(Trips) /\ Driver \in [Trips -> Users] /\ Co2 \in [Trips -> Nat]
BY MintingAssumption DEF MintingAssumption

LEMMA BalanceInit == Init => BalanceInv
<1> SUFFICES ASSUME Init PROVE BalanceInv
  OBVIOUS
<1>1. /\ account \in [Users -> Nat \cup {NoAccount}]
      /\ \A u \in Users : Held(u) = 0
  BY DEF Init, Held
<1>2. /\ adding \in [Adders -> [trip : Trips \cup {None}, balance : Nat \cup {NoAccount}]]
      /\ \A w \in Adders : adding[w].trip = None
  BY DEF Init, NotAdding, Adders
<1>3. minted \in [Trips -> [Ways -> Nat]] /\ \A t \in Trips : \A way \in Ways : minted[t][way] = 0
  BY DEF Init
<1>4. \A u \in Users : EarnedBy(minted, u) = 0
  BY <1>3, FiniteTrips, NothingEarned
<1>5. BooksInv
  BY <1>1, <1>2, <1>3, <1>4 DEF BooksInv, ReadIsCurrent, AddingFor
<1>6. CallsInv
  BY DEF Init, CallsInv, At, Idle, Workers
<1> QED
  BY <1>5, <1>6 DEF BalanceInv

LEMMA BooksKept ==
  ASSUME BooksInv, UNCHANGED credits
  PROVE  BooksInv'
BY DEF BooksInv, credits, Held, ReadIsCurrent, AddingFor

LEMMA BooksOpened ==
  ASSUME BooksInv, NEW w \in Adders, NEW t \in Trips, BeginAdd(w, t)
  PROVE  BooksInv' /\ adding'[w].trip = t /\ \A v \in Adders : v # w => adding'[v] = adding[v]
<1> DEFINE u == Driver[t]
           new == [trip |-> t, balance |-> account[u]]
<1>1. /\ adding[w] = NotAdding /\ adding' = [adding EXCEPT ![w] = new]
      /\ raced' = IF \E v \in DOMAIN adding : adding[v].trip # None /\ Driver[adding[v].trip] = u
                  THEN raced \cup {u} ELSE raced
      /\ UNCHANGED <<account, minted>>
  BY DEF BeginAdd
<1>2. u \in Users
  BY FiniteTrips
<1>3. new \in [trip : Trips \cup {None}, balance : Nat \cup {NoAccount}]
      /\ new.trip = t /\ new.balance = account[u]
  BY <1>2 DEF BooksInv
<1> HIDE DEF new
<1>4. /\ adding' \in [Adders -> [trip : Trips \cup {None}, balance : Nat \cup {NoAccount}]]
      /\ adding'[w] = new /\ \A v \in Adders : v # w => adding'[v] = adding[v]
  BY <1>1, <1>3 DEF BooksInv
<1>5. ~ AddingFor(w, u)
  BY <1>1 DEF AddingFor, NotAdding
<1>6. DOMAIN adding = Adders
  BY DEF BooksInv
<1>7. raced \subseteq raced' /\ (u \notin raced' => \A v \in Adders : ~ AddingFor(v, u))
  BY <1>1, <1>6 DEF AddingFor
<1>8. \A v \in Adders : \A x : AddingFor(v, x)' => IF v = w THEN x = u ELSE AddingFor(v, x)
  BY <1>3, <1>4 DEF AddingFor
<1>9. ASSUME NEW x \in Users, x \notin raced', NEW v \in Adders
      PROVE  ReadIsCurrent(v, x)'
  <2>1. CASE x = u
    BY <1>1, <1>3, <1>4, <1>7, <1>8, <1>9, <2>1 DEF ReadIsCurrent
  <2>2. CASE x # u
    <3>1. ReadIsCurrent(v, x)
      BY <1>7, <1>9 DEF BooksInv
    <3> QED
      BY <1>1, <1>4, <1>8, <2>2, <3>1 DEF ReadIsCurrent
  <2> QED
    BY <2>1, <2>2
<1>10. BooksInv'
  BY <1>1, <1>4, <1>7, <1>9 DEF BooksInv, Held
<1> QED
  BY <1>3, <1>4, <1>10

LEMMA Ended ==
  ASSUME BooksInv, NEW w \in Adders, EndAdd(w)
  PROVE  /\ adding' \in [Adders -> [trip : Trips \cup {None}, balance : Nat \cup {NoAccount}]]
         /\ \A v \in Adders : v # w => adding'[v] = adding[v]
         /\ \A v \in Adders : \A x : AddingFor(v, x)' => v # w /\ AddingFor(v, x)
         /\ raced' = raced
<1>1. /\ NotAdding \in [trip : Trips \cup {None}, balance : Nat \cup {NoAccount}]
      /\ NotAdding.trip = None
  BY DEF NotAdding
<1>2. /\ adding' = [adding EXCEPT ![w] = NotAdding] /\ raced' = raced
  BY DEF EndAdd
<1> HIDE DEF NotAdding
<1> QED
  BY <1>1, <1>2 DEF BooksInv, AddingFor

LEMMA BooksClosed ==
  ASSUME BooksInv, NEW w \in Adders, EndAdd(w), UNCHANGED <<account, minted>>
  PROVE  BooksInv'
BY Ended DEF BooksInv, Held, ReadIsCurrent

(* The commit of addCredit: it adds to what is there, or it is not alone.  *)
LEMMA BooksAdded ==
  ASSUME BooksInv, NEW w \in Adders, NEW t \in Trips, NEW way \in Ways, adding[w].trip = t,
         EndAdd(w), CanAdd(w, t), Add(w, t, way)
  PROVE  BooksInv'
<1> DEFINE u == Driver[t]
           was == IF adding[w].balance = NoAccount THEN 0 ELSE adding[w].balance
<1>1. /\ account' = [account EXCEPT ![u] = Co2[t] + was]
      /\ minted' = [minted EXCEPT ![t][way] = @ + 1]
      /\ adding[w].balance = NoAccount => account[u] = NoAccount
  BY DEF Add, CanAdd
<1>2. u \in Users /\ Co2[t] \in Nat /\ was \in Nat
  BY FiniteTrips DEF BooksInv, NoAccount
<1>3. /\ minted' \in [Trips -> [Ways -> Nat]]
      /\ account' \in [Users -> Nat \cup {NoAccount}]
      /\ account'[u] = Co2[t] + was /\ \A x \in Users : x # u => account'[x] = account[x]
  <2>1. minted' \in [Trips -> [Ways -> Nat]]
    BY <1>1 DEF BooksInv, Ways
  <2> HIDE DEF was, NoAccount
  <2> QED
    BY <1>1, <1>2, <2>1 DEF BooksInv
<1>4. \A x \in Users : /\ EarnedBy(minted, x) \in Int
                       /\ EarnedBy(minted', x)
                          = EarnedBy(minted, x) + IF u = x THEN Co2[t] ELSE 0
  <2>1. PICK m : m = minted
    OBVIOUS
  <2>2. PICK n : n = minted'
    OBVIOUS
  <2>3. m \in [Trips -> [Ways -> Nat]] /\ OneMore(m, n, t, way)
    BY <1>1, <2>1, <2>2 DEF BooksInv, OneMore
  <2>4. \A x \in Users : /\ EarnedBy(m, x) \in Int
                         /\ EarnedBy(n, x) = EarnedBy(m, x) + IF u = x THEN Co2[t] ELSE 0
    <3> SUFFICES ASSUME NEW x \in Users
                 PROVE  /\ EarnedBy(m, x) \in Int
                        /\ EarnedBy(n, x) = EarnedBy(m, x) + IF Driver[t] = x THEN Co2[t] ELSE 0
      OBVIOUS
    <3> QED
      BY ONLY <2>3, t \in Trips, way \in Ways, FiniteTrips, EarnsMore
  <2> QED
    BY <2>1, <2>2, <2>4
<1>5. AddingFor(w, u)
  <2>1. None \notin Trips
    BY MintingAssumption DEF MintingAssumption
  <2> QED
    BY <2>1 DEF AddingFor
<1>6. ASSUME NEW x \in Users, x \notin raced
      PROVE  Held(x)' = EarnedBy(minted', x)
  <2>1. Held(x) = EarnedBy(minted, x)
    BY <1>6 DEF BooksInv
  <2>2. CASE x # u
    <3>1. Held(x)' = Held(x)
      BY <1>3, <2>2 DEF Held
    <3> QED
      BY <1>4, <2>1, <2>2, <3>1
  <2>3. CASE x = u
    <3>1. ReadIsCurrent(w, u)
      BY <1>6, <2>3 DEF BooksInv
    <3>2. was = Held(u)
      BY <1>1, <1>5, <3>1 DEF ReadIsCurrent, Held, NoAccount
    <3>3. Held(u)' = Co2[t] + was
      BY <1>2, <1>3 DEF Held, NoAccount
    <3>4. EarnedBy(minted, u) \in Int /\ EarnedBy(minted', u) = EarnedBy(minted, u) + Co2[t]
      BY <1>2, <1>4
    <3> HIDE DEF was
    <3> QED
      BY <1>2, <2>1, <2>3, <3>2, <3>3, <3>4
  <2> QED
    BY <2>2, <2>3
<1>7. ASSUME NEW x \in Users, x \notin raced, NEW v \in Adders
      PROVE  ReadIsCurrent(v, x)'
  <2>1. ReadIsCurrent(v, x) /\ ReadIsCurrent(w, x)
    BY <1>7 DEF BooksInv
  <2>2. CASE x = u
    <3>1. ~ AddingFor(v, u)'
      BY <1>5, <2>1, <2>2, Ended DEF ReadIsCurrent
    <3> QED
      BY <2>2, <3>1 DEF ReadIsCurrent
  <2>3. CASE x # u
    BY <1>3, <2>1, <2>3, Ended DEF ReadIsCurrent
  <2> QED
    BY <2>2, <2>3
<1> QED
  BY <1>3, <1>6, <1>7, Ended DEF BooksInv

LEMMA BooksCreated ==
  ASSUME BooksInv, NEW t \in Trips, CreateAccount(t)
  PROVE  BooksInv'
<1> DEFINE u == Driver[t]
<1>1. /\ account[u] = NoAccount /\ account' = [account EXCEPT ![u] = 0]
      /\ UNCHANGED <<adding, minted, raced>>
  BY DEF CreateAccount
<1>2. u \in Users
  BY FiniteTrips
<1>3. /\ account' \in [Users -> Nat \cup {NoAccount}] /\ account'[u] = 0
      /\ \A x \in Users : x # u => account'[x] = account[x]
  BY <1>1, <1>2 DEF BooksInv
<1>4. \A x \in Users : Held(x)' = Held(x)
  BY <1>1, <1>3 DEF Held, NoAccount
<1>5. ASSUME NEW x \in Users \ raced, NEW w \in Adders
      PROVE  ReadIsCurrent(w, x)'
  <2>1. ReadIsCurrent(w, x)
    BY DEF BooksInv
  <2> QED
    BY <1>1, <1>3, <2>1 DEF ReadIsCurrent, AddingFor, NoAccount
<1> QED
  BY <1>1, <1>3, <1>4, <1>5 DEF BooksInv

LEMMA CallsKept ==
  ASSUME MintInv, CallsInv, NEW S \in SUBSET Handlers,
         \A h \in Handlers \ S : adding'[h] = adding[h],
         \A h \in Handlers \ S :
           At(h, "complete", "called")' => work'[h] = work[h],
         \A h \in S : ~ At(h, "complete", "called")'
  PROVE  CallsInv'
BY DEF CallsInv, At

LEMMA BalanceStep == MintInv /\ BalanceInv /\ [Next]_vars => BalanceInv'
<1> SUFFICES ASSUME MintInv, BalanceInv, [Next]_vars PROVE BalanceInv'
  OBVIOUS
<1>0. BooksInv /\ CallsInv /\ MintType /\ Minter \in Adders /\ Minter \notin Handlers
  BY Known DEF BalanceInv, MintInv, Adders
<1>1. ASSUME NEW h \in Handlers
      PROVE  h \in Workers /\ h \in Adders
  BY DEF Workers, Adders
(* Steps of trip-service that call nobody.                                 *)
<1>2. ASSUME NEW w \in Workers, UNCHANGED credits,
             \A v \in Workers : v # w => work'[v] = work[v],
             ~ (work'[w].op = "complete" /\ work'[w].stage = "called")
      PROVE  BalanceInv'
  <2>1. adding' = adding
    BY <1>2 DEF credits
  <2>2. CallsInv'
    BY <1>0, <1>1, <1>2, <2>1 DEF CallsInv, At
  <2> QED
    BY <1>0, <1>2, <2>2, BooksKept DEF BalanceInv
<1>3. ASSUME UNCHANGED credits, work' = work
      PROVE  BalanceInv'
  <2>1. CallsInv'
    BY <1>0, <1>3 DEF CallsInv, At, credits
  <2> QED
    BY <1>0, <1>3, <2>1, BooksKept DEF BalanceInv
<1>4. ASSUME NEW w \in Workers, NEW op, NEW t \in Trips, Open(w, op, t)
      PROVE  BalanceInv'
  <2>1. /\ UNCHANGED credits
        /\ work' = [work EXCEPT ![w] = [op |-> op, stage |-> "read", trip |-> t]]
    BY <1>4 DEF Open, queues, credits
  <2>2. work'[w].stage = "read" /\ \A v \in Workers : v # w => work'[v] = work[v]
    BY <1>0, <2>1 DEF MintType
  <2> QED
    BY <1>2, <2>1, <2>2
<1>5. ASSUME NEW w \in Workers, Close(w), UNCHANGED credits
      PROVE  BalanceInv'
  <2>1. work'[w] = Idle /\ \A v \in Workers : v # w => work'[v] = work[v]
    BY <1>0, <1>5 DEF MintType, Close
  <2> QED
    BY <1>2, <1>5, <2>1 DEF Idle
<1>6. ASSUME NEW t \in Trips,
             \/ Upload(t) \/ CreateVerification(t) \/ Approve(t) \/ Reject(t)
             \/ HandleTripSubmitted(t)
      PROVE  BalanceInv'
  BY <1>3, <1>6 DEF Upload, CreateVerification, Approve, Reject, HandleTripSubmitted,
                    trips, queues, credits
<1>7. ASSUME NEW t \in Trips, NEW h \in Handlers, Submit(h, t) \/ Complete(h, t) \/ Delete(h, t)
      PROVE  BalanceInv'
  BY <1>1, <1>4, <1>7 DEF Submit, Complete, Delete, Request
<1>8. ASSUME NEW h \in Handlers, SubmitCommit(h) \/ CompleteCommit(h) \/ DeleteCommit(h) \/ Abort(h)
      PROVE  BalanceInv'
  BY <1>1, <1>5, <1>8 DEF SubmitCommit, CompleteCommit, DeleteCommit, Abort, credits
<1>9. ASSUME NEW h \in Handlers, NEW stage, Stage(h, stage)
      PROVE  /\ \A v \in Workers : v # h => work'[v] = work[v]
             /\ work[h] \in Job => /\ work'[h].stage = stage /\ work'[h].trip = work[h].trip
                                   /\ work'[h].op = work[h].op
  BY <1>0, <1>1, <1>9 DEF MintType, Stage, Job
<1>10. ASSUME NEW h \in Handlers, PublishSubmitted(h)
       PROVE  BalanceInv'
  <2>1. work[h] \in Job /\ Stage(h, "published") /\ UNCHANGED credits
    BY <1>1, <1>10, BusyJob DEF PublishSubmitted, At
  <2> QED
    BY <1>1, <1>2, <1>9, <2>1
<1>11. ASSUME NEW h \in Handlers, Call(h)
       PROVE  BalanceInv'
  <2>1. work[h] \in Job /\ work[h].trip \in Trips
    BY <1>1, <1>11, BusyJob DEF Call, At
  <2>2. Stage(h, "called") /\ BeginAdd(h, work[h].trip)
    BY <1>11 DEF Call
  <2>3. /\ BooksInv' /\ adding'[h].trip = work[h].trip
        /\ \A v \in Adders : v # h => adding'[v] = adding[v]
    BY <1>0, <1>1, <2>1, <2>2, BooksOpened
  <2>4. CallsInv'
    BY <1>0, <1>1, <1>9, <2>1, <2>2, <2>3 DEF CallsInv, At
  <2> QED
    BY <2>3, <2>4 DEF BalanceInv
<1>12. ASSUME NEW h \in Handlers, Answer(h)
       PROVE  BalanceInv'
  <2>1. work[h] \in Job /\ work[h].trip \in Trips /\ adding[h].trip = work[h].trip
    BY <1>0, <1>1, <1>12, BusyJob DEF Answer, At, CallsInv
  <2>2. /\ EndAdd(h)
        /\ Stage(h, "minted") \/ Stage(h, "published")
        /\ \/ UNCHANGED <<account, minted>>
           \/ CanAdd(h, work[h].trip) /\ Add(h, work[h].trip, "completion")
    BY <1>12 DEF Answer
  <2>3. BooksInv'
    BY <1>0, <1>1, <2>1, <2>2, BooksClosed, BooksAdded DEF Ways
  <2>4. \A v \in Adders : v # h => adding'[v] = adding[v]
    BY <1>0, <1>1, <2>2, Ended
  <2>5. CallsInv'
    BY <1>0, <1>1, <1>9, <2>1, <2>2, <2>4 DEF CallsInv, At
  <2> QED
    BY <2>3, <2>5 DEF BalanceInv
<1>13. CASE HearSave
  <2>1. Listener \in Workers
    BY DEF Workers
  <2> QED
    BY <1>5, <1>13, <2>1 DEF HearSave, credits
<1>14. ASSUME NEW t \in Trips, Hear(t)
       PROVE  BalanceInv'
  <2>1. Listener \in Workers
    BY DEF Workers
  <2> QED
    BY <1>3, <1>4, <1>14, <2>1 DEF Hear, trips
<1>15. ASSUME \A h \in Handlers : adding'[h] = adding[h], work' = work, BooksInv'
       PROVE  BalanceInv'
  BY <1>0, <1>15 DEF BalanceInv, CallsInv, At
<1>16. ASSUME NEW t \in Trips, CreateAccount(t)
       PROVE  BalanceInv'
  BY <1>0, <1>15, <1>16, BooksCreated DEF CreateAccount, trips
<1>17. ASSUME NEW t \in Trips, HearApproved(t)
       PROVE  BalanceInv'
  BY <1>0, <1>1, <1>15, <1>17, BooksOpened DEF HearApproved, trips
<1>18. CASE Mint
  <2>1. PICK t \in Trips : t = adding[Minter].trip
    BY <1>18 DEF Mint, MintInv, ApprovalInv
  <2>2. /\ EndAdd(Minter) /\ UNCHANGED trips
        /\ UNCHANGED <<account, minted>> \/ (CanAdd(Minter, t) /\ Add(Minter, t, "approval"))
    BY <1>18, <2>1 DEF Mint
  <2>3. BooksInv'
    BY <1>0, <2>1, <2>2, BooksClosed, BooksAdded DEF Ways
  <2> QED
    BY <1>0, <1>1, <1>15, <2>2, <2>3, Ended DEF trips
<1>19. CASE UNCHANGED vars
  BY <1>3, <1>19 DEF vars, trips
<1> QED
  BY <1>6, <1>7, <1>8, <1>10, <1>11, <1>12, <1>13, <1>14, <1>16, <1>17, <1>18, <1>19
  DEF Next, HandlerStep, Consume

(***************************************************************************)
(* A balance is the sum of the credits that its driver's trips have on     *)
(* record, on whichever way and however often they were minted, for every  *)
(* account that no two transactions of addCredit had open at once: also    *)
(* when a call that was answered too late, or a message that came twice,   *)
(* mints again, and when the account is created under a transaction.       *)
(***************************************************************************)
THEOREM BalanceIsAlwaysEarned == Spec => []BalanceIsEarned
<1>1. Spec => [](MintInv /\ BalanceInv)
  BY MintInit, MintingStep, BalanceInit, BalanceStep, PTL DEF Spec
<1>2. BalanceInv => BalanceIsEarned
  <2> SUFFICES ASSUME BalanceInv, NEW u \in Users \ raced, account[u] # NoAccount
               PROVE  account[u] = EarnedBy(minted, u)
    BY DEF BalanceIsEarned, EarnedBy
  <2> QED
    BY DEF BalanceInv, BooksInv, Held
<1> QED
  BY <1>1, <1>2, PTL

----------------------------------------------------------------------------
(* Types.                                                                  *)

(* What the listener of trip-service works on is still in its queue, so    *)
(* that no queue is acknowledged below 0.                                  *)
QueuesInv ==
  /\ submitted \in [Trips -> Nat] /\ heard \in [Trips -> Nat]
  /\ \A t \in Trips : work[Listener].trip = t => heard[t] > 0
  /\ torn \subseteq Trips /\ raced \subseteq Users /\ again \subseteq Trips
  /\ calls \in 0 .. MaxCalls /\ faults \in 0 .. MaxFaults

LEMMA Counted ==
  ASSUME calls \in 0 .. MaxCalls, faults \in 0 .. MaxFaults
  PROVE  /\ calls < MaxCalls /\ calls' = calls + 1 => calls' \in 0 .. MaxCalls
         /\ UNCHANGED calls => calls' \in 0 .. MaxCalls
         /\ Fault \/ NoFault => faults' \in 0 .. MaxFaults
         /\ UNCHANGED faults => faults' \in 0 .. MaxFaults
BY MintingAssumption DEF MintingAssumption, Fault, NoFault

LEMMA QueuesInit == Init => QueuesInv
BY MintingAssumption, Known DEF Init, QueuesInv, Idle, Workers, MintingAssumption

LEMMA QueuesStep ==
  ASSUME MintInv, BalanceInv, QueuesInv, [Next]_vars
  PROVE  QueuesInv'
<1> USE DEF trips, queues, credits
<1>0. /\ submitted \in [Trips -> Nat] /\ heard \in [Trips -> Nat]
      /\ \A t \in Trips : work[Listener].trip = t => heard[t] > 0
      /\ torn \subseteq Trips /\ raced \subseteq Users /\ again \subseteq Trips
      /\ calls \in 0 .. MaxCalls /\ faults \in 0 .. MaxFaults
      /\ Listener \in Workers /\ Listener \notin Handlers
      /\ work \in [Workers -> Job \cup {Idle}] /\ Driver \in [Trips -> Users]
  BY MintingAssumption DEF QueuesInv, MintInv, MintType, Workers, MintingAssumption
<1>1. ASSUME NEW h \in Handlers, NEW op, NEW t \in Trips, Request(h, op, t)
      PROVE  QueuesInv'
  <2>1. work'[Listener] = work[Listener]
    BY <1>0, <1>1 DEF Request, Open
  <2> QED
    BY <1>0, <1>1, <2>1, Counted DEF QueuesInv, Request, Open
<1>2. ASSUME NEW t \in Trips, Upload(t) \/ CreateVerification(t) \/ Approve(t) \/ Reject(t)
      PROVE  QueuesInv'
  <2>1. CASE Approve(t)
    <3>1. heard' \in [Trips -> Nat] /\ \A s \in Trips : heard'[s] >= heard[s]
      BY <1>0, <2>1 DEF Approve, Publish
    <3>2. \A s \in Trips : heard[s] \in Nat /\ heard'[s] \in Nat
      BY <1>0, <3>1
    <3>3. \A s \in Trips : work'[Listener].trip = s => heard'[s] > 0
      BY <1>0, <2>1, <3>1, <3>2 DEF Approve
    <3> QED
      BY <1>0, <2>1, <3>1, <3>3, Counted DEF QueuesInv, Approve
  <2> QED
    BY <1>0, <1>2, <2>1, Counted DEF QueuesInv, Upload, CreateVerification, Reject
<1>3. ASSUME NEW h \in Handlers, HandlerStep(h) \/ Abort(h)
      PROVE  QueuesInv'
  <2>1. work'[Listener] = work[Listener]
    BY <1>0, <1>3
       DEF HandlerStep, PublishSubmitted, SubmitCommit, CompleteCommit, DeleteCommit, Call, Answer,
           Abort, Stage, Close
  <2>2. h \in Workers
    BY DEF Workers
  <2>3. work[h] # Idle => work[h].trip \in Trips
    BY <1>0, <2>2 DEF Job
  <2>4. CASE PublishSubmitted(h)
    <3>1. work[h] # Idle
      BY <2>4 DEF PublishSubmitted, At, Idle
    <3>2. submitted' \in [Trips -> Nat]
      BY <1>0, <2>3, <2>4, <3>1 DEF PublishSubmitted, Publish
    <3> QED
      BY <1>0, <2>1, <2>4, <3>2, Counted DEF QueuesInv, PublishSubmitted
  <2>5. CASE SubmitCommit(h) \/ CompleteCommit(h) \/ DeleteCommit(h)
    BY <1>0, <2>1, <2>5, Counted DEF QueuesInv, SubmitCommit, CompleteCommit, DeleteCommit
  <2>6. CASE Call(h)
    <3>1. work[h] # Idle
      BY <2>6 DEF Call, At, Idle
    <3>2. raced' \subseteq Users
      BY <1>0, <2>3, <2>6, <3>1 DEF Call, BeginAdd
    <3> QED
      BY <1>0, <2>1, <2>6, <3>2, Counted DEF QueuesInv, Call
  <2>7. CASE Answer(h)
    <3>1. faults' \in 0 .. MaxFaults
      BY <1>0, <2>7, Counted DEF Answer
    <3> QED
      BY <1>0, <2>1, <2>7, <3>1, Counted DEF QueuesInv, Answer, EndAdd
  <2>8. CASE Abort(h)
    BY <1>0, <2>1, <2>3, <2>8, Counted DEF QueuesInv, Abort
  <2> QED
    BY <1>3, <2>4, <2>5, <2>6, <2>7, <2>8 DEF HandlerStep
<1>4. CASE HearSave
  <2> DEFINE t == work[Listener].trip
  <2>1. work[Listener] # Idle /\ t \in Trips
    <3>1. work[Listener] # Idle
      BY <1>4 DEF HearSave, At, Idle
    <3> QED
      BY <1>0, <3>1 DEF Job
  <2>2. heard' \in [Trips -> Nat]
    <3>1. heard[t] \in Nat /\ heard[t] > 0
      BY <1>0, <2>1
    <3> QED
      BY <1>0, <1>4, <2>1, <3>1 DEF HearSave, Ack
  <2>3. work'[Listener].trip = None
    BY <1>0, <1>4, IdleFields DEF HearSave, Close
  <2> QED
    BY <1>0, <1>4, <2>2, <2>3, Known, Counted DEF QueuesInv, HearSave
<1>5. ASSUME NEW t \in Trips, Hear(t)
      PROVE  QueuesInv'
  <2>1. CASE trip[t] \in NoRow
    <3>1. work[Listener].trip = None /\ heard[t] \in Nat /\ heard[t] > 0
      BY <1>0, <1>5, IdleFields DEF Hear
    <3>2. heard' \in [Trips -> Nat]
      BY <1>0, <1>5, <2>1, <3>1 DEF Hear, Ack
    <3> QED
      BY <1>0, <1>5, <2>1, <3>1, <3>2, Known, Counted DEF QueuesInv, Hear
  <2>2. CASE trip[t] \notin NoRow
    <3>1. Open(Listener, "hear", t) /\ heard[t] > 0 /\ UNCHANGED <<calls, faults>>
      BY <1>5, <2>2 DEF Hear
    <3>2. work'[Listener].trip = t
      BY <1>0, <3>1 DEF Open
    <3> QED
      BY <1>0, <3>1, <3>2, Counted DEF QueuesInv, Open
  <2> QED
    BY <2>1, <2>2
<1>6. CASE Mint
  <2>1. adding[Minter].trip \in Trips
    BY <1>6 DEF Mint, MintInv, ApprovalInv
  <2>2. faults' \in 0 .. MaxFaults /\ again' \subseteq Trips
    BY <1>0, <1>6, <2>1, Counted DEF Mint
  <2> QED
    BY <1>0, <1>6, <2>2, Counted DEF QueuesInv, Mint, EndAdd
<1>7. ASSUME NEW t \in Trips, CreateAccount(t) \/ HearApproved(t)
      PROVE  QueuesInv'
  BY <1>0, <1>7, Counted DEF QueuesInv, CreateAccount, HearApproved, BeginAdd
<1>8. ASSUME NEW t \in Trips, HandleTripSubmitted(t)
      PROVE  QueuesInv'
  <2>1. submitted[t] \in Nat /\ submitted[t] > 0
    BY <1>0, <1>8 DEF HandleTripSubmitted
  <2>2. submitted' \in [Trips -> Nat]
    BY <1>0, <1>8, <2>1 DEF HandleTripSubmitted, Ack
  <2>3. faults' \in 0 .. MaxFaults
    BY <1>0, <1>8, Counted DEF HandleTripSubmitted
  <2> QED
    BY <1>0, <1>8, <2>2, <2>3, Counted DEF QueuesInv, HandleTripSubmitted
<1>9. CASE UNCHANGED vars
  BY <1>0, <1>9 DEF QueuesInv, vars
<1> QED
  BY <1>1, <1>2, <1>3, <1>4, <1>5, <1>6, <1>7, <1>8, <1>9
     DEF Next, Consume, Submit, Complete, Delete

(* No queue is acknowledged more often than it was published to, and every *)
(* row, balance and record keeps its type.                                 *)
THEOREM TypeCorrect == Spec => []TypeOK
<1>1. Init => MintInv /\ BalanceInv /\ QueuesInv
  BY MintInit, BalanceInit, QueuesInit
<1>2. MintInv /\ BalanceInv /\ QueuesInv /\ [Next]_vars => (MintInv /\ BalanceInv /\ QueuesInv)'
  BY MintingStep, BalanceStep, QueuesStep
<1>3. MintInv /\ BalanceInv /\ QueuesInv => TypeOK
  <2> SUFFICES ASSUME MintInv, BalanceInv, QueuesInv PROVE TypeOK
    OBVIOUS
  <2>1. \A w \in Workers :
          /\ work[w].op \in {"idle", "submit", "complete", "delete", "hear"}
          /\ work[w].stage \in {"read", "called", "minted", "published"}
          /\ work[w].trip \in Trips \cup {None}
    BY DEF MintInv, MintType, Job, Idle
  <2> QED
    BY <2>1 DEF TypeOK, MintInv, MintType, BalanceInv, BooksInv, Adders, QueuesInv
<1> QED
  BY <1>1, <1>2, <1>3, PTL DEF Spec
=============================================================================
