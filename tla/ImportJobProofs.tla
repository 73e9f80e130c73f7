--------------------------- MODULE ImportJobProofs ---------------------------
(* Theorems about ImportJob for every set of jobs, discovery runs and      *)
(* owners, and every value of the times and bounds.                        *)
EXTENDS ImportJob, ProviderLeaseProofs

(* Every step of a worker, a discovery run, a recovery or a crash is, to   *)
(* the lease, a step that ProviderLease allows.  A crash of a worker that  *)
(* has no token leaves the lease alone.                                    *)
LEMMA ImportStepIsLeaseStep == LeaseInv /\ [Next]_vars => [LeaseNext]_leaseVars
<1> SUFFICES ASSUME LeaseInv, [Next]_vars
             PROVE  [LeaseNext]_leaseVars
  OBVIOUS
<1> USE DEF SameLease
<1>0. /\ Job \subseteq Owner
      /\ Sweep \subseteq Owner
      /\ ImportTtl \in Ttls /\ SweepTtl \in Ttls
      /\ \A j \in Job : j \in Job \cup {NoJob}
      /\ NoJob \in Job \cup {NoJob}
  BY ImportAssumption DEF Sweep
<1>1. ASSUME NEW j \in Job, SyncCheck(j) \/ SyncCreate(j) \/ WorkerStep(j)
      PROVE  [LeaseNext]_leaseVars
  <2>1. CASE \/ SyncCheck(j) \/ SyncCreate(j) \/ Start(j) \/ FailUnconfigured(j)
             \/ ClaimDenied(j) \/ FailDenied(j) \/ Verify(j) \/ HeartbeatNotDue(j)
             \/ FetchPage(j) \/ StopPaging(j) \/ FinalizeRefused(j)
             \/ Throw(j) \/ CatchFail(j)
    BY <2>1 DEF SyncCheck, SyncCreate, Start, FailUnconfigured, ClaimDenied, FailDenied,
                Verify, HeartbeatNotDue, FetchPage, StopPaging, FinalizeRefused, Throw, CatchFail
  <2>2. CASE ClaimWithRecovery(j)
    <3>1. Claim(j, j, ImportTtl)
      BY <2>2 DEF ClaimWithRecovery, Claim
    <3> QED
      BY <3>1, <1>0 DEF LeaseNext
  <2>3. CASE Heartbeat(j) \/ HeartbeatFails(j)
    <3>1. Renew(j, ImportTtl) \/ UNCHANGED leaseVars
      BY <2>3 DEF Heartbeat, HeartbeatFails
    <3> QED
      BY <3>1, <1>0 DEF LeaseNext
  <2>4. CASE BeginFinalize(j) \/ CommitFinalize(j) \/ AbortFinalize(j)
    <3>1. BeginLeased(j) \/ CommitLeased(j) \/ AbortLeased(j)
      BY <2>4 DEF BeginFinalize, CommitFinalize, AbortFinalize
    <3> QED
      BY <3>1, <1>0 DEF LeaseNext
  <2>5. CASE ReleaseAfter(j) \/ CatchRelease(j)
    <3>1. Release(j) \/ UNCHANGED leaseVars
      BY <2>5 DEF ReleaseAfter, CatchRelease
    <3> QED
      BY <3>1, <1>0 DEF LeaseNext
  <2> QED
    BY <1>1, <2>1, <2>2, <2>3, <2>4, <2>5 DEF WorkerStep
<1>2. ASSUME NEW s \in Sweep, SweepStep(s)
      PROVE  [LeaseNext]_leaseVars
  <2>1. \/ Claim(s, NoJob, SweepTtl) \/ BeginLeased(s) \/ CommitLeased(s)
        \/ AbortLeased(s) \/ Release(s)
    BY <1>2 DEF SweepStep, SweepClaim, Claim, SweepBegin, SweepCommit, SweepAbort, SweepRelease
  <2> QED
    BY <2>1, <1>0 DEF LeaseNext
<1>3. ASSUME NEW o \in Owner, WorkerCrash(o)
      PROVE  [LeaseNext]_leaseVars
  <2>1. CASE held[o] # 0
    <3>1. Crash(o)
      BY <1>3, <2>1 DEF WorkerCrash, Crash
    <3> QED
      BY <3>1 DEF LeaseNext
  <2>2. CASE held[o] = 0
    <3>1. txn # o
      BY <2>2, LeaseAssumption DEF LeaseInv, TransactionKeepsRow, FenceOrder, HasOwner
    <3>2. UNCHANGED leaseVars
      BY <1>3, <2>2, <3>1 DEF WorkerCrash, leaseVars, LeaseInv, LeaseTypeOK
    <3> QED
      BY <3>2
  <2> QED
    BY <2>1, <2>2
<1>4. CASE Restart \/ RecoveryElsewhere
  BY <1>4 DEF Restart, RecoveryElsewhere
<1>5. CASE Clock
  BY <1>5 DEF Clock, LeaseNext
<1>6. CASE UNCHANGED vars
  BY <1>6 DEF vars
<1> QED
  BY <1>1, <1>2, <1>3, <1>4, <1>5, <1>6 DEF Next

(* The inductive invariant of the lease holds of the import jobs and the   *)
(* discovery runs that compete for it.                                     *)
THEOREM ImportLeaseInvariant == Spec => []LeaseInv
<1>1. Init => LeaseInv
  BY LeaseInitInv DEF Init
<1>2. LeaseInv /\ [Next]_vars => LeaseInv'
  BY ImportStepIsLeaseStep, LeaseStepInv
<1> QED
  BY <1>1, <1>2, PTL DEF Spec

(* Import workers and discovery runs use the lease only as ProviderLease   *)
(* allows; so every theorem about the lease holds of them.                 *)
THEOREM ImportKeepsLease == Spec => LeaseSpec
<1>1. Init => LeaseInit
  BY DEF Init
<1> QED
  BY <1>1, ImportStepIsLeaseStep, ImportLeaseInvariant, PTL DEF Spec, LeaseSpec

-----------------------------------------------------------------------------
(* The jobs are well typed and their rows follow their workers at the      *)
(* start.                                                                  *)
LEMMA ImportInitInv == Init => ImportInv
<1> SUFFICES ASSUME Init PROVE ImportInv
  OBVIOUS
<1>1. LeaseInv
  BY LeaseInitInv DEF Init
<1>2. TypeOK
  <2>1. LeaseTypeOK
    BY <1>1 DEF LeaseInv
  <2>2. 0 \in 0 .. MaxCrashes
    BY ImportAssumption
  <2>3. /\ status \in [Job -> Status] /\ pc \in [Owner -> WorkerState]
        /\ page \in [Owner -> Nat] /\ restarting \in BOOLEAN
    BY DEF Init, Status, WorkerState
  <2> QED
    BY <2>1, <2>2, <2>3 DEF Init, TypeOK
<1>3. RowFollowsWorker
  BY ImportAssumption DEF Init, RowFollowsWorker, UnderWay
<1> QED
  BY <1>1, <1>2, <1>3 DEF ImportInv

(* A recovery turns active rows into abandoned ones and touches no other;  *)
(* a job that a worker is to start may be abandoned before it runs.        *)
LEMMA AbandonKeepsRows ==
  ASSUME TypeOK, RowFollowsWorker, NEW spared, Abandon(spared)
  PROVE  /\ status' \in [Job -> Status]
         /\ \A j \in Job :
               /\ status[j] = "none" => status'[j] = "none"
               /\ status[j] \in Result => status'[j] = status[j]
               /\ pc[j] = "queued" => status'[j] \in {"PENDING", "ABANDONED"}
               /\ pc[j] \in UnderWay => status'[j] \in {"RUNNING", "ABANDONED"}
  BY DEF TypeOK, RowFollowsWorker, Abandon, Status, Active, Result

(* Every step preserves the invariant. *)
LEMMA ImportStepInv == ImportInv /\ [Next]_vars => ImportInv'
<1> SUFFICES ASSUME ImportInv, [Next]_vars
             PROVE  ImportInv'
  OBVIOUS
<1>1. LeaseInv'
  BY ImportStepIsLeaseStep, LeaseStepInv DEF ImportInv
<1>2. LeaseTypeOK'
  BY <1>1 DEF LeaseInv
<1> USE DEF ImportInv
<1>3. ASSUME status' \in [Job -> Status], pc' \in [Owner -> WorkerState],
             page' \in [Owner -> Nat], crashes' \in 0 .. MaxCrashes,
             restarting' \in BOOLEAN,
             RowFollowsWorker'
      PROVE  ImportInv'
  BY <1>1, <1>2, <1>3 DEF TypeOK
<1>0. Job \subseteq Owner
  BY ImportAssumption
<1> USE <1>0 DEF TypeOK, Goto, Write, SameRest
<1>4. ASSUME NEW j \in Job, SyncCheck(j) \/ SyncCreate(j) \/ WorkerStep(j)
      PROVE  ImportInv'
  <2>1. CASE \/ SyncCheck(j) \/ Verify(j) \/ Heartbeat(j) \/ HeartbeatFails(j)
             \/ HeartbeatNotDue(j) \/ StopPaging(j) \/ BeginFinalize(j)
             \/ FinalizeRefused(j) \/ AbortFinalize(j) \/ ReleaseAfter(j)
             \/ Throw(j) \/ CatchRelease(j) \/ ClaimDenied(j)
    <3>1. status' = status /\ UNCHANGED <<page, crashes, restarting>>
      BY <2>1 DEF SyncCheck, Verify, Heartbeat, HeartbeatFails, HeartbeatNotDue, StopPaging,
                  BeginFinalize, FinalizeRefused, AbortFinalize, ReleaseAfter, Throw,
                  CatchRelease, ClaimDenied
    <3>2. PICK to \in WorkerState :
             /\ pc' = [pc EXCEPT ![j] = to]
             /\ \/ pc[j] = "idle" /\ to = "checked"
                \/ pc[j] \in UnderWay /\ to \in UnderWay
                \/ to = "done"
      BY <2>1 DEF SyncCheck, Verify, Heartbeat, HeartbeatFails, HeartbeatNotDue, StopPaging,
                  BeginFinalize, FinalizeRefused, AbortFinalize, ReleaseAfter, Throw,
                  CatchRelease, ClaimDenied, UnderWay, WorkerState
    <3>3. RowFollowsWorker'
      BY <3>1, <3>2 DEF RowFollowsWorker, UnderWay
    <3> QED
      BY <1>3, <3>1, <3>2, <3>3
  <2>2. CASE SyncCreate(j) \/ Start(j)
    <3>1. RowFollowsWorker'
      BY <2>2 DEF SyncCreate, Start, RowFollowsWorker, UnderWay
    <3> QED
      BY <1>3, <2>2, <3>1 DEF SyncCreate, Start, Status, Active, WorkerState
  <2>3. CASE FailUnconfigured(j) \/ FailDenied(j) \/ CatchFail(j)
    <3>1. RowFollowsWorker'
      BY <2>3 DEF FailUnconfigured, FailDenied, CatchFail, RowFollowsWorker, UnderWay
    <3> QED
      BY <1>3, <2>3, <3>1 DEF FailUnconfigured, FailDenied, CatchFail, Status, WorkerState
  <2>4. CASE ClaimWithRecovery(j)
    <3>1. /\ pc' \in [Owner -> WorkerState]
          /\ pc'[j] \in UnderWay /\ pc[j] \in UnderWay
          /\ \A o \in Owner : o # j => pc'[o] = pc[o]
      BY <2>4 DEF ClaimWithRecovery, UnderWay, WorkerState
    <3>2. Abandon({j})
      BY <2>4 DEF ClaimWithRecovery
    <3>3. RowFollowsWorker'
      BY <3>1, <3>2, AbandonKeepsRows DEF RowFollowsWorker, UnderWay
    <3> QED
      BY <1>3, <2>4, <3>1, <3>2, <3>3, AbandonKeepsRows DEF ClaimWithRecovery
  <2>5. CASE FetchPage(j)
    <3>1. RowFollowsWorker'
      BY <2>5 DEF FetchPage, RowFollowsWorker, UnderWay
    <3> QED
      BY <1>3, <2>5, <3>1 DEF FetchPage, WorkerState
  <2>6. CASE CommitFinalize(j)
    <3>1. RowFollowsWorker'
      BY <2>6 DEF CommitFinalize, RowFollowsWorker, UnderWay, Result
    <3> QED
      BY <1>3, <2>6, <3>1 DEF CommitFinalize, Status, WorkerState
  <2> QED
    BY <1>4, <2>1, <2>2, <2>3, <2>4, <2>5, <2>6 DEF WorkerStep
<1>5. ASSUME NEW s \in Sweep, SweepStep(s)
      PROVE  ImportInv'
  <2>0. s \in Owner /\ s \notin Job
    BY DEF Sweep
  <2>1. /\ pc' \in [Owner -> WorkerState]
        /\ \A o \in Owner : o # s => pc'[o] = pc[o]
        /\ page' \in [Owner -> Nat]
        /\ UNCHANGED <<status, crashes, restarting>>
    BY <1>5, <2>0 DEF SweepStep, SweepClaim, SweepBegin, SweepCommit, SweepAbort, SweepRelease,
                      WorkerState
  <2>2. RowFollowsWorker'
    BY <2>0, <2>1 DEF RowFollowsWorker
  <2> QED
    BY <1>3, <2>1, <2>2
<1>6. ASSUME NEW o \in Owner, WorkerCrash(o)
      PROVE  ImportInv'
  <2>1. RowFollowsWorker'
    BY <1>6 DEF WorkerCrash, RowFollowsWorker, UnderWay
  <2> QED
    BY <1>3, <1>6, <2>1, ImportAssumption DEF WorkerCrash, WorkerState
<1>7. CASE Restart \/ RecoveryElsewhere
  <2>1. PICK spared : Abandon(spared)
    BY <1>7 DEF Restart, RecoveryElsewhere, RecoverStaleJobs
  <2>2. UNCHANGED <<pc, page, crashes>> /\ restarting' \in BOOLEAN
    BY <1>7 DEF Restart, RecoveryElsewhere
  <2>3. RowFollowsWorker'
    BY <2>1, <2>2, AbandonKeepsRows DEF RowFollowsWorker
  <2> QED
    BY <1>3, <2>1, <2>2, <2>3, AbandonKeepsRows
<1>8. CASE Clock \/ UNCHANGED vars
  <2>1. UNCHANGED importVars
    BY <1>8 DEF Clock, vars
  <2>2. RowFollowsWorker'
    BY <2>1 DEF importVars, RowFollowsWorker
  <2> QED
    BY <1>3, <2>1, <2>2 DEF importVars
<1> QED
  BY <1>4, <1>5, <1>6, <1>7, <1>8 DEF Next

(* In every reachable state the lease keeps its invariant, the jobs are    *)
(* well typed and the row of a job agrees with what its worker is doing.   *)
THEOREM ImportInvariant == Spec => []ImportInv
  BY ImportInitInv, ImportStepInv, PTL DEF Spec

-----------------------------------------------------------------------------
(* A worker that owns a live lease for its job keeps the job: a claim that *)
(* recovers stale jobs needs the lease expired, and the other recoveries   *)
(* spare the job a live lease names.                                       *)
THEOREM LiveJobsAreKept == Spec => LiveJobNotAbandoned
<1> DEFINE Kept ==
      \A j \in Job :
          (status[j] \in Active /\ status'[j] = "ABANDONED")
            => ~(VerifyOwnership(j) /\ lease.importJobId = j)
<1>1. ImportInv /\ [Next]_vars => [Kept]_vars
  <2> SUFFICES ASSUME ImportInv, [Next]_vars,
                      NEW j \in Job,
                      status[j] \in Active, status'[j] = "ABANDONED",
                      VerifyOwnership(j), lease.importJobId = j
               PROVE  FALSE
    OBVIOUS
  <2>0. /\ LeaseTypeOK /\ TypeOK /\ j \in Owner /\ LeaseAssumption
        /\ LiveForRecovery /\ ~ExpiredForClaim
    BY ImportAssumption, LeaseAssumption
       DEF ImportInv, LeaseInv, LeaseTypeOK, LeaseRow, VerifyOwnership, Owns, LiveForRecovery,
           ExpiredForClaim, HasOwner
  <2>1. ASSUME NEW k \in Job, SyncCheck(k) \/ SyncCreate(k) \/ WorkerStep(k)
        PROVE  FALSE
    <3>1. ~ClaimWithRecovery(k)
      BY <2>0 DEF ClaimWithRecovery, Grant
    <3>2. \/ UNCHANGED status
          \/ \E s \in {"PENDING", "RUNNING", "SUCCESS", "FAILED"} : Write(k, s)
      BY <2>1, <3>1 DEF WorkerStep, SyncCheck, SyncCreate, Start, FailUnconfigured, ClaimDenied,
           FailDenied, Verify, Heartbeat, HeartbeatFails, HeartbeatNotDue, FetchPage,
           StopPaging, BeginFinalize, FinalizeRefused, CommitFinalize, AbortFinalize,
           ReleaseAfter, Throw, CatchRelease, CatchFail
    <3> QED
      BY <2>0, <3>2 DEF Write, TypeOK, Active
  <2>2. ASSUME NEW s \in Sweep, SweepStep(s)
        PROVE  FALSE
    BY <2>2 DEF SweepStep, SweepClaim, SweepBegin, SweepCommit, SweepAbort, SweepRelease, Active
  <2>3. ASSUME NEW o \in Owner, WorkerCrash(o)
        PROVE  FALSE
    BY <2>3 DEF WorkerCrash, Active
  <2>4. CASE Restart \/ RecoveryElsewhere
    <3>1. Abandon({j})
      BY <2>0, <2>4 DEF Restart, RecoveryElsewhere, RecoverStaleJobs
    <3> QED
      BY <2>0, <3>1 DEF Abandon, TypeOK, Active
  <2>5. CASE Clock \/ UNCHANGED vars
    BY <2>5 DEF Clock, vars, importVars, Active
  <2> QED
    BY <2>1, <2>2, <2>3, <2>4, <2>5 DEF Next
<1> QED
  BY <1>1, ImportInvariant, PTL DEF Spec, LiveJobNotAbandoned

(* SUCCESS is written only in a leased transaction, whose owner knows the  *)
(* newest token of all.                                                    *)
THEOREM SupersededAreRefused == Spec => SupersededNeverSucceeds
<1> DEFINE Newest ==
      \A j \in Job :
          (status[j] # "SUCCESS" /\ status'[j] = "SUCCESS")
            => \A o \in Owner : held[o] <= held[j]
<1>1. ImportInv /\ [Next]_vars => [Newest]_vars
  <2> SUFFICES ASSUME ImportInv, [Next]_vars,
                      NEW j \in Job, status[j] # "SUCCESS", status'[j] = "SUCCESS",
                      NEW o \in Owner
               PROVE  held[o] <= held[j]
    OBVIOUS
  <2>0. TypeOK /\ LeaseInv /\ Job \subseteq Owner
    BY ImportAssumption DEF ImportInv
  <2>1. ASSUME NEW k \in Job, SyncCheck(k) \/ SyncCreate(k) \/ WorkerStep(k)
        PROVE  held[o] <= held[j]
    <3>1. CASE CommitFinalize(k)
      <4>1. k = j /\ txn = j
        BY <2>0, <3>1 DEF CommitFinalize, CommitLeased, Write, TypeOK
      <4> QED
        BY <2>0, <4>1, LeaseAssumption
           DEF LeaseInv, LeaseTypeOK, LeaseRow, TransactionKeepsRow, FenceOrder
    <3>2. CASE ClaimWithRecovery(k)
      BY <2>0, <3>2 DEF ClaimWithRecovery, Abandon, TypeOK
    <3>3. CASE ~CommitFinalize(k) /\ ~ClaimWithRecovery(k)
      <4>1. \/ UNCHANGED status
            \/ \E s \in {"PENDING", "RUNNING", "FAILED"} : Write(k, s)
        BY <2>1, <3>3 DEF WorkerStep, SyncCheck, SyncCreate, Start, FailUnconfigured, ClaimDenied,
             FailDenied, Verify, Heartbeat, HeartbeatFails, HeartbeatNotDue, FetchPage,
             StopPaging, BeginFinalize, FinalizeRefused, AbortFinalize,
             ReleaseAfter, Throw, CatchRelease, CatchFail
      <4> QED
        BY <2>0, <4>1 DEF Write, TypeOK
    <3> QED
      BY <3>1, <3>2, <3>3
  <2>2. ASSUME NEW s \in Sweep, SweepStep(s)
        PROVE  FALSE
    BY <2>2 DEF SweepStep, SweepClaim, SweepBegin, SweepCommit, SweepAbort, SweepRelease
  <2>3. ASSUME NEW p \in Owner, WorkerCrash(p)
        PROVE  FALSE
    BY <2>3 DEF WorkerCrash
  <2>4. CASE Restart \/ RecoveryElsewhere
    BY <2>0, <2>4 DEF Restart, RecoveryElsewhere, RecoverStaleJobs, Abandon, TypeOK
  <2>5. CASE Clock \/ UNCHANGED vars
    BY <2>5 DEF Clock, vars, importVars
  <2> QED
    BY <2>1, <2>2, <2>3, <2>4, <2>5 DEF Next
<1> QED
  BY <1>1, ImportInvariant, PTL DEF Spec, SupersededNeverSucceeds

(* No step overwrites the result of a job: each worker that could write    *)
(* one is under way, and a recovery abandons only active rows.             *)
THEOREM ResultsStay == Spec => ResultsAreFinal
<1> DEFINE Final == \A j \in Job : status[j] \in Result => status'[j] = status[j]
<1>1. ImportInv /\ [Next]_vars => [Final]_vars
  <2> SUFFICES ASSUME ImportInv, [Next]_vars, NEW j \in Job, status[j] \in Result
               PROVE  status'[j] = status[j]
    OBVIOUS
  <2>0. TypeOK /\ RowFollowsWorker
    BY DEF ImportInv
  <2>1. ASSUME NEW k \in Job, SyncCheck(k) \/ SyncCreate(k) \/ WorkerStep(k)
        PROVE  status'[j] = status[j]
    <3>1. CASE ClaimWithRecovery(k)
      BY <2>0, <3>1, AbandonKeepsRows DEF ClaimWithRecovery
    <3>2. CASE ~ClaimWithRecovery(k)
      <4>1. \/ UNCHANGED status
            \/ /\ pc[k] \in UnderWay \cup {"checked", "queued"}
               /\ \E s \in Status : Write(k, s)
        BY <2>1, <3>2 DEF WorkerStep, SyncCheck, SyncCreate, Start, FailUnconfigured, ClaimDenied,
             FailDenied, Verify, Heartbeat, HeartbeatFails, HeartbeatNotDue, FetchPage,
             StopPaging, BeginFinalize, FinalizeRefused, CommitFinalize, AbortFinalize,
             ReleaseAfter, Throw, CatchRelease, CatchFail, Goto, UnderWay, Status, Active
      <4>2. pc[k] \in UnderWay \cup {"checked", "queued"} => status[k] \notin Result
        BY <2>0 DEF RowFollowsWorker, Result
      <4> QED
        BY <2>0, <4>1, <4>2 DEF Write, TypeOK
    <3> QED
      BY <3>1, <3>2
  <2>2. ASSUME NEW s \in Sweep, SweepStep(s)
        PROVE  status'[j] = status[j]
    BY <2>2 DEF SweepStep, SweepClaim, SweepBegin, SweepCommit, SweepAbort, SweepRelease
  <2>3. ASSUME NEW p \in Owner, WorkerCrash(p)
        PROVE  status'[j] = status[j]
    BY <2>3 DEF WorkerCrash
  <2>4. CASE Restart \/ RecoveryElsewhere
    BY <2>0, <2>4, AbandonKeepsRows DEF Restart, RecoveryElsewhere, RecoverStaleJobs
  <2>5. CASE Clock \/ UNCHANGED vars
    BY <2>5 DEF Clock, vars, importVars
  <2> QED
    BY <2>1, <2>2, <2>3, <2>4, <2>5 DEF Next
<1> QED
  BY <1>1, ImportInvariant, PTL DEF Spec, ResultsAreFinal
=============================================================================
