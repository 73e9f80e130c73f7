------------------------------ MODULE ImportJob ------------------------------
(***************************************************************************)
(* The full-sync import jobs of copart/copart.service.ts, the recovery of  *)
(* stale jobs and the discovery runs that compete with them for one        *)
(* provider's lease.                                                       *)
(*                                                                         *)
(* An import job is processed once, by the worker that its own sync call   *)
(* started, under a token drawn for that run: so the job's id stands for   *)
(* the token.  The other owners are the tokens of discovery runs.  Each    *)
(* await of a worker ends a step.  What the pages hold, the budget and the *)
(* job deadline only decide when paging stops, which is left open here.    *)
(***************************************************************************)
EXTENDS ProviderLease

CONSTANTS ImportTtl,   \* IMPORT_LEASE_TTL_MS
          SweepTtl,    \* IMPORT_JOB_TIMEOUT_MS + 60000, the ttl of discovery
          MaxPages,    \* IMPORT_MAX_PAGES
          SweepPages,  \* the page limit of one discovery run
          MaxCrashes   \* bound on the crashes

ASSUME ImportAssumption ==
    /\ Job \subseteq Owner
    /\ {ImportTtl, SweepTtl} \subseteq Ttls
    /\ MaxPages \in Nat \ {0}
    /\ SweepPages \in Nat \ {0}
    /\ MaxCrashes \in Nat

VARIABLES status,      \* status[j]: the status column of import_jobs, "none" before the row
          pc,          \* pc[o]: where the worker of token o is
          page,        \* page[o]: pages the worker of o has asked for or written
          crashes,     \* instances that have crashed
          restarting   \* an instance has crashed and is not up again

importVars == <<status, pc, page, crashes, restarting>>
vars == <<leaseVars, importVars>>

Sweep == Owner \ Job

Active == {"PENDING", "RUNNING"}

(* PARTIAL_SUCCESS is a SUCCESS with errors; the two are not told apart. *)
Status == {"none", "SUCCESS", "FAILED", "ABANDONED"} \cup Active

WorkerState == {"idle", "checked", "queued", "started", "denied", "fetching",
                "verified", "requesting", "processing", "finalizing", "releasing",
                "catching", "failing", "sweeping", "persisting", "leaving",
                "done", "dead"}

(* Where a worker has started and its job has no result yet.               *)
UnderWay == {"started", "denied", "fetching", "verified", "requesting", "processing",
             "finalizing", "catching", "failing"}

Result == {"SUCCESS", "FAILED"}

TypeOK == /\ LeaseTypeOK
          /\ status \in [Job -> Status]
          /\ pc \in [Owner -> WorkerState]
          /\ page \in [Owner -> Nat]
          /\ crashes \in 0 .. MaxCrashes
          /\ restarting \in BOOLEAN

Init == /\ LeaseInit
        /\ status = [j \in Job |-> "none"]
        /\ pc = [o \in Owner |-> "idle"]
        /\ page = [o \in Owner |-> 0]
        /\ crashes = 0
        /\ restarting = FALSE

Goto(o, from, to) == pc[o] = from /\ pc' = [pc EXCEPT ![o] = to]

Write(j, s) == status' = [status EXCEPT ![j] = s]

SameLease == UNCHANGED leaseVars
SameRest == UNCHANGED <<page, crashes, restarting>>

-----------------------------------------------------------------------------
(* sync and syncByPlatform: findFirst, await, create; then setImmediate.   *)
(* A call that finds an active job changes nothing.                        *)
SyncCheck(j) ==
    /\ Goto(j, "idle", "checked")
    /\ \A k \in Job : status[k] \notin Active
    /\ SameLease /\ SameRest /\ UNCHANGED status

SyncCreate(j) ==
    /\ Goto(j, "checked", "queued")
    /\ Write(j, "PENDING")
    /\ SameLease /\ SameRest

(* The first statement of processImportJobWithPlatform, unconditional.     *)
Start(j) ==
    /\ Goto(j, "queued", "started")
    /\ Write(j, "RUNNING")
    /\ SameLease /\ SameRest

(* RAPIDAPI_KEY is not configured. *)
FailUnconfigured(j) ==
    /\ Goto(j, "started", "done")
    /\ Write(j, "FAILED")
    /\ SameLease /\ SameRest

(* The jobs a recovery gives up: every active one but the one it spares.   *)
Abandon(spared) ==
    status' = [k \in Job |-> IF status[k] \in Active /\ k \notin spared
                             THEN "ABANDONED" ELSE status[k]]

(* claimWithRecovery: the grant and the recovery are one transaction.  A   *)
(* run's token is new, so its branch for the same live owner never runs.   *)
ClaimWithRecovery(j) ==
    /\ pc[j] = "started"
    /\ RowFree
    /\ Grant(j, j, ImportTtl)
    /\ Abandon({j})
    /\ pc' = [pc EXCEPT ![j] = IF held'[j] # 0 THEN "fetching" ELSE "denied"]
    /\ UNCHANGED <<now, txn, lastWrite>> /\ SameRest

(* Another owner's lease is live, or the transaction failed. *)
ClaimDenied(j) ==
    /\ Goto(j, "started", "denied")
    /\ SameLease /\ SameRest /\ UNCHANGED status

FailDenied(j) ==
    /\ Goto(j, "denied", "done")
    /\ Write(j, "FAILED")
    /\ SameLease /\ SameRest

-----------------------------------------------------------------------------
(* The pagination loop. *)

Verify(j) ==
    /\ page[j] < MaxPages
    /\ VerifyOwnership(j)
    /\ Goto(j, "fetching", "verified")
    /\ SameLease /\ SameRest /\ UNCHANGED status

(* The heartbeat, when its interval has passed; ownership was verified one *)
(* await earlier and may have lapsed since.                                *)
Heartbeat(j) ==
    /\ Goto(j, "verified", "requesting")
    /\ Renew(j, ImportTtl)
    /\ SameRest /\ UNCHANGED status

(* renew answers false: not the owner, or the UPDATE failed, before or     *)
(* after it took effect.                                                   *)
HeartbeatFails(j) ==
    /\ Goto(j, "verified", "processing")
    /\ SameLease \/ Renew(j, ImportTtl)
    /\ SameRest /\ UNCHANGED status

HeartbeatNotDue(j) ==
    /\ Goto(j, "verified", "requesting")
    /\ SameLease /\ SameRest /\ UNCHANGED status

(* Faulty variant: a page that failed is asked for again, without a limit. *)
FetchPageForever(j) ==
    /\ Goto(j, "requesting", "fetching")
    /\ SameLease /\ UNCHANGED <<page, status, crashes, restarting>>

FetchPage(j) ==
    /\ Goto(j, "requesting", "fetching")
    /\ page' = [page EXCEPT ![j] = @ + 1]
    /\ SameLease /\ UNCHANGED <<status, crashes, restarting>>

(* Ownership lost, deadline, budget, a terminal answer or the last page:   *)
(* the loop ends and the lots fetched so far are processed.                *)
StopPaging(j) ==
    /\ \/ /\ Goto(j, "fetching", "processing")
       \/ /\ Goto(j, "requesting", "processing")
    /\ SameLease /\ SameRest /\ UNCHANGED status

-----------------------------------------------------------------------------
(* The terminal status, written in a leased transaction. *)

BeginFinalize(j) ==
    /\ Goto(j, "processing", "finalizing")
    /\ BeginLeased(j)
    /\ SameRest /\ UNCHANGED status

(* withLeasedTransaction answers null, for the worker is not the owner or  *)
(* the transaction could not begin: the worker returns, its job keeps the  *)
(* status it has and its lease is not released.                            *)
FinalizeRefused(j) ==
    /\ Goto(j, "processing", "done")
    /\ SameLease /\ SameRest /\ UNCHANGED status

CommitFinalize(j) ==
    /\ pc[j] = "finalizing"
    /\ CommitLeased(j)
    /\ \E s \in {"SUCCESS", "FAILED"} : Write(j, s)
    /\ \E next \in {"releasing", "done"} : pc' = [pc EXCEPT ![j] = next]
    /\ SameRest

AbortFinalize(j) ==
    /\ Goto(j, "finalizing", "done")
    /\ AbortLeased(j)
    /\ SameRest /\ UNCHANGED status

ReleaseAfter(j) ==
    /\ Goto(j, "releasing", "done")
    /\ Release(j)
    /\ SameRest /\ UNCHANGED status

(* An awaited query throws; the catch block releases the lease, if one was *)
(* obtained, and then writes FAILED whatever the row says by now.          *)
Throw(j) ==
    /\ \E at \in {"started", "denied", "fetching", "requesting"} : Goto(j, at, "catching")
    /\ SameLease /\ SameRest /\ UNCHANGED status

CatchRelease(j) ==
    /\ Goto(j, "catching", "failing")
    /\ \/ held[j] = 0 /\ SameLease
       \/ Release(j)
    /\ SameRest /\ UNCHANGED status

CatchFail(j) ==
    /\ Goto(j, "failing", "done")
    /\ Write(j, "FAILED")
    /\ SameLease /\ SameRest

-----------------------------------------------------------------------------
(* A discovery run: claim without a job, fenced page writes, release. *)

SweepClaim(s) ==
    /\ pc[s] = "idle"
    /\ RowFree
    /\ Grant(s, NoJob, SweepTtl)
    /\ pc' = [pc EXCEPT ![s] = IF held'[s] # 0 THEN "sweeping" ELSE "done"]
    /\ UNCHANGED <<now, txn, lastWrite, status>> /\ SameRest

SweepBegin(s) ==
    /\ page[s] < SweepPages
    /\ Goto(s, "sweeping", "persisting")
    /\ BeginLeased(s)
    /\ SameRest /\ UNCHANGED status

SweepCommit(s) ==
    /\ Goto(s, "persisting", "sweeping")
    /\ page' = [page EXCEPT ![s] = @ + 1]
    /\ CommitLeased(s)
    /\ UNCHANGED <<status, crashes, restarting>>

SweepAbort(s) ==
    /\ Goto(s, "persisting", "leaving")
    /\ AbortLeased(s)
    /\ SameRest /\ UNCHANGED status

SweepRelease(s) ==
    /\ \E at \in {"sweeping", "leaving"} : Goto(s, at, "done")
    /\ Release(s)
    /\ SameRest /\ UNCHANGED status

-----------------------------------------------------------------------------
(* The instance that runs worker o dies.  The horizon bound keeps the      *)
(* expiry of the lease it leaves behind within reach of the clock.         *)
BeforeHorizon == lease.expiresAt < MaxTime

WorkerCrash(o) ==
    /\ crashes < MaxCrashes
    /\ BeforeHorizon
    /\ pc[o] \notin {"idle", "done", "dead"}
    /\ pc' = [pc EXCEPT ![o] = "dead"]
    /\ held' = [held EXCEPT ![o] = 0]
    /\ txn' = IF txn = o THEN NoOwner ELSE txn
    /\ crashes' = crashes + 1
    /\ restarting' = TRUE
    /\ UNCHANGED <<now, lease, lastWrite, status, page>>

(* Faulty variant: recovery goes by the age of jobs and ignores the lease. *)
RecoverAllJobs ==
    /\ RowFree
    /\ Abandon({})

(* recoverStaleJobs: the job named by a live lease is spared. *)
RecoverStaleJobs ==
    /\ RowFree
    /\ Abandon(IF LiveForRecovery THEN {lease.importJobId} ELSE {})

(* The crashed instance comes up again: onModuleInit runs the recovery.    *)
Restart ==
    /\ restarting
    /\ restarting' = FALSE
    /\ RecoverStaleJobs
    /\ SameLease /\ UNCHANGED <<pc, page, crashes>>

(* Another replica starts, or an administrator asks for a recovery.        *)
RecoveryElsewhere ==
    /\ RecoverStaleJobs
    /\ status' # status
    /\ SameLease /\ SameRest /\ UNCHANGED pc

Clock == Tick /\ UNCHANGED importVars

WorkerStep(j) ==
    \/ Start(j) \/ FailUnconfigured(j)
    \/ ClaimWithRecovery(j) \/ ClaimDenied(j) \/ FailDenied(j)
    \/ Verify(j) \/ Heartbeat(j) \/ HeartbeatFails(j) \/ HeartbeatNotDue(j)
    \/ FetchPage(j) \/ StopPaging(j)
    \/ BeginFinalize(j) \/ FinalizeRefused(j) \/ CommitFinalize(j)
    \/ AbortFinalize(j) \/ ReleaseAfter(j)
    \/ Throw(j) \/ CatchRelease(j) \/ CatchFail(j)

SweepStep(s) ==
    \/ SweepClaim(s) \/ SweepBegin(s) \/ SweepCommit(s) \/ SweepAbort(s) \/ SweepRelease(s)

Next ==
    \/ \E j \in Job : SyncCheck(j) \/ SyncCreate(j) \/ WorkerStep(j)
    \/ \E s \in Sweep : SweepStep(s)
    \/ \E o \in Owner : WorkerCrash(o)
    \/ Restart
    \/ RecoveryElsewhere
    \/ Clock

Spec == Init /\ [][Next]_vars

(* Workers, once started, are driven by their event loop; time passes; an  *)
(* open transaction ends; a crashed instance is restarted by the platform. *)
(* Sync calls, crashes and recoveries asked for elsewhere are not promised.*)
Fairness ==
    /\ \A j \in Job : WF_vars(WorkerStep(j))
    /\ \A s \in Sweep : WF_vars(SweepCommit(s) \/ SweepAbort(s))
    /\ WF_vars(Restart)
    /\ WF_vars(Clock)

FairSpec == Spec /\ Fairness

-----------------------------------------------------------------------------
(* No recovery ever abandons the job of a worker whose lease is live, in   *)
(* any interleaving of claims, renewals, releases and recoveries           *)
(* (pg-concurrency.spec.ts, case 19).                                      *)
LiveJobNotAbandoned ==
    [][ \A j \in Job :
          (status[j] \in Active /\ status'[j] = "ABANDONED")
            => ~(VerifyOwnership(j) /\ lease.importJobId = j) ]_vars

(* A worker that another one has superseded never gets to write SUCCESS.   *)
SupersededNeverSucceeds ==
    [][ \A j \in Job :
          (status[j] # "SUCCESS" /\ status'[j] = "SUCCESS")
            => \A o \in Owner : held[o] <= held[j] ]_vars

(* The row of a job follows its worker: it exists from the check on, is     *)
(* active or given up by a recovery while the worker is under way, and has *)
(* a result when the worker has only to release its lease.                 *)
RowFollowsWorker ==
    \A j \in Job :
        /\ pc[j] \in {"idle", "checked"} => status[j] = "none"
        /\ pc[j] = "queued" => status[j] \in {"PENDING", "ABANDONED"}
        /\ pc[j] \in UnderWay => status[j] \in {"RUNNING", "ABANDONED"}
        /\ pc[j] = "releasing" => status[j] \in Result

ImportInv == LeaseInv /\ TypeOK /\ RowFollowsWorker

(* A result is written once: no other worker, recovery or catch block      *)
(* changes the status of a job that has one.                               *)
ResultsAreFinal ==
    [][ \A j \in Job : status[j] \in Result => status'[j] = status[j] ]_vars

(* Every import worker that starts comes to an end: it is never blocked    *)
(* for good on the row lock and never loops on pages.                      *)
WorkersFinish ==
    \A j \in Job : pc[j] = "queued" ~> pc[j] \in {"done", "dead"}
=============================================================================
