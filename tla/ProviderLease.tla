---------------------------- MODULE ProviderLease ----------------------------
(***************************************************************************)
(* The database-backed provider lease of copart/provider-lease.service.ts. *)
(*                                                                         *)
(* One provider is modelled: every statement of the service is keyed by    *)
(* the provider, so the coordination rows never interact.  The row is      *)
(* locked with SELECT ... FOR UPDATE, hence claim, renew and release are   *)
(* single steps that need the row lock; withLeasedTransaction is two, for  *)
(* the caller's function runs between its verification and its commit.     *)
(* heartbeatAt and acquiredAt are written and never read by a guard; they  *)
(* are left out.                                                           *)
(***************************************************************************)
EXTENDS Integers

CONSTANTS Owner,         \* owner tokens; each is drawn from a UUID by its worker
          NoOwner,       \* the '' of the placeholder row
          Job,           \* ids of import jobs
          NoJob,         \* a null importJobId
          Ttls,          \* the ttlMs the callers of claim and renew pass
          HeartbeatExt,  \* the 60000 ms of withLeasedTransaction
          RenewLag,      \* bound: how long renew's UPDATE may wait for the row
          MaxTime,       \* bound on the clock
          MaxFence       \* bound on the number of grants

ASSUME LeaseAssumption ==
    /\ NoOwner \notin Owner
    /\ NoJob \notin Job
    /\ Ttls \subseteq Nat
    /\ HeartbeatExt \in Nat
    /\ RenewLag \in Nat
    /\ MaxTime \in Nat
    /\ MaxFence \in Nat

VARIABLES now,         \* the clock the service reads with new Date()
          lease,       \* the coordination row
          txn,         \* the owner whose leased transaction holds the row lock
          held,        \* held[o]: the fencing token the service returned to o, 0 if none
          lastWrite    \* fencing token of the last leased transaction that committed

leaseVars == <<now, lease, txn, held, lastWrite>>

LeaseRow == [owner : Owner \cup {NoOwner}, fence : Nat,
             expiresAt : Int, importJobId : Job \cup {NoJob}]

LeaseTypeOK ==
    /\ now \in Nat
    /\ lease \in LeaseRow
    /\ txn \in Owner \cup {NoOwner}
    /\ held \in [Owner -> Nat]
    /\ lastWrite \in Nat

-----------------------------------------------------------------------------
(* The tests the service makes on the row.  claim treats a lease as live   *)
(* until its expiry has passed; verifyOwnership, withLeasedTransaction and *)
(* recoverStaleJobs already treat it as dead at the expiry itself.         *)

HasOwner == lease.owner # NoOwner

(* Faulty variant: a lease counts as expired at its expiry already. *)
ExpiredTooEarly == ~HasOwner \/ lease.expiresAt <= now

ExpiredForClaim == ~HasOwner \/ lease.expiresAt < now

LiveForRecovery == HasOwner /\ lease.expiresAt > now

(* Faulty variant: the fencing token is not compared. *)
OwnsByNameOnly(o) == lease.owner = o

Owns(o) == /\ lease.owner = o
           /\ lease.fence = held[o]

(* Faulty variant: only the expiry is tested, not whose lease it is. *)
VerifyExpiryOnly(o) == lease.expiresAt > now

VerifyOwnership(o) == Owns(o) /\ lease.expiresAt > now

RowFree == txn = NoOwner

(* What the status pages show of the row.  They look at its expiry alone:  *)
(* the scheduler's status lists the provider among those with a job, the   *)
(* import status shows its circuit as closed.                              *)
IsExpired == lease.expiresAt < now

ActiveProviderJob == ~IsExpired

-----------------------------------------------------------------------------
LeaseInit ==
    /\ now = 0
    /\ lease = [owner |-> NoOwner, fence |-> 0, expiresAt |-> -1, importJobId |-> NoJob]
    /\ txn = NoOwner
    /\ held = [o \in Owner |-> 0]
    /\ lastWrite = 0

(* The answer of a claim that committed.  When the connection fails after  *)
(* the commit the catch block answers claimed: false and the caller never  *)
(* learns its token.                                                       *)
Answered(o, fence) == held' \in {held, [held EXCEPT ![o] = fence]}

(* Cases 1 and 2 of claim: nobody owns the row, or its lease has passed.   *)
Grant(o, j, ttl) ==
    /\ ExpiredForClaim
    /\ lease.fence < MaxFence
    /\ lease' = [owner |-> o, fence |-> lease.fence + 1,
                 expiresAt |-> now + ttl, importJobId |-> j]
    /\ Answered(o, lease.fence + 1)

(* Case 3: the live owner claims again and keeps its fencing token. *)
Reclaim(o, j, ttl) ==
    /\ ~ExpiredForClaim
    /\ lease.owner = o
    /\ lease' = [owner |-> o, fence |-> lease.fence, expiresAt |-> now + ttl,
                 importJobId |-> IF j = NoJob THEN lease.importJobId ELSE j]
    /\ Answered(o, lease.fence)

(* claim, and the lease half of claimWithRecovery.  Case 4 and a failed    *)
(* transaction leave everything as it was.                                 *)
Claim(o, j, ttl) ==
    /\ RowFree
    /\ Grant(o, j, ttl) \/ Reclaim(o, j, ttl)
    /\ UNCHANGED <<now, txn, lastWrite>>

(* renew: owner and fence are tested, the expiry is not; the new expiry is *)
(* computed before the UPDATE obtains the row.                             *)
Renew(o, ttl) ==
    /\ RowFree
    /\ held[o] # 0
    /\ Owns(o)
    /\ \E lag \in 0 .. RenewLag :
          /\ lag <= now
          /\ lease' = [lease EXCEPT !.expiresAt = now - lag + ttl]
    /\ UNCHANGED <<now, txn, held, lastWrite>>

(* release: the row is cleared only for its own owner and fence, its fence *)
(* stays; the caller forgets its token.  A failing UPDATE is reported as   *)
(* released too.                                                           *)
ClearRow(o) ==
    IF Owns(o)
    THEN [owner |-> NoOwner, fence |-> lease.fence, expiresAt |-> -1,
          importJobId |-> NoJob]
    ELSE lease

Release(o) ==
    /\ RowFree
    /\ held[o] # 0
    /\ lease' \in {ClearRow(o), lease}
    /\ held' = [held EXCEPT ![o] = 0]
    /\ UNCHANGED <<now, txn, lastWrite>>

Later(t, u) == IF t > u THEN t ELSE u

(* withLeasedTransaction, up to the call of fn: lock the row and verify.   *)
BeginLeased(o) ==
    /\ RowFree
    /\ held[o] # 0
    /\ VerifyOwnership(o)
    /\ txn' = o
    /\ UNCHANGED <<now, lease, held, lastWrite>>

(* ... and from the return of fn to the commit, which extends the expiry.  *)
CommitLeased(o) ==
    /\ txn = o
    /\ txn' = NoOwner
    /\ lastWrite' = held[o]
    /\ lease' = [lease EXCEPT !.expiresAt = Later(@, now + HeartbeatExt)]
    /\ UNCHANGED <<now, held>>

(* fn throws, or the transaction times out: all of it is rolled back.      *)
AbortLeased(o) ==
    /\ txn = o
    /\ txn' = NoOwner
    /\ UNCHANGED <<now, lease, held, lastWrite>>

(* The worker's process dies; the database ends its open transaction.      *)
Crash(o) ==
    /\ held[o] # 0
    /\ held' = [held EXCEPT ![o] = 0]
    /\ txn' = IF txn = o THEN NoOwner ELSE txn
    /\ UNCHANGED <<now, lease, lastWrite>>

Tick == /\ now < MaxTime
        /\ now' = now + 1
        /\ UNCHANGED <<lease, txn, held, lastWrite>>

LeaseNext ==
    \/ \E o \in Owner :
          \/ \E ttl \in Ttls :
                \/ \E j \in Job \cup {NoJob} : Claim(o, j, ttl)
                \/ Renew(o, ttl)
          \/ Release(o)
          \/ BeginLeased(o)
          \/ CommitLeased(o)
          \/ AbortLeased(o)
          \/ Crash(o)
    \/ Tick

LeaseSpec == LeaseInit /\ [][LeaseNext]_leaseVars

-----------------------------------------------------------------------------
(* Two workers are never given the same fencing token, whatever releases,  *)
(* expiries, crashes and lost answers lie between their claims.            *)
DistinctFences ==
    \A o, p \in Owner : held[o] # 0 /\ held[o] = held[p] => o = p

(* While a leased transaction runs, its owner and fence stay those of the  *)
(* row, even if the lease expires before the commit.                       *)
TransactionKeepsRow ==
    txn # NoOwner => txn = lease.owner /\ held[txn] = lease.fence

(* The strengthening the three above are proved from: no worker knows a    *)
(* token above the row's, the row's token is known to its owner alone, no  *)
(* write is newer than the last grant, and a row without an owner looks    *)
(* expired.                                                                *)
FenceOrder ==
    /\ \A o \in Owner :
          /\ held[o] <= lease.fence
          /\ held[o] # 0 /\ held[o] = lease.fence => lease.owner \in {o, NoOwner}
    /\ lastWrite <= lease.fence
    /\ HasOwner => lease.fence # 0
    /\ ~HasOwner => IsExpired

LeaseInv == LeaseTypeOK /\ DistinctFences /\ TransactionKeepsRow /\ FenceOrder

(* A lease that the status pages show as live has an owner and changes     *)
(* hands only through a release by that owner: neither claim nor recovery  *)
(* can steal it, and no page shows a job where anybody may claim.          *)
ActiveLeaseNotStolen ==
    [][ (ActiveProviderJob /\ lease'.owner # lease.owner)
        => /\ HasOwner
           /\ lease'.owner = NoOwner
           /\ held[lease.owner] = lease.fence
           /\ held'[lease.owner] = 0 ]_leaseVars

(* A protected write commits only under the newest token granted so far: a *)
(* worker that lost its lease is fenced off, and writes commit in the      *)
(* order of the grants.                                                    *)
StaleWriterFencedOff ==
    [][ \A o \in Owner :
          (txn = o /\ CommitLeased(o)) => /\ lease.owner = o
                                          /\ lastWrite' = lease.fence
                                          /\ lastWrite' >= lastWrite ]_leaseVars

(* The contract: the row's fence is the epoch and its owner the owner. *)
Contract == INSTANCE FencedOwnership
               WITH epoch <- lease.fence, owner <- lease.owner, token <- held

ImplementsContract == Contract!Spec
=============================================================================
