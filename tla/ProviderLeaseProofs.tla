------------------------- MODULE ProviderLeaseProofs -------------------------
(* Theorems about ProviderLease for every set of owners and jobs and every *)
(* value of the times and bounds.                                          *)
EXTENDS ProviderLease, TLAPS

(* The initial coordination row satisfies the inductive invariant. *)
LEMMA LeaseInitInv == LeaseInit => LeaseInv
  BY LeaseAssumption
     DEF LeaseInit, LeaseInv, LeaseTypeOK, LeaseRow, DistinctFences,
         TransactionKeepsRow, FenceOrder, HasOwner, IsExpired

(* Every step of the service preserves the inductive invariant. *)
LEMMA LeaseStepInv == LeaseInv /\ [LeaseNext]_leaseVars => LeaseInv'
<1> SUFFICES ASSUME LeaseInv, [LeaseNext]_leaseVars
             PROVE  LeaseInv'
  OBVIOUS
<1> USE LeaseAssumption
<1> USE DEF LeaseInv, LeaseTypeOK, LeaseRow, DistinctFences,
            TransactionKeepsRow, FenceOrder, HasOwner, IsExpired
<1>1. ASSUME NEW o \in Owner, NEW j \in Job \cup {NoJob}, NEW ttl \in Ttls,
             Claim(o, j, ttl)
      PROVE  LeaseInv'
  <2>1. CASE Grant(o, j, ttl)
    BY <1>1, <2>1 DEF Claim, Grant, Answered, RowFree
  <2>2. CASE Reclaim(o, j, ttl)
    BY <1>1, <2>2 DEF Claim, Reclaim, Answered, RowFree, ExpiredForClaim
  <2> QED BY <1>1, <2>1, <2>2 DEF Claim
<1>2. ASSUME NEW o \in Owner, NEW ttl \in Ttls, Renew(o, ttl)
      PROVE  LeaseInv'
  BY <1>2 DEF Renew, Owns, RowFree
<1>3. ASSUME NEW o \in Owner, Release(o)
      PROVE  LeaseInv'
  <2>1. CASE lease' = lease
    BY <1>3, <2>1 DEF Release, RowFree
  <2>2. CASE lease' = ClearRow(o)
    BY <1>3, <2>2 DEF Release, ClearRow, Owns, RowFree
  <2> QED BY <1>3, <2>1, <2>2 DEF Release
<1>4. ASSUME NEW o \in Owner, BeginLeased(o)
      PROVE  LeaseInv'
  BY <1>4 DEF BeginLeased, VerifyOwnership, Owns
<1>5. ASSUME NEW o \in Owner, CommitLeased(o)
      PROVE  LeaseInv'
  BY <1>5 DEF CommitLeased, Later
<1>6. ASSUME NEW o \in Owner, AbortLeased(o)
      PROVE  LeaseInv'
  BY <1>6 DEF AbortLeased
<1>7. ASSUME NEW o \in Owner, Crash(o)
      PROVE  LeaseInv'
  BY <1>7 DEF Crash
<1>8. CASE Tick
  BY <1>8 DEF Tick
<1>9. CASE UNCHANGED leaseVars
  BY <1>9 DEF leaseVars
<1> QED
  BY <1>1, <1>2, <1>3, <1>4, <1>5, <1>6, <1>7, <1>8, <1>9 DEF LeaseNext

(* The inductive invariant holds in every reachable state: the row and the *)
(* workers' memories are well typed, no two workers share a fencing token, *)
(* and an open leased transaction pins the row.                            *)
THEOREM LeaseInvariant == LeaseSpec => []LeaseInv
  BY LeaseInitInv, LeaseStepInv, PTL DEF LeaseSpec

(* Two workers never believe they hold the same fencing token. *)
THEOREM FencesAreDistinct == LeaseSpec => []DistinctFences
<1>1. LeaseInv => DistinctFences
  BY DEF LeaseInv
<1> QED
  BY <1>1, LeaseInvariant, PTL

(* The row belongs to the transaction's owner until it ends. *)
THEOREM TransactionsKeepTheRow == LeaseSpec => []TransactionKeepsRow
<1>1. LeaseInv => TransactionKeepsRow
  BY DEF LeaseInv
<1> QED
  BY <1>1, LeaseInvariant, PTL

-----------------------------------------------------------------------------
(* A lease that is shown as live has an owner and leaves it only by that   *)
(* owner's own release.                                                    *)
THEOREM NobodySteals == LeaseSpec => ActiveLeaseNotStolen
<1> DEFINE NotStolen ==
      (ActiveProviderJob /\ lease'.owner # lease.owner)
        => /\ HasOwner
           /\ lease'.owner = NoOwner
           /\ held[lease.owner] = lease.fence
           /\ held'[lease.owner] = 0
<1>1. LeaseInv /\ [LeaseNext]_leaseVars => [NotStolen]_leaseVars
  <2> SUFFICES ASSUME LeaseInv, [LeaseNext]_leaseVars,
                      ActiveProviderJob, lease'.owner # lease.owner
               PROVE  NotStolen
    OBVIOUS
  <2> USE LeaseAssumption DEF LeaseInv, LeaseTypeOK, LeaseRow, HasOwner
  <2>0. HasOwner /\ lease.expiresAt >= now
    BY DEF FenceOrder, ActiveProviderJob, IsExpired
  <2>1. ASSUME NEW o \in Owner, NEW j \in Job \cup {NoJob}, NEW ttl \in Ttls,
             Claim(o, j, ttl)
        PROVE  NotStolen
    BY <2>0, <2>1 DEF Claim, Grant, Reclaim, ExpiredForClaim
  <2>2. ASSUME NEW o \in Owner, NEW ttl \in Ttls, Renew(o, ttl)
        PROVE  NotStolen
    BY <2>2 DEF Renew
  <2>3. ASSUME NEW o \in Owner, Release(o)
        PROVE  NotStolen
    BY <2>0, <2>3 DEF Release, ClearRow, Owns
  <2>4. ASSUME NEW o \in Owner, BeginLeased(o) \/ AbortLeased(o) \/ Crash(o)
        PROVE  NotStolen
    BY <2>4 DEF BeginLeased, AbortLeased, Crash
  <2>5. ASSUME NEW o \in Owner, CommitLeased(o)
        PROVE  NotStolen
    BY <2>5 DEF CommitLeased
  <2>6. CASE Tick \/ UNCHANGED leaseVars
    BY <2>6 DEF Tick, leaseVars
  <2> QED
    BY <2>1, <2>2, <2>3, <2>4, <2>5, <2>6 DEF LeaseNext
<1> QED
  BY <1>1, LeaseInvariant, PTL DEF LeaseSpec, ActiveLeaseNotStolen

(* Protected writes commit under the newest grant, in grant order. *)
THEOREM StaleWritersAreFenced == LeaseSpec => StaleWriterFencedOff
<1> DEFINE Fenced ==
      \A o \in Owner :
          (txn = o /\ CommitLeased(o)) => /\ lease.owner = o
                                          /\ lastWrite' = lease.fence
                                          /\ lastWrite' >= lastWrite
<1>1. LeaseInv => Fenced
  BY LeaseAssumption
     DEF LeaseInv, LeaseTypeOK, LeaseRow, TransactionKeepsRow, FenceOrder, CommitLeased
<1> QED
  BY <1>1, LeaseInvariant, PTL DEF StaleWriterFencedOff

-----------------------------------------------------------------------------
(* The service implements the ownership contract: each of its steps is a   *)
(* step of FencedOwnership or leaves the contract's variables unchanged.   *)
THEOREM LeaseImplementsContract == LeaseSpec => ImplementsContract
<1>1. LeaseInit => Contract!Init
  BY DEF LeaseInit, Contract!Init
<1>2. LeaseInv /\ [LeaseNext]_leaseVars => [Contract!Next]_(Contract!vars)
  <2> SUFFICES ASSUME LeaseInv, [LeaseNext]_leaseVars
               PROVE  [Contract!Next]_(Contract!vars)
    OBVIOUS
  <2> USE LeaseAssumption DEF LeaseInv, LeaseTypeOK, LeaseRow, Contract!vars
  <2>1. ASSUME NEW o \in Owner, NEW j \in Job \cup {NoJob}, NEW ttl \in Ttls,
             Claim(o, j, ttl)
        PROVE  [Contract!Next]_(Contract!vars)
    <3>1. CASE Grant(o, j, ttl)
      <4>1. Contract!Grant(o)
        BY <2>1, <3>1 DEF Claim, Grant, Answered, Contract!Grant
      <4> QED BY <4>1 DEF Contract!Next
    <3>2. CASE Reclaim(o, j, ttl)
      <4>1. Contract!Reissue(o)
        BY <2>1, <3>2 DEF Claim, Reclaim, Answered, Contract!Reissue
      <4> QED BY <4>1 DEF Contract!Next
    <3> QED BY <2>1, <3>1, <3>2 DEF Claim
  <2>2. ASSUME NEW o \in Owner, NEW ttl \in Ttls, Renew(o, ttl)
        PROVE  [Contract!Next]_(Contract!vars)
    BY <2>2 DEF Renew
  <2>3. ASSUME NEW o \in Owner, Release(o)
        PROVE  [Contract!Next]_(Contract!vars)
    <3>1. Contract!GiveUp(o)
      BY <2>3 DEF Release, ClearRow, Owns, Contract!GiveUp
    <3> QED BY <3>1 DEF Contract!Next
  <2>4. ASSUME NEW o \in Owner, BeginLeased(o) \/ AbortLeased(o)
        PROVE  [Contract!Next]_(Contract!vars)
    BY <2>4 DEF BeginLeased, AbortLeased
  <2>5. ASSUME NEW o \in Owner, CommitLeased(o)
        PROVE  [Contract!Next]_(Contract!vars)
    <3>1. Contract!Write(o)
      BY <2>5 DEF CommitLeased, TransactionKeepsRow, Contract!Write
    <3> QED BY <3>1 DEF Contract!Next
  <2>6. ASSUME NEW o \in Owner, Crash(o)
        PROVE  [Contract!Next]_(Contract!vars)
    <3>1. Contract!GiveUp(o)
      BY <2>6 DEF Crash, Contract!GiveUp
    <3> QED BY <3>1 DEF Contract!Next
  <2>7. CASE Tick \/ UNCHANGED leaseVars
    BY <2>7 DEF Tick, leaseVars
  <2> QED
    BY <2>1, <2>2, <2>3, <2>4, <2>5, <2>6, <2>7 DEF LeaseNext
<1> QED
  BY <1>1, <1>2, LeaseInvariant, PTL DEF LeaseSpec, ImplementsContract, Contract!Spec
=============================================================================
