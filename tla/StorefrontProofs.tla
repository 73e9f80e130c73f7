-------------------------- MODULE StorefrontProofs ---------------------------
(***************************************************************************)
(* Theorems about the lists visitors are shown: Hot Offers, for any lots,  *)
(* facts, policies, workers, reviewers, administrators and readers; the    *)
(* pages of the auction list, for any number of cards; and the previews of *)
(* the calculator, for any inputs and visitors and any size of the cache.  *)
(***************************************************************************)
EXTENDS HotOffers, CatalogPages, CalculatorEngine,
        SequenceTheorems, FiniteSetTheorems, WellFoundedInduction, TLAPS

-----------------------------------------------------------------------------
(* The review of the lots.                                                 *)
LEMMA ReviewStart == ReviewInit => ReviewInv
  <1> SUFFICES ASSUME ReviewInit PROVE ReviewInv
    OBVIOUS
  <1>1. lot \in [Lot -> LotRow]
    BY DEF ReviewInit, LotRow
  <1>2. ReviewTypeOK
    BY <1>1, ReviewAssumption DEF ReviewInit, ReviewTypeOK
  <1>3. \A w \in Worker : worker[w].phase # "stored"
    BY DEF ReviewInit, Idle
  <1> QED
    BY <1>2, <1>3 DEF ReviewInit, ReviewInv, UniqueAnalysis, StoredIsKept

(* What is stored says what the submission said: of analyses with the      *)
(* identity of a submission there is one at most.                          *)
LEMMA AnswerIsKept ==
    ASSUME ReviewInv, NEW s, Answer(s, SameIdentity(s)) = "stored", SameIdentity(s) # {}
    PROVE  \E a \in analyses : IsOf(a, s) /\ a.payload = s.payload
  BY DEF Answer, SameIdentity, IsOf

(* A worker's steps: he submits, looks for a row of the same identity, and *)
(* creates one if there is none.                                           *)
LEMMA SubmitStep ==
    ASSUME ReviewInv, NEW w \in Worker, NEW l \in Lot, NEW p \in Payload, SubmitAiAnalysis(w, l, p)
    PROVE  ReviewInv'
  <1>1. worker' = [worker EXCEPT ![w] = [phase |-> "lookup", lot |-> l,
                                         facts |-> lot[l].facts, payload |-> p]]
        /\ UNCHANGED <<now, lot, analyses, reviewer>>
    BY DEF SubmitAiAnalysis
  <1>2. [phase |-> "lookup", lot |-> l, facts |-> lot[l].facts, payload |-> p] \in Submission
    BY DEF ReviewInv, ReviewTypeOK, LotRow, Submission
  <1>3. ReviewTypeOK'
    BY <1>1, <1>2 DEF ReviewInv, ReviewTypeOK
  <1>4. \A v \in Worker : worker'[v].phase = "stored" => worker'[v] = worker[v]
    BY <1>1 DEF ReviewInv, ReviewTypeOK
  <1> QED
    BY <1>1, <1>3, <1>4 DEF ReviewInv, UniqueAnalysis, StoredIsKept

LEMMA LookUpStep ==
    ASSUME ReviewInv, NEW w \in Worker, LookUpAnalysis(w)
    PROVE  ReviewInv'
  <1>1. PICK phase \in {"create", "stored", "conflict"} :
          /\ worker' = [worker EXCEPT ![w].phase = phase]
          /\ phase = "stored" => /\ SameIdentity(worker[w]) # {}
                                 /\ Answer(worker[w], SameIdentity(worker[w])) = "stored"
    BY DEF LookUpAnalysis, Answer
  <1>2. worker[w].phase = "lookup" /\ UNCHANGED <<now, lot, analyses, reviewer>>
    BY DEF LookUpAnalysis
  <1>3. worker[w] \in Submission
    BY <1>2 DEF ReviewInv, ReviewTypeOK, Idle
  <1>4. /\ worker'[w].phase = phase /\ worker'[w] \in Submission
        /\ worker'[w].lot = worker[w].lot /\ worker'[w].facts = worker[w].facts
        /\ worker'[w].payload = worker[w].payload
        /\ \A v \in Worker \ {w} : worker'[v] = worker[v]
    BY <1>1, <1>3 DEF ReviewInv, ReviewTypeOK, Submission
  <1>5. ReviewTypeOK'
    <2>1. worker' \in [Worker -> Submission \cup {Idle}]
      BY <1>1, <1>4 DEF ReviewInv, ReviewTypeOK
    <2> QED
      BY <1>2, <2>1 DEF ReviewInv, ReviewTypeOK
  <1>6. StoredIsKept'
    <2>1. phase = "stored" => \E a \in analyses : IsOf(a, worker[w]) /\ a.payload = worker[w].payload
      BY <1>1, AnswerIsKept
    <2> QED
      BY <1>2, <1>4, <2>1 DEF ReviewInv, StoredIsKept, IsOf
  <1> QED
    BY <1>2, <1>5, <1>6 DEF ReviewInv, UniqueAnalysis

LEMMA CreateStep ==
    ASSUME ReviewInv, NEW w \in Worker, CreateAnalysis(w)
    PROVE  ReviewInv'
  <1>1. worker[w].phase = "create" /\ UNCHANGED <<now, lot, reviewer>>
    BY DEF CreateAnalysis
  <1>2. worker[w] \in Submission
    BY <1>1 DEF ReviewInv, ReviewTypeOK, Idle
  <1> DEFINE new == [lot |-> worker[w].lot, facts |-> worker[w].facts,
                     payload |-> worker[w].payload, decision |-> "PENDING"]
  <1>3. /\ new \in Analysis
        /\ new.lot = worker[w].lot /\ new.facts = worker[w].facts
        /\ new.payload = worker[w].payload
    BY <1>2 DEF Submission, Analysis
  <1>4. PICK phase \in {"stored", "conflict"} :
          /\ worker' = [worker EXCEPT ![w].phase = phase]
          /\ phase = Answer(worker[w], SameIdentity(worker[w]))
    BY DEF CreateAnalysis, Answer
  <1>5. /\ worker'[w].phase = phase /\ worker'[w] \in Submission
        /\ worker'[w].lot = worker[w].lot /\ worker'[w].facts = worker[w].facts
        /\ worker'[w].payload = worker[w].payload
        /\ \A v \in Worker \ {w} : worker'[v] = worker[v]
    BY <1>2, <1>4 DEF ReviewInv, ReviewTypeOK, Submission
  <1>6. analyses' = IF SameIdentity(worker[w]) # {} THEN analyses ELSE analyses \cup {new}
    BY DEF CreateAnalysis
  <1> HIDE DEF new
  <1>7. analyses \subseteq analyses'
    BY <1>6
  <1>8. ReviewTypeOK'
    <2>1. worker' \in [Worker -> Submission \cup {Idle}]
      BY <1>4, <1>5 DEF ReviewInv, ReviewTypeOK
    <2> QED
      BY <1>1, <1>3, <1>6, <2>1 DEF ReviewInv, ReviewTypeOK
  <1>9. UniqueAnalysis'
    <2>1. CASE SameIdentity(worker[w]) # {}
      BY <1>6, <2>1 DEF ReviewInv, UniqueAnalysis
    <2>2. CASE SameIdentity(worker[w]) = {}
      <3>1. \A a \in analyses : ~IsOf(a, new) /\ ~IsOf(new, a)
        BY <1>3, <2>2 DEF SameIdentity, IsOf
      <3> QED
        BY <1>6, <2>2, <3>1 DEF ReviewInv, UniqueAnalysis
    <2> QED
      BY <2>1, <2>2
  <1>10. StoredIsKept'
    <2>1. phase = "stored" => \E a \in analyses' : IsOf(a, worker[w]) /\ a.payload = worker[w].payload
      <3>1. CASE SameIdentity(worker[w]) # {}
        BY <1>4, <1>6, <3>1, AnswerIsKept
      <3>2. CASE SameIdentity(worker[w]) = {}
        BY <1>3, <1>6, <3>2 DEF IsOf
      <3> QED
        BY <3>1, <3>2
    <2> QED
      BY <1>5, <1>7, <2>1 DEF ReviewInv, StoredIsKept, IsOf
  <1> QED
    BY <1>8, <1>9, <1>10 DEF ReviewInv

(* A decision changes neither whose analysis it is nor what it concluded.  *)
LEMMA DecisionStep ==
    ASSUME ReviewInv, NEW u \in Reviewer, WriteDecision(u)
    PROVE  ReviewInv'
  <1>1. reviewer[u].phase = "write" /\ UNCHANGED <<now, lot, worker>>
        /\ reviewer' = [reviewer EXCEPT ![u] = Idle]
    BY DEF WriteDecision
  <1>2. PICK r \in Decided : r = reviewer[u]
    BY <1>1 DEF ReviewInv, ReviewTypeOK, Idle
  <1>3. analyses' = (analyses \ SameIdentity(r)) \cup
                    {[a EXCEPT !.decision = r.decision] : a \in SameIdentity(r)}
    BY <1>2 DEF WriteDecision
  <1>4. ASSUME NEW a \in SameIdentity(r)
        PROVE  LET b == [a EXCEPT !.decision = r.decision]
               IN  b \in Analysis /\ b.lot = a.lot /\ b.facts = a.facts /\ b.payload = a.payload
    BY <1>2 DEF SameIdentity, ReviewInv, ReviewTypeOK, Analysis, Decided
  <1>5. ASSUME NEW a \in analyses
        PROVE  \E b \in analyses' : b.lot = a.lot /\ b.facts = a.facts /\ b.payload = a.payload
    BY <1>3, <1>4
  <1>6. ASSUME NEW b \in analyses'
        PROVE  /\ b \in Analysis
               /\ \/ b \in analyses \ SameIdentity(r)
                  \/ \E a \in SameIdentity(r) : /\ b = [a EXCEPT !.decision = r.decision]
                                                /\ b.lot = a.lot /\ b.facts = a.facts
    BY ZenonT(40), <1>3, <1>4 DEF ReviewInv, ReviewTypeOK
  <1>7. ReviewTypeOK'
    BY <1>1, <1>6 DEF ReviewInv, ReviewTypeOK
  <1>8. UniqueAnalysis'
    <2>1. \A a, b \in SameIdentity(r) : a = b
      BY DEF ReviewInv, UniqueAnalysis, SameIdentity, IsOf
    <2>2. \A a \in SameIdentity(r) : a.lot = r.lot /\ a.facts = r.facts
      BY DEF SameIdentity
    <2>3. \A a \in analyses \ SameIdentity(r) : a \in analyses /\ ~(a.lot = r.lot /\ a.facts = r.facts)
      BY DEF SameIdentity
    <2> SUFFICES ASSUME NEW a \in analyses', NEW b \in analyses', IsOf(a, b) PROVE a = b
      BY DEF UniqueAnalysis
    <2>4. CASE a \in analyses \ SameIdentity(r)
      <3>1. b \in analyses \ SameIdentity(r)
        BY <1>6, <2>2, <2>3, <2>4 DEF IsOf
      <3> QED
        BY <2>3, <2>4, <3>1 DEF ReviewInv, UniqueAnalysis
    <2>5. CASE a \notin analyses \ SameIdentity(r)
      <3>1. b \notin analyses \ SameIdentity(r)
        BY <1>6, <2>2, <2>3, <2>5 DEF IsOf
      <3> QED
        BY <1>6, <2>1, <2>5, <3>1
    <2> QED
      BY <2>4, <2>5
  <1>9. StoredIsKept'
    <2> SUFFICES ASSUME NEW w \in Worker, worker[w].phase = "stored"
                 PROVE  \E b \in analyses' : IsOf(b, worker[w]) /\ b.payload = worker[w].payload
      BY <1>1 DEF StoredIsKept
    <2>1. PICK a \in analyses : IsOf(a, worker[w]) /\ a.payload = worker[w].payload
      BY DEF ReviewInv, StoredIsKept
    <2> QED
      BY <1>5, <2>1 DEF IsOf
  <1> QED
    BY <1>7, <1>8, <1>9 DEF ReviewInv

LEMMA ReviewStep == ReviewInv /\ [Next]_vars => ReviewInv'
  <1> SUFFICES ASSUME ReviewInv, [Next]_vars PROVE ReviewInv'
    OBVIOUS
  <1>1. CASE ReviewNext
    <2>1. ASSUME NEW u \in Reviewer, NEW a \in analyses, NEW d \in Decision, DecideAiReview(u, a, d)
          PROVE  ReviewInv'
      <3>1. [phase |-> "write", lot |-> a.lot, facts |-> a.facts, decision |-> d] \in Decided
        BY DEF ReviewInv, ReviewTypeOK, Analysis, Decided
      <3>2. ReviewTypeOK'
        BY <2>1, <3>1 DEF DecideAiReview, ReviewInv, ReviewTypeOK
      <3> QED
        BY <2>1, <3>2 DEF DecideAiReview, ReviewInv, UniqueAnalysis, StoredIsKept
    <2> QED
      BY <1>1, <2>1, SubmitStep, LookUpStep, CreateStep, DecisionStep DEF ReviewNext
  <1>2. CASE Environment
    <2>1. now' \in 0 .. MaxTime /\ UNCHANGED <<analyses, worker, reviewer>>
      BY <1>2, ReviewAssumption
         DEF Environment, Tick, LotObserved, LotWithdrawn, ReviewInv, ReviewTypeOK
    <2>2. lot' \in [Lot -> LotRow]
      <3>1. lot \in [Lot -> LotRow]
        BY DEF ReviewInv, ReviewTypeOK
      <3>2. ASSUME NEW l \in Lot, NEW f \in Facts
            PROVE  [lot[l] EXCEPT !.facts = f] \in LotRow /\ [lot[l] EXCEPT !.offered = FALSE] \in LotRow
        BY <3>1 DEF LotRow
      <3>3. ASSUME NEW l \in Lot, LotObserved(l) PROVE lot' \in [Lot -> LotRow]
        <4>1. PICK f \in Facts : lot' = [lot EXCEPT ![l] = [lot[l] EXCEPT !.facts = f]]
          BY <3>1, <3>3 DEF LotObserved
        <4> QED
          BY <3>1, <3>2, <4>1
      <3>4. ASSUME NEW l \in Lot, LotWithdrawn(l), Facts # {} PROVE lot' \in [Lot -> LotRow]
        <4>1. lot' = [lot EXCEPT ![l] = [lot[l] EXCEPT !.offered = FALSE]]
          BY <3>1, <3>4 DEF LotWithdrawn
        <4> QED
          BY <3>1, <3>2, <3>4, <4>1
      <3>5. \A l \in Lot : lot[l].facts \in Facts
        BY <3>1 DEF LotRow
      <3> QED
        BY <1>2, <3>1, <3>3, <3>4, <3>5 DEF Environment, Tick
    <2> QED
      BY <2>1, <2>2 DEF ReviewInv, ReviewTypeOK, UniqueAnalysis, StoredIsKept
  <1>3. CASE Restart
    <2>1. \A w \in Worker : worker'[w].phase # "stored"
      BY <1>3 DEF Restart, Idle
    <2> QED
      BY <1>3, <2>1 DEF Restart, ReviewInv, ReviewTypeOK, UniqueAnalysis, StoredIsKept
  <1>4. CASE UNCHANGED reviewVars
    BY <1>4 DEF reviewVars, ReviewInv, ReviewTypeOK, UniqueAnalysis, StoredIsKept
  <1> QED
    BY <1>1, <1>2, <1>3, <1>4
       DEF Next, Review, World, AdminStep, BeginAddOverride, BeginRemoveOverride, SavePolicy,
           RefusePin, WriteOverrides, Invalidate, ReaderStep, ReadPolicy,
           ReadOverridesAndSnapshot, BuildTiers, SaveSnapshot, SaveFails, PersonalRead, Forget,
           vars

(* In every reachable state a lot and its facts have one analysis, and who *)
(* was told that his is stored finds his own conclusion there.             *)
THEOREM ReviewInvariant == Spec => []ReviewInv
  <1>1. Init => ReviewInv
    BY ReviewStart DEF Init
  <1> QED
    BY <1>1, ReviewStep, PTL DEF Spec

(* A worker that is told its analysis is stored finds its own conclusion,  *)
(* alone and under one decision, among the reviews; and every lot that is  *)
(* public as confirmed is among the confirmed, offered and beside the      *)
(* facts it was concluded from (submitAiAnalysis, listAiReviews,           *)
(* getCurrentConfirmedAiAnalyses).                                         *)
THEOREM StoredStaysOwn == Spec => []StoredIsOwnPayload
  <1>1. ASSUME ReviewInv, NEW w \in Worker, worker[w].phase = "stored",
               NEW mine, mine = {a \in ListAiReviews("ALL") : a \in SameIdentity(worker[w])}
        PROVE  /\ {a.payload : a \in mine} = {worker[w].payload}
               /\ Cardinality({d \in Decision \cup {"PENDING"} :
                                  ListAiReviews(d) \cap mine # {}}) = 1
    <2>1. PICK a \in analyses : IsOf(a, worker[w]) /\ a.payload = worker[w].payload
      BY <1>1 DEF ReviewInv, StoredIsKept
    <2>2. mine = {a}
      BY <1>1, <2>1 DEF ListAiReviews, SameIdentity, ReviewInv, UniqueAnalysis, IsOf
    <2>3. a.decision \in Decision \cup {"PENDING"}
      BY <1>1 DEF ReviewInv, ReviewTypeOK, Analysis
    <2>4. \A d \in Decision \cup {"PENDING"} :
             ListAiReviews(d) \cap mine # {} <=> d = a.decision
      BY <2>2 DEF ListAiReviews, Decision
    <2>5. {d \in Decision \cup {"PENDING"} : ListAiReviews(d) \cap mine # {}} = {a.decision}
      BY <2>3, <2>4
    <2>6. Cardinality({a.decision}) = 1
      BY FS_Singleton
    <2>7. {b.payload : b \in mine} = {worker[w].payload}
      BY <2>1, <2>2
    <2> QED
      BY <2>5, <2>6, <2>7
  <1>2. ASSUME NEW l \in ConfirmedLots
        PROVE  \E a \in ListAiReviews("CONFIRMED") :
                  LET shown == AdminReviewSummary(a) IN
                  shown.analysis.lot = l /\ shown.analysis.facts = shown.lot.facts /\ shown.lot.offered
    BY DEF ConfirmedLots, ListAiReviews, AdminReviewSummary, AiEligible, MatchesAnalysisSource
  <1>3. ASSUME ReviewInv PROVE StoredIsOwnPayload
    <2> DEFINE mine(w) == {a \in ListAiReviews("ALL") : a \in SameIdentity(worker[w])}
    <2>1. ASSUME NEW w \in Worker, worker[w].phase = "stored"
          PROVE  /\ {a.payload : a \in mine(w)} = {worker[w].payload}
                 /\ Cardinality({d \in Decision \cup {"PENDING"} :
                                    ListAiReviews(d) \cap mine(w) # {}}) = 1
      BY <1>1, <1>3, <2>1
    <2> QED
      BY <1>2, <2>1 DEF StoredIsOwnPayload
  <1> QED
    BY <1>3, ReviewInvariant, PTL

-----------------------------------------------------------------------------
(* The policy and the snapshot.                                            *)
LEMMA PolicyStart == Init => PolicyInv
  <1> SUFFICES ASSUME Init PROVE PolicyInv
    OBVIOUS
  <1>1. \A a \in Admin : admin[a].phase = "idle"
    BY DEF Init, Idle
  <1>2. \A r \in Reader : reader[r].phase = "idle"
    BY DEF Init, Idle
  <1> QED
    BY <1>1, <1>2 DEF Init, ReviewInit, PolicyInv

(* A row with a policy is not the absent row.                              *)
LEMMA RowIsThere == \A row : HasPolicy(row) => row # NoRow
  BY DEF HasPolicy, NoRow

LEMMA SavedIsPolicy == ASSUME PolicyInv PROVE Saved \in Policy
  BY OffersAssumption DEF PolicyInv, Saved, GetPolicy, HasPolicy

(* Saving a row: who holds the policy that ceases to be the saved one has  *)
(* read it before now.                                                     *)
LEMMA SavingKeepsHeld ==
    ASSUME PolicyInv, NEW row, HasPolicy(row), SaveRow(row), now' = now,
           NEW p \in Policy
    PROVE  /\ setting' # NoRow /\ HasPolicy(setting') /\ replaced' \in [Policy -> 0 .. now]
           /\ \A at \in 0 .. now : HeldSince(p, at) => HeldSince(p, at)'
           /\ \A until \in 0 .. now + Ttl :
                 p = Saved \/ until <= replaced[p] + Ttl
                 => p = Saved' \/ until <= replaced'[p] + Ttl
  <1>1. setting' = row /\ setting' # NoRow /\ HasPolicy(setting')
    BY RowIsThere DEF SaveRow
  <1>2. Saved' = row.policy
    BY <1>1 DEF Saved, GetPolicy
  <1>3. replaced'[p] = IF p = Saved /\ p # row.policy THEN now ELSE replaced[p]
    BY DEF SaveRow, Saved
  <1>4. replaced' \in [Policy -> 0 .. now]
    BY DEF SaveRow, PolicyInv
  <1>5. now \in Nat /\ replaced[p] \in 0 .. now /\ Ttl \in Nat
    BY OffersAssumption DEF PolicyInv
  <1>6. ASSUME NEW at \in 0 .. now, HeldSince(p, at) PROVE HeldSince(p, at)'
    <2>1. (p = Saved \/ at <= replaced[p]) => (p = Saved' \/ at <= replaced'[p])
      BY <1>2, <1>3, <1>5
    <2> QED
      BY <1>6, <2>1 DEF HeldSince
  <1>7. \A until \in 0 .. now + Ttl :
           p = Saved \/ until <= replaced[p] + Ttl
           => p = Saved' \/ until <= replaced'[p] + Ttl
    BY <1>2, <1>3, <1>5
  <1> QED
    BY <1>1, <1>4, <1>6, <1>7

(* What a step that saves a row leaves of the invariant.                   *)
LEMMA SavingStep ==
    ASSUME PolicyInv, NEW row, HasPolicy(row), SaveRow(row),
           UNCHANGED <<now, reader, snapshot>>, NEW a \in Admin,
           admin' = [admin EXCEPT ![a] = [phase |-> "invalidate"]]
    PROVE  PolicyInv'
  <1>1. /\ HasPolicy(setting') /\ replaced' \in [Policy -> 0 .. now]
    BY SavingKeepsHeld, SavedIsPolicy
  <1>2. \A b \in Admin : admin'[b].phase = "change" => HasPolicy(admin'[b].row)
    BY DEF PolicyInv
  <1>3. admin' = [b \in Admin |-> admin'[b]]
    BY DEF PolicyInv
  <1>4. ASSUME NEW r \in Reader, reader[r].phase \in {"overrides", "tiers", "save"}
        PROVE  HeldSince(reader[r].policy, reader[r].at)'
    <2>1. reader[r].policy \in Policy /\ reader[r].at \in 0 .. now
          /\ HeldSince(reader[r].policy, reader[r].at)
      BY <1>4 DEF PolicyInv, HasPolicy
    <2>2. HeldSince(reader[r].policy, reader[r].at)
          => (reader[r].policy = Saved' \/ reader[r].at <= replaced'[reader[r].policy])
      BY <2>1, SavingKeepsHeld DEF HeldSince
    <2> QED
      BY <2>1, <2>2 DEF HeldSince
  <1>5. ASSUME snapshot # NoRow
        PROVE  snapshot.policy = Saved' \/ snapshot.validUntil <= replaced'[snapshot.policy] + Ttl
    BY <1>5, SavingKeepsHeld DEF PolicyInv
  <1> QED
    BY <1>1, <1>2, <1>3, <1>4, <1>5 DEF PolicyInv

(* A step that leaves the rows and the clock alone.                        *)
LEMMA OthersKeepPolicy ==
    ASSUME PolicyInv, UNCHANGED <<now, setting, replaced, reader, snapshot>>,
           admin' = [a \in Admin |-> admin'[a]],
           \A a \in Admin : admin'[a].phase = "change" => HasPolicy(admin'[a].row)
    PROVE  PolicyInv'
  BY DEF PolicyInv, HeldSince, Saved

LEMMA AdminKeepsPolicy ==
    ASSUME PolicyInv, NEW a \in Admin, AdminStep(a)
    PROVE  PolicyInv'
  <1>1. ASSUME NEW change, ReadRow(a, change),
               UNCHANGED <<reviewVars, gate, setting, snapshot, reader, replaced>>
        PROVE  PolicyInv'
    <2>1. HasPolicy(GetPolicyRaw(setting))
      BY SavedIsPolicy DEF HasPolicy, GetPolicyRaw, Saved
    <2>2. \A b \in Admin : admin'[b].phase = "change" => HasPolicy(admin'[b].row)
      BY <1>1, <2>1 DEF ReadRow, PolicyInv
    <2>3. admin' = [b \in Admin |-> admin'[b]]
      BY <1>1 DEF ReadRow, PolicyInv
    <2> QED
      BY <1>1, <2>2, <2>3, OthersKeepPolicy DEF reviewVars
  <1>2. ASSUME NEW o \in Requests, BeginAddOverride(a, o) PROVE PolicyInv'
    BY <1>1, <1>2 DEF BeginAddOverride
  <1>3. ASSUME NEW l \in Lot, BeginRemoveOverride(a, l) PROVE PolicyInv'
    BY <1>1, <1>3 DEF BeginRemoveOverride
  <1>4. ASSUME NEW p \in Policy, SavePolicy(a, p) PROVE PolicyInv'
    <2>1. HasPolicy([policy |-> p])
      BY DEF HasPolicy
    <2>2. SaveRow([policy |-> p]) /\ UNCHANGED <<now, reader, snapshot>>
          /\ admin' = [admin EXCEPT ![a] = [phase |-> "invalidate"]]
      BY <1>4 DEF SavePolicy, reviewVars
    <2> QED
      BY <2>1, <2>2, SavingStep
  <1>5. ASSUME RefusePin(a) PROVE PolicyInv'
    <2>1. /\ admin' = [admin EXCEPT ![a] = Idle]
          /\ UNCHANGED <<now, setting, replaced, reader, snapshot>>
      BY <1>5 DEF RefusePin, reviewVars
    <2>2. \A b \in Admin : admin'[b].phase = "change" => HasPolicy(admin'[b].row)
      BY <2>1 DEF Idle, PolicyInv
    <2>3. admin' = [b \in Admin |-> admin'[b]]
      BY <2>1 DEF PolicyInv
    <2> QED
      BY <2>1, <2>2, <2>3, OthersKeepPolicy
  <1>6. ASSUME WriteOverrides(a) PROVE PolicyInv'
    <2> DEFINE row == [admin[a].row EXCEPT !.overrides =
                          Changed(admin[a].change, admin[a].row.overrides)]
    <2>1. HasPolicy(admin[a].row)
      BY <1>6 DEF WriteOverrides, PolicyInv
    <2>2. HasPolicy(row)
      BY <2>1 DEF HasPolicy
    <2>3. SaveRow(row) /\ UNCHANGED <<now, reader, snapshot>>
          /\ admin' = [admin EXCEPT ![a] = [phase |-> "invalidate"]]
      BY <1>6 DEF WriteOverrides, reviewVars
    <2> HIDE DEF row
    <2> QED
      BY <2>2, <2>3, SavingStep
  <1>7. ASSUME Invalidate(a) PROVE PolicyInv'
    <2>1. /\ admin' = [admin EXCEPT ![a] = Idle] /\ snapshot' = NoRow
          /\ UNCHANGED <<now, setting, replaced, reader>>
      BY <1>7 DEF Invalidate, reviewVars
    <2>2. \A b \in Admin : admin'[b].phase = "change" => HasPolicy(admin'[b].row)
      BY <2>1 DEF Idle, PolicyInv
    <2> QED
      BY <2>1, <2>2 DEF PolicyInv, HeldSince, Saved
  <1> QED
    BY <1>2, <1>3, <1>4, <1>5, <1>6, <1>7 DEF AdminStep

(* A step of one reader.                                                   *)
LEMMA ReaderKeepsPolicy ==
    ASSUME PolicyInv, NEW r \in Reader, ReaderStep(r)
    PROVE  PolicyInv'
  <1> DEFINE Holds(q) == /\ "phase" \in DOMAIN q /\ HasPolicy(q)
                         /\ q.at \in 0 .. now /\ HeldSince(q.policy, q.at)
  <1>1. ASSUME NEW q, reader' = [reader EXCEPT ![r] = q],
               q.phase \in {"overrides", "tiers", "save"} => Holds(q),
               UNCHANGED <<now, setting, admin, replaced>>,
               \/ snapshot' = snapshot
               \/ /\ snapshot' # NoRow /\ Holds(reader[r])
                  /\ snapshot'.policy = reader[r].policy
                  /\ snapshot'.validUntil = reader[r].at + Ttl
        PROVE  PolicyInv'
    <2>1. reader' = [s \in Reader |-> reader'[s]] /\ reader'[r] = q
          /\ \A s \in Reader \ {r} : reader'[s] = reader[s]
      BY <1>1 DEF PolicyInv
    <2>2. \A p, at : HeldSince(p, at)' <=> (p = Saved \/ at <= replaced[p])
      BY <1>1 DEF HeldSince, Saved
    <2>3. ASSUME NEW s \in Reader, reader'[s].phase \in {"overrides", "tiers", "save"}
          PROVE  /\ "phase" \in DOMAIN reader'[s] /\ HasPolicy(reader'[s])
                 /\ reader'[s].at \in 0 .. now
                 /\ reader'[s].policy = Saved \/ reader'[s].at <= replaced[reader'[s].policy]
      BY <1>1, <2>1, <2>3 DEF PolicyInv, HeldSince
    <2>4. snapshot' # NoRow =>
             /\ snapshot'.policy \in Policy /\ snapshot'.validUntil \in 0 .. now + Ttl
             /\ snapshot'.policy = Saved \/ snapshot'.validUntil <= replaced[snapshot'.policy] + Ttl
      <3>1. CASE snapshot' = snapshot
        BY <3>1 DEF PolicyInv
      <3>2. CASE snapshot' # snapshot
        <4>1. /\ Holds(reader[r]) /\ snapshot'.policy = reader[r].policy
              /\ snapshot'.validUntil = reader[r].at + Ttl
          BY <1>1, <3>2
        <4>2. now \in Nat /\ Ttl \in Nat /\ replaced[reader[r].policy] \in 0 .. now
          BY <4>1, OffersAssumption DEF PolicyInv, HasPolicy
        <4> QED
          BY <4>1, <4>2 DEF HeldSince, HasPolicy
      <3> QED
        BY <3>1, <3>2
    <2>5. Saved' = Saved
      BY <1>1 DEF Saved
    <2> QED
      BY <1>1, <2>1, <2>2, <2>3, <2>4, <2>5 DEF PolicyInv
  <1>2. reader[r].phase \in {"overrides", "tiers", "save"} => Holds(reader[r])
    BY DEF PolicyInv
  <1>3. CASE ReadPolicy(r)
    <2> DEFINE q == [phase |-> "overrides", at |-> now, policy |-> GetPolicy(setting).policy,
                     hidden |-> Excluded(GetPolicyRaw(setting).overrides)]
    <2>1. q.policy = Saved /\ q.at = now
      BY DEF Saved
    <2>2. Holds(q)
      BY <2>1, SavedIsPolicy DEF HeldSince, HasPolicy, PolicyInv
    <2>3. reader' = [reader EXCEPT ![r] = q] /\ UNCHANGED <<now, setting, admin, replaced, snapshot>>
      BY <1>3 DEF ReadPolicy, reviewVars
    <2> HIDE DEF q, Holds
    <2> QED
      BY <1>1, <2>2, <2>3
  <1>4. CASE ReadOverridesAndSnapshot(r)
    <2> DEFINE q == [phase |-> "tiers", at |-> reader[r].at, policy |-> reader[r].policy,
                     hidden |-> reader[r].hidden, overrides |-> GetOverrides(setting),
                     snapshot |-> snapshot]
    <2>1. q.policy = reader[r].policy /\ q.at = reader[r].at
      OBVIOUS
    <2>2. Holds(q)
      BY <1>2, <1>4, <2>1 DEF ReadOverridesAndSnapshot, HasPolicy
    <2>3. reader' = [reader EXCEPT ![r] = q] /\ UNCHANGED <<now, setting, admin, replaced, snapshot>>
      BY <1>4 DEF ReadOverridesAndSnapshot, reviewVars, PolicyInv
    <2> HIDE DEF q, Holds
    <2> QED
      BY <1>1, <2>2, <2>3
  <1>5. CASE BuildTiers(r)
    <2> DEFINE p == reader[r]
               phase == IF ~ Fresh(p.snapshot, p.at) \/ Pruned(p) THEN "save" ELSE "answered"
               q == [phase |-> phase,
                     at |-> p.at, policy |-> p.policy, hidden |-> p.hidden,
                     items |-> [tier \in Tier |-> TierItems(p, tier)],
                     eligible |-> [tier \in Tier |-> {l \in Lot : StillEligible(l, tier, p.at)}],
                     gated |-> gate, confirmed |-> IF gate THEN ConfirmedLots ELSE Lot]
    <2>1. q.policy = p.policy /\ q.at = p.at /\ {"phase", "policy"} \subseteq DOMAIN q
      OBVIOUS
    <2>2. p.phase = "tiers" /\ reader' = [reader EXCEPT ![r] = q]
      BY <1>5 DEF BuildTiers
    <2>3. UNCHANGED <<now, setting, admin, replaced, snapshot>>
      BY <1>5 DEF BuildTiers, reviewVars
    <2> HIDE DEF q
    <2>4. Holds(q)
      BY <1>2, <2>1, <2>2 DEF HasPolicy
    <2> HIDE DEF p, Holds
    <2> QED
      BY <1>1, <2>2, <2>3, <2>4
  <1>6. ASSUME reader[r].phase = "save", reader' = [reader EXCEPT ![r].phase = "answered"],
               UNCHANGED <<now, setting, admin, replaced>>,
               snapshot' = snapshot \/ snapshot' = Row(reader[r], reader[r].at)
        PROVE  PolicyInv'
    <2> DEFINE q == [reader[r] EXCEPT !.phase = "answered"]
    <2>1. q.phase = "answered"
      BY <1>2, <1>6
    <2>2. reader' = [reader EXCEPT ![r] = q]
      BY <1>6
    <2>3. Row(reader[r], reader[r].at) # NoRow
          /\ Row(reader[r], reader[r].at).policy = reader[r].policy
          /\ Row(reader[r], reader[r].at).validUntil = reader[r].at + Ttl
      BY RowIsThere DEF Row, NoRow
    <2>4. Holds(reader[r])
      BY <1>2, <1>6
    <2> HIDE DEF q, Holds
    <2> QED
      BY <1>1, <1>6, <2>1, <2>2, <2>3, <2>4
  <1>7. CASE SaveSnapshot(r) \/ SaveFails(r)
    BY <1>6, <1>7 DEF SaveSnapshot, SaveFails, reviewVars
  <1>8. CASE PersonalRead(r)
    <2> DEFINE q == [phase |-> "personal", items |-> PersonalItems(GetPolicy(setting).policy)]
    <2>1. q.phase = "personal"
      OBVIOUS
    <2>2. reader' = [reader EXCEPT ![r] = q] /\ UNCHANGED <<now, setting, admin, replaced, snapshot>>
      BY <1>8 DEF PersonalRead, reviewVars
    <2> HIDE DEF q, Holds
    <2> QED
      BY <1>1, <2>1, <2>2
  <1>9. CASE Forget(r)
    <2>1. reader' = [reader EXCEPT ![r] = Idle] /\ UNCHANGED <<now, setting, admin, replaced, snapshot>>
      BY <1>9 DEF Forget, reviewVars
    <2>2. Idle.phase = "idle"
      BY DEF Idle
    <2> HIDE DEF Holds
    <2> QED
      BY <1>1, <2>1, <2>2
  <1> QED
    BY <1>3, <1>4, <1>5, <1>7, <1>8, <1>9 DEF ReaderStep

LEMMA PolicyStep == PolicyInv /\ [Next]_vars => PolicyInv'
  <1> SUFFICES ASSUME PolicyInv, [Next]_vars PROVE PolicyInv'
    OBVIOUS
  <1>1. CASE UNCHANGED offersVars /\ now' \in {now, now + 1}
    <2>1. now \in Nat /\ now' \in Nat /\ 0 .. now \subseteq 0 .. now'
          /\ 0 .. now + Ttl \subseteq 0 .. now' + Ttl
      BY <1>1, OffersAssumption DEF PolicyInv
    <2> QED
      BY <1>1, <2>1 DEF offersVars, PolicyInv, HeldSince, Saved
  <1>2. CASE Review \/ World
    <2>1. UNCHANGED offersVars
      BY <1>2 DEF Review, World
    <2>2. now' \in {now, now + 1}
      BY <1>2 DEF Review, World, Environment, Tick, LotObserved, LotWithdrawn, ReviewNext,
                  SubmitAiAnalysis, LookUpAnalysis, CreateAnalysis, DecideAiReview, WriteDecision
    <2> QED
      BY <1>1, <2>1, <2>2
  <1>3. CASE Restart
    <2>1. \A a \in Admin : admin'[a].phase = "idle"
      BY <1>3 DEF Restart, Idle
    <2>2. \A r \in Reader : reader'[r].phase = "idle"
      BY <1>3 DEF Restart, Idle
    <2>3. admin' = [a \in Admin |-> admin'[a]] /\ reader' = [r \in Reader |-> reader'[r]]
      BY <1>3 DEF Restart
    <2> QED
      BY <1>3, <2>1, <2>2, <2>3 DEF Restart, PolicyInv, HeldSince, Saved
  <1>4. CASE UNCHANGED vars
    BY <1>1, <1>4 DEF vars, reviewVars
  <1> QED
    BY <1>2, <1>3, <1>4, AdminKeepsPolicy, ReaderKeepsPolicy DEF Next

(* In every reachable state who builds under a policy read it while it was *)
(* the saved one, and a snapshot lasts at most Ttl beyond its policy.      *)
THEOREM PolicyInvariant == Spec => []PolicyInv
  BY PolicyStart, PolicyStep, PTL DEF Spec

(* However late a read stores what it built, and whatever crash comes      *)
(* between saving a policy and deleting the snapshot, a snapshot outlives  *)
(* its policy by Ttl at most (getPublicHotOffers, savePolicy).             *)
THEOREM SnapshotsAgeOut == Spec => []StaleAtMostTtl
  <1>1. PolicyInv => StaleAtMostTtl
    <2> SUFFICES ASSUME PolicyInv, snapshot # NoRow, snapshot.validUntil > now,
                        snapshot.policy # Saved
                 PROVE  replaced[snapshot.policy] + Ttl > now
      BY DEF StaleAtMostTtl, Saved
    <2>1. /\ replaced[snapshot.policy] \in Nat /\ Ttl \in Nat /\ now \in Nat
          /\ snapshot.validUntil \in Nat
          /\ snapshot.validUntil <= replaced[snapshot.policy] + Ttl
      BY OffersAssumption DEF PolicyInv
    <2> QED
      BY <2>1
  <1> QED
    BY <1>1, PolicyInvariant, PTL

-----------------------------------------------------------------------------
(* Lists: the entries of a list at some places, and a list without one.    *)
NatsInOrder == {ss \in Nat \X Nat : ss[1] < ss[2]}

LEMMA LeastOf ==
    ASSUME NEW S \in SUBSET Nat, S # {}
    PROVE  \E n \in S : \A m \in S : n <= m
<1>1. IsWellFoundedOn(NatsInOrder, Nat)
  BY NatLessThanWellFounded DEF OpToRel, NatsInOrder
<1>2. PICK n \in S : \A m \in S : ~ (<<m, n>> \in NatsInOrder)
  BY <1>1, WFMin
<1>3. \A m \in S : ~ (m < n)
  BY <1>2 DEF NatsInOrder
<1> QED
  BY <1>3

(* A finite set of places has a first, a second, and so on.                *)
LEMMA PlacesInOrder ==
    ASSUME NEW S \in SUBSET Nat, IsFiniteSet(S), NEW n \in 1 .. Cardinality(S)
    PROVE  \E i \in S : Cardinality({j \in S : j <= i}) = n
<1> DEFINE UpTo(i) == {j \in S : j <= i}
           Without == {m \in 1 .. Cardinality(S) : \A i \in S : Cardinality(UpTo(i)) # m}
<1>1. SUFFICES ASSUME Without # {} PROVE FALSE
  OBVIOUS
<1>2. Cardinality(S) \in Nat
  BY FS_CardinalityType
<1>a. \A i \in S : i \in Nat
  OBVIOUS
<1>b. Without \in SUBSET Nat
  BY <1>2
<1>3. PICK m \in Without : \A k \in Without : m <= k
  <2> HIDE DEF Without
  <2> QED
    BY <1>1, <1>b, LeastOf
<1>4. CASE m = 1
  <2>1. S # {}
    BY <1>2, <1>3, FS_EmptySet
  <2>2. PICK i \in S : \A j \in S : i <= j
    BY <2>1, LeastOf
  <2>3. UpTo(i) = {i}
    <3>1. \A j \in S : j <= i <=> j = i
      BY <1>a, <2>2
    <3> QED
      BY <3>1
  <2>4. Cardinality(UpTo(i)) = 1
    BY <2>3, FS_Singleton
  <2> QED
    BY <1>3, <1>4, <2>4
<1>5. CASE m # 1
  <2>1. m - 1 \in 1 .. Cardinality(S) /\ m - 1 \notin Without
    BY <1>2, <1>3, <1>5
  <2>2. PICK i \in S : Cardinality(UpTo(i)) = m - 1
    BY <2>1
  <2> DEFINE Beyond == {j \in S : i < j}
  <2>3. Beyond # {}
    <3>1. SUFFICES ASSUME Beyond = {} PROVE FALSE
      OBVIOUS
    <3>2. \A j \in S : j <= i
      BY <1>a, <3>1
    <3>3. UpTo(i) = S
      BY <3>2
    <3> QED
      BY <1>2, <1>3, <2>2, <3>3
  <2>4. PICK k \in Beyond : \A j \in Beyond : k <= j
    BY <2>3, LeastOf
  <2>5. UpTo(k) = UpTo(i) \cup {k} /\ k \notin UpTo(i)
    <3>1. \A j \in S : (j <= k <=> j <= i \/ j = k) /\ ~ (k <= i)
      BY <1>a, <2>4
    <3> QED
      BY <2>4, <3>1
  <2>6. IsFiniteSet(UpTo(i))
    BY FS_Subset
  <2>7. Cardinality(UpTo(k)) = Cardinality(UpTo(i)) + 1
    BY <2>5, <2>6, FS_AddElement
  <2> QED
    BY <1>2, <1>3, <2>2, <2>4, <2>7
<1> QED
  BY <1>4, <1>5

(* filter keeps entries of its places, each from another place.            *)
LEMMA FilteredEntries ==
    ASSUME NEW list, NEW S \in SUBSET Nat, IsFiniteSet(S)
    PROVE  /\ Cardinality(S) \in Nat
           /\ DOMAIN Filtered(list, S) = 1 .. Cardinality(S)
           /\ \A n \in 1 .. Cardinality(S) : \E i \in S : Filtered(list, S)[n] = list[i]
           /\ \A n, m \in 1 .. Cardinality(S) : n # m =>
                 \E i, j \in S : /\ i # j /\ Filtered(list, S)[n] = list[i]
                                /\ Filtered(list, S)[m] = list[j]
<1> DEFINE Nth(n) == CHOOSE i \in S : Cardinality({j \in S : j <= i}) = n
<1>1. \A n \in 1 .. Cardinality(S) :
         Nth(n) \in S /\ Cardinality({j \in S : j <= Nth(n)}) = n
  BY PlacesInOrder
<1>2. Filtered(list, S) = [n \in 1 .. Cardinality(S) |-> list[Nth(n)]]
  BY DEF Filtered
<1> HIDE DEF Nth
<1>3. \A n, m \in 1 .. Cardinality(S) : n # m => Nth(n) # Nth(m)
  BY <1>1
<1> QED
  BY <1>1, <1>2, <1>3, FS_CardinalityType

LEMMA FilteredApart ==
    ASSUME NEW list, NEW S \in SUBSET Nat, IsFiniteSet(S), S \subseteq DOMAIN list,
           NEW n \in DOMAIN Filtered(list, S), NEW m \in DOMAIN Filtered(list, S), n # m
    PROVE  \E i, j \in DOMAIN list : /\ i # j /\ Filtered(list, S)[n] = list[i]
                                     /\ Filtered(list, S)[m] = list[j]
<1>1. n \in 1 .. Cardinality(S) /\ m \in 1 .. Cardinality(S)
  BY DEF Filtered
<1>2. PICK i, j \in S : /\ i # j /\ Filtered(list, S)[n] = list[i]
                        /\ Filtered(list, S)[m] = list[j]
  BY <1>1, FilteredEntries
<1> QED
  BY <1>2

LEMMA AmongIsSeq ==
    ASSUME NEW list, NEW n \in Nat, DOMAIN list = 1 .. n, NEW S
    PROVE  Among(list, S) \in Seq(S)
<1> DEFINE places == {i \in 1 .. n : list[i] \in S}
<1>1. places \in SUBSET Nat /\ IsFiniteSet(places)
  BY FS_Interval, FS_Subset
<1>2. Among(list, S) = Filtered(list, places)
  BY DEF Among
<1>3. \A i \in places : list[i] \in S
  OBVIOUS
<1> HIDE DEF places
<1>4. /\ Cardinality(places) \in Nat
      /\ DOMAIN Filtered(list, places) = 1 .. Cardinality(places)
      /\ \A k \in 1 .. Cardinality(places) : Filtered(list, places)[k] \in S
  BY <1>1, <1>3, FilteredEntries
<1>5. Filtered(list, places) = [k \in 1 .. Cardinality(places) |-> Filtered(list, places)[k]]
  BY <1>4 DEF Filtered
<1> QED
  BY <1>2, <1>4, <1>5

(* A list read one after another stays a list of what both lists hold.     *)
LEMMA PickedIsSeq ==
    ASSUME NEW S, NEW items \in Seq(S), NEW list \in Seq(S), NEW limits
    PROVE  Picked(items, list, limits) \in Seq(S)
<1> DEFINE Fits(f, k) == f = [n \in 0 .. k |-> IF n = 0 THEN items
                                              ELSE Admit(f[n - 1], list[n], limits)]
           Unfit == {k \in 0 .. Len(list) : \A f : ~ Fits(f, k)}
<1>1. Len(list) \in Nat /\ \A n \in 1 .. Len(list) : list[n] \in S
  OBVIOUS
<1>2. Unfit = {}
  <2>1. SUFFICES ASSUME Unfit # {} PROVE FALSE
    OBVIOUS
  <2>2. PICK k \in Unfit : \A j \in Unfit : k <= j
    <3>1. Unfit \in SUBSET Nat
      BY <1>1
    <3> HIDE DEF Unfit
    <3> QED
      BY <2>1, <3>1, LeastOf
  <2>3. CASE k = 0
    <3> DEFINE f == [n \in 0 .. 0 |-> items]
    <3>1. Fits(f, 0)
      OBVIOUS
    <3> QED
      BY <2>2, <2>3, <3>1
  <2>4. CASE k # 0
    <3>1. k - 1 \in 0 .. Len(list) /\ k - 1 \notin Unfit
      <4>1. k \in 0 .. Len(list) /\ k - 1 \in 0 .. Len(list) /\ ~ (k <= k - 1)
        BY <1>1, <2>2, <2>4
      <4> HIDE DEF Unfit
      <4> QED
        BY <2>2, <4>1
    <3>2. PICK f : Fits(f, k - 1)
      BY <3>1
    <3> DEFINE g == [n \in 0 .. k |-> IF n = k THEN Admit(f[k - 1], list[k], limits) ELSE f[n]]
    <3>3. \A n \in 0 .. k : g[n] = IF n = 0 THEN items ELSE Admit(g[n - 1], list[n], limits)
      <4> TAKE n \in 0 .. k
      <4>1. k \in Nat \ {0}
        BY <1>1, <2>2, <2>4
      <4>2. CASE n = k
        BY <4>1, <4>2
      <4>3. CASE n # k
        <5>1. n \in 0 .. k - 1 /\ g[n] = f[n] /\ (n # 0 => n - 1 \in 0 .. k /\ n - 1 # k)
          BY <4>1, <4>3
        <5>2. f[n] = IF n = 0 THEN items ELSE Admit(f[n - 1], list[n], limits)
          BY <3>2, <5>1
        <5>3. n # 0 => g[n - 1] = f[n - 1]
          BY <5>1
        <5> QED
          BY <5>1, <5>2, <5>3
      <4> QED
        BY <4>2, <4>3
    <3>4. g = [n \in 0 .. k |-> g[n]]
      OBVIOUS
    <3> HIDE DEF g
    <3>5. Fits(g, k)
      BY <3>3, <3>4
    <3> QED
      BY <2>2, <3>5
  <2> QED
    BY <2>3, <2>4
<1>3. PICK f : Fits(f, Len(list))
  BY <1>1, <1>2
<1> DEFINE upTo == CHOOSE g : Fits(g, Len(list))
<1>4. Fits(upTo, Len(list))
  BY <1>3
<1>5. Picked(items, list, limits) = upTo[Len(list)]
  BY DEF Picked
<1> HIDE DEF upTo
<1>6. /\ upTo[0] = items
      /\ \A n \in 1 .. Len(list) : upTo[n] = Admit(upTo[n - 1], list[n], limits)
  BY <1>1, <1>4
<1> DEFINE Wrong == {k \in 0 .. Len(list) : upTo[k] \notin Seq(S)}
<1>7. Wrong = {}
  <2>1. SUFFICES ASSUME Wrong # {} PROVE FALSE
    OBVIOUS
  <2>2. PICK k \in Wrong : \A j \in Wrong : k <= j
    <3>1. Wrong \in SUBSET Nat
      BY <1>1
    <3> HIDE DEF Wrong
    <3> QED
      BY <2>1, <3>1, LeastOf
  <2>3. k \in 1 .. Len(list) /\ k - 1 \in 0 .. Len(list) /\ k - 1 \notin Wrong
    BY <1>1, <1>6, <2>2
  <2>4. upTo[k - 1] \in Seq(S) /\ list[k] \in S
    BY <1>1, <2>3
  <2>5. Append(upTo[k - 1], list[k]) \in Seq(S)
    BY <2>4
  <2>6. upTo[k] \in Seq(S)
    BY <1>6, <2>3, <2>4, <2>5 DEF Admit
  <2> QED
    BY <2>2, <2>6
<1> QED
  BY <1>1, <1>5, <1>7

(* The elements of a finite set, in some order.                            *)
LEMMA SetToSeqIsSeq ==
    ASSUME NEW S, IsFiniteSet(S)
    PROVE  SetToSeq(S) \in Seq(S)
<1>1. Cardinality(S) \in Nat /\ ExistsBijection(1 .. Cardinality(S), S)
  BY FS_NatBijection, FS_CardinalityType
<1>2. \E f \in [1 .. Cardinality(S) -> S] : IsInjective(f)
  BY <1>1 DEF ExistsBijection, Bijection, Injection
<1>3. SetToSeq(S) \in [1 .. Cardinality(S) -> S]
  BY <1>2 DEF SetToSeq
<1> QED
  BY <1>1, <1>3

-----------------------------------------------------------------------------
(* What a tier may show to a reader.                                       *)
Good(q, tier) ==
    {l \in Lot : /\ StillEligible(l, tier, q.at)
                 /\ IF gate THEN l \in ConfirmedLots ELSE l \in Admits[q.policy]}

LEMMA FilteredIsSeq ==
    ASSUME NEW S, NEW list \in Seq(S), NEW places \in SUBSET DOMAIN list
    PROVE  Filtered(list, places) \in Seq(S)
<1>1. places \in SUBSET Nat /\ IsFiniteSet(places)
  BY FS_Interval, FS_Subset
<1>2. /\ Cardinality(places) \in Nat
      /\ DOMAIN Filtered(list, places) = 1 .. Cardinality(places)
      /\ \A k \in 1 .. Cardinality(places) : Filtered(list, places)[k] \in S
  BY <1>1, FilteredEntries
<1>3. Filtered(list, places) = [k \in 1 .. Cardinality(places) |-> Filtered(list, places)[k]]
  BY <1>2 DEF Filtered
<1> QED
  BY <1>2, <1>3

LEMMA PinOrderIsList ==
    ASSUME NEW overrides \in Seq(Requests), NEW tier
    PROVE  \E n \in Nat : DOMAIN PinOrder(overrides, tier) = 1 .. n
<1> DEFINE at(k) == Filtered(overrides, {i \in PinsOf(overrides, tier) : overrides[i].position = k})
<1>1. \A k \in {1, 2} : at(k) \in Seq(Requests)
  BY FilteredIsSeq DEF PinsOf
<1>2. PinOrder(overrides, tier) = [i \in 1 .. Len(at(1) \o at(2)) |-> (at(1) \o at(2))[i].lot]
  BY DEF PinOrder
<1> HIDE DEF at
<1>3. at(1) \o at(2) \in Seq(Requests)
  BY <1>1
<1> QED
  BY <1>2, <1>3

LEMMA CandidatesAreGood ==
    ASSUME NEW q, q.overrides \in Seq(Requests), q.policy \in Policy, NEW tier \in Tier,
           ReviewTypeOK
    PROVE  CandidatesOf(q, tier) \in Seq(Good(q, tier))
<1>1. CASE gate
  <2> DEFINE eligible == {l \in ConfirmedLots \ Excluded(q.overrides) : StillEligible(l, tier, q.at)}
             pins == Among(PinOrder(q.overrides, tier), eligible)
  <2>1. ConfirmedLots \subseteq Lot
    BY DEF ConfirmedLots, ReviewTypeOK, Analysis
  <2>2. eligible \subseteq Good(q, tier) /\ IsFiniteSet(eligible \ ToSet(pins))
    BY <1>1, <2>1, OffersAssumption, FS_Subset DEF Good
  <2>3. CandidatesOf(q, tier) = pins \o SetToSeq(eligible \ ToSet(pins))
    BY <1>1 DEF CandidatesOf, OrderTier
  <2>4. pins \in Seq(eligible)
    BY PinOrderIsList, AmongIsSeq
  <2> HIDE DEF eligible, pins
  <2>5. SetToSeq(eligible \ ToSet(pins)) \in Seq(eligible \ ToSet(pins))
    BY <2>2, SetToSeqIsSeq
  <2>6. pins \in Seq(Good(q, tier)) /\ SetToSeq(eligible \ ToSet(pins)) \in Seq(Good(q, tier))
    BY <2>2, <2>4, <2>5
  <2> QED
    BY <2>3, <2>6
<1>2. CASE ~ gate
  <2> DEFINE S == {l \in Admits[q.policy] \ Excluded(q.overrides) : StillEligible(l, tier, q.at)}
  <2>1. Cardinality(Lot) \in Nat
    BY OffersAssumption, FS_CardinalityType
  <2>2. DOMAIN Ranking[q.policy] = 1 .. Cardinality(Lot)
    BY DEF Ranking
  <2>3. CandidatesOf(q, tier) = Among(Ranking[q.policy], S)
    BY <1>2 DEF CandidatesOf, AllCandidates
  <2>4. S \subseteq Good(q, tier)
    BY <1>2, OffersAssumption DEF Good
  <2> HIDE DEF S
  <2>5. CandidatesOf(q, tier) \in Seq(S)
    BY <2>1, <2>2, <2>3, AmongIsSeq
  <2> QED
    BY <2>4, <2>5
<1> QED
  BY <1>1, <1>2

LEMMA TierItemsAreGood ==
    ASSUME NEW q, q.overrides \in Seq(Requests), q.policy \in Policy, NEW tier \in Tier,
           q.snapshot # NoRow => Listed(q.snapshot.items), ReviewTypeOK
    PROVE  TierItems(q, tier) \in Seq(Good(q, tier))
<1> DEFINE candidates == CandidatesOf(q, tier)
           kept == Among(q.snapshot.items[tier], ToSet(candidates))
           pins == Among(PinOrder(q.overrides, tier), ToSet(candidates))
           some == IF Fresh(q.snapshot, q.at) THEN Fill(kept, candidates) ELSE BuiltItems(q, tier)
           S == Good(q, tier)
<1>1. candidates \in Seq(S) /\ ToSet(candidates) \subseteq S
  BY CandidatesAreGood DEF ToSet
<1> HIDE DEF candidates, S
<1>2. Fresh(q.snapshot, q.at) => kept \in Seq(ToSet(candidates))
  <2>1. Fresh(q.snapshot, q.at) => q.snapshot.items[tier] \in Seq(Lot)
    BY DEF Fresh, Listed
  <2> QED
    BY <2>1, AmongIsSeq
<1>3. pins \in Seq(ToSet(candidates))
  BY PinOrderIsList, AmongIsSeq
<1> HIDE DEF kept, pins
<1>4. /\ Fresh(q.snapshot, q.at) => kept \in Seq(S)
      /\ pins \in Seq(S)
  BY <1>1, <1>2, <1>3
<1>5. some \in Seq(S)
  BY <1>1, <1>4, PickedIsSeq DEF candidates, pins, Fill, BuiltItems, RankAndFilter
<1>6. TierItems(q, tier) = FirstItems(EnforceProviderCap(some))
  BY DEF TierItems, Verified, candidates, kept
<1> HIDE DEF some
<1>7. EnforceProviderCap(some) \in Seq(S)
  <2>1. <<>> \in Seq(S)
    OBVIOUS
  <2> QED
    BY <1>5, <2>1, PickedIsSeq DEF EnforceProviderCap
<1> DEFINE all == EnforceProviderCap(some)
<1> HIDE DEF all
<1>8. FirstItems(all) \in Seq(S)
  <2>1. all \in Seq(S) /\ MaxItems \in Nat
    BY <1>7, OffersAssumption DEF all
  <2> QED
    BY <2>1 DEF FirstItems
<1> QED
  BY <1>6, <1>8 DEF all, S

LEMMA ReaderKeepsReaders ==
    ASSUME ReadersInv, PolicyInv, ReviewTypeOK, NEW r \in Reader, ReaderStep(r)
    PROVE  ReadersInv'
<1> DEFINE Holds(q) ==
        /\ q.phase = "tiers" => /\ q.overrides \in Seq(Requests)
                                /\ q.snapshot # NoRow => Listed(q.snapshot.items)
        /\ q.phase \in {"save", "answered"} => Listed(q.items) /\ ShowsEligible(q)
<1>1. ASSUME NEW q, Holds(q), reader' = [reader EXCEPT ![r] = q],
             snapshot' # NoRow => Listed(snapshot'.items)
      PROVE  ReadersInv'
  <2>1. \A s \in Reader : Holds(reader'[s])
    BY <1>1 DEF PolicyInv, ReadersInv
  <2> QED
    BY <1>1, <2>1 DEF ReadersInv, ShowsEligible, Listed
<1>2. Holds(reader[r])
  BY DEF ReadersInv
<1>3. snapshot # NoRow => Listed(snapshot.items)
  BY DEF ReadersInv
<1>4. CASE ReadPolicy(r)
  <2> DEFINE q == [phase |-> "overrides", at |-> now, policy |-> GetPolicy(setting).policy,
                   hidden |-> Excluded(GetPolicyRaw(setting).overrides)]
  <2>1. Holds(q)
    OBVIOUS
  <2>2. reader' = [reader EXCEPT ![r] = q] /\ snapshot' = snapshot
    BY <1>4 DEF ReadPolicy
  <2> HIDE DEF q, Holds
  <2> QED
    BY <1>1, <1>3, <2>1, <2>2
<1>5. CASE ReadOverridesAndSnapshot(r)
  <2> DEFINE q == [phase |-> "tiers", at |-> reader[r].at, policy |-> reader[r].policy,
                   hidden |-> reader[r].hidden, overrides |-> GetOverrides(setting),
                   snapshot |-> snapshot]
  <2>1. GetOverrides(setting) = <<>>
    BY DEF GetOverrides, GetPolicy, OverridesOf
  <2>2. Holds(q)
    BY <1>3, <2>1
  <2>3. reader' = [reader EXCEPT ![r] = q] /\ snapshot' = snapshot
    BY <1>5 DEF ReadOverridesAndSnapshot, PolicyInv
  <2> HIDE DEF q, Holds
  <2> QED
    BY <1>1, <1>3, <2>2, <2>3
<1>6. CASE BuildTiers(r)
  <2> DEFINE p == reader[r]
             q == [phase |-> IF ~ Fresh(p.snapshot, p.at) \/ Pruned(p) THEN "save" ELSE "answered",
                   at |-> p.at, policy |-> p.policy, hidden |-> p.hidden,
                   items |-> [tier \in Tier |-> TierItems(p, tier)],
                   eligible |-> [tier \in Tier |-> {l \in Lot : StillEligible(l, tier, p.at)}],
                   gated |-> gate, confirmed |-> IF gate THEN ConfirmedLots ELSE Lot]
  <2>1. p.phase = "tiers" /\ reader' = [reader EXCEPT ![r] = q] /\ snapshot' = snapshot
    BY <1>6 DEF BuildTiers
  <2>2. p.policy \in Policy
    BY <2>1 DEF PolicyInv, HasPolicy
  <2>3. \A tier \in Tier : TierItems(p, tier) \in Seq(Good(p, tier))
    BY <1>2, <2>1, <2>2, TierItemsAreGood
  <2>4. /\ q.policy = p.policy /\ q.gated = gate
        /\ q.confirmed = IF gate THEN ConfirmedLots ELSE Lot
        /\ q.phase # "tiers"
    OBVIOUS
  <2>a. q.items = [tier \in Tier |-> TierItems(p, tier)]
    OBVIOUS
  <2>b. q.eligible = [tier \in Tier |-> {l \in Lot : StillEligible(l, tier, p.at)}]
    OBVIOUS
  <2> HIDE DEF q, p
  <2>c. \A tier \in Tier : /\ q.items[tier] \in Seq(Good(p, tier))
                           /\ q.eligible[tier] = {l \in Lot : StillEligible(l, tier, p.at)}
    BY <2>3, <2>a, <2>b
  <2>5. Listed(q.items)
    <3>1. \A tier \in Tier : Good(p, tier) \subseteq Lot
      BY DEF Good
    <3>2. \A tier \in Tier : TierItems(p, tier) \in Seq(Lot)
      BY <2>3, <3>1
    <3> QED
      BY <2>a, <3>2 DEF Listed
  <2>6. ShowsEligible(q)
    <3> SUFFICES ASSUME NEW tier \in Tier, NEW l \in ToSet(q.items[tier])
                 PROVE  /\ l \in q.eligible[tier] \cap q.confirmed
                        /\ l \in Admits[q.policy] \/ q.gated
      BY DEF ShowsEligible
    <3>1. l \in Good(p, tier)
      BY <2>c DEF ToSet
    <3> QED
      BY <2>4, <2>c, <3>1 DEF Good
  <2>7. Holds(q)
    BY <2>4, <2>5, <2>6
  <2> HIDE DEF Holds
  <2> QED
    BY <1>1, <1>3, <2>1, <2>7
<1>7. ASSUME reader[r].phase = "save", reader' = [reader EXCEPT ![r].phase = "answered"],
             snapshot' = snapshot \/ snapshot' = Row(reader[r], reader[r].at)
      PROVE  ReadersInv'
  <2> DEFINE q == [reader[r] EXCEPT !.phase = "answered"]
  <2>1. "phase" \in DOMAIN reader[r]
    BY <1>7 DEF PolicyInv
  <2>2. q.phase = "answered" /\ q.items = reader[r].items /\ q.eligible = reader[r].eligible
        /\ q.confirmed = reader[r].confirmed /\ q.policy = reader[r].policy
        /\ q.gated = reader[r].gated
    BY <2>1
  <2>3. reader' = [reader EXCEPT ![r] = q]
    BY <1>7
  <2> HIDE DEF q
  <2>4. Listed(reader[r].items) /\ ShowsEligible(reader[r])
    BY <1>2, <1>7
  <2>5. Holds(q)
    BY <2>2, <2>4 DEF Listed, ShowsEligible
  <2>6. Row(reader[r], reader[r].at).items = reader[r].items
    BY DEF Row
  <2> HIDE DEF Holds
  <2> QED
    BY <1>1, <1>3, <1>7, <2>3, <2>4, <2>5, <2>6
<1>8. CASE SaveSnapshot(r) \/ SaveFails(r)
  BY <1>7, <1>8 DEF SaveSnapshot, SaveFails
<1>9. CASE PersonalRead(r)
  <2> DEFINE q == [phase |-> "personal", items |-> PersonalItems(GetPolicy(setting).policy)]
  <2>1. Holds(q)
    OBVIOUS
  <2>2. reader' = [reader EXCEPT ![r] = q] /\ snapshot' = snapshot
    BY <1>9 DEF PersonalRead
  <2> HIDE DEF q, Holds
  <2> QED
    BY <1>1, <1>3, <2>1, <2>2
<1>10. CASE Forget(r)
  <2>1. Holds(Idle)
    BY DEF Idle
  <2>2. reader' = [reader EXCEPT ![r] = Idle] /\ snapshot' = snapshot
    BY <1>10 DEF Forget
  <2> HIDE DEF Holds
  <2> QED
    BY <1>1, <1>3, <2>1, <2>2
<1> QED
  BY <1>4, <1>5, <1>6, <1>8, <1>9, <1>10 DEF ReaderStep

(* A step that writes no snapshot and leaves the readers where they are,   *)
(* or drops what they do.                                                  *)
LEMMA OthersKeepReaders ==
    ASSUME ReadersInv, snapshot' = snapshot \/ snapshot' = NoRow,
           reader' = reader \/ reader' = [r \in Reader |-> Idle]
    PROVE  ReadersInv'
<1>1. snapshot' # NoRow => Listed(snapshot'.items)
  BY DEF ReadersInv
<1>2. CASE reader' = reader
  BY <1>1, <1>2 DEF ReadersInv, ShowsEligible, Listed
<1>3. CASE reader' = [r \in Reader |-> Idle]
  <2>1. \A r \in Reader : reader'[r].phase = "idle"
    BY <1>3 DEF Idle
  <2> QED
    BY <1>1, <2>1 DEF ReadersInv, Listed
<1> QED
  BY <1>2, <1>3

LEMMA ReadersStep == ReadersInv /\ PolicyInv /\ ReviewTypeOK /\ [Next]_vars => ReadersInv'
<1> SUFFICES ASSUME ReadersInv, PolicyInv, ReviewTypeOK, [Next]_vars PROVE ReadersInv'
  OBVIOUS
<1>1. CASE Review \/ World \/ UNCHANGED vars
  BY <1>1, OthersKeepReaders DEF Review, World, offersVars, vars
<1>2. ASSUME NEW a \in Admin, AdminStep(a) PROVE ReadersInv'
  BY <1>2, OthersKeepReaders
     DEF AdminStep, BeginAddOverride, BeginRemoveOverride, SavePolicy, RefusePin,
         WriteOverrides, Invalidate
<1>3. CASE Restart
  BY <1>3, OthersKeepReaders DEF Restart
<1> QED
  BY <1>1, <1>2, <1>3, ReaderKeepsReaders DEF Next

(* In every reachable state what a reader is about to answer or to save    *)
(* was eligible for its tier when the lots were read.                      *)
THEOREM ReadersInvariant == Spec => []ReadersInv
<1>1. Init => ReadersInv
  <2> SUFFICES ASSUME Init PROVE ReadersInv
    OBVIOUS
  <2>1. snapshot = NoRow /\ \A r \in Reader : reader[r].phase = "idle"
    BY DEF Init, Idle
  <2> QED
    BY <2>1 DEF ReadersInv
<1>2. ReviewInv => ReviewTypeOK
  BY DEF ReviewInv
<1> QED
  BY <1>1, <1>2, ReadersStep, ReviewInvariant, PolicyInvariant, PTL DEF Spec

(* An answer shows only lots that were eligible for their tier, within the *)
(* policy that was read, and confirmed when the gate is set, also when it  *)
(* follows a snapshot of another request (getPublicHotOffers).             *)
THEOREM ShownWereEligible == Spec => []ShownIsEligible
<1>1. ReadersInv => ShownIsEligible
  BY DEF ReadersInv, ShownIsEligible
<1> QED
  BY <1>1, ReadersInvariant, PTL

-----------------------------------------------------------------------------
(* The overrides: splice drops one entry and keeps the others apart.       *)
LEMMA SplicedEntries ==
    ASSUME NEW list \in Seq(Requests), NEW S \in SUBSET DOMAIN list
    PROVE  /\ Spliced(list, S) \in Seq(Requests)
           /\ \A n \in DOMAIN Spliced(list, S) : \E i \in DOMAIN list : Spliced(list, S)[n] = list[i]
           /\ \A n, m \in DOMAIN Spliced(list, S) : n # m =>
                 \E i, j \in DOMAIN list : /\ i # j /\ Spliced(list, S)[n] = list[i]
                                           /\ Spliced(list, S)[m] = list[j]
           /\ (\A i, j \in S : i = j) =>
                 \A n \in DOMAIN Spliced(list, S) :
                    \E i \in DOMAIN list \ S : Spliced(list, S)[n] = list[i]
<1>1. Len(list) \in Nat /\ DOMAIN list = 1 .. Len(list)
      /\ \A i \in 1 .. Len(list) : list[i] \in Requests
  OBVIOUS
<1>2. CASE S = {}
  BY <1>1, <1>2 DEF Spliced
<1>3. CASE S # {}
  <2> DEFINE first == CHOOSE i \in S : \A j \in S : i <= j
             From(n) == IF n < first THEN n ELSE n + 1
             short == [n \in 1 .. Len(list) - 1 |-> IF n < first THEN list[n] ELSE list[n + 1]]
  <2>1. first \in S
    <3>1. S \in SUBSET Nat
      BY <1>1
    <3>2. \E i \in S : \A j \in S : i <= j
      BY <1>3, <3>1, LeastOf
    <3> QED
      BY <3>2
  <2>2. Spliced(list, S) = short
    BY <1>3 DEF Spliced
  <2> HIDE DEF first
  <2>3. first \in 1 .. Len(list) /\ Len(list) - 1 \in Nat
    BY <1>1, <2>1
  <2>4. \A n \in 1 .. Len(list) - 1 :
           From(n) \in 1 .. Len(list) /\ From(n) # first /\ short[n] = list[From(n)]
    BY <1>1, <2>3
  <2>5. \A n, m \in 1 .. Len(list) - 1 : n # m => From(n) # From(m)
    BY <2>3
  <2>6. DOMAIN short = 1 .. Len(list) - 1 /\ short = [n \in 1 .. Len(list) - 1 |-> short[n]]
    OBVIOUS
  <2> HIDE DEF short, From
  <2>7. short \in Seq(Requests)
    BY <1>1, <2>3, <2>4, <2>6
  <2>8. (\A i, j \in S : i = j) => \A n \in DOMAIN short : From(n) \notin S
    BY <2>1, <2>4, <2>6
  <2> QED
    BY <1>1, <2>2, <2>4, <2>5, <2>6, <2>7, <2>8
<1> QED
  BY <1>2, <1>3

(* Of a consistent list, what a subset of its places holds is consistent.  *)
LEMMA ApartStaysConsistent ==
    ASSUME NEW list, Consistent(list), NEW other,
           \A n, m \in DOMAIN other : n # m =>
              \E i, j \in DOMAIN list : i # j /\ other[n] = list[i] /\ other[m] = list[j]
    PROVE  Consistent(other)
BY DEF Consistent

LEMMA SplicedIsConsistent ==
    ASSUME NEW list \in Seq(Requests), Consistent(list), NEW S \in SUBSET DOMAIN list
    PROVE  Spliced(list, S) \in Seq(Requests) /\ Consistent(Spliced(list, S))
BY SplicedEntries, ApartStaysConsistent

(* addOverride: the list without the pins and the lot that stand in the    *)
(* way of a new entry, and with that entry.                                *)
LEMMA WithOverrideIsConsistent ==
    ASSUME NEW list \in Seq(Requests), Consistent(list), NEW o \in Requests
    PROVE  WithOverride(list, o) \in Seq(Requests) /\ Consistent(WithOverride(list, o))
<1> DEFINE taken(s) == {i \in DOMAIN s : SamePosition(s[i], o)}
           same(s) == {i \in DOMAIN s : s[i].lot = o.lot}
           unpinned == WithoutPin(list, o)
           cleared == IF o.action = "pin" THEN WithoutPosition(unpinned, o) ELSE list
           rest == WithoutLot(cleared, o)
<1>1. unpinned \in Seq(Requests) /\ Consistent(unpinned)
  BY SplicedIsConsistent DEF WithoutPin
<1> HIDE DEF unpinned
<1>2. /\ cleared \in Seq(Requests) /\ Consistent(cleared)
      /\ o.action = "pin" => \A n \in DOMAIN cleared : ~ SamePosition(cleared[n], o)
  <2>1. CASE o.action = "pin"
    <3>1. \A i, j \in taken(unpinned) : i = j
      BY <1>1, <2>1 DEF Consistent, SamePosition
    <3>2. \A n \in DOMAIN Spliced(unpinned, taken(unpinned)) :
             \E i \in DOMAIN unpinned \ taken(unpinned) :
                Spliced(unpinned, taken(unpinned))[n] = unpinned[i]
      <4> DEFINE S == taken(unpinned)
      <4>1. S \in SUBSET DOMAIN unpinned /\ (\A i, j \in S : i = j)
        BY <3>1
      <4> HIDE DEF S
      <4>2. \A n \in DOMAIN Spliced(unpinned, S) :
               \E i \in DOMAIN unpinned \ S : Spliced(unpinned, S)[n] = unpinned[i]
        BY <1>1, <4>1, SplicedEntries
      <4> QED
        BY <4>2 DEF S
    <3>3. \A n \in DOMAIN Spliced(unpinned, taken(unpinned)) :
             ~ SamePosition(Spliced(unpinned, taken(unpinned))[n], o)
      BY <3>2
    <3>4. cleared = Spliced(unpinned, taken(unpinned))
      BY <2>1 DEF WithoutPosition
    <3> HIDE DEF cleared
    <3> QED
      BY <1>1, <3>3, <3>4, SplicedIsConsistent
  <2>2. CASE o.action # "pin"
    BY <2>2
  <2> QED
    BY <2>1, <2>2
<1> HIDE DEF cleared
<1>3. /\ rest \in Seq(Requests) /\ Consistent(rest)
      /\ \A n \in DOMAIN rest : rest[n].lot # o.lot
      /\ o.action = "pin" => \A n \in DOMAIN rest : ~ SamePosition(rest[n], o)
  <2>1. \A i, j \in same(cleared) : i = j
    BY <1>2 DEF Consistent
  <2>2. \A n \in DOMAIN rest : \E i \in DOMAIN cleared \ same(cleared) : rest[n] = cleared[i]
    <3> DEFINE S == same(cleared)
    <3>1. S \in SUBSET DOMAIN cleared /\ (\A i, j \in S : i = j) /\ rest = Spliced(cleared, S)
      BY <2>1 DEF WithoutLot
    <3> HIDE DEF S, rest
    <3>2. \A n \in DOMAIN Spliced(cleared, S) :
             \E i \in DOMAIN cleared \ S : Spliced(cleared, S)[n] = cleared[i]
      BY <1>2, <3>1, SplicedEntries
    <3> QED
      BY <3>1, <3>2 DEF S
  <2>3. rest \in Seq(Requests) /\ Consistent(rest)
    BY <1>2, SplicedIsConsistent DEF WithoutLot
  <2> HIDE DEF rest
  <2> QED
    BY <1>2, <2>2, <2>3
<1>4. WithOverride(list, o) = Append(rest, o)
  BY DEF WithOverride, cleared, unpinned
<1> HIDE DEF rest
<1>5. Append(rest, o) \in Seq(Requests) /\ DOMAIN Append(rest, o) = 1 .. Len(rest) + 1
      /\ Len(rest) \in Nat /\ DOMAIN rest = 1 .. Len(rest)
      /\ Append(rest, o)[Len(rest) + 1] = o
      /\ \A n \in 1 .. Len(rest) : Append(rest, o)[n] = rest[n]
  BY <1>3
<1> DEFINE new == Append(rest, o)
<1> HIDE DEF new
<1>6. Consistent(new)
  <2> SUFFICES ASSUME NEW i \in 1 .. Len(rest) + 1, NEW j \in 1 .. Len(rest) + 1, i # j
               PROVE  /\ new[i].lot # new[j].lot
                      /\ ~ (/\ new[i].action = "pin" /\ new[j].action = "pin"
                            /\ new[i].tier = new[j].tier /\ new[i].position = new[j].position)
    BY <1>5 DEF Consistent, new
  <2>1. CASE i \in 1 .. Len(rest) /\ j \in 1 .. Len(rest)
    BY <1>3, <1>5, <2>1 DEF Consistent, new
  <2>2. CASE i = Len(rest) + 1
    BY <1>3, <1>5, <2>2 DEF SamePosition, new
  <2>3. CASE j = Len(rest) + 1
    BY <1>3, <1>5, <2>3 DEF SamePosition, new
  <2> QED
    BY <1>5, <2>1, <2>2, <2>3
<1> QED
  BY <1>4, <1>5, <1>6 DEF new

LEMMA ChangedIsConsistent ==
    ASSUME NEW list \in Seq(Requests), Consistent(list), NEW change,
           change.kind = "add" => change.override \in Requests
    PROVE  Changed(change, list) \in Seq(Requests) /\ Consistent(Changed(change, list))
<1>1. CASE change.kind = "add"
  BY <1>1, WithOverrideIsConsistent DEF Changed
<1>2. CASE change.kind # "add"
  <2> DEFINE S == {i \in DOMAIN list : list[i].lot # change.lot}
  <2>1. S \in SUBSET Nat /\ IsFiniteSet(S)
    BY FS_Interval, FS_Subset
  <2>2. Changed(change, list) = Filtered(list, S)
    BY <1>2 DEF Changed
  <2>3. S \in SUBSET DOMAIN list
    OBVIOUS
  <2> HIDE DEF S
  <2>4. Filtered(list, S) \in Seq(Requests)
    BY <2>3, FilteredIsSeq
  <2>5. \A n, m \in DOMAIN Filtered(list, S) : n # m =>
           \E i, j \in DOMAIN list : /\ i # j /\ Filtered(list, S)[n] = list[i]
                                     /\ Filtered(list, S)[m] = list[j]
    <3> SUFFICES ASSUME NEW n \in DOMAIN Filtered(list, S), NEW m \in DOMAIN Filtered(list, S), n # m
                 PROVE  \E i, j \in DOMAIN list : /\ i # j /\ Filtered(list, S)[n] = list[i]
                                                  /\ Filtered(list, S)[m] = list[j]
      OBVIOUS
    <3>1. IsFiniteSet(S) /\ S \in SUBSET Nat /\ S \subseteq DOMAIN list
      BY <2>1, <2>3
    <3> QED
      BY <3>1, FilteredApart
  <2> QED
    BY <2>2, <2>4, <2>5, ApartStaysConsistent
<1> QED
  BY <1>1, <1>2

(* getPolicyRaw: the row with its list, which an administrator changes.    *)
LEMMA RawHasList ==
    ASSUME OverridesInv
    PROVE  "overrides" \in DOMAIN GetPolicyRaw(setting) /\ HasList(GetPolicyRaw(setting))
<1> DEFINE list == IF setting = NoRow THEN <<>> ELSE OverridesOf(setting)
<1>1. list \in Seq(Requests) /\ Consistent(list)
  BY DEF OverridesInv, HasList, OverridesOf, Consistent
<1>2. GetPolicyRaw(setting).overrides = list /\ "overrides" \in DOMAIN GetPolicyRaw(setting)
  BY DEF GetPolicyRaw
<1> HIDE DEF list
<1> QED
  BY <1>1, <1>2 DEF HasList

LEMMA OverridesStep == OverridesInv /\ PolicyInv /\ [Next]_vars => OverridesInv'
<1> SUFFICES ASSUME OverridesInv, PolicyInv, [Next]_vars PROVE OverridesInv'
  OBVIOUS
<1> DEFINE Holds(q) ==
        q.phase = "change" => /\ "overrides" \in DOMAIN q.row /\ HasList(q.row)
                              /\ q.change.kind = "add" => q.change.override \in Requests
<1>1. ASSUME NEW a \in Admin, NEW q, Holds(q), admin' = [admin EXCEPT ![a] = q],
             "overrides" \in DOMAIN setting' => HasList(setting')
      PROVE  OverridesInv'
  <2>1. \A b \in Admin : Holds(admin'[b])
    BY <1>1 DEF PolicyInv, OverridesInv
  <2> QED
    BY <1>1, <2>1 DEF OverridesInv, HasList, Consistent
<1>2. "overrides" \in DOMAIN setting => HasList(setting)
  BY DEF OverridesInv
<1>3. ASSUME NEW a \in Admin, NEW change, ReadRow(a, change), setting' = setting,
             change.kind = "add" => change.override \in Requests
      PROVE  OverridesInv'
  <2> DEFINE q == [phase |-> "change", change |-> change, row |-> GetPolicyRaw(setting)]
  <2>1. Holds(q)
    BY <1>3, RawHasList
  <2>2. admin' = [admin EXCEPT ![a] = q]
    BY <1>3 DEF ReadRow
  <2> HIDE DEF q, Holds
  <2> QED
    BY <1>1, <1>2, <1>3, <2>1, <2>2
<1>4. ASSUME NEW a \in Admin, NEW o \in Requests, BeginAddOverride(a, o) PROVE OverridesInv'
  BY <1>3, <1>4 DEF BeginAddOverride
<1>5. ASSUME NEW a \in Admin, NEW l \in Lot, BeginRemoveOverride(a, l) PROVE OverridesInv'
  BY <1>3, <1>5 DEF BeginRemoveOverride
<1>6. Holds([phase |-> "invalidate"]) /\ Holds(Idle)
  BY DEF Idle
<1>7. ASSUME NEW a \in Admin, NEW p \in Policy, SavePolicy(a, p) PROVE OverridesInv'
  <2>1. admin' = [admin EXCEPT ![a] = [phase |-> "invalidate"]] /\ setting' = [policy |-> p]
    BY <1>7 DEF SavePolicy, SaveRow
  <2>2. "overrides" \notin DOMAIN setting'
    BY <2>1
  <2> HIDE DEF Holds
  <2> QED
    BY <1>1, <1>6, <2>1, <2>2
<1>8. ASSUME NEW a \in Admin, RefusePin(a) \/ Invalidate(a) PROVE OverridesInv'
  <2>1. admin' = [admin EXCEPT ![a] = Idle] /\ setting' = setting
    BY <1>8 DEF RefusePin, Invalidate
  <2> HIDE DEF Holds
  <2> QED
    BY <1>1, <1>2, <1>6, <2>1
<1>9. ASSUME NEW a \in Admin, WriteOverrides(a) PROVE OverridesInv'
  <2> DEFINE row == admin[a].row
             list == Changed(admin[a].change, row.overrides)
             new == [row EXCEPT !.overrides = list]
  <2>1. /\ admin[a].phase = "change" /\ setting' = new
        /\ admin' = [admin EXCEPT ![a] = [phase |-> "invalidate"]]
    BY <1>9 DEF WriteOverrides, SaveRow
  <2>2. "overrides" \in DOMAIN row /\ list \in Seq(Requests) /\ Consistent(list)
    BY <2>1, ChangedIsConsistent DEF OverridesInv, HasList
  <2>3. new.overrides = list
    BY <2>2
  <2> HIDE DEF new, list, Holds
  <2>4. HasList(setting')
    BY <2>1, <2>2, <2>3 DEF HasList
  <2> QED
    BY <1>1, <1>6, <2>1, <2>4
<1>10. ASSUME NEW a \in Admin, AdminStep(a) PROVE OverridesInv'
  BY <1>4, <1>5, <1>7, <1>8, <1>9, <1>10 DEF AdminStep
<1>11. ASSUME UNCHANGED <<setting, admin>> PROVE OverridesInv'
  BY <1>11 DEF OverridesInv, HasList, Consistent
<1>12. CASE Review \/ World \/ UNCHANGED vars
  BY <1>11, <1>12 DEF Review, World, offersVars, vars
<1>13. ASSUME NEW r \in Reader, ReaderStep(r) PROVE OverridesInv'
  BY <1>11, <1>13 DEF ReaderStep, ReadPolicy, ReadOverridesAndSnapshot, BuildTiers,
                      SaveSnapshot, SaveFails, PersonalRead, Forget
<1>14. CASE Restart
  <2>1. setting' = setting /\ \A a \in Admin : admin'[a].phase = "idle"
    BY <1>14 DEF Restart, Idle
  <2> QED
    BY <1>2, <2>1 DEF OverridesInv, HasList, Consistent
<1> QED
  BY <1>10, <1>12, <1>13, <1>14 DEF Next

(* In every reachable state the saved list of overrides, and each list     *)
(* that an administrator has read and may still write, is consistent.      *)
THEOREM OverridesInvariant == Spec => []OverridesInv
<1>1. Init => OverridesInv
  <2> SUFFICES ASSUME Init PROVE OverridesInv
    OBVIOUS
  <2>1. "overrides" \notin DOMAIN setting /\ \A a \in Admin : admin[a].phase = "idle"
    BY DEF Init, NoRow, Idle
  <2> QED
    BY <2>1 DEF OverridesInv
<1> QED
  BY <1>1, OverridesStep, PolicyInvariant, PTL DEF Spec

(* However administrators overlap, and whatever pins move between tiers,   *)
(* the saved list names a lot once and gives a position of a tier to one   *)
(* pin (addOverride, removeOverride).                                      *)
THEOREM OverridesStayConsistent == Spec => []OverridesConsistent
<1>1. OverridesInv => OverridesConsistent
  BY DEF OverridesInv, OverridesConsistent, Stored, OverridesOf, HasList, Consistent
<1> QED
  BY <1>1, OverridesInvariant, PTL

-----------------------------------------------------------------------------
(* The pages of the auction list.                                          *)
(* The merge of two lists exists, turn by turn.                            *)
LEMMA TurnByTurn ==
    ASSUME NEW copart \in Nat, NEW iaai \in Nat
    PROVE  LET turns == Turns(copart, iaai)
           IN  /\ turns[0] = NoneTaken
               /\ \A n \in 1 .. copart + iaai : turns[n] = NextTurn(turns[n - 1], copart, iaai)
  <1> DEFINE N == copart + iaai
             Merges(f, k) == f = [n \in 0 .. k |-> IF n = 0 THEN NoneTaken
                                                  ELSE NextTurn(f[n - 1], copart, iaai)]
             Unmerged == {k \in 0 .. N : \A f : ~ Merges(f, k)}
  <1>1. N \in Nat
    OBVIOUS
  <1>2. Unmerged = {}
    <2>1. SUFFICES ASSUME Unmerged # {} PROVE FALSE
      OBVIOUS
    <2>2. PICK k \in Unmerged : \A j \in Unmerged : k <= j
      <3>1. Unmerged \in SUBSET Nat
        OBVIOUS
      <3> HIDE DEF Unmerged
      <3> QED
        BY <2>1, <3>1, LeastOf
    <2>3. CASE k = 0
      <3> DEFINE f == [n \in 0 .. 0 |-> NoneTaken]
      <3>1. Merges(f, 0)
        OBVIOUS
      <3> QED
        BY <2>2, <2>3, <3>1
    <2>4. CASE k # 0
      <3>1. k \in 0 .. N /\ k - 1 \in 0 .. N /\ ~ (k <= k - 1)
        BY <1>1, <2>2, <2>4
      <3>2. k - 1 \notin Unmerged
        <4> HIDE DEF Unmerged
        <4> QED
          BY <2>2, <3>1
      <3>3. PICK f : Merges(f, k - 1)
        BY <3>1, <3>2
      <3> DEFINE g == [n \in 0 .. k |-> IF n = k THEN NextTurn(f[k - 1], copart, iaai) ELSE f[n]]
      <3>4. \A n \in 0 .. k : g[n] = IF n = 0 THEN NoneTaken ELSE NextTurn(g[n - 1], copart, iaai)
        <4> TAKE n \in 0 .. k
        <4>1. CASE n = k
          BY <2>4, <3>1, <4>1
        <4>2. CASE n # k
          <5>1. n \in 0 .. k - 1 /\ g[n] = f[n] /\ (n # 0 => n - 1 \in 0 .. k /\ n - 1 # k)
            BY <3>1, <4>2
          <5>2. f[n] = IF n = 0 THEN NoneTaken ELSE NextTurn(f[n - 1], copart, iaai)
            BY <3>3, <5>1
          <5>3. n # 0 => g[n - 1] = f[n - 1]
            BY <5>1
          <5> QED
            BY <5>1, <5>2, <5>3
        <4> QED
          BY <4>1, <4>2
      <3>5. g = [n \in 0 .. k |-> g[n]]
        OBVIOUS
      <3> HIDE DEF g
      <3>6. Merges(g, k)
        BY <3>4, <3>5
      <3> QED
        BY <2>2, <3>6
    <2> QED
      BY <2>3, <2>4
  <1>3. PICK f : Merges(f, N)
    <2>1. N \in 0 .. N
      BY <1>1
    <2> HIDE DEF Merges
    <2> QED
      BY <1>2, <2>1
  <1> DEFINE turns == CHOOSE g : Merges(g, N)
  <1>4. Merges(turns, N)
    BY <1>3
  <1>5. Turns(copart, iaai) = turns
    BY DEF Turns, NextTurn
  <1> HIDE DEF turns
  <1>6. turns[0] = NoneTaken /\ \A n \in 1 .. N : turns[n] = NextTurn(turns[n - 1], copart, iaai)
    BY <1>1, <1>4
  <1> QED
    BY <1>5, <1>6

(* What one turn does: it takes a card that is left, and a fourth one in a *)
(* row only when the other list has run out.                               *)
Counts(copart, iaai) == [copart : 0 .. copart, iaai : 0 .. iaai, last : {"none", "copart", "iaai"}, run : Nat]

LEMMA OneTurn ==
    ASSUME NEW copart \in Nat, NEW iaai \in Nat, NEW t \in Counts(copart, iaai),
           t.copart + t.iaai < copart + iaai, t.run > 0 => t.last # "none"
    PROVE  LET u == NextTurn(t, copart, iaai)
           IN  /\ u \in Counts(copart, iaai)
               /\ \/ u.last = "copart" /\ u.copart = t.copart + 1 /\ u.iaai = t.iaai
                  \/ u.last = "iaai" /\ u.iaai = t.iaai + 1 /\ u.copart = t.copart
               /\ u.run = IF u.last = t.last THEN t.run + 1 ELSE 1
               /\ t.copart < copart /\ t.iaai < iaai => u.run <= MaxConsecutive
  <1> DEFINE p == NextProvider(copart - t.copart, iaai - t.iaai, t)
             u == NextTurn(t, copart, iaai)
  <1>1. /\ p \in {"copart", "iaai"}
        /\ p = "copart" => t.copart < copart
        /\ p = "iaai" => t.iaai < iaai
    BY DEF NextProvider, Counts
  <1>2. t.copart < copart /\ t.iaai < iaai /\ t.run >= MaxConsecutive => p # t.last
    BY DEF NextProvider, PickCopart, Counts, MaxConsecutive
  <1> HIDE DEF p
  <1>3. u = Take(t, p)
    BY DEF NextTurn, p
  <1>4. /\ u.last = p /\ u.run = IF t.last = p THEN t.run + 1 ELSE 1
        /\ p = "copart" => u.copart = t.copart + 1 /\ u.iaai = t.iaai
        /\ p = "iaai" => u.iaai = t.iaai + 1 /\ u.copart = t.copart
        /\ u = [copart |-> u.copart, iaai |-> u.iaai, last |-> u.last, run |-> u.run]
    BY <1>1, <1>3 DEF Take, Counts
  <1> HIDE DEF u
  <1>5. u \in Counts(copart, iaai)
    BY <1>1, <1>4 DEF Counts
  <1>6. t.copart < copart /\ t.iaai < iaai => u.run <= MaxConsecutive
    BY <1>2, <1>4 DEF Counts, MaxConsecutive
  <1> QED
    BY <1>1, <1>4, <1>5, <1>6 DEF u

(* After n turns n cards have been taken.                                  *)
LEMMA TurnsCount ==
    ASSUME NEW copart \in Nat, NEW iaai \in Nat, NEW n \in 0 .. copart + iaai
    PROVE  LET t == Turns(copart, iaai)[n]
           IN  /\ t \in Counts(copart, iaai)
               /\ t.copart + t.iaai = n
               /\ t.run > 0 => t.last # "none"
               /\ n > 0 => t.run > 0
  <1> DEFINE turns == Turns(copart, iaai)
             Fits(k) == /\ turns[k] \in Counts(copart, iaai)
                        /\ turns[k].copart + turns[k].iaai = k
                        /\ turns[k].run > 0 => turns[k].last # "none"
                        /\ k > 0 => turns[k].run > 0
             Wrong == {k \in 0 .. copart + iaai : ~ Fits(k)}
  <1>1. /\ turns[0] = NoneTaken
        /\ \A k \in 1 .. copart + iaai : turns[k] = NextTurn(turns[k - 1], copart, iaai)
    BY TurnByTurn
  <1> HIDE DEF turns
  <1>2. SUFFICES ASSUME Wrong # {} PROVE FALSE
    BY DEF turns
  <1>3. PICK k \in Wrong : \A j \in Wrong : k <= j
    <2>1. Wrong \in SUBSET Nat
      OBVIOUS
    <2> HIDE DEF Wrong
    <2> QED
      BY <1>2, <2>1, LeastOf
  <1>4. Fits(0)
    BY <1>1 DEF NoneTaken, Counts
  <1>5. k \in 1 .. copart + iaai /\ k - 1 \in 0 .. copart + iaai /\ k - 1 \notin Wrong
    <2>1. k \in 0 .. copart + iaai /\ k # 0
      BY <1>3, <1>4
    <2>2. k - 1 \in 0 .. copart + iaai /\ ~ (k <= k - 1)
      BY <2>1
    <2> HIDE DEF Wrong
    <2> QED
      BY <1>3, <2>1, <2>2
  <1>6. Fits(k - 1)
    BY <1>5
  <1> DEFINE t == turns[k - 1]
             u == turns[k]
  <1>7. t \in Counts(copart, iaai) /\ t.copart + t.iaai = k - 1 /\ (t.run > 0 => t.last # "none")
    BY <1>6
  <1>8. u = NextTurn(t, copart, iaai)
    BY <1>1, <1>5
  <1> HIDE DEF t, u
  <1>9. /\ u \in Counts(copart, iaai)
        /\ \/ u.last = "copart" /\ u.copart = t.copart + 1 /\ u.iaai = t.iaai
           \/ u.last = "iaai" /\ u.iaai = t.iaai + 1 /\ u.copart = t.copart
        /\ u.run = IF u.last = t.last THEN t.run + 1 ELSE 1
    BY <1>5, <1>7, <1>8, OneTurn
  <1>10. u \in Counts(copart, iaai) /\ u.copart + u.iaai = k /\ u.run > 0 /\ u.last # "none"
    BY <1>5, <1>7, <1>9 DEF Counts
  <1>11. Fits(k)
    BY <1>10 DEF u
  <1> QED
    BY <1>3, <1>11

(* Every turn is one of those of OneTurn.                                  *)
LEMMA EachTurn ==
    ASSUME NEW copart \in Nat, NEW iaai \in Nat, NEW n \in 1 .. copart + iaai
    PROVE  LET t == Turns(copart, iaai)[n - 1]
               u == Turns(copart, iaai)[n]
           IN  /\ t \in Counts(copart, iaai) /\ u \in Counts(copart, iaai)
               /\ n > 1 => t.run > 0
               /\ \/ u.last = "copart" /\ u.copart = t.copart + 1 /\ u.iaai = t.iaai
                  \/ u.last = "iaai" /\ u.iaai = t.iaai + 1 /\ u.copart = t.copart
               /\ u.run = IF u.last = t.last THEN t.run + 1 ELSE 1
               /\ t.copart < copart /\ t.iaai < iaai => u.run <= MaxConsecutive
  <1> DEFINE t == Turns(copart, iaai)[n - 1]
             u == Turns(copart, iaai)[n]
  <1>1. n - 1 \in 0 .. copart + iaai /\ n - 1 < copart + iaai
    OBVIOUS
  <1>2. /\ t \in Counts(copart, iaai) /\ t.copart + t.iaai = n - 1
        /\ t.run > 0 => t.last # "none"
        /\ n - 1 > 0 => t.run > 0
    BY <1>1, TurnsCount
  <1>3. u = NextTurn(t, copart, iaai)
    BY TurnByTurn
  <1> HIDE DEF t, u
  <1>4. /\ u \in Counts(copart, iaai)
        /\ \/ u.last = "copart" /\ u.copart = t.copart + 1 /\ u.iaai = t.iaai
           \/ u.last = "iaai" /\ u.iaai = t.iaai + 1 /\ u.copart = t.copart
        /\ u.run = IF u.last = t.last THEN t.run + 1 ELSE 1
        /\ t.copart < copart /\ t.iaai < iaai => u.run <= MaxConsecutive
    BY <1>1, <1>2, <1>3, OneTurn
  <1>5. n > 1 => t.run > 0
    BY <1>2
  <1> QED
    BY <1>2, <1>4, <1>5 DEF t, u

(* The cards taken only become more.                                       *)
LEMMA TakenGrow ==
    ASSUME NEW copart \in Nat, NEW iaai \in Nat, NEW k \in 0 .. copart + iaai,
           NEW n \in k .. copart + iaai
    PROVE  LET turns == Turns(copart, iaai)
           IN  turns[k].copart <= turns[n].copart /\ turns[k].iaai <= turns[n].iaai
  <1> DEFINE turns == Turns(copart, iaai)
             Fewer == {m \in k .. copart + iaai :
                          ~ (turns[k].copart <= turns[m].copart /\ turns[k].iaai <= turns[m].iaai)}
  <1>1. \A m \in 0 .. copart + iaai : turns[m].copart \in Nat /\ turns[m].iaai \in Nat
    BY TurnsCount DEF Counts
  <1>2. SUFFICES ASSUME Fewer # {} PROVE FALSE
    OBVIOUS
  <1>3. PICK m \in Fewer : \A j \in Fewer : m <= j
    <2>1. Fewer \in SUBSET Nat
      OBVIOUS
    <2> HIDE DEF Fewer
    <2> QED
      BY <1>2, <2>1, LeastOf
  <1>4. m # k
    BY <1>1
  <1>5. m \in 1 .. copart + iaai /\ m - 1 \in k .. copart + iaai /\ m - 1 \notin Fewer
    <2>1. m \in k .. copart + iaai
      BY <1>3
    <2>2. m - 1 \in k .. copart + iaai /\ ~ (m <= m - 1) /\ m \in 1 .. copart + iaai
      BY <1>4, <2>1
    <2> HIDE DEF Fewer
    <2> QED
      BY <1>3, <2>2
  <1>6. turns[k].copart <= turns[m - 1].copart /\ turns[k].iaai <= turns[m - 1].iaai
    BY <1>5
  <1>7. turns[m - 1].copart <= turns[m].copart /\ turns[m - 1].iaai <= turns[m].iaai
    <2>1. turns[m - 1].copart \in Nat /\ turns[m - 1].iaai \in Nat
      BY <1>1, <1>5
    <2>2. \/ turns[m].copart = turns[m - 1].copart + 1 /\ turns[m].iaai = turns[m - 1].iaai
          \/ turns[m].iaai = turns[m - 1].iaai + 1 /\ turns[m].copart = turns[m - 1].copart
      BY <1>5, EachTurn
    <2> QED
      BY <2>1, <2>2
  <1>8. m - 1 \in 0 .. copart + iaai
    BY <1>5
  <1> HIDE DEF turns
  <1> QED
    BY <1>1, <1>3, <1>5, <1>6, <1>7, <1>8

(* While both lists have cards left, four in a row are not of one provider.*)
LEMMA FourInARow ==
    ASSUME NEW copart \in Nat, NEW iaai \in Nat,
           NEW k \in MaxConsecutive + 1 .. copart + iaai,
           NEW m \in k .. copart + iaai, Turns(copart, iaai)[m].last = "copart",
           NEW n \in k .. copart + iaai, Turns(copart, iaai)[n].last = "iaai"
    PROVE  \E j \in k - MaxConsecutive .. k :
              Turns(copart, iaai)[j].last # Turns(copart, iaai)[k].last
  <1> DEFINE turns == Turns(copart, iaai)
  <1>1. \A j \in 0 .. copart + iaai : turns[j] \in Counts(copart, iaai)
    BY TurnsCount
  <1>2. /\ k \in 4 .. copart + iaai /\ {k - 3, k - 2, k - 1} \subseteq 1 .. copart + iaai
        /\ m \in 1 .. copart + iaai /\ n \in 1 .. copart + iaai
        /\ {k - 1, m - 1, n - 1} \subseteq 0 .. copart + iaai
        /\ m - 1 \in k - 1 .. copart + iaai /\ n - 1 \in k - 1 .. copart + iaai
    BY DEF MaxConsecutive
  <1>3. turns[k - 1].copart < copart
    <2>1. turns[m].copart = turns[m - 1].copart + 1
      BY <1>2, EachTurn
    <2>2. turns[k - 1].copart <= turns[m - 1].copart
      BY <1>2, TakenGrow
    <2>3. turns[m].copart \in 0 .. copart /\ turns[m - 1].copart \in Nat /\ turns[k - 1].copart \in Nat
      BY <1>1, <1>2 DEF Counts
    <2> QED
      BY <2>1, <2>2, <2>3
  <1>4. turns[k - 1].iaai < iaai
    <2>1. turns[n].iaai = turns[n - 1].iaai + 1
      BY <1>2, EachTurn
    <2>2. turns[k - 1].iaai <= turns[n - 1].iaai
      BY <1>2, TakenGrow
    <2>3. turns[n].iaai \in 0 .. iaai /\ turns[n - 1].iaai \in Nat /\ turns[k - 1].iaai \in Nat
      BY <1>1, <1>2 DEF Counts
    <2> QED
      BY <2>1, <2>2, <2>3
  <1>5. turns[k].run <= MaxConsecutive
    <2>1. k \in 1 .. copart + iaai
      BY <1>2
    <2> QED
      BY <1>3, <1>4, <2>1, EachTurn
  <1>6. SUFFICES ASSUME \A j \in k - MaxConsecutive .. k : turns[j].last = turns[k].last
                 PROVE  FALSE
    OBVIOUS
  <1>7. turns[k - 3].last = turns[k].last /\ turns[k - 2].last = turns[k].last /\ turns[k - 1].last = turns[k].last
    BY <1>2, <1>6 DEF MaxConsecutive
  <1>8. \A j \in 1 .. copart + iaai : turns[j].last = turns[j - 1].last => turns[j].run = turns[j - 1].run + 1
    BY EachTurn
  <1>9. turns[k - 3].run > 0 /\ turns[k - 3].run \in Nat
    <2>1. k - 3 \in 0 .. copart + iaai /\ k - 3 > 0
      BY <1>2
    <2>2. turns[k - 3].run > 0
      BY <2>1, TurnsCount
    <2> QED
      BY <1>1, <2>1, <2>2 DEF Counts
  <1> HIDE DEF turns
  <1>10. turns[k - 2].run = turns[k - 3].run + 1
    BY <1>2, <1>7, <1>8
  <1>11. turns[k - 1].run = turns[k - 2].run + 1
    BY <1>2, <1>7, <1>8
  <1>12. turns[k].run = turns[k - 1].run + 1
    BY <1>2, <1>7, <1>8
  <1> QED
    BY <1>5, <1>9, <1>10, <1>11, <1>12 DEF MaxConsecutive

(* A page is turned only when there is a card for the next.                *)
(* The cards of as many lots of each list as the pages so far hold.        *)
LEMMA PageEnd ==
    ASSUME NEW a \in Nat, NEW b \in Nat, NEW skip \in Nat, NEW size \in Nat, skip <= a + b
    PROVE  /\ Smaller(skip + size, Smaller(a, skip + size) + Smaller(b, skip + size))
                = skip + Smaller(size, a + b - skip)
           /\ Smaller(size, a + b - skip) \in Nat
  BY DEF Smaller

LEMMA PagesStart == PagesInit => PagesInv
  BY PagesAssumption DEF PagesInit, PagesInv

LEMMA PagesStep == PagesInv /\ [PagesNext]_reading => PagesInv'
  <1> SUFFICES ASSUME PagesInv, TurnPage PROVE PagesInv'
    BY DEF PagesNext, PagesInv, Skipped
  <1>1. /\ reading'.number = reading.number + 1 /\ reading'.size = reading.size
        /\ reading'.copart = reading.copart /\ reading'.iaai = reading.iaai
        /\ reading' \in [copart : Nat, iaai : Nat, size : PageSizes, number : Nat \ {0}]
    BY DEF TurnPage, PagesInv
  <1>2. Skipped(reading') = reading.number * reading.size
    <2>1. reading.size \in Nat /\ reading.number \in Nat /\ reading'.number - 1 = reading.number
      <3>1. reading.size \in Nat /\ reading.number \in Nat
        BY PagesAssumption DEF PagesInv
      <3> QED
        BY <1>1, <3>1
    <2> QED
      BY <1>1, <2>1 DEF Skipped
  <1> QED
    BY <1>1, <1>2 DEF PagesInv, TurnPage, HasNext

(* In every reachable state the page asked for is one that holds cards.    *)
THEOREM PagesInvariant == PagesSpec => []PagesInv
  BY PagesStart, PagesStep, PTL DEF PagesSpec

(* However many cards each provider has, whatever the size of the pages:   *)
(* every page is full until the cards run out, and while both providers    *)
(* have cards left none has four in a row (usaInventory,                   *)
(* interleaveProviders).                                                   *)
THEOREM BothAreShown == PagesSpec => []BothProvidersShown
  <1>1. ASSUME PagesInv PROVE BothProvidersShown
    <2> DEFINE merged == Merged(reading)
               fetched == reading.size * reading.number
               c == Smaller(reading.copart, fetched)
               i == Smaller(reading.iaai, fetched)
               skip == Skipped(reading)
    <2>1. /\ reading.size \in Nat \ {0} /\ reading.number \in Nat \ {0}
          /\ reading.copart \in Nat /\ reading.iaai \in Nat
      BY <1>1, PagesAssumption DEF PagesInv
    <2>2. fetched \in Nat /\ skip \in Nat /\ fetched = skip + reading.size
      <3>1. \A a, b \in Nat : a * b \in Nat
        OBVIOUS
      <3>2. \A a, b \in Nat : a * (b - 1) = a * b - a
        OBVIOUS
      <3>3. reading.size * reading.number \in Nat /\ reading.number - 1 \in Nat
        BY <2>1, <3>1
      <3>4. reading.size * (reading.number - 1) \in Nat
        BY <2>1, <3>1, <3>3
      <3>5. reading.size * (reading.number - 1) = reading.size * reading.number - reading.size
        BY <2>1, <3>2
      <3> QED
        BY <2>1, <3>3, <3>4, <3>5 DEF Skipped
    <2>3. skip <= reading.copart + reading.iaai
      <3>1. CASE reading.number = 1
        <4>1. reading.size * (1 - 1) = 0
          BY <2>1
        <4> QED
          BY <2>1, <3>1, <4>1 DEF Skipped
      <3>2. CASE reading.number # 1
        BY <1>1, <2>1, <2>2, <3>2 DEF PagesInv
      <3> QED
        BY <3>1, <3>2
    <2> HIDE DEF fetched, skip
    <2>4. c \in Nat /\ i \in Nat /\ c <= reading.copart /\ i <= reading.iaai
      BY <2>1, <2>2 DEF Smaller
    <2>5. Smaller(skip + reading.size, c + i) = skip + Smaller(reading.size, reading.copart + reading.iaai - skip)
      <3> DEFINE a == reading.copart
                 b == reading.iaai
                 z == reading.size
      <3>1. /\ c = Smaller(a, skip + z) /\ i = Smaller(b, skip + z)
            /\ a \in Nat /\ b \in Nat /\ z \in Nat /\ skip \in Nat /\ skip <= a + b
        BY <2>1, <2>2, <2>3
      <3> HIDE DEF c, i, a, b, z
      <3>2. /\ Smaller(skip + z, Smaller(a, skip + z) + Smaller(b, skip + z))
                 = skip + Smaller(z, a + b - skip)
        BY <3>1, PageEnd
      <3>3. Smaller(skip + z, c + i) = skip + Smaller(z, a + b - skip)
        BY <3>1, <3>2
      <3> QED
        BY <3>3 DEF a, b, z
    <2>6. merged = Interleaved(c, i)
      BY DEF Merged, fetched
    <2> HIDE DEF c, i
    <2> DEFINE turns == Turns(c, i)
    <2>7. merged = [n \in 1 .. c + i |-> <<turns[n].last, turns[n][turns[n].last]>>]
      BY <2>6 DEF Interleaved
    <2> HIDE DEF merged, turns
    <2> DEFINE S == {merged[n] : n \in 1 .. c + i}
    <2>8. merged \in Seq(S) /\ Len(merged) = c + i /\ \A n \in 1 .. c + i : merged[n][1] = turns[n].last
      BY <2>4, <2>7
    <2> HIDE DEF S
    <2> DEFINE last == Smaller(skip + reading.size, Len(merged))
    <2>9. last = skip + Smaller(reading.size, reading.copart + reading.iaai - skip) /\ last <= c + i /\ last >= skip /\ last \in Nat
      <3>1. last = skip + Smaller(reading.size, reading.copart + reading.iaai - skip)
        BY <2>5, <2>8
      <3>2. Smaller(reading.size, reading.copart + reading.iaai - skip) \in Nat
        BY <2>1, <2>2, <2>3 DEF Smaller
      <3>3. skip + reading.size \in Nat /\ c + i \in Nat
        BY <2>1, <2>2, <2>4
      <3>4. last <= c + i /\ last \in Nat
        BY <2>8, <3>3 DEF Smaller
      <3> QED
        BY <2>2, <3>1, <3>2, <3>4
    <2>10. PageOf(reading) = SubSeq(merged, skip + 1, last)
      BY DEF PageOf, merged, skip
    <2> HIDE DEF last
    <2>11. Len(PageOf(reading)) = last - skip
      <3>1. skip + 1 \in 1 .. Len(merged) + 1 /\ last \in skip + 1 - 1 .. Len(merged)
        BY <2>2, <2>4, <2>8, <2>9
      <3>2. Len(SubSeq(merged, skip + 1, last)) = last - (skip + 1) + 1
        <4>1. \A n \in skip + 1 .. last : merged[n] \in S
          BY <2>2, <2>8, <3>1
        <4> QED
          BY <2>2, <2>9, <3>1, <4>1, SubSeqProperties
      <3> QED
        BY <2>2, <2>9, <2>10, <3>2
    <2>12. Len(PageOf(reading)) = Smaller(reading.size, reading.copart + reading.iaai - skip)
      BY <2>2, <2>9, <2>11, <2>1, <2>3 DEF Smaller
    <2>13. ASSUME NEW k \in MaxConsecutive + 1 .. skip + Len(PageOf(reading)),
                  \A p \in {"copart", "iaai"} : \E e \in {merged[n] : n \in k .. Len(merged)} : e[1] = p
           PROVE  \E n \in k - MaxConsecutive .. k : merged[n][1] # merged[k][1]
      <3>1. k \in MaxConsecutive + 1 .. c + i
        BY <2>2, <2>4, <2>9, <2>11 DEF MaxConsecutive
      <3>2. PICK m \in k .. c + i : merged[m][1] = "copart"
        BY <2>8, <2>13
      <3>3. PICK n \in k .. c + i : merged[n][1] = "iaai"
        BY <2>8, <2>13
      <3>4. {k, m, n} \subseteq 1 .. c + i /\ k - MaxConsecutive .. k \subseteq 1 .. c + i
        BY <2>4, <3>1, <3>2, <3>3 DEF MaxConsecutive
      <3>5. turns[m].last = "copart" /\ turns[n].last = "iaai"
        BY <2>8, <3>2, <3>3, <3>4
      <3>6. PICK j \in k - MaxConsecutive .. k : turns[j].last # turns[k].last
        BY <2>4, <3>1, <3>5, FourInARow DEF turns
      <3>7. merged[j][1] = turns[j].last /\ merged[k][1] = turns[k].last
        BY <2>8, <3>4
      <3> QED
        BY <3>6, <3>7
    <2>14. merged = Merged(reading) /\ skip = Skipped(reading)
      BY DEF merged, skip
    <2>15. BothProvidersShown <=>
             /\ Len(PageOf(reading)) = Smaller(reading.size, reading.copart + reading.iaai - skip)
             /\ \A k \in MaxConsecutive + 1 .. skip + Len(PageOf(reading)) :
                  (\A p \in {"copart", "iaai"} : \E e \in {merged[n] : n \in k .. Len(merged)} : e[1] = p) =>
                      \E n \in k - MaxConsecutive .. k : merged[n][1] # merged[k][1]
      BY <2>14 DEF BothProvidersShown
    <2> QED
      BY <2>12, <2>13, <2>15
  <1> QED
    BY <1>1, PagesInvariant, PTL

-----------------------------------------------------------------------------
(* The previews of the calculator.                                         *)
(* A cache that holds one answer of an input, each as long as it may.      *)
CacheOK(cache) ==
    /\ cache \in Seq(Entry)
    /\ \A m, n \in DOMAIN cache : cache[m].input = cache[n].input => m = n
    /\ \A n \in DOMAIN cache : cache[n].expiresAt = cache[n].givenAt + PreviewTtl

LEMMA UnexpiredIsOK ==
    ASSUME NEW cache, CacheOK(cache)
    PROVE  CacheOK(Unexpired(cache)) /\ Len(Unexpired(cache)) <= Len(cache)
  <1> DEFINE places == {n \in DOMAIN cache : cache[n].expiresAt > minute}
             live == Filtered(cache, places)
  <1>1. cache \in Seq(Entry) /\ Len(cache) \in Nat /\ DOMAIN cache = 1 .. Len(cache)
    BY DEF CacheOK
  <1>2. IsFiniteSet(DOMAIN cache) /\ Cardinality(DOMAIN cache) = Len(cache)
    BY <1>1, FS_Interval
  <1>3. places \in SUBSET DOMAIN cache /\ places \in SUBSET Nat
    BY <1>1
  <1> HIDE DEF places
  <1>4. IsFiniteSet(places) /\ Cardinality(places) <= Len(cache)
    BY <1>2, <1>3, FS_Subset
  <1>5. /\ Cardinality(places) \in Nat
        /\ DOMAIN live = 1 .. Cardinality(places)
        /\ \A n \in 1 .. Cardinality(places) : \E i \in places : live[n] = cache[i]
        /\ \A n, m \in DOMAIN live : n # m =>
              \E i, j \in DOMAIN cache : i # j /\ live[n] = cache[i] /\ live[m] = cache[j]
    <2>1. places \in SUBSET Nat /\ IsFiniteSet(places)
      BY <1>3, <1>4
    <2>2. /\ Cardinality(places) \in Nat
          /\ DOMAIN live = 1 .. Cardinality(places)
          /\ \A n \in 1 .. Cardinality(places) : \E i \in places : live[n] = cache[i]
      BY <2>1, FilteredEntries
    <2>3. ASSUME NEW n \in DOMAIN live, NEW m \in DOMAIN live, n # m
          PROVE  \E i, j \in DOMAIN cache : i # j /\ live[n] = cache[i] /\ live[m] = cache[j]
      BY <1>3, <2>1, <2>3, FilteredApart
    <2> QED
      BY <2>2, <2>3
  <1>6. live \in Seq(Entry)
    BY <1>1, <1>3, FilteredIsSeq
  <1> HIDE DEF live
  <1>7. Len(live) = Cardinality(places)
    BY <1>5, <1>6
  <1>8. \A m, n \in DOMAIN live : live[m].input = live[n].input => m = n
    BY <1>3, <1>5 DEF CacheOK
  <1>9. \A n \in DOMAIN live : live[n].expiresAt = live[n].givenAt + PreviewTtl
    BY <1>3, <1>5 DEF CacheOK
  <1>10. CacheOK(live) /\ Len(live) <= Len(cache)
    BY <1>4, <1>6, <1>7, <1>8, <1>9 DEF CacheOK
  <1> QED
    BY <1>10 DEF Unexpired, live, places

(* There is room for one more after a full cache was cleared.              *)
LEMMA RoomyIsOK ==
    ASSUME NEW cache, CacheOK(cache), Len(cache) <= MaxEntries
    PROVE  CacheOK(Roomy(cache)) /\ Len(Roomy(cache)) < MaxEntries
  <1> DEFINE live == Unexpired(cache)
  <1>1. CacheOK(live) /\ Len(live) <= Len(cache)
    BY UnexpiredIsOK
  <1>2. cache \in Seq(Entry) /\ live \in Seq(Entry) /\ Len(cache) \in Nat /\ Len(live) \in Nat
        /\ MaxEntries \in Nat /\ MaxEntries > 0
    BY <1>1, EngineAssumption DEF CacheOK
  <1> HIDE DEF live
  <1>3. CASE Len(cache) < MaxEntries
    BY <1>3 DEF Roomy
  <1>4. CASE Len(cache) >= MaxEntries /\ Len(live) < MaxEntries
    BY <1>1, <1>2, <1>4 DEF Roomy, live
  <1>5. CASE Len(cache) >= MaxEntries /\ Len(live) >= MaxEntries
    <2>1. Len(live) > 0 /\ live # <<>>
      BY <1>2, <1>5
    <2> DEFINE rest == Tail(live)
    <2>2. /\ rest \in Seq(Entry) /\ Len(rest) = Len(live) - 1
          /\ \A n \in 1 .. Len(rest) : rest[n] = live[n + 1]
      BY <1>2, <2>1, HeadTailProperties
    <2>3. \A n \in DOMAIN rest : n + 1 \in DOMAIN live /\ rest[n] = live[n + 1] /\ n \in Nat
      BY <1>2, <2>2
    <2> HIDE DEF rest
    <2>4. \A m, n \in DOMAIN rest : rest[m].input = rest[n].input => m = n
      <3> SUFFICES ASSUME NEW m \in DOMAIN rest, NEW n \in DOMAIN rest, rest[m].input = rest[n].input
                   PROVE  m = n
        OBVIOUS
      <3>1. m + 1 = n + 1
        BY <1>1, <2>3 DEF CacheOK
      <3> QED
        BY <2>3, <3>1
    <2>5. \A n \in DOMAIN rest : rest[n].expiresAt = rest[n].givenAt + PreviewTtl
      BY <1>1, <2>3 DEF CacheOK
    <2>6. CacheOK(rest)
      BY <2>2, <2>4, <2>5 DEF CacheOK
    <2>7. Len(rest) < MaxEntries
      BY <1>1, <1>2, <1>5, <2>2
    <2>8. Roomy(cache) = rest
      BY <1>2, <1>5 DEF Roomy, rest, live
    <2> QED
      BY <2>6, <2>7, <2>8
  <1> QED
    BY <1>2, <1>3, <1>4, <1>5

(* An answer is added at the end, or in the place of the one it replaces.  *)
LEMMA WrittenIsOK ==
    ASSUME NEW cache, CacheOK(cache), Len(cache) < MaxEntries,
           NEW e \in Entry, e.expiresAt = e.givenAt + PreviewTtl
    PROVE  CacheOK(Written(cache, e)) /\ Len(Written(cache, e)) <= MaxEntries
  <1>1. cache \in Seq(Entry) /\ Len(cache) \in Nat /\ MaxEntries \in Nat
        /\ DOMAIN cache = 1 .. Len(cache)
    BY EngineAssumption DEF CacheOK
  <1>2. CASE Entries(cache, e.input) = {}
    <2> DEFINE longer == Append(cache, e)
    <2>1. \A n \in DOMAIN cache : cache[n].input # e.input
      BY <1>2 DEF Entries
    <2>2. /\ longer \in Seq(Entry) /\ Len(longer) = Len(cache) + 1
          /\ DOMAIN longer = 1 .. Len(cache) + 1
          /\ \A n \in 1 .. Len(cache) + 1 : longer[n] = IF n = Len(cache) + 1 THEN e ELSE cache[n]
      BY <1>1, AppendProperties
    <2> HIDE DEF longer
    <2>3. \A n \in DOMAIN longer : \/ n = Len(cache) + 1 /\ longer[n] = e
                                   \/ n \in DOMAIN cache /\ longer[n] = cache[n]
      <3> TAKE n \in DOMAIN longer
      <3>1. n \in 1 .. Len(cache) + 1 /\ (n # Len(cache) + 1 => n \in 1 .. Len(cache))
        BY <1>1, <2>2
      <3> QED
        BY <1>1, <2>2, <3>1
    <2>4. \A m, n \in DOMAIN longer : longer[m].input = longer[n].input => m = n
      BY <2>1, <2>3 DEF CacheOK
    <2>5. \A n \in DOMAIN longer : longer[n].expiresAt = longer[n].givenAt + PreviewTtl
      BY <2>3 DEF CacheOK
    <2>6. Written(cache, e) = longer
      BY <1>2 DEF Written, longer
    <2> QED
      BY <1>1, <2>2, <2>4, <2>5, <2>6 DEF CacheOK
  <1>3. CASE Entries(cache, e.input) # {}
    <2> DEFINE changed == [n \in DOMAIN cache |-> IF cache[n].input = e.input THEN e ELSE cache[n]]
    <2>1. changed \in Seq(Entry) /\ Len(changed) = Len(cache) /\ DOMAIN changed = DOMAIN cache
      BY <1>1
    <2>2. \A n \in DOMAIN changed : /\ changed[n].input = cache[n].input
                                    /\ changed[n] = e \/ changed[n] = cache[n]
      OBVIOUS
    <2> HIDE DEF changed
    <2>3. CacheOK(changed)
      BY <2>1, <2>2 DEF CacheOK
    <2>4. Written(cache, e) = changed
      BY <1>3 DEF Written, changed
    <2> QED
      BY <1>1, <2>1, <2>3, <2>4
  <1> QED
    BY <1>2, <1>3

LEMMA EngineStart == EngineInit => EngineInv
  <1> SUFFICES ASSUME EngineInit PROVE EngineInv
    OBVIOUS
  <1>1. EngineTypeOK
    BY DEF EngineInit, EngineTypeOK, PreviewCall
  <1>2. PreviewsSound
    BY EngineAssumption DEF EngineInit, PreviewsSound, NoCallYet
  <1> QED
    BY <1>1, <1>2 DEF EngineInit, EngineInv

(* A request that ends answers everyone who waits for its input.           *)
LEMMA ResolveKeeps ==
    ASSUME EngineInv, NEW i \in Input, NEW result \in PreviewCall, Resolve(i, result),
           result.phase # "waits",
           result.phase = "shown" => result.shownAt < result.givenAt + PreviewTtl
    PROVE  /\ pendingPreviews' \in [Input -> {"none", "profile", "calculate"}]
           /\ visitor' \in [Visitor -> PreviewCall]
           /\ \A v \in Visitor :
                 /\ visitor'[v].phase = "shown" => visitor'[v].shownAt < visitor'[v].givenAt + PreviewTtl
                 /\ visitor'[v].phase = "waits" => pendingPreviews'[visitor'[v].input] # "none"
  <1>1. pendingPreviews' \in [Input -> {"none", "profile", "calculate"}]
        /\ visitor' \in [Visitor -> PreviewCall]
    BY DEF EngineInv, EngineTypeOK, Resolve
  <1>2. ASSUME NEW v \in Visitor
        PROVE  /\ visitor'[v].phase = "shown" => visitor'[v].shownAt < visitor'[v].givenAt + PreviewTtl
               /\ visitor'[v].phase = "waits" => pendingPreviews'[visitor'[v].input] # "none"
    <2>1. CASE visitor[v] = [phase |-> "waits", input |-> i]
      BY <2>1 DEF Resolve
    <2>2. CASE visitor[v] # [phase |-> "waits", input |-> i]
      <3>1. visitor'[v] = visitor[v]
        BY <2>2 DEF Resolve
      <3>2. ASSUME visitor[v].phase = "waits"
            PROVE  visitor[v].input \in Input /\ visitor[v].input # i
        <4>1. visitor[v] \in [phase : {"waits"}, input : Input]
          BY <3>2 DEF EngineInv, EngineTypeOK, PreviewCall, NoCallYet
        <4> QED
          BY <2>2, <4>1
      <3> QED
        BY <3>1, <3>2 DEF EngineInv, EngineTypeOK, PreviewsSound, Resolve
    <2> QED
      BY <2>1, <2>2
  <1> QED
    BY <1>1, <1>2

LEMMA EngineStep == EngineInv /\ [EngineNext]_engineVars => EngineInv'
  <1> SUFFICES ASSUME EngineInv, [EngineNext]_engineVars PROVE EngineInv'
    OBVIOUS
  <1>1. PreviewTtl \in Nat \ {0} /\ minute \in Nat /\ CacheOK(previewCache)
        /\ Len(previewCache) <= MaxEntries
    BY EngineAssumption DEF EngineInv, EngineTypeOK, PreviewsSound, CacheOK
  <1>2. ASSUME NEW v \in Visitor, NEW i \in Input, Preview(v, i) PROVE EngineInv'
    <2> DEFINE hit == CHOOSE e \in LivePreviews(i) : TRUE
    <2>1. UNCHANGED <<minute, dealerUid, previewCache>>
      BY <1>2 DEF Preview
    <2>2. CASE LivePreviews(i) # {}
      <3>1. hit \in LivePreviews(i)
        BY <2>2
      <3>2. hit.givenAt \in Nat /\ hit.expiresAt = hit.givenAt + PreviewTtl /\ hit.expiresAt > minute
        <4> HIDE DEF hit
        <4>1. PICK n \in DOMAIN previewCache : hit = previewCache[n] /\ hit.expiresAt > minute
          BY <3>1 DEF LivePreviews, Entries
        <4>2. previewCache[n] \in Entry /\ previewCache[n].expiresAt = previewCache[n].givenAt + PreviewTtl
          BY <1>1 DEF CacheOK
        <4> QED
          BY <4>1, <4>2 DEF Entry
      <3> DEFINE shown == [phase |-> "shown", givenAt |-> hit.givenAt, shownAt |-> minute]
      <3>3. pendingPreviews' = pendingPreviews /\ visitor' = [visitor EXCEPT ![v] = shown]
        BY <1>2, <2>2 DEF Preview, EngineInv, EngineTypeOK
      <3>4. shown \in PreviewCall /\ shown.phase = "shown" /\ shown.shownAt < shown.givenAt + PreviewTtl
        BY <1>1, <3>2 DEF PreviewCall
      <3> HIDE DEF shown, hit
      <3> QED
        BY <2>1, <3>3, <3>4 DEF EngineInv, EngineTypeOK, PreviewsSound
    <2>3. CASE LivePreviews(i) = {}
      <3> DEFINE waits == [phase |-> "waits", input |-> i]
      <3>1. visitor' = [visitor EXCEPT ![v] = waits]
        BY <1>2, <2>3 DEF Preview
      <3>2. PICK p \in {"profile", "calculate"} :
              pendingPreviews' = [pendingPreviews EXCEPT ![i] = IF @ # "none" THEN @ ELSE p]
        <4>1. pendingPreviews' = [pendingPreviews EXCEPT ![i] =
                IF pendingPreviews[i] # "none" THEN pendingPreviews[i]
                ELSE IF KnowsDealer THEN "calculate" ELSE "profile"]
          BY <1>2, <2>3 DEF Preview
        <4> QED
          BY <4>1
      <3>3. waits \in PreviewCall /\ waits.phase = "waits" /\ waits.input = i
        BY DEF PreviewCall
      <3>4. /\ pendingPreviews' \in [Input -> {"none", "profile", "calculate"}]
            /\ pendingPreviews'[i] # "none"
            /\ \A j \in Input : pendingPreviews[j] # "none" => pendingPreviews'[j] # "none"
        BY <3>2 DEF EngineInv, EngineTypeOK
      <3> HIDE DEF waits
      <3>5. \A u \in Visitor : visitor[u].phase = "waits" => visitor[u].input \in Input
        BY DEF EngineInv, EngineTypeOK, PreviewCall, NoCallYet
      <3> QED
        BY <2>1, <3>1, <3>3, <3>4, <3>5 DEF EngineInv, EngineTypeOK, PreviewsSound
    <2> QED
      BY <2>2, <2>3
  <1>3. ASSUME NEW i \in Input, GetDealerUid(i) PROVE EngineInv'
    <2>1. /\ pendingPreviews' \in [Input -> {"none", "profile", "calculate"}]
          /\ \A j \in Input : pendingPreviews[j] # "none" => pendingPreviews'[j] # "none"
          /\ dealerUid' \in Nat
      BY <1>1, <1>3, EngineAssumption DEF GetDealerUid, EngineInv, EngineTypeOK
    <2>2. \A u \in Visitor : visitor[u].phase = "waits" => visitor[u].input \in Input
      BY DEF EngineInv, EngineTypeOK, PreviewCall, NoCallYet
    <2> QED
      BY <1>3, <2>1, <2>2 DEF GetDealerUid, EngineInv, EngineTypeOK, PreviewsSound
  <1>4. ASSUME NEW i \in Input, Calculated(i) PROVE EngineInv'
    <2> DEFINE e == [input |-> i, givenAt |-> minute, expiresAt |-> minute + PreviewTtl]
               shown == [phase |-> "shown", givenAt |-> minute, shownAt |-> minute]
    <2>1. e \in Entry /\ e.expiresAt = e.givenAt + PreviewTtl
      BY <1>1 DEF Entry
    <2>2. CacheOK(previewCache') /\ Len(previewCache') <= MaxEntries
      <3>1. previewCache' = Written(Roomy(previewCache), e)
        BY <1>4 DEF Calculated
      <3> HIDE DEF e
      <3> QED
        BY <1>1, <2>1, <3>1, RoomyIsOK, WrittenIsOK
    <2>3. shown \in PreviewCall /\ shown.phase = "shown" /\ shown.shownAt < shown.givenAt + PreviewTtl
      BY <1>1 DEF PreviewCall
    <2>4. Resolve(i, shown) /\ UNCHANGED <<minute, dealerUid>>
      BY <1>4 DEF Calculated
    <2> HIDE DEF e, shown
    <2>5. /\ pendingPreviews' \in [Input -> {"none", "profile", "calculate"}]
          /\ visitor' \in [Visitor -> PreviewCall]
          /\ \A v \in Visitor :
                 /\ visitor'[v].phase = "shown" => visitor'[v].shownAt < visitor'[v].givenAt + PreviewTtl
                 /\ visitor'[v].phase = "waits" => pendingPreviews'[visitor'[v].input] # "none"
      BY <2>3, <2>4, ResolveKeeps
    <2> QED
      BY <2>2, <2>4, <2>5 DEF EngineInv, EngineTypeOK, PreviewsSound, CacheOK
  <1>5. ASSUME NEW i \in Input, PreviewFails(i) PROVE EngineInv'
    <2> DEFINE unavailable == [phase |-> "unavailable"]
    <2>1. unavailable \in PreviewCall /\ unavailable.phase = "unavailable"
      BY DEF PreviewCall
    <2>2. Resolve(i, unavailable) /\ UNCHANGED <<minute, dealerUid, previewCache>>
      BY <1>5 DEF PreviewFails
    <2> HIDE DEF unavailable
    <2>3. /\ pendingPreviews' \in [Input -> {"none", "profile", "calculate"}]
          /\ visitor' \in [Visitor -> PreviewCall]
          /\ \A v \in Visitor :
                 /\ visitor'[v].phase = "shown" => visitor'[v].shownAt < visitor'[v].givenAt + PreviewTtl
                 /\ visitor'[v].phase = "waits" => pendingPreviews'[visitor'[v].input] # "none"
      BY <2>1, <2>2, ResolveKeeps
    <2> QED
      BY <2>2, <2>3 DEF EngineInv, EngineTypeOK, PreviewsSound
  <1>6. CASE EngineTick
    BY <1>1, <1>6 DEF EngineTick, EngineInv, EngineTypeOK, PreviewsSound
  <1>7. CASE UNCHANGED engineVars
    BY <1>7 DEF engineVars, EngineInv, EngineTypeOK, PreviewsSound
  <1> QED
    BY <1>2, <1>3, <1>4, <1>5, <1>6, <1>7 DEF EngineNext

(* In every reachable state an entry of the cache expires when its answer  *)
(* is too old, and the cache and the calls are as PreviewsSound says.      *)
THEOREM EngineInvariant == EngineSpec => []EngineInv
  BY EngineStart, EngineStep, PTL DEF EngineSpec

(* However many calls overlap, the cache stays within its bound and holds  *)
(* one answer of an input, no answer is shown when it is too old, and      *)
(* whoever waits has a request to wait for (preview, requestPreview,       *)
(* cachePreview).                                                          *)
THEOREM PreviewsAreSound == EngineSpec => []PreviewsSound
  <1>1. EngineInv => PreviewsSound
    BY DEF EngineInv
  <1> QED
    BY <1>1, EngineInvariant, PTL
=============================================================================
