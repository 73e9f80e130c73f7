----------------------------- MODULE MCHotOffers -----------------------------
(* Three lots, the best two of one make and provider; a policy that admits *)
(* all, one that admits the last two and prefers the third, and one that   *)
(* is refused because its weights do not sum to 100.  A behaviour exercises*)
(* one part of the service: administrators who edit overrides, reads       *)
(* between policies, submissions, or reads between reviews.  The parts     *)
(* meet in the readers, which read the settings row only for its policy    *)
(* and the analyses only for what is confirmed.                            *)
EXTENDS HotOffers

CONSTANTS f1, f2, x, y, z, open, tight, unbalanced, Hides

VARIABLE part

Lots == {x, y, z}
Policies == {open, tight, unbalanced}
AdmitsOf == [p \in Policies |-> IF p = open THEN Lots ELSE {y, z}]
UndamagedOf == [p \in Policies |-> Lots]
WeightOf ==
    [p \in Policies |-> CASE p = open -> [year |-> 25, mileage |-> 20, price |-> 25, time |-> 20, buyNow |-> 10]
                         [] p = tight -> [year |-> 0, mileage |-> 0, price |-> 100, time |-> 0, buyNow |-> 0]
                         [] p = unbalanced -> [year |-> 50, mileage |-> 50, price |-> 50, time |-> 0, buyNow |-> 0]]
MeritOf ==
    [l \in Lots |-> CASE l = x -> [year |-> 3, mileage |-> 2, price |-> 0, time |-> 1, buyNow |-> 0]
                      [] l = y -> [year |-> 1, mileage |-> 1, price |-> 1, time |-> 1, buyNow |-> 1]
                      [] l = z -> [year |-> 0, mileage |-> 0, price |-> 2, time |-> 1, buyNow |-> 0]]
MakeOf == [l \in Lots |-> IF l = z THEN "kia" ELSE "bmw"]
ModelOf == [l \in Lots |-> l]
(* What the provider may report: an auction at one, or at two.             *)
TimeOf == [f \in {f1, f2} |-> IF f = f1 THEN 2 ELSE 1]
ProviderOf == [l \in Lots |-> IF l = z THEN "iaai" ELSE "copart"]

One(S) == {CHOOSE e \in S : TRUE}

MCInit ==
    /\ Init
    /\ part \in {"edits", "policies", "submissions", "reviews"}
    /\ gate => part = "reviews"
    /\ \A l, m \in Lot : lot[l] = lot[m]

EditsNext ==
    \/ \E a \in Admin : \/ \E o \in Requests :
                              o.lot # z /\ o.position <= 1 /\ BeginAddOverride(a, o)
                        \/ \E l \in {x} : BeginRemoveOverride(a, l)
                        \/ RefusePin(a) \/ WriteOverrides(a) \/ Invalidate(a)
    \/ Tick /\ UNCHANGED offersVars

PoliciesNext ==
    \/ \E a \in Admin : \/ \E p \in Policy : SavePolicy(a, p)
                        \/ \E l \in Hides : BeginAddOverride(a,
                              [lot |-> l, tier |-> "urgent", action |-> "exclude", position |-> 0])
                        \/ WriteOverrides(a) \/ Invalidate(a)
    \/ \E r \in Reader : ReaderStep(r)
    \/ (Tick \/ \E l \in Lot : LotWithdrawn(l)) /\ UNCHANGED offersVars
    \/ Restart /\ UNCHANGED gate

Submissions(workers, payloads) ==
    \/ \E w \in workers : \/ \E l \in Lot, p \in payloads : SubmitAiAnalysis(w, l, p)
                          \/ LookUpAnalysis(w)
                          \/ CreateAnalysis(w)
    \/ \E l \in BuyNow : LotObserved(l) \/ LotWithdrawn(l)

SubmissionsNext == Submissions(Worker, Payload) /\ UNCHANGED offersVars

Decisions ==
    \E u \in Reviewer : \/ \E a \in analyses, d \in Decision : DecideAiReview(u, a, d)
                        \/ WriteDecision(u)

ReviewsNext ==
    \/ (Submissions(One(Worker), One(Payload)) \/ Decisions) /\ UNCHANGED offersVars
    \/ \E r \in Reader : ReaderStep(r)
    \/ Restart

MCNext ==
    /\ UNCHANGED part
    /\ \/ part = "edits" /\ EditsNext
       \/ part = "policies" /\ PoliciesNext
       \/ part = "submissions" /\ SubmissionsNext
       \/ part = "reviews" /\ ReviewsNext

MCSpec == MCInit /\ [][MCNext]_<<vars, part>>
=============================================================================
