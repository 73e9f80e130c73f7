------------------------------ MODULE HotReview ------------------------------
(***************************************************************************)
(* The review of lots for Hot Offers: AI workers submit analyses of what a *)
(* lot's saved facts and media show, administrators decide on them, and a  *)
(* lot may be published as confirmed while a confirmed analysis still      *)
(* matches its facts (src/src/hot-offers/hot-offers.service.ts).           *)
(*                                                                         *)
(* A lot's facts, its auction time among them, its media count and payload *)
(* hash are one value of Facts: the code compares digests of them.         *)
(* Offered stands for everything the code asks of a lot but its auction    *)
(* window: visible, passenger, fresh price, quality.  A row of analyses is *)
(* identified by its lot and facts (one model and one policy version).     *)
(***************************************************************************)
EXTENDS Integers, FiniteSets

CONSTANTS
    Lot, BuyNow,        \* the discovered lots; those with a Buy Now price and media
    Facts,              \* what a provider may report of a lot
    Payload,            \* what a worker may conclude
    Worker, Reviewer,   \* submissions and decisions in progress
    AuctionTime,        \* the auction time among the facts
    MaxTime

ASSUME ReviewAssumption ==
    BuyNow \subseteq Lot /\ AuctionTime \in [Facts -> Nat] /\ MaxTime \in Nat

VARIABLES
    now,
    lot,       \* discovered_lots: facts, and whether it is offered
    analyses,  \* ai_lot_analyses, each with its current decision
    worker,    \* worker[w]: a submission between its reads and its insert
    reviewer   \* reviewer[u]: a decision between its check and its write

reviewVars == <<now, lot, analyses, worker, reviewer>>

LotRow == [facts : Facts, offered : BOOLEAN]
Decision == {"CONFIRMED", "REJECTED", "NEEDS_REVIEW"}
Analysis == [lot : Lot, facts : Facts, payload : Payload,
             decision : Decision \cup {"PENDING"}]
Idle == [phase |-> "idle"]
Submission == [phase : {"lookup", "create", "stored", "conflict"},
               lot : Lot, facts : Facts, payload : Payload]
Decided == [phase : {"write"}, lot : Lot, facts : Facts, decision : Decision]

ReviewTypeOK ==
    /\ now \in 0 .. MaxTime
    /\ lot \in [Lot -> LotRow]
    /\ analyses \subseteq Analysis
    /\ worker \in [Worker -> Submission \cup {Idle}]
    /\ reviewer \in [Reviewer -> Decided \cup {Idle}]

ReviewInit ==
    /\ now = 0
    /\ lot \in [Lot -> [facts : Facts, offered : {TRUE}]]
    /\ analyses = {}
    /\ worker = [w \in Worker |-> Idle]
    /\ reviewer = [u \in Reviewer |-> Idle]

-----------------------------------------------------------------------------
(* A lot that is offered with a Buy Now price and media, whose auction has *)
(* not begun.                                                              *)
UntilAuction(l, at) == AuctionTime[lot[l].facts] - at

AiEligible(l) == lot[l].offered /\ l \in BuyNow /\ UntilAuction(l, now) > 0

(* The analyses with the unique key of a submission: at most one.          *)
SameIdentity(s) == {a \in analyses : a.lot = s.lot /\ a.facts = s.facts}

Answer(s, found) ==
    IF \A a \in found : a.payload = s.payload THEN "stored" ELSE "conflict"

(* submitAiAnalysis reads the lot and takes the digest of its facts.       *)
SubmitAiAnalysis(w, l, p) ==
    /\ worker[w].phase \in {"idle", "stored", "conflict"}
    /\ AiEligible(l)
    /\ worker' = [worker EXCEPT ![w] = [phase |-> "lookup", lot |-> l,
                                        facts |-> lot[l].facts, payload |-> p]]
    /\ UNCHANGED <<now, lot, analyses, reviewer>>

(* It looks for a row of the same identity ...                             *)
LookUpAnalysis(w) ==
    LET found == SameIdentity(worker[w])
    IN  /\ worker[w].phase = "lookup"
        /\ worker' = [worker EXCEPT ![w].phase =
                         IF found = {} THEN "create" ELSE Answer(worker[w], found)]
        /\ UNCHANGED <<now, lot, analyses, reviewer>>

(* A slip: the answer of the unique key is taken for success.              *)
CreateAnalysisUnchecked(w) ==
    /\ worker[w].phase = "create"
    /\ analyses' = IF SameIdentity(worker[w]) # {} THEN analyses
                   ELSE analyses \cup {[lot |-> worker[w].lot, facts |-> worker[w].facts,
                                        payload |-> worker[w].payload,
                                        decision |-> "PENDING"]}
    /\ worker' = [worker EXCEPT ![w].phase = "stored"]
    /\ UNCHANGED <<now, lot, reviewer>>
(* ... and creates one; the unique key refuses a second (P2002), and then  *)
(* the row that is there decides the answer.                               *)
CreateAnalysis(w) ==
    LET s == worker[w]  found == SameIdentity(s)
    IN  /\ s.phase = "create"
        /\ analyses' = IF found # {} THEN analyses
                       ELSE analyses \cup {[lot |-> s.lot, facts |-> s.facts,
                                            payload |-> s.payload, decision |-> "PENDING"]}
        /\ worker' = [worker EXCEPT ![w].phase = Answer(s, found)]
        /\ UNCHANGED <<now, lot, reviewer>>

MatchesAnalysisSource(a) == a.facts = lot[a.lot].facts

(* decideAiReview checks a confirmation against the lot and, in the same   *)
(* transaction, appends the decision and moves the current pointer; the    *)
(* lot is not locked in between.                                           *)
DecideAiReview(u, a, d) ==
    /\ reviewer[u] = Idle
    /\ d = "CONFIRMED" => AiEligible(a.lot) /\ MatchesAnalysisSource(a)
    /\ reviewer' = [reviewer EXCEPT ![u] = [phase |-> "write", lot |-> a.lot,
                                            facts |-> a.facts, decision |-> d]]
    /\ UNCHANGED <<now, lot, analyses, worker>>

WriteDecision(u) ==
    LET r == reviewer[u]
    IN  /\ r.phase = "write"
        /\ analyses' = (analyses \ SameIdentity(r)) \cup
                       {[a EXCEPT !.decision = r.decision] : a \in SameIdentity(r)}
        /\ reviewer' = [reviewer EXCEPT ![u] = Idle]
        /\ UNCHANGED <<now, lot, worker>>

(* getCurrentConfirmedAiAnalyses: the lots, each once, that a confirmed    *)
(* analysis still describes.                                               *)
ConfirmedLots ==
    {a.lot : a \in {b \in analyses : /\ b.decision = "CONFIRMED"
                                     /\ AiEligible(b.lot)
                                     /\ MatchesAnalysisSource(b)}}

(* What reviewers see: all analyses, those not decided, or those with a    *)
(* decision; each beside its lot as it is now.                             *)
ListAiReviews(filter) ==
    IF filter = "ALL" THEN analyses ELSE {a \in analyses : a.decision = filter}

AdminReviewSummary(a) ==
    [analysis |-> [lot |-> a.lot, facts |-> a.facts, payload |-> a.payload],
     lot |-> lot[a.lot], latestDecision |-> a.decision]

-----------------------------------------------------------------------------
(* What the discovery writes of a lot: new facts, or that it is not to be  *)
(* shown any more.                                                         *)
LotObserved(l) ==
    /\ \E f \in Facts : lot' = [lot EXCEPT ![l].facts = f]
    /\ UNCHANGED <<now, analyses, worker, reviewer>>

LotWithdrawn(l) ==
    /\ lot' = [lot EXCEPT ![l].offered = FALSE]
    /\ UNCHANGED <<now, analyses, worker, reviewer>>

Tick ==
    /\ now < MaxTime
    /\ now' = now + 1
    /\ UNCHANGED <<lot, analyses, worker, reviewer>>

Environment == Tick \/ \E l \in Lot : LotObserved(l) \/ LotWithdrawn(l)

ReviewNext ==
    \/ \E w \in Worker : \/ \E l \in Lot, p \in Payload : SubmitAiAnalysis(w, l, p)
                         \/ LookUpAnalysis(w)
                         \/ CreateAnalysis(w)
    \/ \E u \in Reviewer : \/ \E a \in analyses, d \in Decision : DecideAiReview(u, a, d)
                           \/ WriteDecision(u)

-----------------------------------------------------------------------------
(* A worker that is told its analysis is stored finds its own conclusion   *)
(* among the reviews, also when another worker submitted at the same time: *)
(* the submission is idempotent for one payload and a conflict for         *)
(* another.  Reviewers see it in one of their lists, and what is public as *)
(* confirmed among the confirmed, beside the facts it was concluded from.  *)
StoredIsOwnPayload ==
    /\ \A w \in Worker : worker[w].phase = "stored" =>
          LET mine == {a \in ListAiReviews("ALL") : a \in SameIdentity(worker[w])} IN
          /\ {a.payload : a \in mine} = {worker[w].payload}
          /\ Cardinality({d \in Decision \cup {"PENDING"} : ListAiReviews(d) \cap mine # {}}) = 1
    /\ \A l \in ConfirmedLots : \E a \in ListAiReviews("CONFIRMED") :
          LET shown == AdminReviewSummary(a) IN
          shown.analysis.lot = l /\ shown.analysis.facts = shown.lot.facts /\ shown.lot.offered

-----------------------------------------------------------------------------
(* What makes it inductive: one analysis of a lot and its facts, and what  *)
(* a worker was told is stored stays the conclusion of that analysis.      *)
IsOf(a, s) == a.lot = s.lot /\ a.facts = s.facts

UniqueAnalysis == \A a, b \in analyses : IsOf(a, b) => a = b

StoredIsKept ==
    \A w \in Worker : worker[w].phase = "stored" =>
        \E a \in analyses : IsOf(a, worker[w]) /\ a.payload = worker[w].payload

ReviewInv == ReviewTypeOK /\ UniqueAnalysis /\ StoredIsKept
=============================================================================
