------------------------------ MODULE HotOffers ------------------------------
(***************************************************************************)
(* The Hot Offers block of the home page: administrators keep a policy and *)
(* a list of overrides in one settings row, and a public read builds two   *)
(* tiers of lots, keeps the last build as a snapshot for Ttl, and checks   *)
(* every lot of a fresh snapshot again                                     *)
(* (src/src/hot-offers/hot-offers.service.ts).  Each await of the code is  *)
(* a step, so that reads, edits and lots interleave.                       *)
(*                                                                         *)
(* A policy is a value of Policy: Admits says which lots its caps let      *)
(* through, and the product of its Weight and a lot's Merit is the score.  *)
(* Merit does not follow the clock: the order within a tier is data here.  *)
(***************************************************************************)
EXTENDS HotReview, Lists, Integers, Sequences, SequencesExt

CONSTANTS
    Policy, DefaultPolicy,
    Admits,    \* Admits[p]: the lots within p's caps and exclusions
    Undamaged, \* Undamaged[p]: the lots within p's damage exclusions alone
    Weight, Merit, \* by criterion, of a policy and of a lot
    Make, Model, Provider,   \* functions of the lot
    Liked,     \* the lots that match what the user has in favorites
    MaxItems, MaxPins, MaxSameMake, MaxSameMakeModel, MaxSameProvider,
    UrgentWindow, WeekWindow, Ttl,
    Admin, Reader

Criterion == {"year", "mileage", "price", "time", "buyNow"}

ASSUME OffersAssumption ==
    /\ IsFiniteSet(Lot) /\ DefaultPolicy \in Policy
    /\ Admits \in [Policy -> SUBSET Lot]
    /\ Weight \in [Policy -> [Criterion -> Int]] /\ Merit \in [Lot -> [Criterion -> Nat]]
    /\ MaxItems \in Nat
    /\ Ttl \in Nat \ {0} /\ UrgentWindow \in Nat /\ WeekWindow \in Nat

VARIABLES
    gate,      \* AI_HOT_OFFERS_PUBLIC_GATE_ENABLED, set at deployment
    setting,   \* the row hot_offers_policy_v1, or NoRow
    snapshot,  \* the row hot_offers_snapshot_v1, or NoRow
    admin, reader,
    replaced   \* history: when each policy last ceased to be the saved one

offersVars == <<gate, setting, snapshot, admin, reader, replaced>>
vars == <<reviewVars, offersVars>>

Tier == {"urgent", "this-week"}
NoRow == [row |-> "absent"]
Override == [lot : Lot, tier : Tier, action : {"pin", "exclude"}, position : {0, 1, 2}]

(* What the administrator controller makes of a request: a pin has a       *)
(* position, 1 if none was given, an exclusion has none.                   *)
Requests == {o \in Override : o.action = "exclude" <=> o.position = 0}

Init ==
    /\ ReviewInit
    /\ gate \in BOOLEAN
    /\ setting = NoRow
    /\ snapshot = NoRow
    /\ admin = [a \in Admin |-> Idle]
    /\ reader = [r \in Reader |-> Idle]
    /\ replaced = [p \in Policy |-> 0]

-----------------------------------------------------------------------------
(* Reading the settings row.  getPolicy rebuilds the policy field by field *)
(* and getOverrides takes its overrides from what getPolicy returns;       *)
(* getPolicyRaw keeps them.                                                *)
GetPolicy(row) ==
    [policy |-> IF row = NoRow THEN DefaultPolicy ELSE row.policy]

OverridesOf(policy) ==
    IF "overrides" \in DOMAIN policy THEN policy.overrides ELSE <<>>

GetOverrides(row) == OverridesOf(GetPolicy(row))

GetPolicyRaw(row) ==
    [policy |-> GetPolicy(row).policy,
     overrides |-> IF row = NoRow THEN <<>> ELSE OverridesOf(row)]

(* validatePolicy: weights are not negative and sum to 100.                *)
Total(f) == FoldFunction(LAMBDA a, b : a + b, 0, f)

NotNegative(p) == \A c \in Criterion : Weight[p][c] >= 0

ValidPolicy(p) == Total(Weight[p]) = 100 /\ NotNegative(p)

-----------------------------------------------------------------------------
(* Tiers and selection.                                                    *)
Window(left) ==
    CASE left > 0 /\ left <= UrgentWindow -> "urgent"
      [] left > UrgentWindow /\ left <= WeekWindow -> "this-week"
      [] OTHER -> "none"

ClassifyTier(l) == Window(UntilAuction(l, now))

(* A candidate is checked with the time the reader took when it began.     *)
StillEligible(l, tier, at) == lot[l].offered /\ Window(UntilAuction(l, at)) = tier

ScoreLot(p, l) == Total([c \in Criterion |-> Weight[p][c] * Merit[l][c]])

(* All lots, best score first, as they were found where scores are equal.  *)
Ranking ==
    LET Place == 1 .. Cardinality(Lot)
        found == SetToSeq(Lot)
        Score(p, i) == ScoreLot(p, found[i])
        Ahead(p, i) == {j \in Place : \/ Score(p, j) > Score(p, i)
                                      \/ Score(p, j) = Score(p, i) /\ j < i}
    IN  [p \in Policy |-> [n \in Place |->
            found[CHOOSE i \in Place : Cardinality(Ahead(p, i)) = n - 1]]]

(* filter: the entries of a list that are some of the lots, in their order.*)
Among(list, lots) == Filtered(list, {i \in DOMAIN list : list[i] \in lots})

Excluded(overrides) == {o.lot : o \in {p \in ToSet(overrides) : p.action = "exclude"}}

PinsOf(overrides, tier) ==
    {i \in DOMAIN overrides : overrides[i].action = "pin" /\ overrides[i].tier = tier}

(* The pinned lots of a tier in the order of their positions.              *)
PinOrder(overrides, tier) ==
    LET at(k) == Filtered(overrides, {i \in PinsOf(overrides, tier) : overrides[i].position = k})
        pins == at(1) \o at(2)
    IN  [i \in 1 .. Len(pins) |-> pins[i].lot]

(* The candidates of a tier, best first.                                   *)
AllCandidates(policy, overrides, tier, at) ==
    Among(Ranking[policy],
          {l \in Admits[policy] \ Excluded(overrides) : StillEligible(l, tier, at)})

Alike(items, l, of) == Cardinality({i \in DOMAIN items : of[items[i]] = of[l]})

SameMakeModel(items, l) ==
    Cardinality({i \in DOMAIN items : Make[items[i]] = Make[l] /\ Model[items[i]] = Model[l]})

(* The lots of a list, one after another, as far as there is room.         *)
Room(items, l, limits) ==
    /\ Len(items) < MaxItems
    /\ "listed" \in limits => l \notin ToSet(items)
    /\ "model" \in limits => /\ Alike(items, l, Make) < MaxSameMake
                             /\ SameMakeModel(items, l) < MaxSameMakeModel
    /\ "provider" \in limits => Alike(items, l, Provider) < MaxSameProvider

Admit(items, l, limits) == IF Room(items, l, limits) THEN Append(items, l) ELSE items

Picked(items, list, limits) ==
    LET upTo[n \in 0 .. Len(list)] ==
            IF n = 0 THEN items ELSE Admit(upTo[n - 1], list[n], limits)
    IN  upTo[Len(list)]

(* rankAndFilter: the pins first, exempt from every limit, then the best   *)
(* candidates as far as make, model and provider leave room.               *)
RankAndFilter(candidates, pins) ==
    Picked(Among(pins, ToSet(candidates)), candidates, {"listed", "model", "provider"})

(* buildConfirmedPublicTiers: confirmed lots only, pins first, no limits.  *)
OrderTier(overrides, tier, at) ==
    LET eligible == {l \in ConfirmedLots \ Excluded(overrides) : StillEligible(l, tier, at)}
        pins == Among(PinOrder(overrides, tier), eligible)
    IN  pins \o SetToSeq(eligible \ ToSet(pins))

(* A fresh snapshot: what it lists and is still a candidate, filled up     *)
(* with the best of the other candidates.                                  *)
Fill(items, candidates) == Picked(items, candidates, {"listed"})

(* A slip: what a fresh snapshot lists is shown as it is.                  *)
Unverified(listed, candidates) == listed

Verified(listed, candidates) == Among(listed, ToSet(candidates))

EnforceProviderCap(items) ==
    IF Cardinality({Provider[l] : l \in ToSet(items)}) <= 1 THEN items
    ELSE Picked(<<>>, items, {"provider"})

FirstItems(items) == SubSeq(items, 1, IF Len(items) < MaxItems THEN Len(items) ELSE MaxItems)

-----------------------------------------------------------------------------
(* Administrators.  addOverride and removeOverride read the whole row,     *)
(* change the list and write the whole row; savePolicy writes a row that   *)
(* has no overrides.  Each deletes the snapshot in a second statement.     *)
ReadRow(a, change) ==
    admin' = [admin EXCEPT ![a] = [phase |-> "change", change |-> change,
                                   row |-> GetPolicyRaw(setting)]]

BeginAddOverride(a, o) ==
    /\ admin[a] = Idle
    /\ ReadRow(a, [kind |-> "add", override |-> o])
    /\ UNCHANGED <<reviewVars, gate, setting, snapshot, reader, replaced>>

BeginRemoveOverride(a, l) ==
    /\ admin[a] = Idle
    /\ ReadRow(a, [kind |-> "remove", lot |-> l])
    /\ UNCHANGED <<reviewVars, gate, setting, snapshot, reader, replaced>>

(* validateLotEligibleForPin and the pin limit; a pin of the lot that is   *)
(* already there is moved and does not count against the limit.            *)
HasPin(row, o) ==
    \E i \in DOMAIN row : row[i].lot = o.lot /\ row[i].action = "pin"

PinAllowed(row, o) ==
    /\ lot[o.lot].offered /\ ClassifyTier(o.lot) = o.tier
    /\ HasPin(row, o) \/ Cardinality(PinsOf(row, o.tier)) < MaxPins

(* A slip: the position is checked and nobody is moved.                    *)
SamePositionKept(p, o) == FALSE

(* findIndex and splice: the list without the first of its entries at some *)
(* places.                                                                 *)
Spliced(list, places) ==
    IF places = {} THEN list
    ELSE LET first == CHOOSE i \in places : \A j \in places : i <= j
         IN  [n \in 1 .. Len(list) - 1 |-> IF n < first THEN list[n] ELSE list[n + 1]]

(* The lot whose position a pin takes loses its pin.                       *)
SamePosition(p, o) ==
    p.action = "pin" /\ p.tier = o.tier /\ p.position = o.position /\ p.lot # o.lot

WithoutPin(row, o) ==
    Spliced(row, {i \in DOMAIN row : row[i].lot = o.lot /\ row[i].action = "pin"})

WithoutPosition(row, o) == Spliced(row, {i \in DOMAIN row : SamePosition(row[i], o)})

WithoutLot(row, o) == Spliced(row, {i \in DOMAIN row : row[i].lot = o.lot})

WithOverride(row, o) ==
    LET cleared == IF o.action = "pin" THEN WithoutPosition(WithoutPin(row, o), o) ELSE row
    IN  Append(WithoutLot(cleared, o), o)

Changed(change, row) ==
    IF change.kind = "add" THEN WithOverride(row, change.override)
    ELSE Filtered(row, {i \in DOMAIN row : row[i].lot # change.lot})

RefusePin(a) ==
    /\ admin[a].phase = "change"
    /\ admin[a].change.kind = "add" /\ admin[a].change.override.action = "pin"
    /\ ~ PinAllowed(admin[a].row.overrides, admin[a].change.override)
    /\ admin' = [admin EXCEPT ![a] = Idle]
    /\ UNCHANGED <<reviewVars, gate, setting, snapshot, reader, replaced>>

SaveRow(row) ==
    /\ setting' = row
    /\ replaced' = [p \in Policy |-> IF p = GetPolicy(setting).policy /\ p # row.policy
                                     THEN now ELSE replaced[p]]

WriteOverrides(a) ==
    LET change == admin[a].change  row == admin[a].row
    IN  /\ admin[a].phase = "change"
        /\ change.kind = "add" /\ change.override.action = "pin" =>
               PinAllowed(row.overrides, change.override)
        /\ SaveRow([row EXCEPT !.overrides = Changed(change, row.overrides)])
        /\ admin' = [admin EXCEPT ![a] = [phase |-> "invalidate"]]
        /\ UNCHANGED <<reviewVars, gate, snapshot, reader>>

SavePolicy(a, p) ==
    /\ admin[a] = Idle /\ ValidPolicy(p)
    /\ SaveRow([policy |-> p])
    /\ admin' = [admin EXCEPT ![a] = [phase |-> "invalidate"]]
    /\ UNCHANGED <<reviewVars, gate, snapshot, reader>>

Invalidate(a) ==
    /\ admin[a].phase = "invalidate"
    /\ snapshot' = NoRow
    /\ admin' = [admin EXCEPT ![a] = Idle]
    /\ UNCHANGED <<reviewVars, gate, setting, reader, replaced>>

-----------------------------------------------------------------------------
(* Readers.  getPublicHotOffers takes the time, reads the policy, the      *)
(* overrides, the snapshot and the lots, and may write the snapshot.       *)
ReadPolicy(r) ==
    /\ reader[r].phase \in {"idle", "answered"}
    /\ reader' = [reader EXCEPT ![r] =
           [phase |-> "overrides", at |-> now, policy |-> GetPolicy(setting).policy,
            hidden |-> Excluded(GetPolicyRaw(setting).overrides)]]
    /\ UNCHANGED <<reviewVars, gate, setting, snapshot, admin, replaced>>

ReadOverridesAndSnapshot(r) ==
    /\ reader[r].phase = "overrides"
    /\ reader' = [reader EXCEPT ![r] =
           [phase |-> "tiers", at |-> @.at, policy |-> @.policy, hidden |-> @.hidden,
            overrides |-> GetOverrides(setting), snapshot |-> snapshot]]
    /\ UNCHANGED <<reviewVars, gate, setting, snapshot, admin, replaced>>

Fresh(row, at) == row # NoRow /\ row.validUntil > at

(* The candidates of a tier, with and without the gate, and what a build   *)
(* that follows no snapshot shows of them.                                 *)
CandidatesOf(q, tier) ==
    IF gate THEN OrderTier(q.overrides, tier, q.at)
    ELSE AllCandidates(q.policy, q.overrides, tier, q.at)

BuiltItems(q, tier) ==
    IF gate THEN CandidatesOf(q, tier)
    ELSE RankAndFilter(CandidatesOf(q, tier), PinOrder(q.overrides, tier))

TierItems(q, tier) ==
    FirstItems(EnforceProviderCap(
        IF Fresh(q.snapshot, q.at)
        THEN Fill(Verified(q.snapshot.items[tier], CandidatesOf(q, tier)), CandidatesOf(q, tier))
        ELSE BuiltItems(q, tier)))

Pruned(q) ==
    \E tier \in Tier : \E l \in ToSet(q.snapshot.items[tier]) :
        l \notin ToSet(CandidatesOf(q, tier))

(* The build; a snapshot is written only when there was no fresh one or    *)
(* one of its lots has gone.  Shown is what the answer holds; eligible is  *)
(* history: which lots were eligible for their tier when they were read.   *)
BuildTiers(r) ==
    LET q == reader[r]
        items == [tier \in Tier |-> TierItems(q, tier)]
    IN  /\ q.phase = "tiers"
        /\ reader' = [reader EXCEPT ![r] =
               [phase |-> IF ~ Fresh(q.snapshot, q.at) \/ Pruned(q) THEN "save" ELSE "answered",
                at |-> q.at, policy |-> q.policy, hidden |-> q.hidden, items |-> items,
                eligible |-> [tier \in Tier |-> {l \in Lot : StillEligible(l, tier, q.at)}],
                gated |-> gate, confirmed |-> IF gate THEN ConfirmedLots ELSE Lot]]
        /\ UNCHANGED <<reviewVars, gate, setting, snapshot, admin, replaced>>

(* A slip: the life of the snapshot begins when it is written.             *)
RowFromNow(q, from) == [validUntil |-> now + Ttl, items |-> q.items, policy |-> q.policy]

Row(q, from) == [validUntil |-> from + Ttl, items |-> q.items, policy |-> q.policy]

SaveSnapshot(r) ==
    /\ reader[r].phase = "save"
    /\ snapshot' = Row(reader[r], reader[r].at)
    /\ reader' = [reader EXCEPT ![r].phase = "answered"]
    /\ UNCHANGED <<reviewVars, gate, setting, admin, replaced>>

(* A snapshot that cannot be written is reported and forgotten.            *)
SaveFails(r) ==
    /\ reader[r].phase = "save"
    /\ reader' = [reader EXCEPT ![r].phase = "answered"]
    /\ UNCHANGED <<reviewVars, gate, setting, snapshot, admin, replaced>>

(* getPersonalHotOffers: confirmed lots, whatever the gate, that resemble  *)
(* the favorites; of the policy only the damage exclusions count.          *)
PersonalItems(p) ==
    FirstItems(SelectSeq(Ranking[p], LAMBDA l : l \in ConfirmedLots \cap Liked \cap Undamaged[p]))

PersonalRead(r) ==
    /\ reader[r].phase \in {"idle", "answered"}
    /\ reader' = [reader EXCEPT ![r] =
           [phase |-> "personal", items |-> PersonalItems(GetPolicy(setting).policy)]]
    /\ UNCHANGED <<reviewVars, gate, setting, snapshot, admin, replaced>>

Forget(r) ==
    /\ reader[r].phase \in {"personal", "answered"}
    /\ reader' = [reader EXCEPT ![r] = Idle]
    /\ UNCHANGED <<reviewVars, gate, setting, snapshot, admin, replaced>>

(* A deployment, or a crash: requests in progress are lost, rows stay, and *)
(* the gate may be set differently.                                        *)
Restart ==
    /\ gate' \in BOOLEAN
    /\ worker' = [w \in Worker |-> Idle]
    /\ reviewer' = [u \in Reviewer |-> Idle]
    /\ admin' = [a \in Admin |-> Idle]
    /\ reader' = [r \in Reader |-> Idle]
    /\ UNCHANGED <<now, lot, analyses, setting, snapshot, replaced>>

AdminStep(a) ==
    \/ \E o \in Requests : BeginAddOverride(a, o)
    \/ \E l \in Lot : BeginRemoveOverride(a, l)
    \/ \E p \in Policy : SavePolicy(a, p)
    \/ RefusePin(a)
    \/ WriteOverrides(a)
    \/ Invalidate(a)

ReaderStep(r) ==
    \/ ReadPolicy(r)
    \/ ReadOverridesAndSnapshot(r)
    \/ BuildTiers(r)
    \/ SaveSnapshot(r)
    \/ SaveFails(r)
    \/ PersonalRead(r)
    \/ Forget(r)

Review == ReviewNext /\ UNCHANGED offersVars
World == Environment /\ UNCHANGED offersVars

Next ==
    \/ Review
    \/ World
    \/ \E a \in Admin : AdminStep(a)
    \/ \E r \in Reader : ReaderStep(r)
    \/ Restart

Spec == Init /\ [][Next]_vars

-----------------------------------------------------------------------------
(* What the service promises.                                              *)
Stored == IF setting = NoRow THEN <<>> ELSE OverridesOf(setting)

Consistent(list) ==
    \A i, j \in DOMAIN list :
        LET p == list[i]  q == list[j]
        IN  i # j => /\ p.lot # q.lot
                     /\ ~ (/\ p.action = "pin" /\ q.action = "pin"
                           /\ p.tier = q.tier /\ p.position = q.position)

ShowsEligible(q) ==
    \A tier \in Tier : \A l \in ToSet(q.items[tier]) :
        /\ l \in q.eligible[tier] \cap q.confirmed
        /\ l \in Admits[q.policy] \/ q.gated

TypeOK ==
    /\ ReviewTypeOK
    /\ gate \in BOOLEAN
    /\ ValidPolicy(GetPolicy(setting).policy)
    /\ ToSet(Stored) \subseteq Requests
    /\ snapshot = NoRow \/ /\ snapshot.policy \in Policy
                           /\ snapshot.items \in [Tier -> Seq(Lot)]
    /\ replaced \in [Policy -> 0 .. MaxTime]

(* However administrators overlap, and whatever pins move between tiers    *)
(* (a moved pin is not counted against the limit), the saved list names a  *)
(* lot once and gives a position of a tier to one pin: never more than two *)
(* pins in a tier.                                                         *)
OverridesConsistent == Consistent(Stored)

(* An answer shows only lots that were eligible for their tier, within the *)
(* policy the request read, and confirmed when the gate is set: also when  *)
(* it follows a snapshot another request built under another policy, or    *)
(* before the lot was withdrawn or the gate was set.                       *)
ShownIsEligible == \A r \in Reader : reader[r].phase = "answered" => ShowsEligible(reader[r])

(* A snapshot that is still in force follows a policy that was the saved   *)
(* one within the last Ttl: however late a read stores what it built, and  *)
(* also when the process dies between saving a policy and deleting the     *)
(* snapshot, a stale snapshot outlives its policy by Ttl at most.          *)
StaleAtMostTtl ==
    snapshot # NoRow /\ snapshot.validUntil > now =>
        \/ snapshot.policy = GetPolicy(setting).policy
        \/ replaced[snapshot.policy] + Ttl > now

(* An excluded lot is not shown: "pin or exclude a lot" says the           *)
(* controller of addOverride.  The code reads no override when it builds.  *)
ExcludedNotShown ==
    \A r \in Reader : reader[r].phase = "answered" =>
        \A tier \in Tier : ToSet(reader[r].items[tier]) \cap reader[r].hidden = {}

-----------------------------------------------------------------------------
(* What makes StaleAtMostTtl inductive: who holds a policy read it while   *)
(* it was the saved one, so it ceased to be that only after the read.      *)
Saved == GetPolicy(setting).policy
HeldSince(p, at) == p = Saved \/ at <= replaced[p]

HasPolicy(row) == "policy" \in DOMAIN row /\ row.policy \in Policy

PolicyInv ==
    /\ now \in Nat
    /\ replaced \in [Policy -> 0 .. now]
    /\ setting = NoRow \/ HasPolicy(setting)
    /\ admin = [a \in Admin |-> admin[a]]
    /\ \A a \in Admin : admin[a].phase = "change" => HasPolicy(admin[a].row)
    /\ reader = [r \in Reader |-> reader[r]]
    /\ \A r \in Reader : reader[r].phase \in {"overrides", "tiers", "save"} =>
          LET q == reader[r] IN /\ "phase" \in DOMAIN q /\ HasPolicy(q)
                                /\ q.at \in 0 .. now /\ HeldSince(q.policy, q.at)
    /\ snapshot # NoRow =>
          /\ snapshot.policy \in Policy /\ snapshot.validUntil \in 0 .. now + Ttl
          /\ snapshot.policy = Saved \/ snapshot.validUntil <= replaced[snapshot.policy] + Ttl

(* OverridesConsistent is inductive with the rows that administrators have *)
(* read and are about to change and write.                                 *)
HasList(row) == row.overrides \in Seq(Requests) /\ Consistent(row.overrides)

OverridesInv ==
    /\ "overrides" \in DOMAIN setting => HasList(setting)
    /\ \A a \in Admin : admin[a].phase = "change" =>
          /\ "overrides" \in DOMAIN admin[a].row /\ HasList(admin[a].row)
          /\ admin[a].change.kind = "add" => admin[a].change.override \in Requests

(* ShownIsEligible is inductive with the lists that snapshots pass from    *)
(* one reader to another.                                                  *)
Listed(items) == items \in [Tier -> Seq(Lot)]

ReadersInv ==
    /\ snapshot # NoRow => Listed(snapshot.items)
    /\ \A r \in Reader :
          LET q == reader[r]
          IN  /\ q.phase = "tiers" =>
                    /\ q.overrides \in Seq(Requests)
                    /\ q.snapshot # NoRow => Listed(q.snapshot.items)
              /\ q.phase \in {"save", "answered"} => Listed(q.items) /\ ShowsEligible(q)
=============================================================================
