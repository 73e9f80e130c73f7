------------------------------- MODULE Showroom -------------------------------
(***************************************************************************)
(* The cars the site shows and the filters it offers for them              *)
(* (catalog.service.ts, inventory-projection.ts): the list of the site's   *)
(* own vehicles, the mixed inventory and the list of the USA auctions,     *)
(* each beside the options its filters are filled with.  The vehicles live *)
(* as vehicles.service.ts and admin.service.ts let them; the lots come and *)
(* go as LotRules decides.                                                 *)
(***************************************************************************)
EXTENDS Integers, FiniteSets

CONSTANTS
    Car,
    AuctionLot,
    Admin,          \* calls of administrators in progress
    Nothing,        \* null, or a filter that is not set
    CarFacts,       \* what the row of a vehicle may say: source, region, make, ...
    LotFacts,       \* what the row of a public lot may say
    Availability,   \* the availabilities an administrator sets
    Query           \* what visitors ask for: a value, or Nothing, for each

(* What visitors filter by.                                                *)
Dimensions == {"make", "model", "source", "provider", "locationState", "lifecycle"}
Filters == Dimensions \cup {"buyNow", "priceFrom", "priceTo"}

(* The texts of a row: a make, a model, a state.  A word may be written in *)
(* capitals, with an inner blank doubled, or with blanks at its ends.      *)
Texts == {"make", "model", "locationState"}
Text == [word : Int, spelling : {"plain", "upper", "double", "padded"}]

ASSUME ShowroomAssumption ==
    /\ IsFiniteSet(Car) /\ IsFiniteSet(AuctionLot)
    /\ Nothing \notin Int \cup Text \cup {"UKRAINE", "EUROPE"}
    /\ \A f \in CarFacts : {f.make, f.model} \subseteq Text
    /\ \A f \in LotFacts :
          /\ {f.make, f.model, f.locationState, f.yard} \subseteq Text \cup {Nothing}
          /\ {f.currentBidUsd, f.buyNowUsd} \subseteq Int \cup {Nothing}
    /\ \A q \in Query : q = [f \in Filters |-> q[f]]

VARIABLES
    car,            \* vehicles: status and facts, or NoCar
    usaLot,         \* the public lots, or Nothing
    linked,         \* discovered_lots.vehicle_id
    admin           \* admin[k]: a call that has read its vehicle

showroomVars == <<car, usaLot, linked, admin>>

NoCar == [publication |-> "none"]
NoWork == [op |-> "none"]

ShowroomInit ==
    /\ car = [v \in Car |-> NoCar]
    /\ usaLot = [l \in AuctionLot |-> Nothing]
    /\ linked = [l \in AuctionLot |-> Nothing]
    /\ admin = [k \in Admin |-> NoWork]

-----------------------------------------------------------------------------
(* Texts.  A filter arrives trimmed.  The options of the USA list are      *)
(* trimmed, its makes and models also rid of doubled blanks.  Comparisons  *)
(* ignore the case of the letters and nothing else.                        *)
Spelt(text, spelling) == [text EXCEPT !.spelling = spelling]
Trim(text) == IF text.spelling = "padded" THEN Spelt(text, "plain") ELSE text
Canonical(text) == IF text.spelling \in {"double", "padded"} THEN Spelt(text, "plain")
                   ELSE text

Tidy(text) == text.spelling \in {"plain", "upper"}

Same(text, asked) ==
    /\ text # Nothing /\ text.word = asked.word
    /\ \/ text.spelling = asked.spelling
       \/ Tidy(text) /\ Tidy(asked)

(* The longer names contain the shorter ones, up to their last blank.      *)
Includes(name, part) ==
    /\ name # Nothing
    /\ \/ Same(name, part) \/ Same(Trim(name), part)
       \/ name.word > part.word /\ Tidy(part)

Matches(d, value, asked) == IF d \in Texts THEN Same(value, asked) ELSE value = asked
Parsed(d, value) == IF d \in Texts THEN Trim(value) ELSE value

-----------------------------------------------------------------------------
(* The mixed inventory.  Its cards, as visitors' filters see them.         *)
Published == {v \in Car : car[v].publication = "PUBLISHED"}
OnAuction == {l \in AuctionLot : usaLot[l] # Nothing}

IsPrice(price) == price # Nothing /\ price > 0

CardPrice(l) == IF IsPrice(l.buyNowUsd) THEN l.buyNowUsd
                ELSE IF IsPrice(l.currentBidUsd) THEN l.currentBidUsd ELSE Nothing

CardLifecycle(l) == IF l.live THEN "LIVE" ELSE "UPCOMING"

(* Without a fresh price a card has none, and is not for sale at once.     *)
AuctionItem(id) ==
    LET l == usaLot[id]
    IN  [kind |-> "auctionLot", key |-> id, source |-> l.provider, provider |-> l.provider,
         make |-> l.make, model |-> l.model, locationState |-> l.locationState,
         lifecycle |-> CardLifecycle(l),
         price |-> IF l.fresh THEN CardPrice(l) ELSE Nothing,
         buyNow |-> IF ~l.fresh \/ ~l.isBuyNow THEN "no"
                    ELSE IF IsPrice(l.buyNowUsd) THEN "yes" ELSE "unknown"]

VehicleItem(id) ==
    LET v == car[id].facts
    IN  [kind |-> "vehicle", key |-> id, source |-> v.source, provider |-> Nothing,
         make |-> v.make, model |-> v.model, locationState |-> v.locationState,
         lifecycle |-> Nothing,
         price |-> IF IsPrice(v.price) THEN v.price ELSE Nothing, buyNow |-> "unknown"]

(* A lot does not stand beside the vehicle that was made of it.            *)
Inventory(view) ==
    {AuctionItem(l) : l \in {m \in OnAuction : view # "all" \/ linked[m] \notin Published}}
        \cup {VehicleItem(v) : v \in Published}

(* A slip: the options count also the lots behind a published vehicle.     *)
CountedWithLinked(view) ==
    {AuctionItem(l) : l \in OnAuction} \cup {VehicleItem(v) : v \in Published}
(* The options are counted on the same cards, gathered a second time.      *)
Counted(view) ==
    {AuctionItem(l) : l \in {m \in OnAuction : view # "all" \/ linked[m] \notin Published}}
        \cup {VehicleItem(v) : v \in Published}

Within(price, q) ==
    /\ q.priceFrom # Nothing => IsPrice(price) /\ price >= q.priceFrom
    /\ q.priceTo # Nothing => IsPrice(price) /\ price <= q.priceTo

(* filterItems, which may leave one dimension out of consideration.        *)
Passes(item, view, q, excluded) ==
    /\ view = "curated" => item.kind = "vehicle"
    /\ (q.provider # Nothing \/ q.lifecycle # Nothing \/ q.buyNow # Nothing) => item.kind = "auctionLot"
    /\ \A d \in Dimensions \ {excluded} : q[d] # Nothing => Matches(d, item[d], q[d])
    /\ q.buyNow # Nothing => item.buyNow = q.buyNow
    /\ Within(item.price, q)

(* The vehicles alone have no provider and no lifecycle to ask for.        *)
Supported(view, q) ==
    view = "curated" => q.provider = Nothing /\ q.lifecycle = Nothing /\ q.buyNow = Nothing

-----------------------------------------------------------------------------
(* The list of the USA auctions, filtered by the database, which compares  *)
(* the texts as the row has them.  A lot is in a state if its row or the   *)
(* name of its auction yard says so.  It does not filter by source.        *)
InState(l, state) ==
    \/ Same(l.locationState, state)
    \/ l.yard # Nothing /\ Same(Trim(l.yard), state)

InUsaOptions(l, q) ==
    /\ q.provider # Nothing => l.provider = q.provider
    /\ q.make # Nothing => Same(l.make, q.make)
    /\ q.model # Nothing => Includes(l.model, q.model)
    /\ q.locationState # Nothing => InState(l, q.locationState)
    /\ q.lifecycle # Nothing => CardLifecycle(l) = q.lifecycle
    /\ q.buyNow # Nothing => l.isBuyNow = (q.buyNow = "yes") /\ l.fresh

(* The list looks at the prices; the options do not.  A range that begins  *)
(* at nought is taken for none.                                            *)
InPriceRange(l, q) ==
    (IF q.priceFrom # Nothing THEN q.priceFrom ELSE q.priceTo) \notin {Nothing, 0} =>
        l.fresh /\ \E price \in {l.buyNowUsd, l.currentBidUsd} : price # Nothing /\ Within(price, q)

InUsaList(l, q) == InUsaOptions(l, q) /\ InPriceRange(l, q)

StateFromLocation(l) ==
    LET said == IF l.locationState # Nothing THEN l.locationState ELSE l.yard
    IN  IF said = Nothing THEN Nothing ELSE Trim(said)

(* What an option offers for a row; rows that differ in blanks or in the   *)
(* case of letters are one option, spelled as one of them.                 *)
UsaOption(l, d) ==
    CASE d = "source" -> l.provider
      [] d = "locationState" -> StateFromLocation(l)
      [] d = "lifecycle" -> CardLifecycle(l)
      [] d = "provider" -> l.provider
      [] OTHER -> IF l[d] = Nothing THEN Nothing ELSE Canonical(l[d])

UsaOptionCounts(l, d, value) == UsaOption(l, d) # Nothing /\ Matches(d, UsaOption(l, d), value)

UsaPrices(lots) ==
    {p \in UNION {{l.buyNowUsd, l.currentBidUsd} : l \in {m \in lots : m.fresh}} : IsPrice(p)}

-----------------------------------------------------------------------------
(* The list of the site's own vehicles (findAll, getFilterOptions).        *)
SiteDefault(v, region) ==
    /\ v \in Published
    /\ car[v].availability \in {"AVAILABLE", "RESERVED"}
    /\ IF region = Nothing THEN car[v].facts.region # "USA" ELSE car[v].facts.region = region

FindAll(region, make, model) ==
    {v \in Car : /\ SiteDefault(v, region)
                 /\ make # Nothing => Same(car[v].facts.make, make)
                 /\ model # Nothing => Includes(car[v].facts.model, model)}

SiteOptions(region, field) == {car[v].facts[field] : v \in {w \in Car : SiteDefault(w, region)}}

(* What the administrators' dashboard counts of the site's own cars, four  *)
(* of the numbers as problems, and their list of all vehicles.             *)
OwnCars == {v \in Car : car[v] # NoCar /\ car[v].facts.source = "internal"}

DashboardCars(kind) ==
    {v \in OwnCars :
        CASE kind \in {"UKRAINE", "EUROPE"} -> car[v].facts.region = kind
          [] kind \in {"DRAFT", "PUBLISHED", "HIDDEN", "ARCHIVED"} -> car[v].publication = kind
          [] kind = "withoutPhotos" -> ~car[v].facts.photos
          [] kind = "incomplete" -> v \in Published /\ ~car[v].facts.complete
          [] OTHER -> TRUE}

Problems ==
    {kind \in {"DRAFT", "HIDDEN", "withoutPhotos", "incomplete"} : DashboardCars(kind) # {}}

AdminVehicles(region, source, publication) ==
    {v \in Car : /\ car[v] # NoCar
                 /\ region # Nothing => car[v].facts.region = region
                 /\ source # Nothing => car[v].facts.source = source
                 /\ publication # Nothing => car[v].publication = publication}

Opens(v) == v \in Published /\ car[v].availability \notin {"SOLD", "NOT_AVAILABLE"}
-----------------------------------------------------------------------------
(* Vehicles.  An administrator creates one in any status; a call that      *)
(* publishes, hides or archives one has read it a moment before.           *)
VehicleRow(publication, availability, facts, demo) ==
    [publication |-> publication, availability |-> availability, facts |-> facts, demo |-> demo]

AddVehicle(v) ==
    /\ car[v] = NoCar
    /\ \E p \in {"DRAFT", "READY", "PUBLISHED"}, f \in CarFacts :
          car' = [car EXCEPT ![v] = VehicleRow(p, "AVAILABLE", f, FALSE)]
    /\ UNCHANGED <<usaLot, linked, admin>>

(* Everything but the source may be changed, also of a published vehicle.  *)
UpdateVehicle(v) ==
    /\ car[v] # NoCar
    /\ \E a \in Availability \cup {car[v].availability}, f \in CarFacts :
          /\ f.source = car[v].facts.source
          /\ car' = [car EXCEPT ![v].availability = a, ![v].facts = f]
    /\ UNCHANGED <<usaLot, linked, admin>>

Allows(op, v) ==
    CASE op = "publish" -> car[v].publication # "PUBLISHED" /\ car[v].facts.complete /\ car[v].facts.photos
      [] op = "hide" -> car[v].publication \in {"PUBLISHED", "READY"}
      [] op = "archive" -> TRUE

ReadVehicle(k, op, v) ==
    /\ admin[k] = NoWork
    /\ car[v] # NoCar /\ Allows(op, v)
    /\ admin' = [admin EXCEPT ![k] = [op |-> op, car |-> v]]
    /\ UNCHANGED <<car, usaLot, linked>>

(* The write is by the vehicle's id alone; it fails if the row is gone.    *)
WriteVehicle(k) ==
    /\ admin[k] # NoWork
    /\ LET v == admin[k].car
       IN  car' = IF car[v] = NoCar THEN car
                  ELSE CASE admin[k].op = "publish" -> [car EXCEPT ![v].publication = "PUBLISHED"]
                         [] admin[k].op = "hide" -> [car EXCEPT ![v].publication = "HIDDEN"]
                         [] admin[k].op = "archive" ->
                              [car EXCEPT ![v].publication = "ARCHIVED",
                                          ![v].availability = "NOT_AVAILABLE"]
    /\ admin' = [admin EXCEPT ![k] = NoWork]
    /\ UNCHANGED <<usaLot, linked>>

(* The demonstration vehicles: those missing are created, all are deleted. *)
CreateDemoInventory ==
    /\ \E f \in CarFacts :
          /\ f.source = "internal" /\ f.region # "USA" /\ f.complete /\ f.photos
          /\ \E v \in Car : car[v] = NoCar /\ car' = [car EXCEPT ![v] = VehicleRow("PUBLISHED", "AVAILABLE", f, TRUE)]
    /\ \A v \in Car : car[v] # NoCar => ~car[v].demo
    /\ UNCHANGED <<usaLot, linked, admin>>

DeleteDemoInventory ==
    LET demo == {v \in Car : /\ car[v] # NoCar /\ car[v].demo
                             /\ car[v].facts.source = "internal" /\ car[v].facts.region # "USA"}
    IN  /\ demo # {}
        /\ car' = [v \in Car |-> IF v \in demo THEN NoCar ELSE car[v]]
        /\ UNCHANGED <<usaLot, linked, admin>>

(* The script that archives the vehicles once parsed from the auctions.    *)
ReconcileLegacy ==
    LET legacy == {v \in Published : car[v].facts.region = "USA" /\ car[v].facts.source # "internal"}
    IN  /\ legacy # {}
        /\ car' = [v \in Car |-> IF v \in legacy
                                  THEN [car[v] EXCEPT !.publication = "ARCHIVED",
                                                      !.availability = "NOT_AVAILABLE"]
                                  ELSE car[v]]
        /\ UNCHANGED <<usaLot, linked, admin>>

(* Lots become public, change and stop being public; an import links one   *)
(* to its vehicle.                                                         *)
LotIsShown(l) ==
    /\ \E f \in LotFacts \cup {Nothing} : usaLot' = [usaLot EXCEPT ![l] = f]
    /\ UNCHANGED <<car, linked, admin>>

LinkLot(l, v) ==
    /\ linked[l] = Nothing /\ \A m \in AuctionLot : linked[m] # v
    /\ car[v] # NoCar /\ car[v].facts.source # "internal"
    /\ linked' = [linked EXCEPT ![l] = v]
    /\ UNCHANGED <<car, usaLot, admin>>

ShowroomNext ==
    \/ \E v \in Car : AddVehicle(v) \/ UpdateVehicle(v)
    \/ \E k \in Admin : \/ \E v \in Car, op \in {"publish", "hide", "archive"} : ReadVehicle(k, op, v)
                        \/ WriteVehicle(k)
    \/ CreateDemoInventory \/ DeleteDemoInventory \/ ReconcileLegacy
    \/ \E l \in AuctionLot : LotIsShown(l) \/ \E v \in Car : LinkLot(l, v)

ShowroomSpec == ShowroomInit /\ [][ShowroomNext]_showroomVars

-----------------------------------------------------------------------------
Publication == {"DRAFT", "READY", "PUBLISHED", "HIDDEN", "ARCHIVED"}
Vehicle == [publication : Publication, availability : Availability \cup {"AVAILABLE", "NOT_AVAILABLE"},
            facts : CarFacts, demo : BOOLEAN]

ShowroomTypeOK ==
    /\ car \in [Car -> Vehicle \cup {NoCar}]
    /\ usaLot \in [AuctionLot -> LotFacts \cup {Nothing}]
    /\ linked \in [AuctionLot -> Car \cup {Nothing}]
    /\ admin \in [Admin -> [op : {"publish", "hide", "archive"}, car : Car] \cup {NoWork}]

(* Choosing an option of the mixed inventory on top of any filters leads   *)
(* to as many cards as it counts, but for an option with blanks at its     *)
(* ends, which a filter loses.                                             *)
InventoryLeads ==
    \A view \in {"all", "curated"} : \A item \in Counted(view) :
        \A q \in {p \in Query : Supported(view, p)} : \A d \in Dimensions :
            /\ item[d] # Nothing /\ Passes(item, view, q, d)
            /\ d \in Texts => item[d].spelling # "padded"
            => LET chosen == [q EXCEPT ![d] = Parsed(d, item[d])]
                   promised == {i \in Counted(view) : i[d] = item[d] /\ Passes(i, view, q, d)}
                   found == {i \in Inventory(view) : Passes(i, view, chosen, "none")}
               IN  Supported(view, chosen) /\ Cardinality(found) >= Cardinality(promised)

(* An option of the USA list leads, on top of any filters, to as many lots *)
(* as those it counts in the range of prices that is asked for and whose   *)
(* rows are written without stray blanks; the rest of its count is not     *)
(* kept.  The whole range of prices shows every price.                     *)
UsaLeads ==
    \A q \in Query :
        LET counted == {l \in OnAuction : InUsaOptions(usaLot[l], q)}
            prices == UsaPrices({usaLot[l] : l \in counted})
        IN  /\ \A l \in counted, d \in Dimensions :
                  LET value == UsaOption(usaLot[l], d)
                      chosen == [q EXCEPT ![d] = Parsed(d, value)]
                      kept == {m \in counted :
                                  /\ UsaOptionCounts(usaLot[m], d, value)
                                  /\ InPriceRange(usaLot[m], q)
                                  /\ d \in Texts /\ usaLot[m][d] # Nothing => Tidy(usaLot[m][d])}
                      found == {m \in OnAuction : InUsaList(usaLot[m], chosen)}
                  IN  value # Nothing => Cardinality(found) >= Cardinality(kept)
            /\ \A lowest, highest \in prices : (\A p \in prices : lowest <= p /\ p <= highest) =>
                  LET whole == [q EXCEPT !.priceFrom = lowest, !.priceTo = highest]
                  IN  \A l \in counted : usaLot[l].fresh /\ CardPrice(usaLot[l]) # Nothing =>
                                             InUsaList(usaLot[l], whole)

(* The makes and models of the site's own cars, for one region or for all; *)
(* a car found through them has a page.                                    *)
SiteLeads ==
    \A region \in {Nothing, "UKRAINE", "EUROPE"} :
        /\ \A make \in SiteOptions(region, "make") : FindAll(region, make, Nothing) # {}
        /\ \A model \in SiteOptions(region, "model") : FindAll(region, Nothing, model) # {}
        /\ \A v \in FindAll(region, Nothing, Nothing) : Opens(v)

(* An administrator finds a car of every problem in the list, under its    *)
(* source and status; an own car that visitors find is counted as one that *)
(* is published, under its region, and is neither a draft nor hidden.      *)
DashboardLeads ==
    /\ \A kind \in Problems :
          \E p \in Publication :
              DashboardCars(kind) \cap AdminVehicles(Nothing, "internal", p) # {}
    /\ \A region \in {"UKRAINE", "EUROPE"} :
          \A v \in FindAll(region, Nothing, Nothing) \cap OwnCars :
              /\ v \in DashboardCars(region) \cap DashboardCars("PUBLISHED")
              /\ v \in AdminVehicles(region, "internal", "PUBLISHED")
              /\ v \notin DashboardCars("DRAFT") \cup DashboardCars("HIDDEN")

(* What the filters of the three lists are filled with leads to the cards  *)
(* it counts, except for stray blanks and the prices that the options of   *)
(* the USA list do not look at; the numbers of the dashboard lead to cars. *)
OptionsLeadSomewhere == InventoryLeads /\ UsaLeads /\ SiteLeads /\ DashboardLeads
=============================================================================
