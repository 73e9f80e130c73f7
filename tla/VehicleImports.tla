---------------------------- MODULE VehicleImports ----------------------------
(***************************************************************************)
(* How lots become vehicles: the import job and the import of one lot      *)
(* (copart.service.ts) look for a binding, create a vehicle and then its   *)
(* binding, in separate statements; the import of a discovered lot         *)
(* (importPersistedLot, auction-lots.service.ts) is one serializable       *)
(* transaction that also links the lot's row.  A binding is unique for its *)
(* lot.  Vehicles are numbered in the order of their creation.             *)
(***************************************************************************)
EXTENDS Naturals

CONSTANTS
    SourceLot,
    Importer,     \* job lots and single imports in progress
    Legacy,       \* a vehicle that a lot may be linked to without a binding
    NoVehicle,
    MaxVehicles

ASSUME ImportsAssumption ==
    MaxVehicles \in Nat /\ Legacy \notin Nat /\ NoVehicle \notin Nat \cup {Legacy}

VARIABLES
    created,      \* the number of vehicles created
    binding,      \* vehicle_source_bindings
    link,         \* discovered_lots.vehicle_id
    importer      \* importer[i]: an import between two statements

importsVars == <<created, binding, link, importer>>

NoImport == [phase |-> "idle"]

ImportsInit ==
    /\ created = 0
    /\ binding = [l \in SourceLot |-> NoVehicle]
    /\ link \in {f \in [SourceLot -> {NoVehicle, Legacy}] :
                 \A l, m \in SourceLot : f[l] = Legacy /\ f[m] = Legacy => l = m}
    /\ importer = [i \in Importer |-> NoImport]

-----------------------------------------------------------------------------
(* A lot with a binding is not imported again: the job updates the facts   *)
(* of its vehicle, the single import answers that it exists.               *)
FindBinding(i, l) ==
    /\ importer[i] = NoImport
    /\ binding[l] = NoVehicle
    /\ importer' = [importer EXCEPT ![i] = [phase |-> "create", lot |-> l]]
    /\ UNCHANGED <<created, binding, link>>

(* The vehicle is created as a draft.  Its slug counts the vehicles of its *)
(* make, model and year, and may have been taken since: the import fails.  *)
CreateVehicle(i) ==
    /\ importer[i].phase = "create"
    /\ \/ /\ created < MaxVehicles
          /\ created' = created + 1
          /\ importer' = [importer EXCEPT ![i] = [phase |-> "bind", lot |-> @.lot,
                                                  vehicle |-> created + 1]]
       \/ /\ importer' = [importer EXCEPT ![i] = NoImport]
          /\ UNCHANGED created
    /\ UNCHANGED <<binding, link>>

(* A slip: the binding is moved to the vehicle just created.               *)
RebindVehicle(i) ==
    /\ importer[i].phase = "bind"
    /\ binding' = [binding EXCEPT ![importer[i].lot] = importer[i].vehicle]
    /\ importer' = [importer EXCEPT ![i] = NoImport]
    /\ UNCHANGED <<created, link>>

(* A second binding of the lot is refused: the import fails, and leaves a  *)
(* draft without a binding.                                                *)
BindVehicle(i) ==
    LET l == importer[i].lot
    IN  /\ importer[i].phase = "bind"
        /\ binding' = IF binding[l] = NoVehicle THEN [binding EXCEPT ![l] = importer[i].vehicle]
                      ELSE binding
        /\ importer' = [importer EXCEPT ![i] = NoImport]
        /\ UNCHANGED <<created, link>>

(* The process stops, or a statement fails, between the two.               *)
ImportAbandoned(i) ==
    /\ importer[i].phase = "bind"
    /\ importer' = [importer EXCEPT ![i] = NoImport]
    /\ UNCHANGED <<created, binding, link>>

-----------------------------------------------------------------------------
(* importPersistedLot: a lot linked to one vehicle and bound to another is *)
(* a conflict; a bound lot is linked to its binding's vehicle, a linked    *)
(* one is bound to the vehicle it is linked to, and any other gets a new   *)
(* draft, with both.                                                       *)
LinkToBinding(l) ==
    /\ binding[l] # NoVehicle
    /\ link[l] \in {NoVehicle, binding[l]}
    /\ link' = [link EXCEPT ![l] = binding[l]]
    /\ UNCHANGED <<created, binding, importer>>

BindToLink(l) ==
    /\ binding[l] = NoVehicle /\ link[l] # NoVehicle
    /\ binding' = [binding EXCEPT ![l] = link[l]]
    /\ UNCHANGED <<created, link, importer>>

ImportAsDraft(l) ==
    /\ binding[l] = NoVehicle /\ link[l] = NoVehicle
    /\ created < MaxVehicles
    /\ created' = created + 1
    /\ binding' = [binding EXCEPT ![l] = created + 1]
    /\ link' = [link EXCEPT ![l] = created + 1]
    /\ UNCHANGED importer

ImportPersistedLot(l) == LinkToBinding(l) \/ BindToLink(l) \/ ImportAsDraft(l)

ImportsNext ==
    \/ \E i \in Importer : \/ \E l \in SourceLot : FindBinding(i, l)
                           \/ CreateVehicle(i) \/ BindVehicle(i) \/ ImportAbandoned(i)
    \/ \E l \in SourceLot : ImportPersistedLot(l)

ImportsSpec == ImportsInit /\ [][ImportsNext]_importsVars

-----------------------------------------------------------------------------
(* What makes LinksAgree inductive: vehicles are numbered as they are      *)
(* created, a vehicle that waits for its binding is one import's alone,    *)
(* and the legacy vehicle is bound only to the lot that is linked to it.   *)
Import ==
    {NoImport} \cup [phase : {"create"}, lot : SourceLot]
               \cup [phase : {"bind"}, lot : SourceLot, vehicle : Nat]

ImportsTypeOK ==
    /\ created \in Nat
    /\ binding \in [SourceLot -> Nat \cup {NoVehicle, Legacy}]
    /\ link \in [SourceLot -> Nat \cup {NoVehicle, Legacy}]
    /\ importer \in [Importer -> Import]

Binds(i) == importer[i].phase = "bind"

VehiclesAreNumbered ==
    /\ \A l \in SourceLot : binding[l] \in Nat => binding[l] <= created
    /\ \A i \in Importer : Binds(i) => importer[i].vehicle <= created

DraftsAreOwn ==
    /\ \A i, j \in Importer :
          Binds(i) /\ Binds(j) /\ importer[i].vehicle = importer[j].vehicle => i = j
    /\ \A i \in Importer, l \in SourceLot : Binds(i) => binding[l] # importer[i].vehicle

LegacyIsLinked ==
    /\ \A l, m \in SourceLot : link[l] = Legacy /\ link[m] = Legacy => l = m
    /\ \A l \in SourceLot : binding[l] = Legacy => link[l] = Legacy

(* However the imports of a lot overlap, a link that one of them wrote     *)
(* names the vehicle the lot is bound to, so that the catalogue hides the  *)
(* lot behind its own vehicle, and no vehicle stands for two lots.         *)
LinksAgree ==
    /\ \A l \in SourceLot : link[l] \notin {NoVehicle, Legacy} => binding[l] = link[l]
    /\ \A l, m \in SourceLot : binding[l] # NoVehicle /\ binding[l] = binding[m] => l = m

ImportsInv ==
    ImportsTypeOK /\ VehiclesAreNumbered /\ DraftsAreOwn /\ LegacyIsLinked /\ LinksAgree
=============================================================================
