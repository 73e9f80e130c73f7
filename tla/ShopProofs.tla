------------------------------ MODULE ShopProofs ------------------------------
(***************************************************************************)
(* Theorems about the services beside the auction: leads, imported         *)
(* vehicles, broadcasts, the estimate, the sessions of an account and the  *)
(* public catalogue, for any number of customers, managers, importers,     *)
(* subscribers, calls that overlap, sightings, hours and prices.           *)
(***************************************************************************)
EXTENDS CustomerDesk, VehicleImports, Broadcasts, CalculatorEstimate, AuthSessions,
        LotCatalog, Showroom,
        SequenceTheorems, FiniteSetTheorems, TLAPS

-----------------------------------------------------------------------------
(* Leads.  However many calls of a customer overlap, no request is doubled.*)
(* The facts of the leads that the requests depend on.                     *)
SameRequests ==
    /\ DOMAIN leads' = DOMAIN leads
    /\ \A n \in DOMAIN leads :
          leads'[n].createdAt = leads[n].createdAt /\ Key(leads'[n]) = Key(leads[n])
          /\ leads'[n].customer = leads[n].customer

(* At the start there is neither a lead nor a call.                        *)
LEMMA DeskStart == DeskInit => DeskInv
  <1> SUFFICES ASSUME DeskInit PROVE DeskInv
    OBVIOUS
  <1>1. DeskTypeOK
    BY DEF DeskInit, DeskTypeOK
  <1>2. OneHolder /\ ClearToInsert
    BY DEF DeskInit, OneHolder, HoldsLock, ClearToInsert, Idle
  <1>3. NoDuplicateRequests
    BY DEF DeskInit, NoDuplicateRequests
  <1> QED
    BY <1>1, <1>2, <1>3 DEF DeskInv

(* A call that has begun and goes on is the same call.                     *)
LEMMA CallGoesOn ==
    ASSUME NEW q \in Call, NEW phase \in {"waits", "locked", "clear"}
    PROVE  LET p == [q EXCEPT !.phase = phase]
           IN  p \in Call /\ p.phase = phase /\ Key(p) = Key(q) /\ p.now = q.now
  BY DEF Call, Key

(* A change leaves alone who asked for what, and when.                     *)
LEMMA ChangedLead ==
    ASSUME NEW lead \in Lead, NEW c \in Change
    PROVE  /\ Changed(lead, c) \in Lead
           /\ Changed(lead, c).createdAt = lead.createdAt
           /\ Changed(lead, c).customer = lead.customer
           /\ Key(Changed(lead, c)) = Key(lead)
  <1>1. lead.status \in LeadStatus /\ (c.to # None => c.to \in LeadStatus) /\ c.from \in LeadStatus
        /\ lead.assistance \in {"NEW", "COMPLETED", None} /\ c.assistance \in {"NEW", "COMPLETED", None}
        /\ lead.history \in SUBSET (LeadStatus \X LeadStatus)
    BY DEF Lead, Change
  <1> DEFINE s == IF c.to = None THEN lead.status ELSE c.to
             a == IF c.assistance = None THEN lead.assistance ELSE c.assistance
             h == IF c.to \in {None, c.from} THEN lead.history
                  ELSE lead.history \cup {<<c.from, c.to>>}
  <1>2. s \in LeadStatus /\ a \in {"NEW", "COMPLETED", None} /\ h \in SUBSET (LeadStatus \X LeadStatus)
    BY <1>1
  <1>3. Changed(lead, c) = [lead EXCEPT !.status = s, !.assistance = a, !.history = h]
    BY DEF Changed
  <1> HIDE DEF s, a, h
  <1> QED
    BY <1>2, <1>3 DEF Lead, Key

(* A step that leaves the requests' side of the leads alone, and in which  *)
(* no call passes the lock, keeps the invariant once types are kept.       *)
LEMMA CallsEnd ==
    ASSUME DeskInv, DeskTypeOK', SameRequests,
           \A r \in Request : request'[r] = request[r] \/ request'[r] = Idle
    PROVE  DeskInv'
  <1> USE DEF DeskInv, SameRequests
  <1>1. OneHolder'
    BY DEF OneHolder, HoldsLock, Idle
  <1>2. ClearToInsert'
    BY DEF ClearToInsert, Recent, Idle
  <1>3. NoDuplicateRequests'
    BY DEF NoDuplicateRequests
  <1> QED
    BY <1>1, <1>2, <1>3

(* Each step of a call, a visitor or a manager keeps the invariant.        *)
LEMMA DeskStep == DeskInv /\ [DeskNext]_deskVars => DeskInv'
  <1> SUFFICES ASSUME DeskInv, [DeskNext]_deskVars PROVE DeskInv'
    OBVIOUS
  <1> USE DeskAssumption DEF DeskInv
  <1>1. ASSUME NEW r \in Request, NEW c \in Customer, NEW l \in Lot, NEW i \in Intent,
               BeginRequest(r, c, l, i)
        PROVE  DeskInv'
    <2> USE <1>1 DEF BeginRequest
    <2>1. DeskTypeOK'
      BY DEF DeskTypeOK, Call
    <2>2. OneHolder'
      BY DEF OneHolder, HoldsLock, DeskTypeOK
    <2>3. ClearToInsert'
      BY DEF ClearToInsert, Recent, DeskTypeOK
    <2>4. NoDuplicateRequests'
      BY DEF NoDuplicateRequests
    <2> QED
      BY <2>1, <2>2, <2>3, <2>4
  <1>2. ASSUME NEW r \in Request, Lock(r) PROVE DeskInv'
    <2> DEFINE p == [request[r] EXCEPT !.phase = "locked"]
    <2>1. request[r] \in Call
      BY <1>2 DEF Lock, DeskTypeOK, Idle
    <2>2. p \in Call /\ p.phase = "locked" /\ Key(p) = Key(request[r])
      BY <2>1, CallGoesOn
    <2>3. request' = [request EXCEPT ![r] = p] /\ UNCHANGED <<clock, leads, manager>>
      BY <1>2 DEF Lock
    <2>4. \A q \in Request : HoldsLock(q) => Key(request[q]) # Key(p)
      BY <1>2, <2>2 DEF Lock, HoldsLock
    <2> HIDE DEF p
    <2>5. DeskTypeOK'
      BY <2>2, <2>3 DEF DeskTypeOK
    <2>6. OneHolder'
      BY <2>2, <2>3, <2>4 DEF OneHolder, HoldsLock, DeskTypeOK
    <2>7. ClearToInsert'
      BY <2>2, <2>3 DEF ClearToInsert, Recent, DeskTypeOK
    <2>8. NoDuplicateRequests'
      BY <2>3 DEF NoDuplicateRequests
    <2> QED
      BY <2>5, <2>6, <2>7, <2>8
  <1>3. ASSUME NEW r \in Request, CheckRequest(r) PROVE DeskInv'
    <2> DEFINE p == [request[r] EXCEPT !.phase = "clear"]
    <2>1. request[r] \in Call /\ request[r].phase = "locked"
      BY <1>3 DEF CheckRequest, DeskTypeOK, Idle
    <2>2. p \in Call /\ p.phase = "clear" /\ Key(p) = Key(request[r]) /\ p.now = request[r].now
      BY <2>1, CallGoesOn
    <2>3. /\ UNCHANGED <<clock, leads, manager>>
          /\ \/ request' = [request EXCEPT ![r] = p] /\ ~Recent(request[r])
             \/ request' = [request EXCEPT ![r] = Idle]
      BY <1>3 DEF CheckRequest
    <2> HIDE DEF p
    <2>4. DeskTypeOK'
      BY <2>2, <2>3 DEF DeskTypeOK
    <2>5. CASE request' = [request EXCEPT ![r] = p] /\ ~Recent(request[r])
      <3>1. OneHolder'
        BY <2>1, <2>2, <2>5 DEF OneHolder, HoldsLock, DeskTypeOK
      <3>2. ClearToInsert'
        BY <2>2, <2>3, <2>5 DEF ClearToInsert, Recent, DeskTypeOK
      <3>3. NoDuplicateRequests'
        BY <2>3 DEF NoDuplicateRequests
      <3> QED
        BY <2>4, <3>1, <3>2, <3>3
    <2>6. CASE request' = [request EXCEPT ![r] = Idle]
      <3>1. SameRequests
        BY <2>3 DEF SameRequests
      <3>2. \A q \in Request : request'[q] = request[q] \/ request'[q] = Idle
        BY <2>6 DEF DeskTypeOK
      <3> QED
        BY <2>4, <3>1, <3>2, CallsEnd
    <2> QED
      BY <2>3, <2>5, <2>6
  <1>4. ASSUME NEW r \in Request, InsertRequest(r) PROVE DeskInv'
    <2> DEFINE q == request[r]
    <2>1. PICK t \in q.now .. clock :
             leads' = Append(leads, [customer |-> q.customer, lot |-> q.lot,
                                     intent |-> q.intent, createdAt |-> t,
                                     status |-> "NEW", assistance |-> "NEW",
                                     history |-> {}])
      BY <1>4 DEF InsertRequest
    <2>2. q \in Call /\ q.phase = "clear" /\ request' = [request EXCEPT ![r] = Idle]
          /\ clock' = clock /\ manager' = manager
      BY <1>4 DEF InsertRequest, DeskTypeOK, Idle
    <2>3. t \in Nat /\ t >= q.now
      BY <2>1, <2>2 DEF DeskTypeOK, Call
    <2> DEFINE new == [customer |-> q.customer, lot |-> q.lot, intent |-> q.intent,
                       createdAt |-> t, status |-> "NEW", assistance |-> "NEW",
                       history |-> {}]
    <2>4. new \in Lead /\ new.createdAt = t /\ Key(new) = Key(q)
      BY <2>2, <2>3 DEF Lead, Call, LeadStatus, Key
    <2>5. leads' = Append(leads, new)
      BY <2>1
    <2> HIDE DEF new, q
    <2>6. /\ leads' \in Seq(Lead)
          /\ DOMAIN leads' = DOMAIN leads \cup {Len(leads) + 1}
          /\ Len(leads) + 1 \notin DOMAIN leads
          /\ leads'[Len(leads) + 1] = new
          /\ \A n \in DOMAIN leads : leads'[n] = leads[n]
      BY <2>4, <2>5 DEF DeskTypeOK
    <2>7. DeskTypeOK'
      BY <2>2, <2>6 DEF DeskTypeOK
    <2>8. OneHolder'
      BY <2>2 DEF OneHolder, HoldsLock, DeskTypeOK, Idle
    <2>9. ASSUME NEW s \in Request, s # r, request[s].phase = "clear" PROVE Key(request[s]) # Key(q)
      BY <2>2, <2>9 DEF OneHolder, HoldsLock, q
    <2>10. ClearToInsert'
      <3> SUFFICES ASSUME NEW s \in Request, request'[s].phase = "clear",
                          NEW n \in DOMAIN leads',
                          Key(leads'[n]) = Key(request'[s]),
                          leads'[n].createdAt + Window >= request'[s].now
                   PROVE  FALSE
        BY DEF ClearToInsert, Recent
      <3>1. s # r /\ request'[s] = request[s]
        BY <2>2 DEF DeskTypeOK, Idle
      <3>2. CASE n = Len(leads) + 1
        BY <3>1, <3>2, <2>4, <2>6, <2>9
      <3>3. CASE n \in DOMAIN leads
        BY <3>1, <3>3, <2>6 DEF ClearToInsert, Recent
      <3> QED
        BY <3>2, <3>3, <2>6
    <2>11. ASSUME NEW n \in DOMAIN leads, Key(leads[n]) = Key(new)
           PROVE  new.createdAt > leads[n].createdAt + Window
      <3>0. leads[n] \in Lead
        BY DEF DeskTypeOK
      <3>1. leads[n].createdAt \in Nat /\ q.now \in Nat
        BY <3>0, <2>2 DEF Lead, Call
      <3>2. ~(leads[n].createdAt + Window >= q.now)
        BY <2>2, <2>4, <2>11 DEF ClearToInsert, Recent, q
      <3> QED
        BY <3>1, <3>2, <2>3, <2>4
    <2>12. NoDuplicateRequests'
      <3> SUFFICES ASSUME NEW n \in DOMAIN leads', NEW k \in DOMAIN leads', n # k,
                          Key(leads'[n]) = Key(leads'[k]), leads'[n].customer # None
                   PROVE  \/ leads'[n].createdAt > leads'[k].createdAt + Window
                          \/ leads'[k].createdAt > leads'[n].createdAt + Window
        BY DEF NoDuplicateRequests
      <3>1. CASE n \in DOMAIN leads /\ k \in DOMAIN leads
        BY <3>1, <2>6 DEF NoDuplicateRequests
      <3>2. CASE n = Len(leads) + 1 /\ k \in DOMAIN leads
        BY <3>2, <2>6, <2>11
      <3>3. CASE n \in DOMAIN leads /\ k = Len(leads) + 1
        BY <3>3, <2>6, <2>11
      <3> QED
        BY <3>1, <3>2, <3>3, <2>6
    <2> QED
      BY <2>7, <2>8, <2>10, <2>12
  <1>5. ASSUME CreateLead PROVE DeskInv'
    <2> DEFINE new == [customer |-> None, lot |-> None, intent |-> "CONTACT_FORM",
                       createdAt |-> clock, status |-> "NEW", assistance |-> None,
                       history |-> {}]
    <2>1. new \in Lead /\ new.customer = None /\ new.intent = "CONTACT_FORM"
      BY DEF Lead, LeadStatus, DeskTypeOK
    <2>2. leads' = Append(leads, new) /\ UNCHANGED <<clock, request, manager>>
      BY <1>5 DEF CreateLead
    <2>3. Key(new) = <<None, None, "CONTACT_FORM">>
      BY DEF Key
    <2> HIDE DEF new
    <2>4. /\ leads' \in Seq(Lead)
          /\ DOMAIN leads' = DOMAIN leads \cup {Len(leads) + 1}
          /\ Len(leads) + 1 \notin DOMAIN leads
          /\ leads'[Len(leads) + 1] = new
          /\ \A n \in DOMAIN leads : leads'[n] = leads[n]
      BY <2>1, <2>2 DEF DeskTypeOK
    <2>5. DeskTypeOK' /\ OneHolder'
      BY <2>2, <2>4 DEF DeskTypeOK, OneHolder, HoldsLock
    <2>6. ClearToInsert'
      <3> SUFFICES ASSUME NEW s \in Request, request[s].phase = "clear",
                          NEW n \in DOMAIN leads',
                          Key(leads'[n]) = Key(request[s]),
                          leads'[n].createdAt + Window >= request[s].now
                   PROVE  FALSE
        BY <2>2 DEF ClearToInsert, Recent
      <3>1. request[s].intent \in Intent
        BY DEF DeskTypeOK, Call, Idle
      <3>2. CASE n = Len(leads) + 1
        BY <3>1, <3>2, <2>3, <2>4 DEF Key, Intent
      <3>3. CASE n \in DOMAIN leads
        BY <3>3, <2>4 DEF ClearToInsert, Recent
      <3> QED
        BY <3>2, <3>3, <2>4
    <2>7. NoDuplicateRequests'
      BY <2>1, <2>4 DEF NoDuplicateRequests, Key
    <2> QED
      BY <2>5, <2>6, <2>7
  <1>6. ASSUME NEW m \in Manager, NEW n \in DOMAIN leads, NEW s \in AskedStatus \cup {None},
               NEW a \in {"NEW", "COMPLETED", None}, ReadLead(m, n, s, a)
        PROVE  DeskInv'
    <2>1. n \in Nat /\ leads[n] \in Lead
      BY DEF DeskTypeOK
    <2>2. NextStatus(leads[n], s, a) \in LeadStatus \cup {None}
      BY DEF NextStatus, LeadStatus
    <2>3. DeskTypeOK'
      BY <1>6, <2>1, <2>2 DEF ReadLead, DeskTypeOK, Change, Lead
    <2>4. SameRequests /\ request' = request
      BY <1>6 DEF ReadLead, SameRequests
    <2> QED
      BY <2>3, <2>4, CallsEnd
  <1>7. ASSUME NEW m \in Manager, WriteLead(m) PROVE DeskInv'
    <2> DEFINE c == manager[m]
    <2>1. c \in Change
      BY <1>7 DEF WriteLead, DeskTypeOK, Idle
    <2>2. leads' = [leads EXCEPT ![c.lead] = Changed(leads[c.lead], c)]
          /\ UNCHANGED <<clock, request>> /\ manager' = [manager EXCEPT ![m] = Idle]
      BY <1>7 DEF WriteLead
    <2> HIDE DEF c
    <2>3. \A n \in DOMAIN leads : leads[n] \in Lead
      BY DEF DeskTypeOK
    <2> DEFINE after == [n \in 1 .. Len(leads) |->
                            IF n = c.lead THEN Changed(leads[n], c) ELSE leads[n]]
    <2>4. leads' \in Seq(Lead)
      <3>1. leads \in Seq(Lead) /\ DOMAIN leads = 1 .. Len(leads) /\ Len(leads) \in Nat
        BY DEF DeskTypeOK
      <3>2. leads' = after
        BY <2>2, <3>1
      <3>3. \A n \in 1 .. Len(leads) : after[n] \in Lead
        BY <2>1, <2>3, <3>1, ChangedLead
      <3> HIDE DEF after
      <3>4. after \in [1 .. Len(leads) -> Lead]
        <4>1. after = [n \in 1 .. Len(leads) |-> after[n]]
          BY DEF after
        <4> QED
          BY <4>1, <3>3
      <3> QED
        BY <3>1, <3>2, <3>4, SeqDef
    <2>5. SameRequests
      BY <2>1, <2>2, <2>3, ChangedLead DEF SameRequests, DeskTypeOK
    <2>6. DeskTypeOK'
      BY <2>2, <2>4 DEF DeskTypeOK
    <2> QED
      BY <2>2, <2>5, <2>6, CallsEnd
  <1>8. ASSUME NEW l \in Lot, LotChanges(l) PROVE DeskInv'
    <2>1. DeskTypeOK' /\ SameRequests /\ request' = request
      BY <1>8 DEF LotChanges, DeskTypeOK, SameRequests
    <2> QED
      BY <2>1, CallsEnd
  <1>9. CASE DeskTick \/ UNCHANGED deskVars
    <2>1. DeskTypeOK' /\ SameRequests /\ request' = request
      BY <1>9 DEF DeskTick, deskVars, DeskTypeOK, SameRequests
    <2> QED
      BY <2>1, CallsEnd
  <1> QED
    BY <1>1, <1>2, <1>3, <1>4, <1>5, <1>6, <1>7, <1>8, <1>9
       DEF DeskNext, RequestsNext, ManagersNext

(* The inductive invariant of the leads: types, one holder of a lock, and  *)
(* calls that are clear to insert.                                         *)
THEOREM DeskInvariant == DeskSpec => []DeskInv
  BY DeskStart, DeskStep, PTL DEF DeskSpec

(* Two leads of one customer for one action on one lot are more than the   *)
(* window apart, for any number of calls (auction-lots.service.ts:80).     *)
THEOREM RequestsAreNotDoubled == DeskSpec => []NoDuplicateRequests
  <1>1. DeskInv => NoDuplicateRequests
    BY DEF DeskInv
  <1> QED
    BY <1>1, DeskInvariant, PTL

-----------------------------------------------------------------------------
(* The history of a lead.                                                  *)

(* A step that changes no lead, and adds none but one with its own first   *)
(* status, keeps the managers' pending changes explained.                  *)
LEMMA LeadsGrow ==
    ASSUME DeskTypeOK, HistoryInv, manager' = manager,
           DOMAIN leads \subseteq DOMAIN leads',
           \A n \in DOMAIN leads : leads'[n] = leads[n]
    PROVE  ChangesExplained'
  BY DEF HistoryInv, ChangesExplained

(* A lead that is added starts as new, with the progress of a request when *)
(* a customer asks for it.                                                 *)
LEMMA LeadIsAdded ==
    ASSUME DeskTypeOK, HistoryInv, manager' = manager,
           NEW new, leads' = Append(leads, new),
           new.status = "NEW", new.history = {}, new.assistance # "COMPLETED",
           new.customer # None <=> new.assistance # None,
           new.assistance # None => new.intent \in Intent
    PROVE  HistoryInv'
  <1>1. /\ DOMAIN leads' = DOMAIN leads \cup {Len(leads) + 1}
        /\ leads'[Len(leads) + 1] = new
        /\ \A n \in DOMAIN leads : leads'[n] = leads[n]
    BY DEF DeskTypeOK
  <1>2. ChangesExplained'
    BY <1>1, LeadsGrow
  <1>3. LeadsExplained'
    BY <1>1 DEF HistoryInv, LeadsExplained, Reached
  <1> QED
    BY <1>2, <1>3 DEF HistoryInv

(* What a manager read stays explained when others write: a change names   *)
(* each status it sets, and no write takes a status out of the history.    *)
LEMMA ChangeExplains ==
    ASSUME NEW lead \in Lead, NEW c \in Change,
           lead.status \in Reached(lead.history),
           c.from \in Reached(lead.history),
           c.assistance = "COMPLETED" =>
               c.to = "QUALIFIED" \/ "QUALIFIED" \in Reached(lead.history),
           lead.assistance = "COMPLETED" => "QUALIFIED" \in Reached(lead.history)
    PROVE  LET after == Changed(lead, c) IN
           /\ Reached(lead.history) \subseteq Reached(after.history)
           /\ after.status \in Reached(after.history)
           /\ after.assistance = "COMPLETED" => "QUALIFIED" \in Reached(after.history)
           /\ after.assistance = IF c.assistance = None THEN lead.assistance ELSE c.assistance
           /\ after.customer = lead.customer /\ after.intent = lead.intent
  <1> DEFINE s == IF c.to = None THEN lead.status ELSE c.to
             a == IF c.assistance = None THEN lead.assistance ELSE c.assistance
             h == IF c.to \in {None, c.from} THEN lead.history
                  ELSE lead.history \cup {<<c.from, c.to>>}
             after == [lead EXCEPT !.status = s, !.assistance = a, !.history = h]
  <1>1. Changed(lead, c) = after
    BY DEF Changed
  <1>2. /\ after.status = s /\ after.assistance = a /\ after.history = h
        /\ after.customer = lead.customer /\ after.intent = lead.intent
    BY DEF Lead
  <1>3. Reached(lead.history) \subseteq Reached(h)
    BY DEF Reached
  <1>4. c.to \notin {None, c.from} => c.to \in Reached(h)
    BY DEF Reached
  <1>5. s \in Reached(h)
    BY <1>3, <1>4
  <1>6. a = "COMPLETED" => "QUALIFIED" \in Reached(h)
    <2>1. CASE c.assistance = None
      BY <2>1, <1>3
    <2>2. CASE c.assistance # None /\ c.to = "QUALIFIED"
      BY <2>2, <1>3, <1>4, DeskAssumption DEF LeadStatus
    <2>3. CASE c.assistance # None /\ c.to # "QUALIFIED"
      BY <2>3, <1>3
    <2> QED
      BY <2>1, <2>2, <2>3
  <1> HIDE DEF s, a, h, after
  <1>7. a = IF c.assistance = None THEN lead.assistance ELSE c.assistance
    BY DEF a
  <1> QED
    BY <1>1, <1>2, <1>3, <1>5, <1>6, <1>7

(* Each step keeps the histories explained.                                *)
LEMMA HistoryStep == DeskInv /\ HistoryInv /\ [DeskNext]_deskVars => HistoryInv'
  <1> SUFFICES ASSUME DeskInv, HistoryInv, [DeskNext]_deskVars PROVE HistoryInv'
    OBVIOUS
  <1>0. DeskTypeOK
    BY DEF DeskInv
  <1>1. ASSUME NEW r \in Request, InsertRequest(r) PROVE HistoryInv'
    <2> DEFINE q == request[r]
    <2>1. PICK t \in q.now .. clock :
             leads' = Append(leads, [customer |-> q.customer, lot |-> q.lot,
                                     intent |-> q.intent, createdAt |-> t,
                                     status |-> "NEW", assistance |-> "NEW",
                                     history |-> {}])
      BY <1>1 DEF InsertRequest
    <2>2. q.customer \in Customer /\ q.intent \in Intent /\ manager' = manager
      BY <1>0, <1>1 DEF InsertRequest, DeskTypeOK, Idle, Call
    <2>3. q.customer # None /\ "NEW" # None
      BY <2>2, DeskAssumption DEF LeadStatus
    <2> QED
      BY <1>0, <2>1, <2>2, <2>3, LeadIsAdded
  <1>2. CASE CreateLead
    <2>1. None # "COMPLETED"
      BY DeskAssumption
    <2> QED
      BY <1>0, <1>2, <2>1, LeadIsAdded DEF CreateLead
  <1>3. ASSUME NEW m \in Manager, NEW n \in DOMAIN leads, NEW s \in AskedStatus \cup {None},
               NEW a \in {"NEW", "COMPLETED", None}, ReadLead(m, n, s, a)
        PROVE  HistoryInv'
    <2> DEFINE lead == leads[n]
               c == [phase |-> "write", lead |-> n, from |-> lead.status,
                     to |-> NextStatus(lead, s, a), assistance |-> a]
    <2>1. UNCHANGED leads /\ manager' = [manager EXCEPT ![m] = c]
      BY <1>3 DEF ReadLead
    <2>2. lead.status \in Reached(lead.history)
          /\ (lead.assistance = "COMPLETED" => "QUALIFIED" \in Reached(lead.history))
      BY DEF HistoryInv, LeadsExplained
    <2>3. a # None => lead.assistance # None
      BY <1>3 DEF ReadLead
    <2>4. lead.assistance \in {"NEW", "COMPLETED", None}
      <3>1. lead \in Lead
        BY <1>0 DEF DeskTypeOK
      <3> QED
        BY <3>1 DEF Lead
    <2>5. a = "COMPLETED" => NextStatus(lead, s, a) = "QUALIFIED" \/ lead.assistance = "COMPLETED"
      BY <2>3, <2>4, DeskAssumption DEF NextStatus, Completes
    <2>6. ChangesExplained'
      <3> SUFFICES ASSUME NEW k \in Manager, manager'[k] # Idle
                   PROVE  LET d == manager'[k] IN
                          /\ d.lead \in DOMAIN leads
                          /\ d.from \in Reached(leads[d.lead].history)
                          /\ d.assistance # None => leads[d.lead].assistance # None
                          /\ d.assistance = "COMPLETED" =>
                                d.to = "QUALIFIED" \/ "QUALIFIED" \in Reached(leads[d.lead].history)
        BY <2>1 DEF ChangesExplained
      <3>1. CASE k = m
        <4>1. manager'[k] = c
          BY <1>0, <2>1, <3>1 DEF DeskTypeOK
        <4> QED
          BY <4>1, <2>2, <2>3, <2>5
      <3>2. CASE k # m
        <4>1. manager'[k] = manager[k]
          BY <1>0, <2>1, <3>2 DEF DeskTypeOK
        <4> QED
          BY <4>1 DEF HistoryInv, ChangesExplained
      <3> QED
        BY <3>1, <3>2
    <2> QED
      BY <2>1, <2>6 DEF HistoryInv, LeadsExplained
  <1>4. ASSUME NEW m \in Manager, WriteLead(m) PROVE HistoryInv'
    <2> DEFINE c == manager[m]
               old == leads[c.lead]
               new == Changed(old, c)
    <2>1. c \in Change /\ c # Idle
      BY <1>0, <1>4 DEF WriteLead, DeskTypeOK, Idle
    <2>2. leads' = [leads EXCEPT ![c.lead] = new] /\ manager' = [manager EXCEPT ![m] = Idle]
      BY <1>4 DEF WriteLead
    <2>3. /\ c.lead \in DOMAIN leads
          /\ c.from \in Reached(old.history)
          /\ c.assistance # None => old.assistance # None
          /\ c.assistance = "COMPLETED" =>
                c.to = "QUALIFIED" \/ "QUALIFIED" \in Reached(old.history)
      BY <2>1 DEF HistoryInv, ChangesExplained
    <2>4. old \in Lead
      BY <1>0, <2>3 DEF DeskTypeOK
    <2>5. /\ old.status \in Reached(old.history)
          /\ old.assistance = "COMPLETED" => "QUALIFIED" \in Reached(old.history)
          /\ old.customer # None <=> old.assistance # None
          /\ old.assistance # None => old.intent \in Intent
      BY <2>3 DEF HistoryInv, LeadsExplained
    <2>6. /\ Reached(old.history) \subseteq Reached(new.history)
          /\ new.status \in Reached(new.history)
          /\ new.assistance = "COMPLETED" => "QUALIFIED" \in Reached(new.history)
          /\ new.assistance = IF c.assistance = None THEN old.assistance ELSE c.assistance
          /\ new.customer = old.customer /\ new.intent = old.intent
      BY <2>1, <2>3, <2>4, <2>5, ChangeExplains
    <2>7. new.assistance # None <=> old.assistance # None
      BY <2>3, <2>6
    <2>8. DOMAIN leads' = DOMAIN leads /\ leads'[c.lead] = new
          /\ \A n \in DOMAIN leads : n # c.lead => leads'[n] = leads[n]
      BY <2>2, <2>3 DEF DeskTypeOK
    <2>9. \A k \in Manager : manager'[k] # Idle => manager'[k] = manager[k]
      BY <1>0, <2>2 DEF DeskTypeOK
    <2> HIDE DEF c, old, new
    <2>10. LeadsExplained'
      BY <2>5, <2>6, <2>7, <2>8 DEF HistoryInv, LeadsExplained, old
    <2>11. ChangesExplained'
      <3> SUFFICES ASSUME NEW k \in Manager, manager'[k] # Idle
                   PROVE  LET d == manager[k] IN
                          /\ d.lead \in DOMAIN leads
                          /\ d.from \in Reached(leads'[d.lead].history)
                          /\ d.assistance # None => leads'[d.lead].assistance # None
                          /\ d.assistance = "COMPLETED" =>
                                d.to = "QUALIFIED" \/ "QUALIFIED" \in Reached(leads'[d.lead].history)
        BY <2>8, <2>9 DEF ChangesExplained
      <3> DEFINE d == manager[k]
      <3>1. /\ d.lead \in DOMAIN leads
            /\ d.from \in Reached(leads[d.lead].history)
            /\ d.assistance # None => leads[d.lead].assistance # None
            /\ d.assistance = "COMPLETED" =>
                  d.to = "QUALIFIED" \/ "QUALIFIED" \in Reached(leads[d.lead].history)
        BY <2>9 DEF HistoryInv, ChangesExplained
      <3>2. CASE d.lead = c.lead
        <4>1. leads[d.lead] = old /\ leads'[d.lead] = new
          BY <2>8, <3>2 DEF old
        <4> QED
          BY <3>1, <4>1, <2>6, <2>7, <2>8
      <3>3. CASE d.lead # c.lead
        <4>1. leads'[d.lead] = leads[d.lead]
          BY <3>1, <2>8, <3>3
        <4> QED
          BY <3>1, <4>1, <2>8
      <3> QED
        BY <3>2, <3>3
    <2> QED
      BY <2>10, <2>11 DEF HistoryInv
  <1>5. CASE UNCHANGED <<leads, manager>>
    BY <1>5 DEF HistoryInv, LeadsExplained, ChangesExplained
  <1> QED
    BY <1>1, <1>2, <1>3, <1>4, <1>5
       DEF DeskNext, RequestsNext, ManagersNext, BeginRequest, Lock, CheckRequest, LotChanges,
           DeskTick, deskVars

(* Every lead's history explains it, and every change that a manager has   *)
(* read for will be explained when it is written.                          *)
THEOREM HistoryInvariant == DeskSpec => []HistoryInv
  <1>1. DeskInit => HistoryInv
    BY DEF DeskInit, HistoryInv, LeadsExplained, ChangesExplained
  <1> QED
    BY <1>1, HistoryStep, DeskInvariant, PTL DEF DeskSpec

(* For any number of managers who change a lead at once from what each has *)
(* read: its history names the status it has, a completed request was      *)
(* qualified, and customers and managers read the same progress            *)
(* (leads.service.ts:151).                                                 *)
THEOREM LeadsAreExplained == DeskSpec => []HistoryExplainsLead
  <1>1. DeskInv /\ HistoryInv => HistoryExplainsLead
    <2> SUFFICES ASSUME DeskInv, HistoryInv, NEW n \in DOMAIN leads
                 PROVE  LET lead == LeadDetail(n).summary
                            reached == Reached(LeadDetail(n).statusHistory) IN
                        /\ lead.status \in reached
                        /\ lead.customerStatus = "COMPLETED" => "QUALIFIED" \in reached
                        /\ \A c \in Customer :
                              /\ n \in MyRequests(c) <=> lead.customer = c
                              /\ n \in MyRequests(c) =>
                                    /\ n \in FindLeads([status |-> lead.status, leadTypes |-> {},
                                                        auctionOnly |-> TRUE])
                                    /\ MyRequestStatus(leads[n]) = lead.customerStatus
      BY DEF HistoryExplainsLead
    <2> DEFINE lead == LeadDetail(n).summary
    <2>1. /\ LeadDetail(n).statusHistory = leads[n].history
          /\ lead.status = leads[n].status /\ lead.customer = leads[n].customer
          /\ lead.customerStatus = IF leads[n].assistance \in {"NEW", "COMPLETED"}
                                   THEN leads[n].assistance ELSE None
      BY DEF LeadDetail, AdminLeadSummary
    <2>2. leads[n].assistance \in {"NEW", "COMPLETED", None}
      <3>1. leads[n] \in Lead
        BY DEF DeskInv, DeskTypeOK
      <3> QED
        BY <3>1 DEF Lead
    <2>3. /\ leads[n].status \in Reached(leads[n].history)
          /\ leads[n].assistance = "COMPLETED" => "QUALIFIED" \in Reached(leads[n].history)
          /\ leads[n].customer # None <=> leads[n].assistance # None
          /\ leads[n].assistance # None => leads[n].intent \in Intent
      BY DEF HistoryInv, LeadsExplained
    <2> HIDE DEF lead
    <2>4. ASSUME NEW c \in Customer
          PROVE  /\ n \in MyRequests(c) <=> lead.customer = c
                 /\ n \in MyRequests(c) =>
                       /\ n \in FindLeads([status |-> lead.status, leadTypes |-> {},
                                           auctionOnly |-> TRUE])
                       /\ MyRequestStatus(leads[n]) = lead.customerStatus
      <3>1. c # None
        BY DeskAssumption
      <3>2. n \in MyRequests(c) <=> lead.customer = c
        BY <2>1, <2>3, <3>1 DEF MyRequests
      <3>3. n \in MyRequests(c) => leads[n].assistance \in {"NEW", "COMPLETED"} /\ leads[n].intent \in Intent
        BY <2>2 DEF MyRequests
      <3>4. leads[n].intent \in Intent =>
              n \in FindLeads([status |-> lead.status, leadTypes |-> {}, auctionOnly |-> TRUE])
        BY <2>1 DEF FindLeads
      <3>5. leads[n].assistance \in {"NEW", "COMPLETED"} => MyRequestStatus(leads[n]) = lead.customerStatus
        BY <2>1 DEF MyRequestStatus
      <3> QED
        BY <3>2, <3>3, <3>4, <3>5
    <2>5. None # "COMPLETED"
      BY DeskAssumption
    <2> QED
      BY <2>1, <2>3, <2>4, <2>5 DEF lead
  <1> QED
    BY <1>1, DeskInvariant, HistoryInvariant, PTL

-----------------------------------------------------------------------------
(* Imported vehicles.  However many imports overlap, lots, bindings and    *)
(* vehicles agree.                                                         *)
(* At the start no vehicle has been created and nothing is bound.          *)
LEMMA ImportsStart == ImportsInit => ImportsInv
  BY ImportsAssumption DEF ImportsInit, ImportsInv, ImportsTypeOK, Import, NoImport,
     VehiclesAreNumbered, DraftsAreOwn, Binds, LegacyIsLinked, LinksAgree

(* Each statement of each import keeps the invariant.                      *)
LEMMA ImportsStep == ImportsInv /\ [ImportsNext]_importsVars => ImportsInv'
  <1> SUFFICES ASSUME ImportsInv, [ImportsNext]_importsVars PROVE ImportsInv'
    OBVIOUS
  <1> USE ImportsAssumption
      DEF ImportsInv, ImportsTypeOK, Import, NoImport, VehiclesAreNumbered, DraftsAreOwn, Binds,
          LegacyIsLinked, LinksAgree
  <1>1. ASSUME NEW i \in Importer, NEW l \in SourceLot, FindBinding(i, l) PROVE ImportsInv'
    BY <1>1 DEF FindBinding
  <1>2. ASSUME NEW i \in Importer, CreateVehicle(i) PROVE ImportsInv'
    BY <1>2 DEF CreateVehicle
  <1>3. ASSUME NEW i \in Importer, BindVehicle(i) PROVE ImportsInv'
    BY <1>3 DEF BindVehicle
  <1>4. ASSUME NEW i \in Importer, ImportAbandoned(i) PROVE ImportsInv'
    BY <1>4 DEF ImportAbandoned
  <1>5. ASSUME NEW l \in SourceLot, LinkToBinding(l) PROVE ImportsInv'
    BY <1>5 DEF LinkToBinding
  <1>6. ASSUME NEW l \in SourceLot, BindToLink(l) PROVE ImportsInv'
    BY <1>6 DEF BindToLink
  <1>7. ASSUME NEW l \in SourceLot, ImportAsDraft(l) PROVE ImportsInv'
    BY <1>7 DEF ImportAsDraft
  <1>8. CASE UNCHANGED importsVars
    BY <1>8 DEF importsVars
  <1> QED
    BY <1>1, <1>2, <1>3, <1>4, <1>5, <1>6, <1>7, <1>8 DEF ImportsNext, ImportPersistedLot

(* The inductive invariant of the imports: types, numbered vehicles, drafts*)
(* that belong to one import, the legacy vehicle bound where it is linked. *)
THEOREM ImportsInvariant == ImportsSpec => []ImportsInv
  BY ImportsStart, ImportsStep, PTL DEF ImportsSpec

(* However the imports of any number of lots overlap, a link that one of   *)
(* them wrote names the vehicle the lot is bound to, and no vehicle stands *)
(* for two lots (copart.service.ts, auction-lots.service.ts).              *)
THEOREM LinksAlwaysAgree == ImportsSpec => []LinksAgree
  <1>1. ImportsInv => LinksAgree
    BY DEF ImportsInv
  <1> QED
    BY <1>1, ImportsInvariant, PTL

-----------------------------------------------------------------------------
(* Broadcasts.                                                             *)

(* A list of a finite set names each of its members.                       *)
LEMMA ListOfSet ==
    ASSUME NEW S, IsFiniteSet(S)
    PROVE  /\ SetToSeq(S) \in Seq(S)
           /\ \A e \in S : \E n \in DOMAIN SetToSeq(S) : SetToSeq(S)[n] = e
  <1> DEFINE size == Cardinality(S)
             list == SetToSeq(S)
  <1>1. size \in Nat /\ ExistsBijection(1 .. size, S)
    BY FS_CardinalityType
  <1>2. PICK f \in Bijection(1 .. size, S) : TRUE
    BY <1>1 DEF ExistsBijection
  <1>3. f \in [1 .. size -> S] /\ IsInjective(f)
    BY <1>2 DEF Bijection, Injection, IsInjective
  <1>4. list \in [1 .. size -> S] /\ IsInjective(list)
    BY <1>3 DEF SetToSeq
  <1>5. list \in Injection(1 .. size, S)
    BY <1>4 DEF Injection, IsInjective
  <1>6. Cardinality(1 .. size) = size /\ IsFiniteSet(1 .. size)
    BY <1>1, FS_Interval
  <1>7. list \in Surjection(1 .. size, S)
    BY <1>5, <1>6, FS_Injection
  <1> QED
    BY <1>1, <1>4, <1>7 DEF Surjection

(* Messages that are kept: those there were, still for the same people.    *)
NoticesKept ==
    /\ DOMAIN notices \subseteq DOMAIN notices'
    /\ \A n \in DOMAIN notices : /\ notices'[n].broadcast = notices[n].broadcast
                                 /\ notices'[n].to = notices[n].to

(* A step that keeps the messages and starts no loop keeps what the loops  *)
(* and the sent broadcasts promise.                                        *)
LEMMA LoopsGoOn ==
    ASSUME BroadcastsInv, BroadcastsTypeOK', Loyal \subseteq active', NoticesKept, jobs' \subseteq jobs,
           \A b \in Broadcast : broadcast'[b].status = "SENT" => broadcast[b].status = "SENT"
    PROVE  BroadcastsInv'
  <1>1. \A b, s : Attempted(b, s) => Attempted(b, s)'
    BY DEF Attempted, NoticesKept
  <1>2. ASSUME NEW j \in jobs' PROVE PostsToHead(j)' /\ MissesNobody(j)'
    <2>1. PostsToHead(j) /\ MissesNobody(j)
      BY <1>2 DEF BroadcastsInv
    <2>2. PostsToHead(j)'
      BY <2>1 DEF PostsToHead, NoticesKept
    <2>3. MissesNobody(j)'
      BY <2>1, <1>1 DEF MissesNobody
    <2> QED
      BY <2>2, <2>3
  <1>3. SentMeansAttempted'
    BY <1>1 DEF BroadcastsInv, SentMeansAttempted
  <1> QED
    BY <1>2, <1>3 DEF BroadcastsInv

(* At the start nothing has been sent and no loop runs.                    *)
LEMMA BroadcastsStart == BroadcastInit => BroadcastsInv
  <1> SUFFICES ASSUME BroadcastInit PROVE BroadcastsInv
    OBVIOUS
  <1>1. BroadcastsTypeOK
    BY BroadcastAssumption DEF BroadcastInit, BroadcastsTypeOK
  <1>2. Loyal \subseteq active /\ jobs = {}
    BY BroadcastAssumption DEF BroadcastInit
  <1>3. SentMeansAttempted
    BY DEF BroadcastInit, SentMeansAttempted, Absent
  <1> QED
    BY <1>1, <1>2, <1>3 DEF BroadcastsInv

(* Every step of an administrator, a loop or a subscriber keeps it.        *)
LEMMA BroadcastsStep == BroadcastsInv /\ [BroadcastsNext]_broadcastVars => BroadcastsInv'
  <1> SUFFICES ASSUME BroadcastsInv, [BroadcastsNext]_broadcastVars PROVE BroadcastsInv'
    OBVIOUS
  <1>0. BroadcastsTypeOK /\ Loyal \subseteq active
    BY DEF BroadcastsInv
  <1>1. ASSUME UNCHANGED <<active, jobs, notices>>,
               clerk' \in [Clerk -> {NoCall} \cup
                             [phase : {"delete", "send", "list"}, broadcast : Broadcast]],
               NEW b \in Broadcast, NEW row,
               broadcast' = [broadcast EXCEPT ![b] = row] \/ broadcast' = broadcast,
               row \in {Absent} \cup [channel : {"TELEGRAM", "EMAIL"}, status : {"DRAFT", "SENDING"}]
        PROVE  BroadcastsInv'
    <2>1. NoticesKept
      BY <1>1 DEF NoticesKept
    <2>2. row.status # "SENT"
      BY <1>1 DEF Absent
    <2>3. BroadcastsTypeOK'
      BY <1>0, <1>1 DEF BroadcastsTypeOK
    <2>4. \A k \in Broadcast : broadcast'[k].status = "SENT" => broadcast[k].status = "SENT"
      BY <1>0, <1>1, <2>2 DEF BroadcastsTypeOK
    <2> QED
      BY <1>0, <1>1, <2>1, <2>3, <2>4, LoopsGoOn
  <1>2. ASSUME NEW b \in Broadcast, CreateBroadcast(b) PROVE BroadcastsInv'
    <2>1. PICK channel \in {"TELEGRAM", "EMAIL"} :
             broadcast' = [broadcast EXCEPT ![b] = [channel |-> channel, status |-> "DRAFT"]]
      BY <1>2 DEF CreateBroadcast
    <2>2. UNCHANGED <<active, clerk, jobs, notices>>
      BY <1>2 DEF CreateBroadcast
    <2> QED
      BY <1>0, <1>1, <2>1, <2>2 DEF BroadcastsTypeOK
  <1>3. ASSUME NEW c \in Clerk, NEW b \in Broadcast, NEW step \in {"delete", "send"},
               ReadDraft(c, b, step)
        PROVE  BroadcastsInv'
    <2>1. clerk' \in [Clerk -> {NoCall} \cup
                         [phase : {"delete", "send", "list"}, broadcast : Broadcast]]
      BY <1>0, <1>3 DEF ReadDraft, BroadcastsTypeOK
    <2>2. UNCHANGED <<broadcast, active, jobs, notices>>
      BY <1>3 DEF ReadDraft
    <2>3. Absent \in {Absent}
      OBVIOUS
    <2> QED
      BY <1>1, <2>1, <2>2, <2>3
  <1>4. ASSUME NEW c \in Clerk, DeleteBroadcast(c) \/ MarkSending(c) PROVE BroadcastsInv'
    <2> DEFINE b == clerk[c].broadcast
    <2>1. clerk[c] \in [phase : {"delete", "send", "list"}, broadcast : Broadcast]
      BY <1>0, <1>4 DEF DeleteBroadcast, MarkSending, BroadcastsTypeOK, NoCall
    <2>2. b \in Broadcast
      BY <2>1
    <2>3. UNCHANGED <<active, jobs, notices>>
      BY <1>4 DEF DeleteBroadcast, MarkSending
    <2>4. clerk' \in [Clerk -> {NoCall} \cup
                         [phase : {"delete", "send", "list"}, broadcast : Broadcast]]
      BY <1>0, <1>4, <2>2 DEF DeleteBroadcast, MarkSending, BroadcastsTypeOK
    <2>5. CASE DeleteBroadcast(c)
      <3>1. broadcast' = [broadcast EXCEPT ![b] = Absent]
        BY <2>5 DEF DeleteBroadcast
      <3> QED
        BY <1>1, <2>2, <2>3, <2>4, <3>1
    <2>6. CASE MarkSending(c)
      <3> DEFINE row == [broadcast[b] EXCEPT !.status = "SENDING"]
      <3>1. broadcast' = IF broadcast[b] = Absent THEN broadcast
                         ELSE [broadcast EXCEPT ![b].status = "SENDING"]
        BY <2>6, Zenon DEF MarkSending
      <3>2. CASE broadcast' = broadcast
        BY <1>1, <2>2, <2>3, <2>4, <3>2
      <3>3. CASE broadcast[b] # Absent /\ broadcast' = [broadcast EXCEPT ![b] = row]
        <4>1. broadcast[b] \in [channel : {"TELEGRAM", "EMAIL"}, status : {"DRAFT", "SENDING", "SENT"}]
          BY <1>0, <2>2, <3>3 DEF BroadcastsTypeOK
        <4>2. row \in [channel : {"TELEGRAM", "EMAIL"}, status : {"DRAFT", "SENDING"}]
          BY <4>1
        <4> QED
          BY <1>1, <2>2, <2>3, <2>4, <3>3, <4>2
      <3> QED
        BY <3>1, <3>2, <3>3
    <2> QED
      BY <1>4, <2>5, <2>6
  <1>5. ASSUME NEW c \in Clerk, ListSubscribers(c) PROVE BroadcastsInv'
    <2>1. clerk[c].broadcast \in Broadcast
      BY <1>0, <1>5 DEF ListSubscribers, BroadcastsTypeOK, NoCall
    <2>2. IsFiniteSet(active)
      BY <1>0, BroadcastAssumption, FS_Subset DEF BroadcastsTypeOK
    <2>3. /\ SetToSeq(active) \in Seq(active)
          /\ \A e \in active : \E n \in DOMAIN SetToSeq(active) : SetToSeq(active)[n] = e
      BY <2>2, ListOfSet
    <2>4. SetToSeq(active) \in Seq(Subscriber)
      BY <1>0, <2>3, SeqMonotonic DEF BroadcastsTypeOK
    <2>5. PICK new \in Loop : /\ jobs' = jobs \cup {new}
                              /\ new.left = SetToSeq(active) /\ new.posting = 0
      <3> DEFINE loop == [clerk |-> c, broadcast |-> clerk[c].broadcast,
                          left |-> SetToSeq(active), posting |-> 0]
      <3>1. jobs' = jobs \cup {loop}
        BY <1>5 DEF ListSubscribers
      <3>2. loop \in Loop /\ loop.left = SetToSeq(active) /\ loop.posting = 0
        BY <2>1, <2>4 DEF Loop
      <3> HIDE DEF loop
      <3> QED
        BY <3>1, <3>2
    <2>6. /\ jobs' = jobs \cup {new} /\ clerk' = [clerk EXCEPT ![c] = NoCall]
          /\ UNCHANGED <<broadcast, active, notices>>
      BY <1>5, <2>5 DEF ListSubscribers
    <2>7. /\ new.posting = 0
          /\ \A e \in active : \E n \in DOMAIN new.left : new.left[n] = e
      BY <2>3, <2>5
    <2>8. BroadcastsTypeOK'
      BY <1>0, <2>5, <2>6 DEF BroadcastsTypeOK
    <2>9. PostsToHead(new)' /\ MissesNobody(new)'
      BY <1>0, <2>7 DEF PostsToHead, MissesNobody
    <2>10. \A j \in jobs : PostsToHead(j)' /\ MissesNobody(j)'
      BY <2>6 DEF BroadcastsInv, PostsToHead, MissesNobody, Attempted
    <2>11. SentMeansAttempted'
      BY <2>6 DEF BroadcastsInv, SentMeansAttempted, Attempted
    <2> QED
      BY <1>0, <2>6, <2>8, <2>9, <2>10, <2>11 DEF BroadcastsInv
  <1>6. ASSUME NEW j \in jobs, StoreNotice(j) PROVE BroadcastsInv'
    <2>1. j \in Loop /\ j.left # <<>>
      BY <1>0, <1>6 DEF StoreNotice, BroadcastsTypeOK
    <2>2. Head(j.left) \in Subscriber
      BY <2>1, HeadTailProperties DEF Loop
    <2>3. PICK new \in Notice : /\ notices' = Append(notices, new)
                                /\ new.broadcast = j.broadcast /\ new.to = Head(j.left)
      BY <1>6, <2>1, <2>2 DEF StoreNotice, Notice, Loop
    <2>4. UNCHANGED <<broadcast, active, clerk>>
      BY <1>6 DEF StoreNotice
    <2>5. Len(notices) \in Nat
      BY <1>0 DEF BroadcastsTypeOK
    <2>6. PICK k \in Loop : /\ jobs' = (jobs \ {j}) \cup {k}
                            /\ k.left = j.left /\ k.broadcast = j.broadcast
                            /\ k.posting = Len(notices) + 1
      <3> DEFINE loop == [j EXCEPT !.posting = Len(notices) + 1]
      <3>1. jobs' = (jobs \ {j}) \cup {loop}
        BY <1>6 DEF StoreNotice
      <3>2. /\ loop \in Loop /\ loop.left = j.left /\ loop.broadcast = j.broadcast
            /\ loop.posting = Len(notices) + 1
        BY <2>1, <2>5 DEF Loop
      <3> HIDE DEF loop
      <3> QED
        BY <3>1, <3>2
    <2>7. new.broadcast = j.broadcast /\ new.to = Head(j.left)
      BY <2>3
    <2>8. /\ notices' \in Seq(Notice)
          /\ DOMAIN notices' = DOMAIN notices \cup {Len(notices) + 1}
          /\ notices'[Len(notices) + 1] = new
          /\ \A n \in DOMAIN notices : notices'[n] = notices[n]
      BY <1>0, <2>3, <2>4 DEF BroadcastsTypeOK
    <2>9. BroadcastsTypeOK'
      BY <1>0, <2>4, <2>6, <2>8 DEF BroadcastsTypeOK
    <2>10. \A b, s : Attempted(b, s) => Attempted(b, s)'
      BY <2>8 DEF Attempted
    <2>11. PostsToHead(k)'
      BY <2>1, <2>6, <2>7, <2>8 DEF PostsToHead
    <2>12. MissesNobody(k)'
      <3>1. MissesNobody(j)
        BY DEF BroadcastsInv
      <3> QED
        BY <3>1, <2>6, <2>10 DEF MissesNobody
    <2>13. ASSUME NEW i \in jobs PROVE PostsToHead(i)' /\ MissesNobody(i)'
      <3>1. PostsToHead(i) /\ MissesNobody(i)
        BY DEF BroadcastsInv
      <3>2. PostsToHead(i)'
        BY <3>1, <2>8 DEF PostsToHead
      <3>3. MissesNobody(i)'
        BY <3>1, <2>10 DEF MissesNobody
      <3> QED
        BY <3>2, <3>3
    <2>14. SentMeansAttempted'
      BY <2>4, <2>10 DEF BroadcastsInv, SentMeansAttempted
    <2> QED
      BY <1>0, <2>4, <2>6, <2>9, <2>11, <2>12, <2>13, <2>14 DEF BroadcastsInv
  <1>7. ASSUME NEW j \in jobs, PostNotice(j) PROVE BroadcastsInv'
    <2>1. j \in Loop /\ PostsToHead(j) /\ MissesNobody(j) /\ j.posting # 0
      BY <1>0, <1>7 DEF PostNotice, BroadcastsTypeOK, BroadcastsInv
    <2>2. PICK s \in {"PENDING", "SENT", "FAILED"} :
             notices' = [notices EXCEPT ![j.posting].status = s]
      BY <1>7 DEF PostNotice
    <2> DEFINE k == [j EXCEPT !.left = Tail(j.left), !.posting = 0]
               new == [notices[j.posting] EXCEPT !.status = s]
    <2>3. jobs' = (jobs \ {j}) \cup {k} /\ UNCHANGED <<broadcast, active, clerk>>
      BY <1>7 DEF PostNotice
    <2>4. /\ j.left \in Seq(Subscriber) /\ j.left # <<>>
          /\ j.posting \in DOMAIN notices
          /\ notices[j.posting].broadcast = j.broadcast
          /\ notices[j.posting].to = Head(j.left)
      BY <2>1 DEF Loop, PostsToHead
    <2>5. /\ Tail(j.left) \in Seq(Subscriber) /\ Len(Tail(j.left)) = Len(j.left) - 1
          /\ \A n \in 1 .. Len(Tail(j.left)) : Tail(j.left)[n] = j.left[n + 1]
          /\ Len(j.left) \in Nat /\ Head(j.left) = j.left[1]
      BY <2>4, HeadTailProperties, LenProperties
    <2>6. /\ k \in Loop /\ k.left = Tail(j.left) /\ k.posting = 0 /\ k.broadcast = j.broadcast
      BY <2>1, <2>5 DEF Loop
    <2>7. notices[j.posting] \in Notice
      BY <1>0, <2>4 DEF BroadcastsTypeOK
    <2>8. new \in Notice /\ new.broadcast = notices[j.posting].broadcast
          /\ new.to = notices[j.posting].to
      BY <2>7 DEF Notice
    <2>9. notices' = [notices EXCEPT ![j.posting] = new]
      BY <2>2
    <2> HIDE DEF new, k
    <2>10. /\ notices' \in Seq(Notice) /\ DOMAIN notices' = DOMAIN notices
           /\ notices'[j.posting] = new
           /\ \A n \in DOMAIN notices : n # j.posting => notices'[n] = notices[n]
      BY <1>0, <2>4, <2>8, <2>9, ExceptSeq DEF BroadcastsTypeOK
    <2>11. BroadcastsTypeOK'
      BY <1>0, <2>3, <2>6, <2>10 DEF BroadcastsTypeOK
    <2>12. NoticesKept
      BY <2>8, <2>10 DEF NoticesKept
    <2>13. \A b, t : Attempted(b, t) => Attempted(b, t)'
      BY <2>12 DEF Attempted, NoticesKept
    <2>14. Attempted(j.broadcast, Head(j.left))'
      BY <2>4, <2>12 DEF Attempted, NoticesKept
    <2>15. MissesNobody(k)'
      <3> SUFFICES ASSUME NEW t \in Loyal, ~Attempted(k.broadcast, t)'
                   PROVE  \E n \in DOMAIN k.left : k.left[n] = t
        BY DEF MissesNobody
      <3>1. ~Attempted(j.broadcast, t) /\ t # Head(j.left)
        BY <2>6, <2>13, <2>14
      <3>2. PICK n \in DOMAIN j.left : j.left[n] = t
        BY <2>1, <3>1 DEF MissesNobody
      <3>3. n \in 1 .. Len(j.left) /\ n # 1
        BY <2>4, <2>5, <3>1, <3>2
      <3>4. n - 1 \in 1 .. Len(Tail(j.left)) /\ Tail(j.left)[n - 1] = t
        BY <2>5, <3>2, <3>3
      <3> QED
        BY <2>5, <2>6, <3>4
    <2>16. PostsToHead(k)'
      BY <2>6 DEF PostsToHead
    <2>17. ASSUME NEW i \in jobs PROVE PostsToHead(i)' /\ MissesNobody(i)'
      <3>1. PostsToHead(i) /\ MissesNobody(i)
        BY DEF BroadcastsInv
      <3>2. PostsToHead(i)'
        BY <3>1, <2>12 DEF PostsToHead, NoticesKept
      <3>3. MissesNobody(i)'
        BY <3>1, <2>13 DEF MissesNobody
      <3> QED
        BY <3>2, <3>3
    <2>18. SentMeansAttempted'
      BY <2>3, <2>13 DEF BroadcastsInv, SentMeansAttempted
    <2> QED
      BY <1>0, <2>3, <2>11, <2>15, <2>16, <2>17, <2>18 DEF BroadcastsInv
  <1>8. ASSUME NEW j \in jobs, FinishBroadcast(j) PROVE BroadcastsInv'
    <2> DEFINE b == j.broadcast
    <2>1. j \in Loop /\ MissesNobody(j) /\ j.left = <<>>
      BY <1>0, <1>8 DEF FinishBroadcast, BroadcastsTypeOK, BroadcastsInv
    <2>2. \A s \in Loyal : Attempted(b, s)
      BY <2>1 DEF MissesNobody
    <2>3. /\ broadcast' = [broadcast EXCEPT ![b].status = "SENT"] /\ broadcast[b] # Absent
          /\ jobs' = jobs \ {j} /\ UNCHANGED <<active, clerk, notices>>
      BY <1>8 DEF FinishBroadcast
    <2>4. b \in Broadcast
      BY <2>1 DEF Loop
    <2>5. broadcast[b] \in [channel : {"TELEGRAM", "EMAIL"}, status : {"DRAFT", "SENDING", "SENT"}]
      BY <1>0, <2>3, <2>4 DEF BroadcastsTypeOK
    <2>6. [broadcast[b] EXCEPT !.status = "SENT"]
             \in [channel : {"TELEGRAM", "EMAIL"}, status : {"DRAFT", "SENDING", "SENT"}]
      BY <2>5
    <2>7. BroadcastsTypeOK'
      BY <1>0, <2>3, <2>6 DEF BroadcastsTypeOK
    <2>8. \A i \in jobs : PostsToHead(i)' /\ MissesNobody(i)'
      BY <2>3 DEF BroadcastsInv, PostsToHead, MissesNobody, Attempted
    <2>9. SentMeansAttempted'
      <3> SUFFICES ASSUME NEW k \in Broadcast, broadcast'[k].status = "SENT", NEW s \in Loyal
                   PROVE  Attempted(k, s)
        BY <2>3 DEF SentMeansAttempted, Attempted
      <3>1. CASE k = b
        BY <2>2, <3>1
      <3>2. CASE k # b
        <4>1. broadcast'[k] = broadcast[k]
          BY <1>0, <2>3, <3>2 DEF BroadcastsTypeOK
        <4> QED
          BY <4>1 DEF BroadcastsInv, SentMeansAttempted
      <3> QED
        BY <3>1, <3>2
    <2> QED
      BY <1>0, <2>3, <2>7, <2>8, <2>9 DEF BroadcastsInv
  <1>9. ASSUME \/ \E j \in jobs : JobThrows(j)
               \/ \E s \in Subscriber : SubscriberComesOrGoes(s)
               \/ BroadcastRestart
               \/ UNCHANGED broadcastVars
        PROVE  BroadcastsInv'
    <2>1. UNCHANGED <<broadcast, notices>> /\ jobs' \subseteq jobs
      BY <1>9 DEF JobThrows, SubscriberComesOrGoes, BroadcastRestart, broadcastVars
    <2>2. clerk' = clerk \/ clerk' = [c \in Clerk |-> NoCall]
      BY <1>9 DEF JobThrows, SubscriberComesOrGoes, BroadcastRestart, broadcastVars
    <2>3. active' \subseteq Subscriber /\ Loyal \subseteq active'
      BY <1>0, <1>9 DEF JobThrows, SubscriberComesOrGoes, BroadcastRestart, broadcastVars,
                        BroadcastsTypeOK
    <2>4. BroadcastsTypeOK'
      BY <1>0, <2>1, <2>2, <2>3 DEF BroadcastsTypeOK
    <2> QED
      BY <2>1, <2>3, <2>4, LoopsGoOn DEF NoticesKept
  <1> QED
    BY <1>2, <1>3, <1>4, <1>5, <1>6, <1>7, <1>8, <1>9 DEF BroadcastsNext

(* Every background loop has tried everyone who stays subscribed or still  *)
(* has them on its list.                                                   *)
THEOREM BroadcastsInvariant == BroadcastsSpec => []BroadcastsInv
  BY BroadcastsStart, BroadcastsStep, PTL DEF BroadcastsSpec

(* For any number of administrators, broadcasts and subscribers: what is   *)
(* shown as sent was handed to the bot for everyone who was subscribed all *)
(* along (broadcasts.service.ts).                                          *)
THEOREM SentWasAttempted == BroadcastsSpec => []SentMeansAttempted
  <1>1. BroadcastsInv => SentMeansAttempted
    BY DEF BroadcastsInv
  <1> QED
    BY <1>1, BroadcastsInvariant, PTL

-----------------------------------------------------------------------------
(* The estimate.                                                           *)

Quote == [price : Nat, age : Int, fuel : {"gasoline", "diesel", "electric"}, volume : Nat]

(* Rounding does not turn an order around, and stays among the naturals.   *)
LEMMA RoundedGrows ==
    ASSUME NEW m \in Nat, NEW n \in Nat, m <= n
    PROVE  \A d \in {10, 50, 100, 1000} :
              Rounded(m, d) \in Nat /\ Rounded(n, d) \in Nat /\ Rounded(m, d) <= Rounded(n, d)
  BY DEF Rounded

(* The schedule of fees, step by step.                                     *)
LEMMA FeeOfPrice ==
    ASSUME NEW p \in Nat
    PROVE  CalculateAuctionFee(p) =
              IF p <= 99 THEN 25 ELSE IF p <= 499 THEN 70 ELSE IF p <= 999 THEN 135
              ELSE IF p <= 1499 THEN 200 ELSE IF p <= 1999 THEN 260 ELSE IF p <= 3999 THEN 375
              ELSE IF p <= 5999 THEN 475 ELSE IF p <= 7999 THEN 600 ELSE Rounded(p * 8, 100)
  <1>1. CASE p > 7999
    BY <1>1 DEF CalculateAuctionFee
  <1>2. CASE p <= 7999
    <2>1. CalculateAuctionFee(p) = FeeSteps[Step(p)][2]
      BY <1>2 DEF CalculateAuctionFee
    <2>2. /\ DOMAIN FeeSteps = 1 .. 8
          /\ FeeSteps[1] = <<99, 25>> /\ FeeSteps[2] = <<499, 70>>
          /\ FeeSteps[3] = <<999, 135>> /\ FeeSteps[4] = <<1499, 200>>
          /\ FeeSteps[5] = <<1999, 260>> /\ FeeSteps[6] = <<3999, 375>>
          /\ FeeSteps[7] = <<5999, 475>> /\ FeeSteps[8] = <<7999, 600>>
      BY DEF FeeSteps
    <2> DEFINE Fits(n) == p <= FeeSteps[n][1] /\ \A m \in 1 .. n - 1 : p > FeeSteps[m][1]
    <2>3. \A n \in 1 .. 8 : Fits(n) => p <= FeeSteps[n][1] /\ (n # 1 => p > FeeSteps[n - 1][1])
      OBVIOUS
    <2>4. \E n \in 1 .. 8 : Fits(n)
      <3>1. CASE p <= 99
        BY <2>2, <3>1 DEF Fits
      <3>2. CASE p > 99 /\ p <= 499
        <4>1. Fits(2)
          BY <2>2, <3>2
        <4> QED
          BY <4>1
      <3>3. CASE p > 499 /\ p <= 999
        <4>1. Fits(3)
          BY <2>2, <3>3
        <4> QED
          BY <4>1
      <3>4. CASE p > 999 /\ p <= 1499
        <4>1. Fits(4)
          BY <2>2, <3>4
        <4> QED
          BY <4>1
      <3>5. CASE p > 1499 /\ p <= 1999
        <4>1. Fits(5)
          BY <2>2, <3>5
        <4> QED
          BY <4>1
      <3>6. CASE p > 1999 /\ p <= 3999
        <4>1. Fits(6)
          BY <2>2, <3>6
        <4> QED
          BY <4>1
      <3>7. CASE p > 3999 /\ p <= 5999
        <4>1. Fits(7)
          BY <2>2, <3>7
        <4> QED
          BY <4>1
      <3>8. CASE p > 5999
        <4>1. Fits(8)
          BY <1>2, <2>2, <3>8
        <4> QED
          BY <4>1
      <3> QED
        BY <3>1, <3>2, <3>3, <3>4, <3>5, <3>6, <3>7, <3>8
    <2>5. Step(p) \in 1 .. 8 /\ Fits(Step(p))
      BY <2>2, <2>4 DEF Step
    <2>6. PICK n \in 1 .. 8 : n = Step(p) /\ p <= FeeSteps[n][1] /\ (n # 1 => p > FeeSteps[n - 1][1])
      BY <2>3, <2>5
    <2> HIDE DEF Fits
    <2>7. n \in {1, 2, 3, 4, 5, 6, 7, 8}
      BY <2>6
    <2> QED
      BY <1>2, <2>1, <2>2, <2>6, <2>7
  <1> QED
    BY <1>1, <1>2

LEMMA FeeGrows ==
    ASSUME NEW p \in Nat
    PROVE  /\ CalculateAuctionFee(p) \in Nat
           /\ CalculateAuctionFee(p) <= CalculateAuctionFee(p + 1)
  <1>1. Rounded(p * 8, 100) \in Nat /\ Rounded(p * 8, 100) <= Rounded((p + 1) * 8, 100)
    BY RoundedGrows
  <1>2. p >= 7999 => Rounded((p + 1) * 8, 100) >= 600
    BY DEF Rounded
  <1> QED
    BY <1>1, <1>2, FeeOfPrice

LEMMA InsuranceGrows ==
    ASSUME NEW p \in Nat
    PROVE  /\ CalculateInsurance(p) \in Nat
           /\ CalculateInsurance(p) <= CalculateInsurance(p + 1)
  <1>1. /\ Rounded(p * 2, 100) \in Nat /\ Rounded((p + 1) * 2, 100) \in Nat
        /\ Rounded(p * 2, 100) <= Rounded((p + 1) * 2, 100)
    BY RoundedGrows
  <1> QED
    BY <1>1 DEF CalculateInsurance, Larger

(* A product of naturals grows with its factors.                           *)
LEMMA ProductGrows ==
    ASSUME NEW k \in Nat, NEW m \in Nat, NEW n \in Nat, m <= n
    PROVE  k * m \in Nat /\ m * k \in Nat /\ k * m <= k * n /\ m * k <= n * k
  <1>1. PICK d \in Nat : n = m + d
    <2>1. n - m \in Nat /\ n = m + (n - m)
      OBVIOUS
    <2> QED
      BY <2>1
  <1>2. k * d \in Nat
    OBVIOUS
  <1>3. k * n = k * m + k * d
    BY <1>1
  <1> QED
    BY <1>2, <1>3

(* What the taxes are raised from decides the rest of the total.           *)
LEMMA TotalGrows ==
    ASSUME NEW q \in Quote, NEW r \in Quote, q.price \in {r.price, r.price - 1},
           Excise(q) \in Nat, Excise(r) \in Nat, Excise(q) <= Excise(r)
    PROVE  Total(q) <= Total(r)
  <1> USE EstimateAssumption
  <1>1. q.price \in Nat /\ r.price \in Nat /\ (r.price = q.price \/ r.price = q.price + 1)
    BY DEF Quote
  <1>2. /\ CalculateAuctionFee(q.price) \in Nat /\ CalculateAuctionFee(r.price) \in Nat
        /\ CalculateAuctionFee(q.price) <= CalculateAuctionFee(r.price)
    BY <1>1, FeeGrows
  <1>3. /\ CalculateInsurance(q.price) \in Nat /\ CalculateInsurance(r.price) \in Nat
        /\ CalculateInsurance(q.price) <= CalculateInsurance(r.price)
    BY <1>1, InsuranceGrows
  <1> DEFINE usd(x) == x.price + CalculateAuctionFee(x.price) + Logistics
                       + CalculateInsurance(x.price) + ServiceFees
  <1>4. usd(q) \in Nat /\ usd(r) \in Nat /\ usd(q) <= usd(r)
    BY <1>1, <1>2, <1>3 DEF Logistics, ServiceFees
  <1>5. RateTenths \in Nat
    OBVIOUS
  <1>6. /\ usd(q) * RateTenths \in Nat /\ usd(r) * RateTenths \in Nat
        /\ usd(q) * RateTenths <= usd(r) * RateTenths
    <2> HIDE DEF usd
    <2> QED
      BY <1>4, <1>5, ProductGrows
  <1>7. /\ Rounded(usd(q) * RateTenths, 10) \in Nat /\ Rounded(usd(r) * RateTenths, 10) \in Nat
        /\ Rounded(usd(q) * RateTenths, 10) <= Rounded(usd(r) * RateTenths, 10)
    <2> HIDE DEF usd
    <2> QED
      BY <1>6, RoundedGrows
  <1>8. Duty(q) \in Nat /\ Duty(r) \in Nat /\ Duty(q) <= Duty(r)
    <2> DEFINE base(x) == x.price * CustomsRateTenths
    <2>1. base(q) \in Nat /\ base(r) \in Nat /\ base(q) <= base(r)
      BY <1>1 DEF CustomsRateTenths
    <2>2. Duty(q) = Rounded(base(q), 100) /\ Duty(r) = Rounded(base(r), 100)
      BY DEF Duty
    <2> HIDE DEF base
    <2> QED
      BY <2>1, <2>2, RoundedGrows
  <1>9. Vat(q) \in Nat /\ Vat(r) \in Nat /\ Vat(q) <= Vat(r)
    <2> DEFINE base(x) == x.price * CustomsRateTenths + 10 * (Duty(x) + Excise(x))
    <2>1. base(q) \in Nat /\ base(r) \in Nat /\ base(q) <= base(r)
      BY <1>1, <1>8 DEF CustomsRateTenths
    <2>2. Vat(q) = Rounded(base(q), 50) /\ Vat(r) = Rounded(base(r), 50)
      BY DEF Vat
    <2> HIDE DEF base
    <2> QED
      BY <2>1, <2>2, RoundedGrows
  <1>10. /\ Total(q) = Rounded(usd(q) * RateTenths, 10) + Duty(q) + Excise(q) + Vat(q)
         /\ Total(r) = Rounded(usd(r) * RateTenths, 10) + Duty(r) + Excise(r) + Vat(r)
    BY DEF Total
  <1> HIDE DEF usd
  <1> QED
    BY <1>7, <1>8, <1>9, <1>10

(* The excise, from what it depends on.                                    *)
LEMMA ExciseGrows ==
    ASSUME NEW q \in Quote, NEW r \in Quote, q.volume = r.volume,
           q.age \in {r.age, r.age - 1},
           q.fuel = r.fuel \/ (q.fuel = "gasoline" /\ r.fuel = "diesel")
    PROVE  Excise(q) \in Nat /\ Excise(r) \in Nat /\ Excise(q) <= Excise(r)
  <1>1. CASE q.fuel = "electric"
    BY <1>1 DEF Excise
  <1>2. CASE q.fuel # "electric"
    <2> DEFINE rate(x) == IF x.fuel = "diesel" THEN 75 ELSE 50
               age(x) == AgeCoefficient(x.age)
               v == q.volume
    <2>1. rate(q) \in Nat /\ rate(r) \in Nat /\ rate(q) <= rate(r)
      OBVIOUS
    <2>2. age(q) \in Nat /\ age(r) \in Nat /\ age(q) <= age(r)
      BY DEF Quote, AgeCoefficient, Lesser
    <2>3. v \in Nat /\ r.volume = v
      BY DEF Quote
    <2>4. /\ Excise(q) = Rounded(v * rate(q) * age(q) * EurToUah, 1000)
          /\ Excise(r) = Rounded(v * rate(r) * age(r) * EurToUah, 1000)
      BY <1>2, <2>3 DEF Excise
    <2> HIDE DEF rate, age, v
    <2>5. v * rate(q) \in Nat /\ v * rate(r) \in Nat /\ v * rate(q) <= v * rate(r)
      BY <2>1, <2>3, ProductGrows
    <2>6. /\ v * rate(q) * age(q) \in Nat /\ v * rate(r) * age(q) \in Nat
          /\ v * rate(q) * age(q) <= v * rate(r) * age(q)
      BY <2>2, <2>5, ProductGrows
    <2>7. /\ v * rate(r) * age(r) \in Nat
          /\ v * rate(r) * age(q) <= v * rate(r) * age(r)
      BY <2>2, <2>5, ProductGrows
    <2> DEFINE a == v * rate(q) * age(q)
               b == v * rate(r) * age(r)
    <2>8. a \in Nat /\ b \in Nat /\ a <= b
      BY <2>6, <2>7
    <2>9. Excise(q) = Rounded(a * EurToUah, 1000) /\ Excise(r) = Rounded(b * EurToUah, 1000)
      BY <2>4
    <2> HIDE DEF a, b
    <2>10. a * EurToUah \in Nat /\ b * EurToUah \in Nat /\ a * EurToUah <= b * EurToUah
      BY <2>8 DEF EurToUah
    <2> QED
      BY <2>9, <2>10, RoundedGrows
  <1> QED
    BY <1>1, <1>2

(* Whatever the price, the volume, the age and the exchange rate: a dollar *)
(* more, a year more or diesel instead of gasoline costs no less in all    *)
(* (calculator.service.ts).                                                *)
THEOREM DearerNeverCheaper == EstimateSpec => []DearerCostsMore
  <1> USE EstimateAssumption
  <1> DEFINE QuoteInv == quote \in Quote
  <1>1. EstimateInit => QuoteInv
    BY DEF EstimateInit, Quote
  <1>2. QuoteInv /\ [EstimateNext]_quote => QuoteInv'
    BY DEF Quote, EstimateNext, GrowsOld
  <1>3. QuoteInv => DearerCostsMore
    <2> SUFFICES ASSUME quote \in Quote PROVE DearerCostsMore
      OBVIOUS
    <2> DEFINE dearer == [quote EXCEPT !.price = @ + 1]
               older == [quote EXCEPT !.age = @ + 1]
               diesel == [quote EXCEPT !.fuel = "diesel"]
    <2>1. Total(quote) <= Total(dearer)
      <3>1. /\ dearer \in Quote /\ quote.price = dearer.price - 1 /\ quote.age = dearer.age
            /\ quote.fuel = dearer.fuel /\ quote.volume = dearer.volume
        BY DEF Quote
      <3> HIDE DEF dearer
      <3> QED
        BY <3>1, ExciseGrows, TotalGrows
    <2>2. Total(quote) <= Total(older)
      <3>1. /\ older \in Quote /\ quote.price = older.price /\ quote.age = older.age - 1
            /\ quote.fuel = older.fuel /\ quote.volume = older.volume
        BY DEF Quote
      <3> HIDE DEF older
      <3> QED
        BY <3>1, ExciseGrows, TotalGrows
    <2>3. quote.fuel = "gasoline" => Total(quote) <= Total(diesel)
      <3>1. /\ diesel \in Quote /\ quote.price = diesel.price /\ quote.age = diesel.age
            /\ diesel.fuel = "diesel" /\ quote.volume = diesel.volume
        BY DEF Quote
      <3> HIDE DEF diesel
      <3> QED
        BY <3>1, ExciseGrows, TotalGrows
    <2> QED
      BY <2>1, <2>2, <2>3 DEF DearerCostsMore
  <1> HIDE DEF QuoteInv
  <1> QED
    BY <1>1, <1>2, <1>3, PTL DEF EstimateSpec

-----------------------------------------------------------------------------
(* Accounts.  A refresh session is continued once: who finds it ends it    *)
(* before he issues the next one of its login.                             *)

(* The rows are numbered without a gap.                                    *)
LEMMA RowCount ==
    ASSUME TypeOK
    PROVE  \E n \in 0 .. MaxSessions :
              /\ logins \in 0 .. n /\ sessions \in [1 .. n -> Session]
              /\ Rows = 1 .. n /\ Cardinality(Rows) = n
  <1>1. PICK n \in 0 .. MaxSessions : logins \in 0 .. n /\ sessions \in [1 .. n -> Session]
    BY DEF TypeOK
  <1>2. Rows = 1 .. n
    BY <1>1 DEF Rows
  <1>3. Cardinality(1 .. n) = n
    <2>1. Cardinality(1 .. n) = IF 1 > n THEN 0 ELSE n - 1 + 1
      BY FS_Interval
    <2> QED
      BY <2>1
  <1> QED
    BY <1>1, <1>2, <1>3

(* A new pair of tokens adds a live session and leaves the others.         *)
LEMMA PairAdds ==
    ASSUME TypeOK, RoomForSession, NEW l \in 1 .. MaxSessions, TokenPairFor(l)
    PROVE  \E n \in 0 .. MaxSessions - 1 :
              /\ logins \in 0 .. n /\ Rows = 1 .. n /\ Rows' = 1 .. n + 1
              /\ sessions' \in [1 .. n + 1 -> Session]
              /\ \A i \in Rows : sessions'[i] = sessions[i]
              /\ sessions'[n + 1].login = l /\ sessions'[n + 1].live
  <1>1. PICK n \in 0 .. MaxSessions :
           /\ logins \in 0 .. n /\ sessions \in [1 .. n -> Session]
           /\ Rows = 1 .. n /\ Cardinality(Rows) = n
    BY RowCount
  <1>2. n \in 0 .. MaxSessions - 1
    BY <1>1, AuthAssumption DEF RoomForSession
  <1>3. sessions' = [i \in 1 .. n + 1 |->
                        IF i \in 1 .. n THEN sessions[i]
                        ELSE [login |-> l, token |-> now, live |-> TRUE]]
    BY <1>1 DEF TokenPairFor
  <1>4. [login |-> l, token |-> now, live |-> TRUE] \in Session
    BY DEF TypeOK, Session
  <1> QED
    BY <1>1, <1>2, <1>3, <1>4 DEF Rows

(* Before the first login there is nothing to continue.                    *)
LEMMA SessionsStart == Init => SessionsInv
  <1> SUFFICES ASSUME Init PROVE SessionsInv
    OBVIOUS
  <1>1. 0 \in 0 .. MaxSessions /\ 0 \in 0 .. 0 /\ sessions \in [1 .. 0 -> Session]
    BY AuthAssumption DEF Init
  <1>2. Rows = {}
    BY <1>1 DEF Rows
  <1>3. NoRefresh \in Refresh
    BY AuthAssumption DEF NoRefresh, Refresh, Token
  <1>4. TypeOK
    <2>1. NoToken \in Token /\ 0 \in Time
      BY AuthAssumption DEF Token, Time
    <2>2. /\ cookie \in [access : Token, refresh : Token]
          /\ fetch \in [Fetch -> [phase : {"idle", "sent", "waiting", "done", "failed"},
                                  access : Token, retry : BOOLEAN]]
      BY <2>1 DEF Init, NoTokens, Unsent
    <2>3. call \in [Fetch -> Refresh] /\ promise \subseteq Fetch
      BY <1>3 DEF Init
    <2>4. reset \in [token : {"none", "issued", "used"}, call : {"none", "found", "done"}]
      BY DEF Init
    <2>5. now \in Time /\ status = "PENDING_VERIFICATION" /\ verified \in BOOLEAN /\ logins = 0
      BY <2>1 DEF Init
    <2> QED
      BY <1>1, <2>2, <2>3, <2>4, <2>5 DEF TypeOK
  <1>5. \A q \in Fetch : ~Continuing(q)
    BY DEF Init, NoRefresh, Continuing
  <1> QED
    BY <1>2, <1>4, <1>5 DEF SessionsInv, RowsKnown, OneSuccessor, Continues

(* Who continues which session, and which ones are live, stays or is less. *)
LEMMA NothingNew ==
    ASSUME RowsKnown, OneSuccessor,
           Rows' = Rows, logins' = logins, overlapped' = overlapped,
           \A i \in Rows : /\ sessions'[i].login = sessions[i].login
                           /\ sessions'[i].live => sessions[i].live,
           \A q \in Fetch : Continuing(q)' =>
              /\ call'[q].phase = call[q].phase /\ call'[q].row = call[q].row
    PROVE  RowsKnown' /\ OneSuccessor'
  <1>1. RowsKnown'
    BY DEF RowsKnown, Continuing
  <1>2. \A l : \A i \in Rows : LiveRow(i, l)' => LiveRow(i, l)
    BY DEF LiveRow
  <1>3. \A l : \A q \in Fetch : Continues(q, l)' =>
          /\ Continues(q, l)
          /\ \A i : FoundBy(q, i) => FoundBy(q, i)'
    BY DEF RowsKnown, Continues, Continuing, FoundBy
  <1>4. OneSuccessor'
    <2> SUFFICES ASSUME NEW l \in 1 .. logins \ overlapped
                 PROVE  /\ \A i, j \in Rows : LiveRow(i, l)' /\ LiveRow(j, l)' => i = j
                        /\ \A q, r \in Fetch : Continues(q, l)' /\ Continues(r, l)' => q = r
                        /\ \A q \in Fetch, i \in Rows :
                              Continues(q, l)' /\ LiveRow(i, l)' => FoundBy(q, i)'
      BY DEF OneSuccessor
    <2> QED
      BY <1>2, <1>3 DEF OneSuccessor
  <1> QED
    BY <1>1, <1>4

(* A login has a session of its own.                                       *)
LEMMA LoginStep ==
    ASSUME SessionsInv, Login
    PROVE  RowsKnown' /\ OneSuccessor'
  <1>1. PICK n \in 0 .. MaxSessions - 1 :
           /\ logins \in 0 .. n /\ Rows = 1 .. n /\ Rows' = 1 .. n + 1
           /\ \A i \in Rows : sessions'[i] = sessions[i]
           /\ sessions'[n + 1].login = logins + 1
    <2>1. logins \in 0 .. MaxSessions - 1
      BY RowCount, AuthAssumption DEF Login, RoomForSession, SessionsInv
    <2>2. logins + 1 \in 1 .. MaxSessions
      BY <2>1, AuthAssumption
    <2> QED
      BY <2>2, PairAdds DEF Login, SessionsInv
  <1>2. call' = call /\ logins' = logins + 1 /\ overlapped' = overlapped
    BY DEF Login
  <1>3. /\ logins \in Nat
        /\ \A i \in Rows : sessions[i].login \in Nat /\ sessions[i].login <= logins
        /\ \A q \in Fetch : Continuing(q) => call[q].row \in Rows
    <2>1. PICK k \in Nat : sessions \in [1 .. k -> Session] /\ Rows = 1 .. k
      BY RowCount DEF SessionsInv
    <2>2. \A i \in Rows : sessions[i].login \in Nat
      BY <2>1 DEF Session
    <2> QED
      BY <1>1, <2>2 DEF SessionsInv, RowsKnown
  <1>4. RowsKnown'
    BY <1>1, <1>2, <1>3 DEF RowsKnown, Continuing
  <1>5. \A l : \A q \in Fetch : Continues(q, l)' = Continues(q, l)
    BY <1>1, <1>2, <1>3 DEF Continues, Continuing
  <1>6. \A l : \A i \in Rows : LiveRow(i, l)' = LiveRow(i, l)
    BY <1>1 DEF LiveRow
  <1>7. OneSuccessor'
    <2> SUFFICES ASSUME NEW l \in 1 .. logins + 1, l \notin overlapped
                 PROVE  /\ \A i, j \in Rows' : LiveRow(i, l)' /\ LiveRow(j, l)' => i = j
                        /\ \A q, r \in Fetch : Continues(q, l)' /\ Continues(r, l)' => q = r
                        /\ \A q \in Fetch, i \in Rows' :
                              Continues(q, l)' /\ LiveRow(i, l)' => FoundBy(q, i)'
      BY <1>2 DEF OneSuccessor
    <2>1. CASE l = logins + 1
      <3>1. ASSUME NEW q \in Fetch, Continues(q, l)' PROVE FALSE
        <4>1. Continues(q, l)
          BY <1>5, <3>1
        <4> QED
          BY <1>3, <2>1, <4>1 DEF Continues
      <3>2. \A i \in Rows : ~LiveRow(i, l)'
        BY <1>1, <1>3, <1>6, <2>1 DEF LiveRow
      <3> QED
        BY <1>1, <3>1, <3>2
    <2>2. CASE l # logins + 1
      <3>1. l \in 1 .. logins \ overlapped
        BY <1>1, <2>2
      <3>2. ~LiveRow(n + 1, l)'
        BY <1>1, <2>2 DEF LiveRow
      <3>3. \A i \in Rows' : LiveRow(i, l)' => i \in Rows /\ LiveRow(i, l)
        BY <1>1, <1>6, <3>2
      <3>4. \A q, i : FoundBy(q, i)' = FoundBy(q, i)
        BY <1>2 DEF FoundBy
      <3> QED
        BY <1>5, <3>1, <3>3, <3>4 DEF SessionsInv, OneSuccessor
    <2> QED
      BY <2>1, <2>2
  <1> QED
    BY <1>4, <1>7

(* A refresh finds a live session, so nobody else is about to continue its *)
(* login unless he found that session too.                                 *)
LEMMA FindStep ==
    ASSUME SessionsInv, NEW q \in Fetch, RefreshFind(q)
    PROVE  RowsKnown' /\ OneSuccessor'
  <1>1. UNCHANGED <<sessions, logins>> /\ Rows' = Rows
    BY DEF RefreshFind, Rows
  <1>2. call \in [Fetch -> Refresh] /\ RowsKnown /\ OneSuccessor
    BY DEF SessionsInv, TypeOK
  <1>3. CASE call' = [call EXCEPT ![q].phase = "refused"] /\ UNCHANGED overlapped
    <2>1. \A r \in Fetch : Continuing(r)' =>
             call'[r].phase = call[r].phase /\ call'[r].row = call[r].row
      BY <1>2, <1>3 DEF Continuing, Refresh
    <2> QED
      BY <1>1, <1>2, <1>3, <2>1, NothingNew
  <1>4. ASSUME NEW i \in Rows, sessions[i].live,
               call' = [call EXCEPT ![q].phase = "found", ![q].row = i],
               overlapped' = overlapped \cup
                  {sessions[i].login : c \in {d \in Fetch : FoundBy(d, i)}}
        PROVE  RowsKnown' /\ OneSuccessor'
    <2>1. /\ call'[q].phase = "found" /\ call'[q].row = i
          /\ \A r \in Fetch \ {q} : call'[r] = call[r]
      BY <1>2, <1>4 DEF Refresh
    <2>2. RowsKnown'
      BY <1>1, <1>2, <2>1 DEF RowsKnown, Continuing
    <2>3. \A l, j : LiveRow(j, l)' = LiveRow(j, l)
      BY <1>1 DEF LiveRow
    <2>4. \A l : \A r \in Fetch \ {q} : /\ Continues(r, l)' = Continues(r, l)
                                        /\ \A j : FoundBy(r, j)' = FoundBy(r, j)
      BY <1>1, <2>1 DEF Continues, Continuing, FoundBy
    <2>5. FoundBy(q, i)' /\ \A l : Continues(q, l)' => l = sessions[i].login
      BY <1>1, <2>1 DEF Continues, Continuing, FoundBy
    <2>6. OneSuccessor'
      <3> SUFFICES ASSUME NEW l \in 1 .. logins \ overlapped'
                   PROVE  /\ \A j, k \in Rows : LiveRow(j, l)' /\ LiveRow(k, l)' => j = k
                          /\ \A r, s \in Fetch : Continues(r, l)' /\ Continues(s, l)' => r = s
                          /\ \A r \in Fetch, j \in Rows :
                                Continues(r, l)' /\ LiveRow(j, l)' => FoundBy(r, j)'
        BY <1>1 DEF OneSuccessor
      <3>1. /\ l \in 1 .. logins \ overlapped
            /\ l = sessions[i].login => \A d \in Fetch : ~FoundBy(d, i)
        BY <1>4
      <3>2. CASE l = sessions[i].login
        <4>1. LiveRow(i, l)
          BY <1>4, <3>2 DEF LiveRow
        <4>2. \A r \in Fetch : ~Continues(r, l)
          BY <1>2, <3>1, <3>2, <4>1 DEF OneSuccessor
        <4>3. \A j \in Rows : LiveRow(j, l) => j = i
          BY <1>2, <3>1, <4>1 DEF OneSuccessor
        <4> QED
          BY <2>3, <2>4, <2>5, <4>2, <4>3
      <3>3. CASE l # sessions[i].login
        BY <1>2, <2>3, <2>4, <2>5, <3>1, <3>3 DEF OneSuccessor
      <3> QED
        BY <3>2, <3>3
    <2> QED
      BY <2>2, <2>6
  <1> QED
    BY <1>3, <1>4 DEF RefreshFind, Live

(* It ends the session it found ...                                        *)
LEMMA RevokeStep ==
    ASSUME SessionsInv, NEW q \in Fetch, RefreshRevoke(q)
    PROVE  RowsKnown' /\ OneSuccessor'
  <1> PICK i : i = call[q].row
    OBVIOUS
  <1>1. /\ call[q].phase = "found" /\ i \in Rows /\ RowsKnown /\ OneSuccessor
        /\ sessions' = [sessions EXCEPT ![i].live = FALSE]
        /\ call' = [call EXCEPT ![q].phase = "revoked"]
        /\ UNCHANGED <<logins, overlapped>>
    BY DEF RefreshRevoke, Revoked, SessionsInv, RowsKnown, Continuing
  <1>2. /\ Rows' = Rows /\ ~sessions'[i].live
        /\ \A j \in Rows : sessions'[j].login = sessions[j].login
        /\ \A j \in Rows \ {i} : sessions'[j] = sessions[j]
    <2>1. PICK n \in Nat : sessions \in [1 .. n -> Session] /\ Rows = 1 .. n
      BY RowCount DEF SessionsInv
    <2> QED
      BY <1>1, <2>1 DEF Rows, Session
  <1>3. /\ call'[q].phase = "revoked" /\ call'[q].row = i
        /\ \A r \in Fetch \ {q} : call'[r] = call[r]
    BY <1>1 DEF SessionsInv, TypeOK, Refresh
  <1>4. RowsKnown'
    BY <1>1, <1>2, <1>3 DEF RowsKnown, Continuing
  <1>5. \A l : \A j \in Rows : LiveRow(j, l)' => j # i /\ LiveRow(j, l)
    BY <1>2 DEF LiveRow
  <1>6. \A l : \A r \in Fetch : Continues(r, l)' => Continues(r, l)
    BY <1>1, <1>2, <1>3 DEF Continues, Continuing, RowsKnown
  <1>7. \A j : \A r \in Fetch \ {q} : FoundBy(r, j)' = FoundBy(r, j)
    BY <1>3 DEF FoundBy
  <1>8. OneSuccessor'
    <2> SUFFICES ASSUME NEW l \in 1 .. logins \ overlapped
                 PROVE  /\ \A j, k \in Rows : LiveRow(j, l)' /\ LiveRow(k, l)' => j = k
                        /\ \A r, s \in Fetch : Continues(r, l)' /\ Continues(s, l)' => r = s
                        /\ \A r \in Fetch, j \in Rows :
                              Continues(r, l)' /\ LiveRow(j, l)' => FoundBy(r, j)'
      BY <1>1, <1>2 DEF OneSuccessor
    <2>1. ASSUME NEW j \in Rows, Continues(q, l)', LiveRow(j, l)' PROVE FALSE
      <3>1. FoundBy(q, j)
        BY <1>1, <1>5, <1>6, <2>1 DEF OneSuccessor
      <3> QED
        BY <1>5, <2>1, <3>1 DEF FoundBy
    <2> QED
      BY <1>1, <1>5, <1>6, <1>7, <2>1 DEF OneSuccessor
  <1> QED
    BY <1>4, <1>8

(* ... and issues the next one, when its login has none.                   *)
LEMMA IssueStep ==
    ASSUME SessionsInv, NEW q \in Fetch, RefreshIssue(q)
    PROVE  RowsKnown' /\ OneSuccessor'
  <1> PICK m : m = sessions[call[q].row].login
    OBVIOUS
  <1>1. /\ call[q].phase = "revoked" /\ RowsKnown /\ OneSuccessor
        /\ call[q].row \in Rows /\ Continues(q, m)
        /\ UNCHANGED <<logins, overlapped>>
    BY DEF RefreshIssue, SessionsInv, RowsKnown, Continuing, Continues
  <1>2. PICK n \in 0 .. MaxSessions - 1 :
           /\ logins \in 0 .. n /\ Rows = 1 .. n /\ Rows' = 1 .. n + 1
           /\ \A i \in Rows : sessions'[i] = sessions[i]
           /\ sessions'[n + 1].login = m
    <2>1. m \in 1 .. MaxSessions
      <3>1. PICK k \in Nat : sessions \in [1 .. k -> Session] /\ Rows = 1 .. k
        BY RowCount DEF SessionsInv
      <3> QED
        BY <1>1, <3>1 DEF Session
    <2>2. TokenPairFor(m) /\ RoomForSession
      BY DEF RefreshIssue
    <2> QED
      BY <2>1, <2>2, PairAdds DEF SessionsInv
  <1>3. /\ call'[q].phase = "granted"
        /\ \A r \in Fetch \ {q} : call'[r] = call[r]
    BY DEF RefreshIssue, SessionsInv, TypeOK, Refresh
  <1>4. RowsKnown'
    BY <1>1, <1>2, <1>3 DEF RowsKnown, Continuing
  <1>5. \A l : \A r \in Fetch : Continues(r, l)' =>
           r # q /\ Continues(r, l) /\ \A j : FoundBy(r, j)' = FoundBy(r, j)
    BY <1>1, <1>2, <1>3 DEF Continues, Continuing, RowsKnown, FoundBy
  <1>6. \A l : \A j \in Rows : LiveRow(j, l)' = LiveRow(j, l)
    BY <1>2 DEF LiveRow
  <1>7. \A l : LiveRow(n + 1, l)' => l = m
    BY <1>2 DEF LiveRow
  <1>8. OneSuccessor'
    <2> SUFFICES ASSUME NEW l \in 1 .. logins \ overlapped
                 PROVE  /\ \A j, k \in Rows' : LiveRow(j, l)' /\ LiveRow(k, l)' => j = k
                        /\ \A r, s \in Fetch : Continues(r, l)' /\ Continues(s, l)' => r = s
                        /\ \A r \in Fetch, j \in Rows' :
                              Continues(r, l)' /\ LiveRow(j, l)' => FoundBy(r, j)'
      BY <1>1 DEF OneSuccessor
    <2>1. CASE l = m
      <3>1. \A r \in Fetch : ~Continues(r, l)'
        BY <1>1, <1>5, <2>1 DEF OneSuccessor
      <3>2. \A j \in Rows : ~LiveRow(j, l)'
        <4>1. \A j \in Rows : ~FoundBy(q, j)
          BY <1>1 DEF FoundBy
        <4> QED
          BY <1>1, <1>6, <2>1, <4>1 DEF OneSuccessor
      <3> QED
        BY <1>2, <3>1, <3>2
    <2>2. CASE l # m
      <3>1. \A j \in Rows' : LiveRow(j, l)' => j \in Rows /\ LiveRow(j, l)
        BY <1>2, <1>6, <1>7, <2>2
      <3> QED
        BY <1>1, <1>5, <3>1 DEF OneSuccessor
    <2> QED
      BY <2>1, <2>2
  <1> QED
    BY <1>4, <1>8

(* Every other step leaves the sessions as they are, or ends some.         *)
LEMMA OtherStep ==
    ASSUME SessionsInv, [Next]_vars, ~Login,
           \A q \in Fetch : ~RefreshFind(q) /\ ~RefreshRevoke(q) /\ ~RefreshIssue(q)
    PROVE  RowsKnown' /\ OneSuccessor'
  <1>1. /\ UNCHANGED <<logins, overlapped>>
        /\ \/ UNCHANGED sessions
           \/ sessions' = [i \in Rows |-> [sessions[i] EXCEPT !.live = FALSE]]
    BY DEF Next, ServerStep, ForgotPassword, ResetFind, ResetCommit, VerifyEmail, SetStatus,
           TabStep, Send, Accepted, Rejected, RejectedFinally, RequestLost, ProfileFailed,
           ReplyLost, RefreshSucceeds, RefreshFails, Logout, Clock, vars, serverVars
  <1>2. PICK n \in Nat : sessions \in [1 .. n -> Session] /\ Rows = 1 .. n
    BY RowCount DEF SessionsInv
  <1>3. Rows' = Rows
    BY <1>1, <1>2 DEF Rows
  <1>4. ASSUME NEW i \in Rows
        PROVE  sessions'[i].login = sessions[i].login /\ (sessions'[i].live => sessions[i].live)
    BY <1>1, <1>2 DEF Session
  <1>5. call \in [Fetch -> Refresh]
    BY DEF SessionsInv, TypeOK
  <1>6. \/ UNCHANGED call
        \/ \E q \in Fetch, phase \in {"lost"} : call' = [call EXCEPT ![q].phase = phase]
        \/ \E q \in Fetch, c \in {NoRefresh, Asked} : call' = [call EXCEPT ![q] = c]
    BY DEF Next, ServerStep, ForgotPassword, ResetFind, ResetCommit, VerifyEmail, SetStatus,
           TabStep, Send, Accepted, Rejected, ShareRefresh, RejectedFinally, RequestLost,
           ProfileFailed, ReplyLost, RefreshSucceeds, RefreshFails, Logout, Clock, vars, serverVars
  <1>7. ASSUME NEW q \in Fetch, Continuing(q)'
        PROVE  call'[q].phase = call[q].phase /\ call'[q].row = call[q].row
    <2>1. CASE UNCHANGED call
      BY <2>1
    <2>2. ASSUME NEW r \in Fetch, call' = [call EXCEPT ![r].phase = "lost"]
          PROVE  call'[q].phase = call[q].phase /\ call'[q].row = call[q].row
      BY <1>5, <1>7, <2>2 DEF Continuing, Refresh
    <2>3. ASSUME NEW r \in Fetch, NEW c, c.phase \in {"none", "asked"},
                 call' = [call EXCEPT ![r] = c]
          PROVE  call'[q].phase = call[q].phase /\ call'[q].row = call[q].row
      BY <1>5, <1>7, <2>3 DEF Continuing
    <2>4. NoRefresh.phase = "none" /\ Asked.phase = "asked"
      BY DEF NoRefresh, Asked
    <2> QED
      BY <1>6, <2>1, <2>2, <2>3, <2>4
  <1> QED
    BY <1>1, <1>3, <1>4, <1>7, NothingNew DEF SessionsInv

(* The types, part by part: the rows, the refreshes, the tab, the account. *)
LEMMA RowsTyped ==
    ASSUME SessionsInv, [Next]_vars
    PROVE  \E n \in 0 .. MaxSessions : logins' \in 0 .. n /\ sessions' \in [1 .. n -> Session]
  <1>1. PICK n \in 0 .. MaxSessions : logins \in 0 .. n /\ sessions \in [1 .. n -> Session]
                                      /\ Rows = 1 .. n
    BY RowCount DEF SessionsInv
  <1>2. CASE Login
    <2>1. logins + 1 \in 1 .. MaxSessions
      <3>1. logins \in 0 .. MaxSessions - 1
        BY <1>2, RowCount, AuthAssumption DEF Login, RoomForSession, SessionsInv
      <3> QED
        BY <3>1, AuthAssumption
    <2>2. PICK k \in 0 .. MaxSessions - 1 :
             logins \in 0 .. k /\ sessions' \in [1 .. k + 1 -> Session]
      BY <1>2, <2>1, PairAdds DEF Login, SessionsInv
    <2>3. k + 1 \in 0 .. MaxSessions /\ logins' \in 0 .. k + 1
      BY <1>2, <2>2, AuthAssumption DEF Login
    <2> QED
      BY <2>2, <2>3
  <1>3. CASE \E q \in Fetch : RefreshIssue(q)
    <2>1. PICK q \in Fetch : RefreshIssue(q)
      BY <1>3
    <2>2. call[q].row \in Rows /\ TokenPairFor(sessions[call[q].row].login)
          /\ RoomForSession /\ logins' = logins
      BY <2>1 DEF RefreshIssue, SessionsInv, RowsKnown, Continuing
    <2>3. sessions[call[q].row].login \in 1 .. MaxSessions
      BY <1>1, <2>2 DEF Session
    <2>4. PICK k \in 0 .. MaxSessions - 1 :
             logins \in 0 .. k /\ sessions' \in [1 .. k + 1 -> Session]
      BY <2>2, <2>3, PairAdds DEF SessionsInv
    <2>5. k + 1 \in 0 .. MaxSessions /\ logins' \in 0 .. k + 1
      BY <2>2, <2>4, AuthAssumption
    <2> QED
      BY <2>4, <2>5
  <1>4. CASE \E q \in Fetch : RefreshRevoke(q)
    <2>1. PICK q \in Fetch : sessions' = [sessions EXCEPT ![call[q].row].live = FALSE]
                             /\ logins' = logins
      BY <1>4 DEF RefreshRevoke, Revoked
    <2>2. sessions' \in [1 .. n -> Session]
      BY <1>1, <2>1 DEF Session
    <2> QED
      BY <1>1, <2>1, <2>2
  <1>5. CASE ResetCommit
    <2>1. sessions' = [i \in 1 .. n |-> [sessions[i] EXCEPT !.live = FALSE]] /\ logins' = logins
      BY <1>1, <1>5 DEF ResetCommit
    <2>2. sessions' \in [1 .. n -> Session]
      BY <1>1, <2>1 DEF Session
    <2> QED
      BY <1>1, <2>1, <2>2
  <1>6. CASE UNCHANGED <<sessions, logins>>
    BY <1>1, <1>6
  <1> QED
    BY <1>2, <1>3, <1>4, <1>5, <1>6
       DEF Next, ServerStep, RefreshFind, ForgotPassword, ResetFind, VerifyEmail, SetStatus,
           TabStep, Send, Accepted, Rejected, RejectedFinally, RequestLost, ProfileFailed,
           ReplyLost, RefreshSucceeds, RefreshFails, Logout, Clock, vars, serverVars

LEMMA CallsTyped ==
    ASSUME SessionsInv, [Next]_vars
    PROVE  call' \in [Fetch -> Refresh]
  <1>1. /\ call \in [Fetch -> Refresh] /\ now \in Token /\ cookie.refresh \in Token /\ logins \in Nat
        /\ Rows \subseteq 0 .. MaxSessions
    <2>1. PICK n \in 0 .. MaxSessions : logins \in 0 .. n /\ Rows = 1 .. n
      BY RowCount DEF SessionsInv
    <2>2. logins \in Nat /\ Rows \subseteq 0 .. MaxSessions
      BY <2>1, AuthAssumption
    <2>3. call \in [Fetch -> Refresh] /\ now \in Token /\ cookie.refresh \in Token
      BY DEF SessionsInv, TypeOK, Token
    <2> QED
      BY <2>2, <2>3
  <1>2. NoRefresh \in Refresh /\ Asked \in Refresh
    <2>1. NoToken \in Token /\ 0 \in 0 .. MaxSessions
      BY AuthAssumption DEF Token
    <2>2. NoRefresh \in Refresh
      BY <2>1 DEF NoRefresh, Refresh
    <2>3. \A r \in Refresh, t \in Token, n \in Nat :
             [r EXCEPT !.phase = "asked", !.token = t, !.since = n] \in Refresh
      BY DEF Refresh
    <2>4. Asked \in Refresh
      BY <1>1, <2>2, <2>3 DEF Asked
    <2> QED
      BY <2>2, <2>4
  <1>3. CASE UNCHANGED call
    BY <1>1, <1>3
  <1>4. CASE \E q \in Fetch, r \in {NoRefresh, Asked} : call' = [call EXCEPT ![q] = r]
    BY <1>1, <1>2, <1>4
  <1>5. CASE \E q \in Fetch, phase \in {"refused", "revoked", "lost"} :
                call' = [call EXCEPT ![q].phase = phase]
    BY <1>1, <1>5 DEF Refresh
  <1>6. CASE \E q \in Fetch, i \in Rows :
                call' = [call EXCEPT ![q].phase = "found", ![q].row = i]
    <2>1. PICK q \in Fetch, i \in Rows : call' = [call EXCEPT ![q].phase = "found", ![q].row = i]
      BY <1>6
    <2>2. call' = [call EXCEPT ![q] = [call[q] EXCEPT !.phase = "found", !.row = i]]
      BY <2>1, Zenon
    <2>3. \A r \in Refresh : [r EXCEPT !.phase = "found", !.row = i] \in Refresh
      BY <1>1 DEF Refresh
    <2> QED
      BY <1>1, <2>2, <2>3
  <1>7. CASE \E q \in Fetch : call' = [call EXCEPT ![q].phase = "granted", ![q].answer = now]
    <2>1. PICK q \in Fetch :
             call' = [call EXCEPT ![q] = [call[q] EXCEPT !.phase = "granted", !.answer = now]]
      BY <1>7, Zenon
    <2>2. \A r \in Refresh : [r EXCEPT !.phase = "granted", !.answer = now] \in Refresh
      BY <1>1 DEF Refresh
    <2> QED
      BY <1>1, <2>1, <2>2
  <1>8. CASE \E q \in Fetch : RefreshFind(q)
    BY <1>5, <1>6, <1>8 DEF RefreshFind
  <1>9. CASE \E q \in Fetch : RefreshRevoke(q) \/ RefreshIssue(q) \/ ReplyLost(q)
    BY <1>5, <1>7, <1>9 DEF RefreshRevoke, RefreshIssue, ReplyLost
  <1>10. CASE \E q \in Fetch : Rejected(q) \/ RefreshSucceeds(q) \/ RefreshFails(q)
    BY <1>3, <1>4, <1>10 DEF Rejected, ShareRefresh, RefreshSucceeds, RefreshFails
  <1> QED
    BY <1>3, <1>8, <1>9, <1>10
       DEF Next, ServerStep, Login, ForgotPassword, ResetFind, ResetCommit, VerifyEmail, SetStatus,
           TabStep, Send, Accepted, RejectedFinally, RequestLost, ProfileFailed, Logout, Clock,
           vars, serverVars

LEMMA TabTyped ==
    ASSUME SessionsInv, [Next]_vars
    PROVE  /\ cookie' \in [access : Token, refresh : Token]
           /\ fetch' \in [Fetch -> [phase : {"idle", "sent", "waiting", "done", "failed"},
                                    access : Token, retry : BOOLEAN]]
           /\ promise' \subseteq Fetch
  <1> DEFINE State == [phase : {"idle", "sent", "waiting", "done", "failed"},
                       access : Token, retry : BOOLEAN]
  <1>1. /\ cookie \in [access : Token, refresh : Token] /\ fetch \in [Fetch -> State]
        /\ promise \subseteq Fetch /\ now \in Token /\ \A q \in Fetch : call[q].answer \in Token
    BY DEF SessionsInv, TypeOK, Token, Refresh
  <1>2. NoToken \in Token /\ NoTokens \in [access : Token, refresh : Token] /\ Unsent \in State
    BY DEF Token, NoTokens, Unsent
  <1>3. cookie' \in [access : Token, refresh : Token]
    <2>1. \/ cookie' \in {cookie, NoTokens, [access |-> now, refresh |-> now]}
          \/ \E q \in Fetch : cookie' = [access |-> call[q].answer, refresh |-> call[q].answer]
      BY DEF Next, ServerStep, Login, RefreshFind, RefreshRevoke, RefreshIssue, ForgotPassword,
             ResetFind, ResetCommit, VerifyEmail, SetStatus, TabStep, Send, Accepted, Rejected,
             RejectedFinally, RequestLost, ProfileFailed, ReplyLost, RefreshSucceeds, RefreshFails,
             Logout, Clock, vars, serverVars
    <2> QED
      BY <1>1, <1>2, <2>1
  <1>4. promise' \subseteq Fetch
    BY <1>1
       DEF Next, ServerStep, Login, RefreshFind, RefreshRevoke, RefreshIssue, ForgotPassword,
           ResetFind, ResetCommit, VerifyEmail, SetStatus, TabStep, Send, Accepted, Rejected,
           ShareRefresh, RejectedFinally, RequestLost, ProfileFailed, ReplyLost, RefreshSucceeds,
           RefreshFails, Logout, Clock, vars, serverVars
  <1>5. fetch' \in [Fetch -> State]
    <2>1. CASE UNCHANGED fetch
      BY <1>1, <2>1
    <2>2. CASE \E q \in Fetch, r \in State : fetch' = [fetch EXCEPT ![q] = r]
      BY <1>1, <2>2
    <2>3. CASE \E q \in Fetch, phase \in {"waiting", "done", "failed"} :
                  fetch' = [fetch EXCEPT ![q].phase = phase]
      BY <1>1, <2>3
    <2>4. CASE \E q \in Fetch : Send(q)
      <3>1. [phase |-> "sent", access |-> cookie.access, retry |-> FALSE] \in State
        BY <1>1
      <3> HIDE DEF State
      <3> QED
        BY <2>2, <2>4, <3>1 DEF Send
    <2>5. CASE \E q \in Fetch : ProfileFailed(q)
      BY <1>2, <2>2, <2>5 DEF ProfileFailed
    <2>6. CASE \E q \in Fetch : Accepted(q) \/ Rejected(q) \/ RejectedFinally(q) \/ RequestLost(q)
      BY <2>3, <2>6 DEF Accepted, Rejected, RejectedFinally, RequestLost
    <2>7. CASE \E q \in Fetch : RefreshSucceeds(q)
      BY <1>1, <2>7 DEF RefreshSucceeds
    <2>8. CASE \E q \in Fetch : RefreshFails(q)
      BY <1>1, <2>8 DEF RefreshFails
    <2> QED
      BY <2>1, <2>4, <2>5, <2>6, <2>7, <2>8
         DEF Next, ServerStep, Login, RefreshFind, RefreshRevoke, RefreshIssue, ForgotPassword,
             ResetFind, ResetCommit, VerifyEmail, SetStatus, TabStep, ReplyLost, Logout, Clock,
             vars, serverVars
  <1> QED
    BY <1>3, <1>4, <1>5

LEMMA AccountTyped ==
    ASSUME SessionsInv, [Next]_vars
    PROVE  /\ now' \in Time
           /\ status' \in {"PENDING_VERIFICATION", "ACTIVE", "BLOCKED"} /\ verified' \in BOOLEAN
           /\ reset' \in [token : {"none", "issued", "used"}, call : {"none", "found", "done"}]
  <1> USE DEF SessionsInv, TypeOK
  <1>1. now' \in Time
    <2>1. CASE UNCHANGED now
      BY <2>1
    <2>2. CASE Clock
      BY <2>2, AuthAssumption DEF Clock, Time
    <2> QED
      BY <2>1, <2>2
         DEF Next, ServerStep, Login, RefreshFind, RefreshRevoke, RefreshIssue, ForgotPassword,
             ResetFind, ResetCommit, VerifyEmail, SetStatus, TabStep, Send, Accepted, Rejected,
             RejectedFinally, RequestLost, ProfileFailed, ReplyLost, RefreshSucceeds, RefreshFails,
             Logout, vars, serverVars
  <1>2. status' \in {"PENDING_VERIFICATION", "ACTIVE", "BLOCKED"} /\ verified' \in BOOLEAN
    <2>1. CASE UNCHANGED <<status, verified>>
      BY <2>1
    <2>2. CASE VerifyEmail \/ \E s \in {"ACTIVE", "BLOCKED"} : SetStatus(s)
      BY <2>2 DEF VerifyEmail, SetStatus
    <2> QED
      BY <2>1, <2>2
         DEF Next, ServerStep, Login, RefreshFind, RefreshRevoke, RefreshIssue, ForgotPassword,
             ResetFind, ResetCommit, TabStep, Send, Accepted, Rejected, RejectedFinally,
             RequestLost, ProfileFailed, ReplyLost, RefreshSucceeds, RefreshFails, Logout, Clock,
             vars, serverVars
  <1>3. reset' \in [token : {"none", "issued", "used"}, call : {"none", "found", "done"}]
    <2>1. CASE UNCHANGED reset
      BY <2>1
    <2>2. CASE ForgotPassword \/ ResetFind \/ ResetCommit
      BY <2>2 DEF ForgotPassword, ResetFind, ResetCommit
    <2> QED
      BY <2>1, <2>2
         DEF Next, ServerStep, Login, RefreshFind, RefreshRevoke, RefreshIssue, VerifyEmail,
             SetStatus, TabStep, Send, Accepted, Rejected, RejectedFinally, RequestLost,
             ProfileFailed, ReplyLost, RefreshSucceeds, RefreshFails, Logout, Clock,
             vars, serverVars
  <1> QED
    BY <1>1, <1>2, <1>3

(* Every step keeps the types, and every login its one successor.          *)
LEMMA SessionsStep == SessionsInv /\ [Next]_vars => SessionsInv'
  <1> SUFFICES ASSUME SessionsInv, [Next]_vars PROVE SessionsInv'
    OBVIOUS
  <1>1. TypeOK'
    BY RowsTyped, CallsTyped, TabTyped, AccountTyped DEF TypeOK
  <1>2. RowsKnown' /\ OneSuccessor'
    BY LoginStep, FindStep, RevokeStep, IssueStep, OtherStep
  <1> QED
    BY <1>1, <1>2 DEF SessionsInv

(* The sessions, the refreshes and the tab agree in every reachable state. *)
THEOREM SessionsInvariant == Spec => []SessionsInv
  <1> QED
    BY SessionsStart, SessionsStep, PTL DEF Spec

(* A login has at most one live session, unless two of its refreshes found *)
(* the same one.                                                           *)
THEOREM SessionsAreSingle == Spec => []OneLiveSessionPerLogin
  <1>1. SessionsInv => OneLiveSessionPerLogin
    <2> SUFFICES ASSUME SessionsInv, NEW l \in 1 .. logins \ overlapped
                 PROVE  Cardinality({i \in Rows : LiveRow(i, l)}) <= 1
      BY DEF OneLiveSessionPerLogin, LiveRow
    <2>1. CASE {i \in Rows : LiveRow(i, l)} = {}
      BY <2>1, FS_EmptySet
    <2>2. ASSUME NEW i \in Rows, LiveRow(i, l)
          PROVE  Cardinality({j \in Rows : LiveRow(j, l)}) <= 1
      <3>1. {j \in Rows : LiveRow(j, l)} = {i}
        BY <2>2 DEF SessionsInv, OneSuccessor
      <3>2. Cardinality({i}) = 1
        BY FS_Singleton
      <3> QED
        BY <3>1, <3>2
    <2> QED
      BY <2>1, <2>2
  <1> QED
    BY <1>1, SessionsInvariant, PTL

(* The refresh of the tab.  A step that begins, answers and ends no        *)
(* refresh, opens no session and stores no token keeps what is known.      *)
LEMMA TabKept ==
    ASSUME TypeOK, TabInv, UNCHANGED <<promise, logins>>,
           cookie'.refresh \in {cookie.refresh, NoToken},
           \A token : LivesOn(token)' => LivesOn(token),
           \A q \in Fetch :
              /\ call'[q].since = call[q].since /\ call'[q].token = call[q].token
              /\ call'[q].answer = call[q].answer
              /\ call[q].phase = "lost" => call'[q].phase = "lost"
              /\ call[q].phase = "none" => call'[q].phase = "none"
              /\ call'[q].phase \in {"granted", "refused"} => call'[q].phase = call[q].phase
    PROVE  TabInv'
  <1>1. OneRefresh'
    BY DEF TabInv, OneRefresh
  <1>2. ASSUME NEW q \in promise PROVE RefreshKnown(q)'
    <2>1. q \in Fetch /\ RefreshKnown(q)
      BY DEF TypeOK, TabInv
    <2> QED
      BY <2>1 DEF RefreshKnown
  <1> QED
    BY <1>1, <1>2 DEF TabInv

(* Sessions only end, or are left; time only ends them.                    *)
LEMMA NobodyRevived ==
    ASSUME TypeOK, now' \in {now, now + 1},
           \/ UNCHANGED sessions
           \/ \E i : sessions' = [sessions EXCEPT ![i].live = FALSE]
           \/ sessions' = [i \in Rows |-> [sessions[i] EXCEPT !.live = FALSE]]
    PROVE  \A token : LivesOn(token)' => LivesOn(token)
  <1>1. PICK n \in 0 .. MaxSessions : sessions \in [1 .. n -> Session]
    BY DEF TypeOK
  <1>2. Rows = 1 .. n /\ Rows' = Rows
    BY <1>1 DEF Rows
  <1>3. now \in Nat /\ SessionLife \in Nat
    BY AuthAssumption DEF TypeOK, Time
  <1>4. ASSUME NEW i \in Rows, Live(i)'
        PROVE  Live(i) /\ sessions'[i].token = sessions[i].token
    <2>1. i \in 1 .. n /\ sessions[i] \in Session /\ sessions[i].token \in Nat
      BY <1>1, <1>2, AuthAssumption DEF Session, Time
    <2>2. sessions'[i].token = sessions[i].token /\ (sessions'[i].live => sessions[i].live)
      BY <1>1, <1>2, <2>1 DEF Session
    <2> QED
      BY <1>3, <1>4, <2>1, <2>2 DEF Live
  <1> QED
    BY <1>2, <1>4 DEF LivesOn

LEMMA TabStart == Init => TabInv
  BY DEF Init, TabInv, OneRefresh, NoRefresh

LEMMA TabServerStep ==
    ASSUME TypeOK, TypeOK', TabInv, ServerStep \/ Clock \/ UNCHANGED vars
    PROVE  TabInv'
  <1>1. call \in [Fetch -> Refresh] /\ logins \in Nat /\ cookie \in [access : Token, refresh : Token]
        /\ promise \subseteq Fetch
    BY AuthAssumption DEF TypeOK
  <1>2. CASE Login
    <2>1. OneRefresh'
      BY <1>2 DEF Login, TabInv, OneRefresh
    <2>2. ASSUME NEW q \in promise PROVE RefreshKnown(q)'
      <3>1. RefreshKnown(q) /\ call[q].since \in Nat
        BY <1>1 DEF TabInv, Refresh
      <3>2. call' = call /\ logins' = logins + 1
        BY <1>2 DEF Login
      <3> QED
        BY <1>1, <3>1, <3>2 DEF RefreshKnown
    <2>3. promise' = promise
      BY <1>2 DEF Login
    <2> QED
      BY <2>1, <2>2, <2>3 DEF TabInv
  <1>3. ASSUME NEW q \in Fetch, RefreshFind(q) PROVE TabInv'
    <2>1. UNCHANGED <<promise, logins, cookie, sessions, now>> /\ call[q].phase = "asked"
      BY <1>3 DEF RefreshFind
    <2>2. /\ \A r \in Fetch \ {q} : call'[r] = call[r]
          /\ call'[q].since = call[q].since /\ call'[q].token = call[q].token
          /\ call'[q].phase \in {"refused", "found"}
          /\ call'[q].phase = "refused" => ~ LivesOn(call[q].token)
      BY <1>1, <1>3 DEF RefreshFind, Refresh, LivesOn
    <2>3. \A token : LivesOn(token)' <=> LivesOn(token)
      BY <2>1 DEF LivesOn, Live, Rows
    <2>4. OneRefresh'
      BY <2>1, <2>2 DEF TabInv, OneRefresh
    <2>5. ASSUME NEW r \in promise PROVE RefreshKnown(r)'
      <3>1. RefreshKnown(r) /\ r \in Fetch
        BY <1>1 DEF TabInv
      <3> QED
        BY <2>1, <2>2, <2>3, <3>1 DEF RefreshKnown
    <2> QED
      BY <2>1, <2>4, <2>5 DEF TabInv
  <1>4. ASSUME NEW q \in Fetch, RefreshRevoke(q) PROVE TabInv'
    <2>1. /\ UNCHANGED <<promise, logins, cookie, now>>
          /\ sessions' = [sessions EXCEPT ![call[q].row].live = FALSE]
          /\ call[q].phase = "found" /\ call' = [call EXCEPT ![q].phase = "revoked"]
      BY <1>4 DEF RefreshRevoke, Revoked
    <2>2. \A token : LivesOn(token)' => LivesOn(token)
      BY <2>1, NobodyRevived
    <2> QED
      BY <1>1, <2>1, <2>2, TabKept DEF Refresh
  <1>5. ASSUME NEW q \in Fetch, RefreshIssue(q) PROVE TabInv'
    <2>1. /\ UNCHANGED <<promise, logins, cookie, now>> /\ call[q].phase = "revoked"
          /\ call' = [call EXCEPT ![q].phase = "granted", ![q].answer = now]
      BY <1>5 DEF RefreshIssue
    <2>2. \A r \in promise : r = q
      BY <2>1 DEF TabInv, OneRefresh
    <2>3. /\ call'[q].since = call[q].since /\ call'[q].token = call[q].token
          /\ call'[q].phase = "granted" /\ call'[q].answer = now
          /\ \A r \in Fetch \ {q} : call'[r] = call[r]
      BY <1>1, <2>1 DEF Refresh
    <2>4. now # NoToken
      BY AuthAssumption DEF TypeOK, Time, NoToken
    <2>5. OneRefresh'
      BY <2>1, <2>3 DEF TabInv, OneRefresh
    <2>6. ASSUME NEW r \in promise PROVE RefreshKnown(r)'
      <3>1. r = q /\ RefreshKnown(q)
        BY <2>2, <2>6 DEF TabInv
      <3> QED
        BY <2>1, <2>3, <2>4, <3>1 DEF RefreshKnown
    <2> QED
      BY <2>1, <2>5, <2>6 DEF TabInv
  <1>6. CASE \/ ForgotPassword \/ ResetFind \/ ResetCommit \/ VerifyEmail \/ Clock \/ UNCHANGED vars
             \/ \E s \in {"ACTIVE", "BLOCKED"} : SetStatus(s)
    <2>1. UNCHANGED <<promise, logins, cookie, call>>
      BY <1>6 DEF ForgotPassword, ResetFind, ResetCommit, VerifyEmail, Clock, SetStatus, vars
    <2>2. now' \in {now, now + 1}
      BY <1>6 DEF ForgotPassword, ResetFind, ResetCommit, VerifyEmail, Clock, SetStatus, vars
    <2>3. UNCHANGED sessions \/ sessions' = [i \in Rows |-> [sessions[i] EXCEPT !.live = FALSE]]
      BY <1>6 DEF ForgotPassword, ResetFind, ResetCommit, VerifyEmail, Clock, SetStatus, vars
    <2>4. \A token : LivesOn(token)' => LivesOn(token)
      BY <2>2, <2>3, NobodyRevived
    <2> QED
      BY <2>1, <2>4, TabKept
  <1> QED
    BY <1>2, <1>3, <1>4, <1>5, <1>6 DEF ServerStep

LEMMA TabOwnStep ==
    ASSUME TypeOK, TypeOK', TabInv, TabStep
    PROVE  TabInv'
  <1>1. call \in [Fetch -> Refresh] /\ logins \in Nat /\ cookie \in [access : Token, refresh : Token]
        /\ promise \subseteq Fetch
    BY AuthAssumption DEF TypeOK
  <1>2. UNCHANGED serverVars
    BY DEF TabStep, Send, Accepted, Rejected, RejectedFinally, RequestLost, ProfileFailed,
           ReplyLost, RefreshSucceeds, RefreshFails, Logout
  <1>3. UNCHANGED <<logins, sessions, now>> /\ \A token : LivesOn(token)' <=> LivesOn(token)
    BY <1>2 DEF serverVars, LivesOn, Live, Rows
  <1>4. ASSUME UNCHANGED <<call, promise>>, cookie' \in {cookie, NoTokens} PROVE TabInv'
    <2>1. cookie'.refresh \in {cookie.refresh, NoToken}
      BY <1>4 DEF NoTokens
    <2> QED
      BY <1>3, <1>4, <2>1, TabKept
  <1>5. CASE \/ \E q \in Fetch : \/ Send(q) \/ Accepted(q) \/ RejectedFinally(q)
                                \/ RequestLost(q) \/ ProfileFailed(q)
             \/ Logout
    BY <1>4, <1>5 DEF Send, Accepted, RejectedFinally, RequestLost, ProfileFailed, Logout
  <1>6. ASSUME NEW q \in Fetch, Rejected(q) PROVE TabInv'
    <2>1. CASE promise # {}
      BY <1>4, <1>6, <2>1 DEF Rejected, ShareRefresh
    <2>2. CASE promise = {}
      <3>1. promise' = {q} /\ call' = [call EXCEPT ![q] = Asked] /\ cookie' = cookie
        BY <1>6, <2>2 DEF Rejected, ShareRefresh
      <3>2. \A r \in Fetch \ {q} : call'[r].phase = "none"
        BY <1>1, <2>2, <3>1 DEF TabInv, OneRefresh
      <3>3. call'[q].phase = "asked" /\ call'[q].token = cookie.refresh /\ call'[q].since = logins
        BY <1>1, <3>1 DEF Asked, NoRefresh
      <3> QED
        BY <1>1, <1>3, <3>1, <3>2, <3>3 DEF TabInv, OneRefresh, RefreshKnown
    <2> QED
      BY <2>1, <2>2
  <1>7. ASSUME NEW q \in Fetch, ReplyLost(q) PROVE TabInv'
    <2>1. UNCHANGED <<promise, cookie>> /\ call' = [call EXCEPT ![q].phase = "lost"]
          /\ call[q].phase # "none"
      BY <1>7 DEF ReplyLost
    <2> QED
      BY <1>1, <1>3, <2>1, TabKept DEF Refresh
  <1>8. ASSUME NEW q \in Fetch, RefreshSucceeds(q) \/ RefreshFails(q) PROVE TabInv'
    <2>1. q \in promise /\ promise' = promise \ {q} /\ call' = [call EXCEPT ![q] = NoRefresh]
      BY <1>8 DEF RefreshSucceeds, RefreshFails
    <2>2. promise' = {}
      BY <2>1 DEF TabInv, OneRefresh
    <2>3. \A r \in Fetch : call'[r].phase = "none"
      BY <1>1, <2>1 DEF TabInv, OneRefresh, NoRefresh
    <2> QED
      BY <2>2, <2>3 DEF TabInv, OneRefresh
  <1> QED
    BY <1>5, <1>6, <1>7, <1>8 DEF TabStep

(* In every reachable state one refresh is under way at most, and it has   *)
(* the token of the tab, unless the user logged in meanwhile.              *)
THEOREM TabInvariant == Spec => []TabInv
  <1>1. TypeOK /\ TypeOK' /\ TabInv /\ [Next]_vars => TabInv'
    BY TabServerStep, TabOwnStep DEF Next
  <1>2. SessionsInv => TypeOK
    BY DEF SessionsInv
  <1> QED
    BY <1>1, <1>2, TabStart, SessionsInvariant, PTL DEF Spec

(* A refresh that ends takes a token the server would still accept from    *)
(* the tab only when its answer was lost or the user logged in meanwhile:  *)
(* requests that are refused together never sign the user out.             *)
THEOREM OnlyDeadTokensAreGivenUp == Spec => GivesUpOnlyDeadTokens
  <1> DEFINE Dead == promise' # promise /\ cookie' = NoTokens =>
                        \/ ~ \E i \in Rows : Live(i) /\ sessions[i].token = cookie.refresh
                        \/ \E q \in promise : call[q].phase = "lost" \/ call[q].since # logins
  <1>1. ASSUME TypeOK, TabInv, [Next]_vars PROVE [Dead]_vars
    <2> SUFFICES ASSUME promise' # promise, cookie' = NoTokens,
                        \A q \in promise : call[q].phase # "lost" /\ call[q].since = logins
                 PROVE  ~ LivesOn(cookie.refresh)
      BY DEF LivesOn
    <2>1. PICK q \in Fetch : Rejected(q) \/ RefreshSucceeds(q) \/ RefreshFails(q)
      BY <1>1 DEF Next, ServerStep, Login, RefreshFind, RefreshRevoke, RefreshIssue, ForgotPassword,
             ResetFind, ResetCommit, VerifyEmail, SetStatus, TabStep, Send, Accepted,
             RejectedFinally, RequestLost, ProfileFailed, ReplyLost, Logout, Clock, vars
    <2>2. ~ Rejected(q)
      BY DEF Rejected, NoTokens
    <2>3. ~ RefreshSucceeds(q)
      <3>1. SUFFICES ASSUME RefreshSucceeds(q) PROVE FALSE
        OBVIOUS
      <3>2. cookie'.refresh = call[q].answer /\ RefreshKnown(q) /\ call[q].phase = "granted"
        BY <1>1, <3>1 DEF RefreshSucceeds, TabInv
      <3>3. cookie'.refresh = NoToken
        BY DEF NoTokens
      <3> QED
        BY <3>2, <3>3 DEF RefreshKnown
    <2>4. q \in promise /\ call[q].phase = "refused" /\ RefreshKnown(q)
      BY <1>1, <2>1, <2>2, <2>3 DEF RefreshFails, TabInv
    <2>5. ~ LivesOn(NoToken)
      BY <1>1, AuthAssumption DEF LivesOn, TypeOK, Session, Time, NoToken, Rows
    <2> QED
      BY <2>4, <2>5 DEF RefreshKnown
  <1>2. SessionsInv => TypeOK
    BY DEF SessionsInv
  <1> QED
    BY <1>1, <1>2, TabInvariant, SessionsInvariant, PTL DEF Spec, GivesUpOnlyDeadTokens

-----------------------------------------------------------------------------
(* The catalogue.  What a stored row has in its columns.                   *)
LEMMA RowFields ==
    ASSUME NEW l \in LotRow
    PROVE  /\ l.auctionTime \in Hour /\ l.listingObservedAt \in Hour
           /\ l.lastProviderUpdateAt \in Hour /\ l.lastSeenAt \in Int
           /\ l.priceObservedAt \in Hour /\ l.nextRefreshAt \in Hour
           /\ l.currentBidUsd \in Price /\ l.buyNowUsd \in Price
           /\ l.isBuyNow \in BOOLEAN /\ l.availabilityConfirmed \in BOOLEAN
           /\ l.consecutiveMisses \in Nat
           /\ l.state \in {"DISCOVERED", "IMPORTED"}
           /\ l.freshnessState \in {"FRESH", "STALE", "TERMINAL"}
           /\ l.providerResultState \in {"UNKNOWN", "RESULT_PENDING"} \cup TerminalResults
           /\ l.lifecycleState \in {"UPCOMING", "OPEN", "LIVE", "ENDED", "SOLD", "REMOVED",
                                    "NOT_READY"}
           /\ l.freshnessTier \in {"HOT", "WARM", "COLD"} /\ l.terminalAt \in Hour
  BY DEF LotRow

LEMMA AtLeastOf ==
    ASSUME NEW a \in Hour, NEW t \in Int
    PROVE  AtLeast(a, t) <=> a \in Int /\ a >= t
  BY NullAssumption DEF AtLeast, Hour

(* What a sighting makes of a row keeps its types, and a life that ends    *)
(* with its result.                                                        *)
Kept(row) ==
    /\ row.priceObservedAt \in Hour /\ row.terminalAt \in Hour /\ row.nextRefreshAt \in Hour
    /\ row.state \in {"DISCOVERED", "IMPORTED"} /\ row.freshnessTier \in {"HOT", "WARM", "COLD"}

LEMMA ObservedIsRow ==
    ASSUME NEW row, Kept(row), NEW s \in Sighted, NEW schedule \in Hour, NEW t \in Int,
           schedule = Null => AuctionAtUtc(s) = Null
    PROVE  LET seen == Observed(row, s, schedule, t)
           IN  /\ seen \in LotRow /\ EndsWithResult(seen)
               /\ seen.isBuyNow = s.isBuyNow /\ seen.buyNowUsd = s.buyNowUsd
  <1> DEFINE seen == Observed(row, s, schedule, t)
             result == ResultOf(s, schedule, t)
             life == LifecycleOf(s, schedule, t)
             at == AuctionAtUtc(s)
  <1>1. /\ s.at \in Hour /\ s.ad \in Hour /\ s.zone \in {"offset", "facility", "nothing"}
        /\ s.auctionState \in AuctionState /\ s.fault \in Flaw /\ s.isBuyNow \in BOOLEAN
        /\ s.buyNowUsd \in Price /\ s.currentBidUsd \in Price /\ s.hasPricing \in BOOLEAN
    BY DEF Sighted
  <1>2. at \in Hour /\ Evidence(s) \in {"offset", "facility", "nothing"}
    BY <1>1, NullAssumption DEF AuctionAtUtc, Evidence, Hour, FacilityBehind
  <1>3. result \in {"UNKNOWN", "RESULT_PENDING"} \cup TerminalResults
    BY DEF ResultOf, TerminalResults
  <1>4. life \in {"UPCOMING", "OPEN", "LIVE", "ENDED", "SOLD", "REMOVED", "NOT_READY"}
    BY DEF LifecycleOf
  <1>5. FreshnessOf(life) \in {"FRESH", "STALE", "TERMINAL"}
    BY DEF FreshnessOf
  <1>6. /\ IsTerminal(result) => life \in {"ENDED", "SOLD", "REMOVED"}
        /\ life \in {"SOLD", "REMOVED"} => IsTerminal(result)
        /\ life = "NOT_READY" => at = Null
    BY <1>1 DEF IsTerminal, TerminalResults, ResultOf, LifecycleOf, AuctionState
  <1>7. t \in Hour /\ (IF s.hasPricing THEN t ELSE row.priceObservedAt) \in Hour
        /\ (IF IsTerminal(result) THEN t ELSE row.terminalAt) \in Hour
    BY DEF Hour, Kept
  <1>8. seen = [auctionState |-> s.auctionState, fault |-> s.fault,
     auctionTime |-> at, evidence |-> Evidence(s),
     providerResultState |-> result,
     lifecycleState |-> life, freshnessState |-> FreshnessOf(life),
     currentBidUsd |-> s.currentBidUsd, buyNowUsd |-> s.buyNowUsd, isBuyNow |-> s.isBuyNow,
     listingObservedAt |-> t, lastProviderUpdateAt |-> t, lastSeenAt |-> t,
     priceObservedAt |-> IF s.hasPricing THEN t ELSE row.priceObservedAt,
     terminalAt |-> IF IsTerminal(result) THEN t ELSE row.terminalAt,
     consecutiveMisses |-> 0, availabilityConfirmed |-> TRUE,
     state |-> row.state, freshnessTier |-> row.freshnessTier,
     nextRefreshAt |-> row.nextRefreshAt]
    BY DEF Observed
  <1> HIDE DEF result, life, at, seen
  <1>9. seen \in LotRow
    BY <1>1, <1>2, <1>3, <1>4, <1>5, <1>7, <1>8 DEF LotRow, Kept
  <1>10. EndsWithResult(seen)
    BY <1>6, <1>8 DEF EndsWithResult
  <1> QED
    BY <1>8, <1>9, <1>10 DEF seen

LEMMA StoredIsKeptRow ==
    ASSUME lot # Null => RowOK(lot)
    PROVE  Kept(Stored(lot))
  <1>1. CASE lot = Null
    BY <1>1 DEF Stored, NewLot, Kept, Hour
  <1>2. CASE lot # Null
    BY <1>2, RowFields DEF Stored, Kept, RowOK
  <1> QED
    BY <1>1, <1>2

LEMMA WrittenRowsAreOK ==
    ASSUME NEW row, Kept(row), NEW s \in Sighted, NEW schedule \in Hour, NEW t \in Int,
           schedule = Null => AuctionAtUtc(s) = Null
    PROVE  RowOK(DiscoveredRow(row, s, schedule, t)) /\ RowOK(SearchedRow(row, s, schedule, t))
  <1> DEFINE seen == Observed(row, s, schedule, t)
  <1>1. /\ seen \in LotRow /\ EndsWithResult(seen)
        /\ seen.isBuyNow = s.isBuyNow /\ seen.buyNowUsd = s.buyNowUsd
    BY ObservedIsRow
  <1>2. DiscoveredRow(row, s, schedule, t) =
          [seen EXCEPT !.isBuyNow = OffersBuyNow(s) /\ ~IsTerminal(seen.providerResultState),
                       !.buyNowUsd = IF OffersBuyNow(s) THEN seen.buyNowUsd ELSE Null]
    BY DEF DiscoveredRow
  <1>3. SearchedRow(row, s, schedule, t) =
          [seen EXCEPT !.isBuyNow = OffersBuyNow(s) /\ ~IsTerminal(seen.providerResultState),
                       !.buyNowUsd = IF OffersBuyNow(s) /\ ~IsTerminal(seen.providerResultState)
                                     THEN seen.buyNowUsd ELSE Null]
    BY DEF SearchedRow
  <1>4. OffersBuyNow(s) => Positive(seen.buyNowUsd)
    BY <1>1 DEF OffersBuyNow
  <1> HIDE DEF seen
  <1>5. ASSUME NEW flag \in BOOLEAN, NEW price \in Price
        PROVE  LET r == [seen EXCEPT !.isBuyNow = flag, !.buyNowUsd = price]
               IN  /\ r \in LotRow /\ EndsWithResult(r)
                   /\ r.isBuyNow = flag /\ r.buyNowUsd = price
                   /\ r.providerResultState = seen.providerResultState
    <2> DEFINE r == [seen EXCEPT !.isBuyNow = flag, !.buyNowUsd = price]
    <2>1. r \in LotRow
      BY <1>1 DEF LotRow
    <2>2. /\ r.isBuyNow = flag /\ r.buyNowUsd = price
          /\ r.providerResultState = seen.providerResultState
          /\ r.lifecycleState = seen.lifecycleState /\ r.auctionTime = seen.auctionTime
      BY <1>1 DEF LotRow
    <2> HIDE DEF r
    <2>3. EndsWithResult(r)
      BY <1>1, <2>2 DEF EndsWithResult
    <2> QED
      BY <2>1, <2>2, <2>3 DEF r
  <1>6. ~Positive(Null)
    BY DEF Positive
  <1>7. seen.buyNowUsd \in Price /\ Null \in Price
    BY <1>1, RowFields DEF Price
  <1>8. ASSUME NEW flag \in BOOLEAN, NEW price \in Price,
               flag => Positive(price), Positive(price) => flag \/ IsTerminal(seen.providerResultState)
        PROVE  RowOK([seen EXCEPT !.isBuyNow = flag, !.buyNowUsd = price])
    BY <1>5, <1>8 DEF RowOK, BuyNowPriced
  <1>9. OffersBuyNow(s) \in BOOLEAN /\ IsTerminal(seen.providerResultState) \in BOOLEAN
    <2>1. s.isBuyNow \in BOOLEAN
      BY DEF Sighted
    <2> QED
      BY <2>1 DEF OffersBuyNow, Positive, IsTerminal
  <1> QED
    BY <1>2, <1>3, <1>4, <1>6, <1>7, <1>8, <1>9

(* A price that a write keeps was observed before it.                      *)
LEMMA WrittenInOrder ==
    ASSUME NEW row, NEW s, NEW schedule, NEW t \in Int,
           row.priceObservedAt # Null => row.priceObservedAt <= t
    PROVE  /\ ObservedInOrder(DiscoveredRow(row, s, schedule, t), t)
           /\ ObservedInOrder(SearchedRow(row, s, schedule, t), t)
  <1> DEFINE seen == Observed(row, s, schedule, t)
  <1>1. /\ seen.lastProviderUpdateAt = t /\ seen.listingObservedAt = t
        /\ seen.priceObservedAt = IF s.hasPricing THEN t ELSE row.priceObservedAt
    BY DEF Observed
  <1>2. /\ DiscoveredRow(row, s, schedule, t).lastProviderUpdateAt = t
        /\ DiscoveredRow(row, s, schedule, t).priceObservedAt = seen.priceObservedAt
        /\ SearchedRow(row, s, schedule, t).lastProviderUpdateAt = t
        /\ SearchedRow(row, s, schedule, t).priceObservedAt = seen.priceObservedAt
        /\ DiscoveredRow(row, s, schedule, t).listingObservedAt = seen.listingObservedAt
        /\ SearchedRow(row, s, schedule, t).listingObservedAt = seen.listingObservedAt
    BY DEF DiscoveredRow, SearchedRow, Observed
  <1>3. t <= t /\ t # Null
    BY NullAssumption
  <1> HIDE DEF seen
  <1> QED
    BY <1>1, <1>2, <1>3 DEF ObservedInOrder

LEMMA KeptPriceIsPast ==
    ASSUME lot # Null => RowOK(lot) /\ ObservedInOrder(lot, hour), hour \in Int
    PROVE  Stored(lot).priceObservedAt # Null => Stored(lot).priceObservedAt <= hour
  <1>1. CASE lot = Null
    BY <1>1 DEF Stored, NewLot
  <1>2. CASE lot # Null
    <2>1. lot.priceObservedAt \in Hour /\ lot.lastProviderUpdateAt \in Hour
      BY <1>2, RowFields DEF RowOK
    <2> QED
      BY <1>2, <2>1 DEF Stored, ObservedInOrder, Hour
  <1> QED
    BY <1>1, <1>2

LEMMA OrderIsKept ==
    ASSUME NEW l, RowOK(l), NEW r, NEW t \in Int, NEW u \in Int, t <= u, ObservedInOrder(l, t),
           r.lastProviderUpdateAt = l.lastProviderUpdateAt, r.priceObservedAt = l.priceObservedAt,
           r.listingObservedAt = l.listingObservedAt
    PROVE  ObservedInOrder(r, u)
  <1>1. l.lastProviderUpdateAt \in Hour
    BY RowFields DEF RowOK
  <1> QED
    BY <1>1 DEF ObservedInOrder, Hour

(* What the scheduler rewrites of a row is nothing the public decision     *)
(* reads: its life, its tier, its freshness.                               *)
SameTruth(l, r) ==
    /\ r.providerResultState = l.providerResultState
    /\ r.availabilityConfirmed = l.availabilityConfirmed /\ r.state = l.state
    /\ r.consecutiveMisses = l.consecutiveMisses /\ r.auctionTime = l.auctionTime
    /\ r.listingObservedAt = l.listingObservedAt
    /\ r.lastProviderUpdateAt = l.lastProviderUpdateAt /\ r.lastSeenAt = l.lastSeenAt
    /\ r.priceObservedAt = l.priceObservedAt

LEMMA LifeRewritten ==
    ASSUME NEW l, RowOK(l), ~IsTerminal(l.providerResultState)
    PROVE  LET r == [l EXCEPT !.lifecycleState = "UPCOMING"] IN RowOK(r) /\ SameTruth(l, r)
  <1> DEFINE r == [l EXCEPT !.lifecycleState = "UPCOMING"]
  <1>1. r \in LotRow /\ r.isBuyNow = l.isBuyNow /\ r.buyNowUsd = l.buyNowUsd
        /\ r.lifecycleState = "UPCOMING" /\ SameTruth(l, r)
    BY DEF RowOK, LotRow, SameTruth
  <1> HIDE DEF r
  <1> QED
    BY <1>1 DEF RowOK, BuyNowPriced, EndsWithResult, SameTruth, r

LEMMA TierRewritten ==
    ASSUME NEW l, RowOK(l), NEW tier \in {"HOT", "WARM", "COLD"}, NEW at \in Hour
    PROVE  LET r == [l EXCEPT !.freshnessTier = tier, !.nextRefreshAt = at]
           IN  RowOK(r) /\ SameTruth(l, r)
  <1> DEFINE r == [l EXCEPT !.freshnessTier = tier, !.nextRefreshAt = at]
  <1>1. r \in LotRow /\ r.isBuyNow = l.isBuyNow /\ r.buyNowUsd = l.buyNowUsd
        /\ r.lifecycleState = l.lifecycleState /\ SameTruth(l, r)
    BY DEF RowOK, LotRow, SameTruth
  <1> HIDE DEF r
  <1> QED
    BY <1>1 DEF RowOK, BuyNowPriced, EndsWithResult, SameTruth, r

LEMMA FreshnessRewritten ==
    ASSUME NEW l, RowOK(l), NEW fresh \in {"FRESH", "STALE"}
    PROVE  LET r == [l EXCEPT !.freshnessState = fresh] IN RowOK(r) /\ SameTruth(l, r)
  <1> DEFINE r == [l EXCEPT !.freshnessState = fresh]
  <1>1. r \in LotRow /\ r.isBuyNow = l.isBuyNow /\ r.buyNowUsd = l.buyNowUsd
        /\ r.lifecycleState = l.lifecycleState /\ SameTruth(l, r)
    BY DEF RowOK, LotRow, SameTruth
  <1> HIDE DEF r
  <1> QED
    BY <1>1 DEF RowOK, BuyNowPriced, EndsWithResult, SameTruth, r

LEMMA ReconciledIsOK ==
    ASSUME NEW l, RowOK(l), hour \in Int
    PROVE  LET r == Cleared(Refreshed(Tiered(Recovered(l)))) IN RowOK(r) /\ SameTruth(l, r)
  <1>1. \A m : RowOK(m) => RowOK(Recovered(m)) /\ SameTruth(m, Recovered(m))
    <2> SUFFICES ASSUME NEW m, RowOK(m) PROVE RowOK(Recovered(m)) /\ SameTruth(m, Recovered(m))
      OBVIOUS
    <2>1. m.providerResultState \in {"UNKNOWN", "RESULT_PENDING"}
          => ~IsTerminal(m.providerResultState)
      BY DEF IsTerminal, TerminalResults
    <2>2. CASE Recovered(m) = m
      BY <2>2 DEF SameTruth
    <2>3. CASE Recovered(m) # m
      <3>1. m.providerResultState \in {"UNKNOWN", "RESULT_PENDING"}
            /\ Recovered(m) = [m EXCEPT !.lifecycleState = "UPCOMING"]
        BY <2>3 DEF Recovered
      <3> QED
        BY <2>1, <3>1, LifeRewritten
    <2> QED
      BY <2>2, <2>3
  <1>2. \A h \in Int : h \in Hour /\ hour + h \in Hour /\ Null \in Hour
    BY DEF Hour
  <1>3. \A m : RowOK(m) => RowOK(Tiered(m)) /\ SameTruth(m, Tiered(m))
    <2> SUFFICES ASSUME NEW m, RowOK(m) PROVE RowOK(Tiered(m)) /\ SameTruth(m, Tiered(m))
      OBVIOUS
    <2>1. Tiered(m) \in {m, InTier(m, "COLD", 12), InTier(m, "HOT", 1), InTier(m, "WARM", 2)}
      BY DEF Tiered
    <2>2. SameTruth(m, m)
      BY DEF SameTruth
    <2>3. \A tier \in {"HOT", "WARM", "COLD"}, h \in Int :
             RowOK(InTier(m, tier, h)) /\ SameTruth(m, InTier(m, tier, h))
      BY <1>2, TierRewritten DEF InTier
    <2> QED
      BY <2>1, <2>2, <2>3
  <1>4. \A m : RowOK(m) => RowOK(Refreshed(m)) /\ SameTruth(m, Refreshed(m))
    BY FreshnessRewritten DEF Refreshed, SameTruth
  <1>5. \A m : RowOK(m) => RowOK(Cleared(m)) /\ SameTruth(m, Cleared(m))
    BY <1>2, TierRewritten DEF Cleared, SameTruth
  <1>6. \A a, b, c : SameTruth(a, b) /\ SameTruth(b, c) => SameTruth(a, c)
    BY DEF SameTruth
  <1> DEFINE r1 == Recovered(l)
             r2 == Tiered(r1)
             r3 == Refreshed(r2)
             r4 == Cleared(r3)
  <1>7. RowOK(r1) /\ SameTruth(l, r1)
    BY <1>1
  <1> HIDE DEF r1
  <1>8. RowOK(r2) /\ SameTruth(l, r2)
    BY <1>3, <1>6, <1>7
  <1> HIDE DEF r2
  <1>9. RowOK(r3) /\ SameTruth(l, r3)
    BY <1>4, <1>6, <1>8
  <1> HIDE DEF r3
  <1>10. RowOK(r4) /\ SameTruth(l, r4)
    BY <1>5, <1>6, <1>9
  <1> QED
    BY <1>10 DEF r1, r2, r3

LEMMA CatalogStart == CatalogInit => CatalogInv
  BY CatalogAssumption DEF CatalogInit, CatalogInv

LEMMA CatalogStep == CatalogInv /\ [CatalogNext]_catalogVars => CatalogInv'
  <1> SUFFICES ASSUME CatalogInv, [CatalogNext]_catalogVars PROVE CatalogInv'
    OBVIOUS
  <1>1. hour \in Int /\ hour \in Nat /\ Null \notin Int /\ LastHour \in Nat /\ Stride \in Nat
        /\ Sightings(hour) \subseteq Sighted /\ Null \in Hour
    BY NullAssumption, CatalogAssumption DEF CatalogInv, Hour
  <1>2. Kept(Stored(lot)) /\ (lot # Null => RowOK(lot) /\ ObservedInOrder(lot, hour))
    BY StoredIsKeptRow DEF CatalogInv
  <1>0. Stored(lot).priceObservedAt # Null => Stored(lot).priceObservedAt <= hour
    BY <1>1, <1>2, KeptPriceIsPast
  <1>3. ASSUME NEW s \in Sightings(hour), DiscoveryPage(s) PROVE CatalogInv'
    <2>1. s \in Sighted /\ s.at \in Hour
      BY <1>1 DEF Sighted
    <2>2. s.at = Null => AuctionAtUtc(s) = Null
      BY DEF AuctionAtUtc
    <2>3. RowOK(DiscoveredRow(Stored(lot), s, s.at, hour))
          /\ ObservedInOrder(DiscoveredRow(Stored(lot), s, s.at, hour), hour)
      BY <1>0, <1>1, <1>2, <2>1, <2>2, WrittenRowsAreOK, WrittenInOrder
    <2> QED
      BY <1>3, <2>3 DEF DiscoveryPage, CatalogInv
  <1>4. ASSUME NEW s \in Sightings(hour), SearchAnswers(s) PROVE CatalogInv'
    BY <1>1, <1>4 DEF SearchAnswers, CatalogInv
  <1>5. ASSUME SearchStores PROVE CatalogInv'
    <2> DEFINE schedule == Coalesce(AuctionAtUtc(answer), answer.ad)
    <2>1. answer \in Sighted
      BY <1>5 DEF SearchStores, CatalogInv
    <2>2. answer.at \in Hour /\ answer.ad \in Hour
      BY <2>1 DEF Sighted
    <2>3. AuctionAtUtc(answer) \in Hour
      BY <1>1, <2>2 DEF AuctionAtUtc, Hour, FacilityBehind
    <2>4. schedule \in Hour /\ (schedule = Null => AuctionAtUtc(answer) = Null)
      BY <2>2, <2>3 DEF Coalesce
    <2>5. RowOK(SearchedRow(Stored(lot), answer, schedule, hour))
          /\ ObservedInOrder(SearchedRow(Stored(lot), answer, schedule, hour), hour)
      BY <1>0, <1>1, <1>2, <2>1, <2>4, WrittenRowsAreOK, WrittenInOrder
    <2> QED
      BY <1>5, <2>5 DEF SearchStores, CatalogInv
  <1>6. ASSUME CountMiss PROVE CatalogInv'
    <2>1. RowOK(lot) /\ lot' = [lot EXCEPT !.consecutiveMisses = lot.consecutiveMisses + 1]
          /\ UNCHANGED <<hour, answer>>
      BY <1>2, <1>6 DEF CountMiss
    <2>2. lot' \in LotRow /\ lot'.isBuyNow = lot.isBuyNow /\ lot'.buyNowUsd = lot.buyNowUsd
          /\ lot'.providerResultState = lot.providerResultState
          /\ lot'.lifecycleState = lot.lifecycleState /\ lot'.auctionTime = lot.auctionTime
          /\ lot'.lastProviderUpdateAt = lot.lastProviderUpdateAt
          /\ lot'.priceObservedAt = lot.priceObservedAt
          /\ lot'.listingObservedAt = lot.listingObservedAt
      BY <2>1 DEF RowOK, LotRow
    <2>3. ObservedInOrder(lot', hour)
      <3>1. ObservedInOrder(lot, hour) /\ hour <= hour
        BY <1>1, <1>2, <1>6 DEF CountMiss
      <3>2. RowOK(lot)
        BY <2>1
      <3> QED
        BY <1>1, <2>2, <3>1, <3>2, OrderIsKept
    <2> QED
      BY <2>1, <2>2, <2>3 DEF CatalogInv, RowOK, BuyNowPriced, EndsWithResult
  <1>7. ASSUME Reconcile PROVE CatalogInv'
    <2>1. RowOK(lot') /\ SameTruth(lot, lot') /\ lot # Null /\ UNCHANGED <<hour, answer>>
      BY <1>1, <1>2, <1>7, ReconciledIsOK DEF Reconcile
    <2>2. ObservedInOrder(lot', hour)
      BY <1>1, <1>2, <2>1, OrderIsKept DEF SameTruth
    <2> QED
      BY <2>1, <2>2 DEF CatalogInv
  <1>8. ASSUME AwaitResult PROVE CatalogInv'
    <2>1. RowOK(lot) /\ lot' = [lot EXCEPT !.providerResultState = "RESULT_PENDING"]
          /\ UNCHANGED <<hour, answer>> /\ lot.providerResultState = "UNKNOWN"
      BY <1>2, <1>8 DEF AwaitResult
    <2>2. lot' \in LotRow /\ lot'.isBuyNow = lot.isBuyNow /\ lot'.buyNowUsd = lot.buyNowUsd
          /\ lot'.providerResultState = "RESULT_PENDING"
          /\ lot'.lifecycleState = lot.lifecycleState /\ lot'.auctionTime = lot.auctionTime
          /\ lot'.lastProviderUpdateAt = lot.lastProviderUpdateAt
          /\ lot'.priceObservedAt = lot.priceObservedAt
          /\ lot'.listingObservedAt = lot.listingObservedAt
      BY <2>1 DEF RowOK, LotRow
    <2>3. ObservedInOrder(lot', hour)
      <3>1. ObservedInOrder(lot, hour) /\ hour <= hour
        BY <1>1, <1>2, <1>8 DEF AwaitResult
      <3>2. RowOK(lot)
        BY <2>1
      <3> QED
        BY <1>1, <2>2, <3>1, <3>2, OrderIsKept
    <2> QED
      BY <2>1, <2>2, <2>3
         DEF CatalogInv, RowOK, BuyNowPriced, EndsWithResult, IsTerminal, TerminalResults
  <1>9. ASSUME Tick PROVE CatalogInv'
    <2>1. lot' = lot /\ answer' = answer /\ hour' = hour + Stride /\ hour' <= LastHour
      BY <1>9 DEF Tick
    <2>2. hour' \in 0 .. LastHour /\ hour' \in Int /\ hour <= hour'
      BY <1>1, <2>1
    <2>3. lot # Null => ObservedInOrder(lot, hour')
      BY <1>1, <1>2, <2>2, OrderIsKept
    <2> QED
      BY <1>2, <2>1, <2>2, <2>3 DEF CatalogInv
  <1>10. CASE UNCHANGED catalogVars
    BY <1>10 DEF catalogVars, CatalogInv
  <1> QED
    BY <1>3, <1>4, <1>5, <1>6, <1>7, <1>8, <1>9, <1>10 DEF CatalogNext

(* In every reachable state the row is well typed, its flag and price of   *)
(* Buy Now go together, and its life ends with the provider's result.      *)
THEOREM CatalogInvariant == CatalogSpec => []CatalogInv
  BY CatalogStart, CatalogStep, PTL DEF CatalogSpec

-----------------------------------------------------------------------------
(* The filter of the database is the decision about a row.                 *)
LEMMA VisibleAgrees ==
    ASSUME NEW l, RowOK(l), NEW t \in Int
    PROVE  VisibleWhere(l, t) <=> Visible(l, t)
  <1>1. l \in LotRow
    BY DEF RowOK
  <1>2. /\ l.auctionTime \in Hour /\ l.listingObservedAt \in Hour
        /\ l.lastProviderUpdateAt \in Hour /\ l.lastSeenAt \in Int
        /\ l.consecutiveMisses \in Nat /\ l.availabilityConfirmed \in BOOLEAN
    BY <1>1, RowFields
  <1>3. Null \notin Int
    BY NullAssumption
  <1>4. l.availabilityConfirmed =>
          (~Stale(l, t) <=>
             \/ AtLeast(l.listingObservedAt, t - ListingFreshWindow)
             \/ l.listingObservedAt = Null /\ AtLeast(l.lastProviderUpdateAt, t - ListingFreshWindow)
             \/ /\ l.listingObservedAt = Null /\ l.lastProviderUpdateAt = Null
                /\ l.availabilityConfirmed
                /\ AtLeast(l.lastSeenAt, t - ListingFreshWindow))
    BY <1>2, <1>3 DEF Stale, ListingObservedAt, AvailabilityConfirmedAt, Coalesce, AtLeast, Hour
  <1>5. Unavailable(l) <=>
          ~(l.availabilityConfirmed /\ l.state # "UNAVAILABLE" /\ l.consecutiveMisses < 3)
    BY <1>2 DEF Unavailable
  <1>6. /\ ~(l.auctionTime = Null \/ AtLeast(l.auctionTime, t + AuctionHorizon))
        /\ ~(l.auctionTime < t)
        <=> AtLeast(l.auctionTime, t) /\ l.auctionTime < t + AuctionHorizon
    BY <1>2, <1>3 DEF AtLeast, Hour, AuctionHorizon
  <1>7. Visible(l, t) <=>
          /\ l.providerResultState \notin TerminalResults
          /\ l.providerResultState # "RESULT_PENDING"
          /\ ~Unavailable(l) /\ ~Stale(l, t)
          /\ ~(l.auctionTime = Null \/ AtLeast(l.auctionTime, t + AuctionHorizon))
          /\ ~(l.auctionTime < t)
    BY DEF Visible, Truth
  <1> QED
    BY <1>4, <1>5, <1>6, <1>7 DEF VisibleWhere

(* The hot offers take what is public, priced and still to be sold, and    *)
(* have its price as the lists have it.                                    *)
LEMMA HotTiersOf ==
    ASSUME NEW l, RowOK(l), NEW t \in Int, Visible(l, t), HasFreshPrice(l, t)
    PROVE  HotTiers(l, t) # {} <=>
              Quality(l) = "none" /\ PriceFact(l).basis # "none" /\ l.auctionTime > t
  <1>1. l.auctionTime \in Int /\ l.auctionTime < t + 168
    <2>1. VisibleWhere(l, t) /\ l.auctionTime \in Hour
      BY VisibleAgrees, RowFields DEF RowOK
    <2> QED
      BY <2>1, AtLeastOf DEF VisibleWhere, AuctionHorizon
  <1>2. PriceFact(l).basis # "none" <=> HasPrice(l)
    BY DEF PriceFact, HasPrice
  <1>3. l.auctionTime # Null
    BY <1>1, NullAssumption
  <1>4. HotTiers(l, t) # {} => Quality(l) = "none" /\ HasPrice(l) /\ l.auctionTime > t
    BY DEF HotTiers
  <1>5. ASSUME Quality(l) = "none", HasPrice(l), l.auctionTime > t
        PROVE  HotTiers(l, t) # {}
    <2>1. CASE l.auctionTime <= t + 48
      <3>1. "urgent" \in HotTiers(l, t)
        BY <1>3, <1>5, <2>1 DEF HotTiers
      <3> QED
        BY <3>1
    <2>2. CASE l.auctionTime > t + 48
      <3>1. l.auctionTime <= t + 168
        BY <1>1
      <3>2. "this-week" \in HotTiers(l, t)
        BY <1>3, <1>5, <2>2, <3>1 DEF HotTiers
      <3> QED
        BY <3>2
    <2> QED
      BY <1>1, <2>1, <2>2
  <1> QED
    BY <1>2, <1>4, <1>5

LEMMA HotPriceIsTheirs ==
    ASSUME NEW l, RowOK(l)
    PROVE  HotPrice(l) = PriceFact(l)
  <1>1. l.buyNowUsd \in Price /\ l.currentBidUsd \in Price /\ l.isBuyNow \in BOOLEAN
    BY RowFields DEF RowOK
  <1> QED
    BY <1>1 DEF HotPrice, PriceFact, Coalesce, Positive

(* For a listed lot every reader has the same price: the list, the         *)
(* catalogue, the detail page, the calculator and the recorded request     *)
(* (auction-lots.service.ts, catalog.service.ts, calculator.service.ts).   *)
THEOREM ReadersSeeOnePrice == CatalogSpec => []PricesAgree
  <1>1. ASSUME CatalogInv, lot # Null, Listed(lot, hour)
        PROVE  OnePrice(lot)
    <2>1. RowOK(lot) /\ hour \in Int
      BY <1>1, CatalogAssumption DEF CatalogInv
    <2>2. Visible(lot, hour)
      BY <1>1, <2>1, VisibleAgrees DEF Listed
    <2>3. lot.isBuyNow <=> Positive(lot.buyNowUsd)
      <3>1. ~IsTerminal(lot.providerResultState)
        BY <2>2 DEF Visible, Truth, IsTerminal
      <3> QED
        BY <2>1, <3>1 DEF RowOK, BuyNowPriced
    <2>4. DetailOpens(lot, hour) => FoundByNumber(lot, hour)
      BY <2>2 DEF DetailOpens, FoundByNumber
    <2>7. HotPrice(lot) = PriceFact(lot)
      BY <2>1, HotPriceIsTheirs
    <2>5. CASE HasFreshPrice(lot, hour)
      <3>1. ListPrice(lot, hour) = PriceFact(lot) /\ CatalogPrice(lot, hour) = PriceFact(lot)
            /\ DetailPrice(lot, hour) = PriceFact(lot)
        BY <2>2, <2>5 DEF ListPrice, CatalogPrice, DetailPrice
      <3>2. LET start == CalculatorInput(lot, hour)
            IN  start.basis = PriceFact(lot).basis /\ start.priceUsd = PriceFact(lot).primaryUsd
        BY <2>2, <2>3, <2>5 DEF CalculatorInput, PriceFact, Unpriced
      <3>3. PriceFact(lot).buyNowAvailable <=> PriceFact(lot).basis = "buyNow"
        BY <2>3 DEF PriceFact
      <3>4. ASSUME NEW intent \in {"buyNow", "currentBid"}
            PROVE  LET asked == AssistancePrice(lot, intent, hour)
                   IN  /\ asked.status = "available" <=> PriceFact(lot).basis = intent
                       /\ asked.status = "available" => asked.priceUsd = PriceFact(lot).primaryUsd
        BY <2>2, <2>3, <2>5, <3>4 DEF AssistancePrice, PriceFact, Unpriced
      <3>5. HotTiers(lot, hour) # {} <=>
               Quality(lot) = "none" /\ PriceFact(lot).basis # "none" /\ lot.auctionTime > hour
        BY <2>1, <2>2, <2>5, HotTiersOf
      <3> QED
        BY <2>4, <2>7, <3>1, <3>2, <3>3, <3>4, <3>5 DEF OnePrice
    <2>6. CASE ~HasFreshPrice(lot, hour)
      <3>1. ListPrice(lot, hour) = NoPrice /\ CatalogPrice(lot, hour) = NoPrice
            /\ DetailPrice(lot, hour) = NoPrice
        BY <2>6 DEF ListPrice, CatalogPrice, DetailPrice
      <3>2. CalculatorInput(lot, hour) = Unpriced("PRICE_NOT_FRESH")
            /\ \A intent : AssistancePrice(lot, intent, hour) = Unpriced("PRICE_NOT_FRESH")
        BY <2>2, <2>6 DEF CalculatorInput, AssistancePrice
      <3>3. HotTiers(lot, hour) = {}
        BY <2>6 DEF HotTiers
      <3> QED
        BY <2>4, <3>1, <3>2, <3>3 DEF OnePrice, NoPrice, Unpriced
    <2> QED
      BY <2>5, <2>6
  <1>2. ASSUME CatalogInv, lot # Null, HotTiers(lot, hour) # {}
        PROVE  Listed(lot, hour)
    <2>1. RowOK(lot) /\ hour \in Int
      BY <1>2, CatalogAssumption DEF CatalogInv
    <2>2. Visible(lot, hour) /\ Quality(lot) = "none"
      BY <1>2 DEF HotTiers
    <2> QED
      BY <2>1, <2>2, VisibleAgrees DEF Listed, Quality, QualityWhere
  <1>3. CatalogInv => PricesAgree
    BY <1>1, <1>2 DEF PricesAgree
  <1> QED
    BY <1>3, CatalogInvariant, PTL

-----------------------------------------------------------------------------
(* What neither time nor the scheduler makes visible.                      *)
LEMMA HiddenStaysHidden ==
    ASSUME NEW l, RowOK(l), NEW r, RowOK(r), SameTruth(l, r), NEW t \in Int, NEW u \in Int, t <= u,
           Truth(l, t) \notin {"PUBLIC", "AUCTION_OUT_OF_HORIZON"}
    PROVE  ~Visible(r, u)
  <1>1. l \in LotRow /\ r \in LotRow
    BY DEF RowOK
  <1>2. /\ l.auctionTime \in Hour /\ l.listingObservedAt \in Hour
        /\ l.lastProviderUpdateAt \in Hour /\ l.lastSeenAt \in Int
        /\ l.consecutiveMisses \in Nat /\ l.availabilityConfirmed \in BOOLEAN
    BY <1>1, RowFields
  <1>3. Null \notin Int
    BY NullAssumption
  <1>4. Stale(l, t) => Stale(r, u)
    BY <1>2, <1>3 DEF Stale, ListingObservedAt, AvailabilityConfirmedAt, Coalesce, AtLeast, Hour,
                      SameTruth, ListingFreshWindow
  <1>5. Unavailable(l) => Unavailable(r)
    BY DEF Unavailable, SameTruth
  <1>6. l.auctionTime # Null /\ l.auctionTime < t => r.auctionTime < u
    BY <1>2, <1>3 DEF SameTruth, Hour
  <1>7. \/ l.providerResultState \in TerminalResults \cup {"RESULT_PENDING"}
        \/ Unavailable(l) \/ Stale(l, t)
        \/ l.auctionTime # Null /\ l.auctionTime < t
    BY DEF Truth
  <1> QED
    BY <1>4, <1>5, <1>6, <1>7 DEF Visible, Truth, SameTruth

(* A lot that ended, awaits its result, is unavailable or was not seen for *)
(* long becomes visible only by what the provider shows of it: neither     *)
(* time nor the reconciliation of a tick brings it back.                   *)
THEOREM HiddenUntilSeen == CatalogSpec => ReappearsOnlyWhenSeen
  <1> DEFINE Hidden == lot # Null /\ Truth(lot, hour) \notin {"PUBLIC", "AUCTION_OUT_OF_HORIZON"}
             Seen == SearchStores \/ \E s \in Sightings(hour) : DiscoveryPage(s)
  <1>1. ASSUME CatalogInv, CatalogInv', CatalogNext, Hidden, Visible(lot', hour')
        PROVE  Seen
    <2>1. RowOK(lot) /\ hour \in Int /\ Stride \in Nat
      BY <1>1, CatalogAssumption DEF CatalogInv
    <2>2. SameTruth(lot, lot)
      BY DEF SameTruth
    <2>3. \A r : RowOK(r) /\ SameTruth(lot, r) => ~Visible(r, hour)
      BY <1>1, <2>1, HiddenStaysHidden
    <2>4. ASSUME NEW s \in Sightings(hour), SearchAnswers(s) PROVE FALSE
      BY <1>1, <2>1, <2>2, <2>3, <2>4 DEF SearchAnswers
    <2>5. ASSUME Reconcile PROVE FALSE
      <3>1. RowOK(lot') /\ SameTruth(lot, lot') /\ hour' = hour
        BY <2>1, <2>5, ReconciledIsOK DEF Reconcile
      <3> QED
        BY <1>1, <2>3, <3>1
    <2>6. ASSUME CountMiss PROVE FALSE
      <3>1. /\ lot' = [lot EXCEPT !.consecutiveMisses = lot.consecutiveMisses + 1] /\ hour' = hour
        BY <2>6 DEF CountMiss
      <3>2. lot.consecutiveMisses \in Nat /\ lot \in LotRow
        BY <2>1, RowFields DEF RowOK
      <3>3. /\ lot'.providerResultState = lot.providerResultState
            /\ lot'.availabilityConfirmed = lot.availabilityConfirmed /\ lot'.state = lot.state
            /\ lot'.consecutiveMisses = lot.consecutiveMisses + 1
            /\ lot'.auctionTime = lot.auctionTime
            /\ lot'.listingObservedAt = lot.listingObservedAt
            /\ lot'.lastProviderUpdateAt = lot.lastProviderUpdateAt
            /\ lot'.lastSeenAt = lot.lastSeenAt
        BY <3>1, <3>2 DEF LotRow
      <3>4. Unavailable(lot) => Unavailable(lot')
        BY <3>2, <3>3 DEF Unavailable
      <3>5. Stale(lot, hour) => Stale(lot', hour)
        BY <3>3 DEF Stale, ListingObservedAt, AvailabilityConfirmedAt
      <3> QED
        BY <1>1, <3>1, <3>3, <3>4, <3>5 DEF Visible, Truth
    <2>7. ASSUME AwaitResult PROVE FALSE
      <3>1. lot' = [lot EXCEPT !.providerResultState = "RESULT_PENDING"] /\ lot \in LotRow
        BY <2>1, <2>7 DEF AwaitResult, RowOK
      <3>2. lot'.providerResultState = "RESULT_PENDING"
        BY <3>1 DEF LotRow
      <3> QED
        BY <1>1, <3>2 DEF Visible, Truth
    <2>8. ASSUME Tick PROVE FALSE
      <3>1. lot' = lot /\ hour' = hour + Stride
        BY <2>8 DEF Tick
      <3>2. hour' \in Int /\ hour <= hour'
        BY <2>1, <3>1
      <3> QED
        BY <1>1, <2>1, <2>2, <3>1, <3>2, HiddenStaysHidden
    <2> QED
      BY <1>1, <2>4, <2>5, <2>6, <2>7, <2>8 DEF CatalogNext
  <1>2. CatalogInv /\ CatalogInv' /\ [CatalogNext]_catalogVars
        => [Hidden /\ Visible(lot', hour') => Seen]_catalogVars
    BY <1>1
  <1> QED
    BY <1>2, CatalogInvariant, PTL DEF CatalogSpec, ReappearsOnlyWhenSeen

-----------------------------------------------------------------------------
(* The views of a row.                                                     *)
LEMMA PublicFacts ==
    ASSUME NEW l, RowOK(l), NEW t \in Int, Visible(l, t)
    PROVE  /\ l.auctionTime \in Int /\ t <= l.auctionTime /\ l.auctionTime < t + AuctionHorizon
           /\ l.providerResultState = "UNKNOWN" /\ ~IsTerminal(l.providerResultState)
           /\ Truth(l, t) = "PUBLIC" /\ ~Stale(l, t)
  <1>1. l.auctionTime \in Hour
        /\ l.providerResultState \in {"UNKNOWN", "RESULT_PENDING"} \cup TerminalResults
    BY RowFields DEF RowOK
  <1>2. VisibleWhere(l, t)
    BY VisibleAgrees
  <1>3. AtLeast(l.auctionTime, t) /\ l.auctionTime < t + AuctionHorizon
        /\ l.providerResultState \notin TerminalResults \cup {"RESULT_PENDING"}
    BY <1>2 DEF VisibleWhere
  <1>4. Truth(l, t) = "PUBLIC" /\ ~Stale(l, t)
    BY DEF Visible, Truth
  <1> QED
    BY <1>1, <1>3, <1>4, AtLeastOf DEF IsTerminal

LEMMA LifecyclesAgree ==
    ASSUME NEW l, RowOK(l), NEW t \in Int, Visible(l, t)
    PROVE  /\ Lifecycle(l, t) = IF LiveState(l) THEN "LIVE" ELSE "UPCOMING"
           /\ \A k \in {"UPCOMING", "LIVE", "ENDED"} : LifecycleWhere(l, k) <=> Lifecycle(l, t) = k
  <1>1. Truth(l, t) = "PUBLIC"
    BY PublicFacts
  <1>2. Lifecycle(l, t) = IF LiveState(l) THEN "LIVE" ELSE "UPCOMING"
    BY <1>1 DEF Lifecycle
  <1> QED
    BY <1>2 DEF LifecycleWhere

LEMMA FreshPricesAgree ==
    ASSUME NEW l, RowOK(l), NEW t \in Int, Visible(l, t)
    PROVE  FreshPriceWhere(l, t) <=> HasFreshPrice(l, t)
  <1>1. l.auctionTime \in Int /\ t <= l.auctionTime
    BY PublicFacts
  <1>2. l.priceObservedAt \in Hour /\ l.lastProviderUpdateAt \in Hour
    BY RowFields DEF RowOK
  <1>3. Null \notin Int
    BY NullAssumption
  <1>4. \A age \in Int :
           PriceObservedOnOrAfter(l, t - age) <=>
             PriceObservedAt(l) # Null /\ t - PriceObservedAt(l) <= age
    BY <1>2, <1>3 DEF PriceObservedOnOrAfter, PriceObservedAt, Coalesce, AtLeast, Hour
  <1>5. AtLeast(l.auctionTime, t) /\ l.auctionTime # Null
    BY <1>1, <1>3 DEF AtLeast
  <1>6. CASE l.auctionTime <= t + 24
    <2>1. MaxPriceAge(l.auctionTime, t) = 6
      BY <1>1, <1>5, <1>6 DEF MaxPriceAge
    <2>2. FreshPriceWhere(l, t) <=> PriceObservedOnOrAfter(l, t - 6)
      BY <1>1, <1>5, <1>6 DEF FreshPriceWhere
    <2> QED
      BY <1>4, <2>1, <2>2 DEF HasFreshPrice
  <1>7. CASE l.auctionTime > t + 24 /\ l.auctionTime <= t + 72
    <2>1. MaxPriceAge(l.auctionTime, t) = 12
      BY <1>1, <1>5, <1>7 DEF MaxPriceAge
    <2>2. FreshPriceWhere(l, t) <=> PriceObservedOnOrAfter(l, t - 12)
      BY <1>1, <1>5, <1>7 DEF FreshPriceWhere
    <2> QED
      BY <1>4, <2>1, <2>2 DEF HasFreshPrice
  <1>8. CASE l.auctionTime > t + 72
    <2>1. MaxPriceAge(l.auctionTime, t) = 24
      BY <1>1, <1>5, <1>8 DEF MaxPriceAge
    <2>2. FreshPriceWhere(l, t) <=> PriceObservedOnOrAfter(l, t - 24)
      BY <1>1, <1>5, <1>8 DEF FreshPriceWhere
    <2> QED
      BY <1>4, <2>1, <2>2 DEF HasFreshPrice
  <1> QED
    BY <1>1, <1>6, <1>7, <1>8

LEMMA ListingsAgree ==
    ASSUME NEW l, RowOK(l), NEW t \in Int
    PROVE  ListingFreshness(l, t) = "FRESH" <=> ~Stale(l, t)
  <1>1. /\ l.listingObservedAt \in Hour /\ l.lastProviderUpdateAt \in Hour
        /\ l.lastSeenAt \in Int
    BY RowFields DEF RowOK
  <1>2. ListingObservedAt(l) \in Hour
    BY <1>1 DEF ListingObservedAt, Coalesce, AvailabilityConfirmedAt, Hour
  <1> QED
    BY <1>2, NullAssumption DEF ListingFreshness, Stale, AtLeast, Hour, ListingFreshWindow

LEMMA ScheduleOf ==
    ASSUME NEW l, RowOK(l), NEW t \in Int, Visible(l, t)
    PROVE  Schedule(l, t) = "SCHEDULED_ACTIVE"
  <1>1. l.auctionTime \in Int /\ t <= l.auctionTime /\ l.auctionTime < t + AuctionHorizon
        /\ l.providerResultState \notin TerminalResults
    BY PublicFacts DEF IsTerminal
  <1> QED
    BY <1>1, NullAssumption DEF Schedule, AuctionHorizon

LEMMA ProjectionsAgree ==
    ASSUME NEW l, RowOK(l), NEW t \in Int, Visible(l, t)
    PROVE  LET v2 == ProjectionV2(l, t)
           IN  /\ v2.publicVisible
               /\ v2.showPriceAndCta <=> HasFreshPrice(l, t)
               /\ v2.schedule = "SCHEDULED_ACTIVE" /\ v2.listing = "FRESH"
               /\ v2.reasonCode = IF HasFreshPrice(l, t) THEN "OK" ELSE "STALE_PRICE"
  <1>1. Schedule(l, t) = "SCHEDULED_ACTIVE" /\ ListingFreshness(l, t) = "FRESH"
    BY ScheduleOf, ListingsAgree, PublicFacts
  <1>2. PriceFreshness(l, t) = "FRESH" <=> HasFreshPrice(l, t)
    BY DEF PriceFreshness
  <1> QED
    BY <1>1, <1>2 DEF ProjectionV2

(* The counters.                                                           *)
LEMMA StatsAgree ==
    ASSUME NEW l, RowOK(l), NEW t \in Int
    PROVE  LET stats == StatsOf(l, t) IN
           /\ stats = {} <=> ~Listed(l, t)
           /\ Cardinality(stats \cap {"live", "upcoming"}) = Cardinality(stats \cap {"current"})
           /\ "buyNow" \in stats <=> Listed(l, t) /\ ListPrice(l, t).buyNowAvailable
  <1>1. CASE ~Listed(l, t)
    <2>1. StatsOf(l, t) = {}
      BY <1>1 DEF StatsOf
    <2>2. StatsOf(l, t) \cap {"live", "upcoming"} = StatsOf(l, t) \cap {"current"}
      BY <2>1
    <2> QED
      BY <1>1, <2>1, <2>2
  <1>2. CASE Listed(l, t)
    <2>1. Visible(l, t)
      BY <1>2, VisibleAgrees DEF Listed
    <2>2. Lifecycle(l, t) = IF LiveState(l) THEN "LIVE" ELSE "UPCOMING"
      BY <2>1, LifecyclesAgree
    <2>3. /\ "current" \in StatsOf(l, t)
          /\ "live" \in StatsOf(l, t) <=> LiveState(l)
          /\ "upcoming" \in StatsOf(l, t) <=> ~LiveState(l)
          /\ "buyNow" \in StatsOf(l, t) <=>
                l.isBuyNow /\ Positive(l.buyNowUsd) /\ HasFreshPrice(l, t)
      BY <1>2, <2>2 DEF StatsOf
    <2>4. StatsOf(l, t) \cap {"live", "upcoming"} =
             {IF LiveState(l) THEN "live" ELSE "upcoming"}
      BY <2>3
    <2>5. StatsOf(l, t) \cap {"current"} = {"current"}
      BY <2>3
    <2>6. Cardinality(StatsOf(l, t) \cap {"live", "upcoming"}) = 1
      BY <2>4, FS_Singleton
    <2>7. Cardinality(StatsOf(l, t) \cap {"current"}) = 1
      BY <2>5, FS_Singleton
    <2>8. ListPrice(l, t).buyNowAvailable <=>
             l.isBuyNow /\ Positive(l.buyNowUsd) /\ HasFreshPrice(l, t)
      BY <2>1 DEF ListPrice, PriceFact, NoPrice
    <2> QED
      BY <1>2, <2>3, <2>6, <2>7, <2>8
  <1> QED
    BY <1>1, <1>2

(* The operators' groups and the health of the data.                       *)
LEMMA GroupsAgree ==
    ASSUME NEW l, RowOK(l), NEW t \in Int
    PROVE  /\ OperatorGroup(l, t) = "publicNow" <=> Visible(l, t) /\ Quality(l) = "none"
           /\ AdminClass(l, t) = "current" <=> Visible(l, t) /\ Quality(l) = "none"
           /\ Listed(l, t) /\ Quality(l) = "none" <=> Visible(l, t) /\ Quality(l) = "none"
           /\ OperatorGroup(l, t) = "outsideWindow" => Schedule(l, t) = "SCHEDULED_OUT_OF_HORIZON"
           /\ OperatorGroup(l, t) = "archivedConfirmed" => IsTerminal(l.providerResultState)
  <1>1. Visible(l, t) => Truth(l, t) = "PUBLIC" /\ l.providerResultState \notin TerminalResults
    BY PublicFacts DEF IsTerminal
  <1>2. OperatorGroup(l, t) = "publicNow" <=> Visible(l, t) /\ Quality(l) = "none"
    <2>1. CASE Visible(l, t) /\ Quality(l) = "none"
      BY <1>1, <2>1 DEF OperatorGroup
    <2>2. CASE Quality(l) # "none"
      BY <2>2 DEF OperatorGroup
    <2>3. CASE ~Visible(l, t)
      BY <2>3 DEF OperatorGroup
    <2> QED
      BY <2>1, <2>2, <2>3
  <1>3. AdminClass(l, t) = "current" <=> Visible(l, t) /\ Quality(l) = "none"
    BY <1>1 DEF AdminClass
  <1>4. Quality(l) = "none" => QualityWhere(l)
    BY DEF Quality, QualityWhere
  <1>5. Listed(l, t) /\ Quality(l) = "none" <=> Visible(l, t) /\ Quality(l) = "none"
    BY <1>4, VisibleAgrees DEF Listed
  <1>6. /\ OperatorGroup(l, t) = "outsideWindow" => Schedule(l, t) = "SCHEDULED_OUT_OF_HORIZON"
        /\ OperatorGroup(l, t) = "archivedConfirmed" => IsTerminal(l.providerResultState)
    BY DEF OperatorGroup, IsTerminal
  <1> QED
    BY <1>2, <1>3, <1>5, <1>6

LEMMA HealthAgrees ==
    ASSUME NEW l, RowOK(l), NEW t \in Int
    PROVE  LET health == DataHealth(l, t) IN
           /\ Cardinality(health \cap {"confirmedHorizon", "outOfHorizon", "unscheduled"}) = 1
           /\ Visible(l, t) => health \subseteq {"confirmedHorizon", "stalePrice"}
           /\ Schedule(l, t) = "SCHEDULED_OUT_OF_HORIZON" => "outOfHorizon" \in health
           /\ IsTerminal(l.providerResultState) => "resultPending" \notin health
  <1> DEFINE health == DataHealth(l, t)
             schedule == Schedule(l, t)
             kinds == {"confirmedHorizon", "outOfHorizon", "unscheduled",
                       "resultPending", "staleListing", "stalePrice"}
             Counts(k) == CASE k = "confirmedHorizon" -> schedule = "SCHEDULED_ACTIVE"
                            [] k = "outOfHorizon" -> schedule = "SCHEDULED_OUT_OF_HORIZON"
                            [] k = "unscheduled" ->
                                 schedule \in {"TERMINAL", "RESULT_PENDING", "UNSCHEDULED"}
                            [] k = "resultPending" -> schedule = "RESULT_PENDING"
                            [] k = "staleListing" -> ListingFreshness(l, t) = "STALE"
                            [] OTHER -> PriceFreshness(l, t) # "FRESH"
  <1>1. /\ ProjectionV2(l, t).schedule = schedule
        /\ ProjectionV2(l, t).listing = ListingFreshness(l, t)
        /\ ProjectionV2(l, t).price = PriceFreshness(l, t)
    BY DEF ProjectionV2
  <1>2. schedule \in {"TERMINAL", "RESULT_PENDING", "UNSCHEDULED", "SCHEDULED_ACTIVE",
                      "SCHEDULED_OUT_OF_HORIZON"}
    BY DEF Schedule
  <1>3. /\ "confirmedHorizon" \in health <=> schedule = "SCHEDULED_ACTIVE"
        /\ "outOfHorizon" \in health <=> schedule = "SCHEDULED_OUT_OF_HORIZON"
        /\ "unscheduled" \in health <=> schedule \in {"TERMINAL", "RESULT_PENDING", "UNSCHEDULED"}
        /\ "resultPending" \in health <=> schedule = "RESULT_PENDING"
        /\ "staleListing" \in health <=> ListingFreshness(l, t) = "STALE"
        /\ health \subseteq kinds
    <2>1. health = {k \in kinds : Counts(k)}
      BY <1>1 DEF DataHealth
    <2>2. /\ Counts("confirmedHorizon") <=> schedule = "SCHEDULED_ACTIVE"
          /\ Counts("outOfHorizon") <=> schedule = "SCHEDULED_OUT_OF_HORIZON"
          /\ Counts("unscheduled") <=>
                schedule \in {"TERMINAL", "RESULT_PENDING", "UNSCHEDULED"}
          /\ Counts("resultPending") <=> schedule = "RESULT_PENDING"
          /\ Counts("staleListing") <=> ListingFreshness(l, t) = "STALE"
      OBVIOUS
    <2> HIDE DEF health, schedule, Counts
    <2> QED
      BY <2>1, <2>2
  <1>4. IsTerminal(l.providerResultState) => schedule = "TERMINAL"
    BY DEF Schedule, IsTerminal
  <1>5. Visible(l, t) => schedule = "SCHEDULED_ACTIVE" /\ ListingFreshness(l, t) = "FRESH"
    BY ScheduleOf, ListingsAgree, PublicFacts
  <1> HIDE DEF health, schedule
  <1>6. \E k : health \cap {"confirmedHorizon", "outOfHorizon", "unscheduled"} = {k}
    <2>1. CASE schedule = "SCHEDULED_ACTIVE"
      <3>1. health \cap {"confirmedHorizon", "outOfHorizon", "unscheduled"} = {"confirmedHorizon"}
        BY <1>3, <2>1
      <3> QED
        BY <3>1
    <2>2. CASE schedule = "SCHEDULED_OUT_OF_HORIZON"
      <3>1. health \cap {"confirmedHorizon", "outOfHorizon", "unscheduled"} = {"outOfHorizon"}
        BY <1>3, <2>2
      <3> QED
        BY <3>1
    <2>3. CASE schedule \in {"TERMINAL", "RESULT_PENDING", "UNSCHEDULED"}
      <3>1. health \cap {"confirmedHorizon", "outOfHorizon", "unscheduled"} = {"unscheduled"}
        BY <1>3, <2>3
      <3> QED
        BY <3>1
    <2> QED
      BY <1>2, <2>1, <2>2, <2>3
  <1>7. Cardinality(health \cap {"confirmedHorizon", "outOfHorizon", "unscheduled"}) = 1
    BY <1>6, FS_Singleton
  <1>8. Visible(l, t) => health \subseteq {"confirmedHorizon", "stalePrice"}
    BY <1>3, <1>5
  <1> QED
    BY <1>3, <1>4, <1>7, <1>8 DEF health, schedule

(* The tiers have what is public and not what has ended.                   *)
LEMMA TiersAgree ==
    ASSUME NEW l, RowOK(l), NEW t \in Int
    PROVE  /\ PendingTiers(l, t) \cup StaleTiers(l) \subseteq TiersOf(l)
           /\ IsTerminal(l.providerResultState) => TiersOf(l) \cup PendingTiers(l, t) = {}
           /\ Visible(l, t) /\ l.lifecycleState # "ENDED" => TiersOf(l) # {}
  <1>1. PendingTiers(l, t) \cup StaleTiers(l) \subseteq TiersOf(l)
    BY DEF PendingTiers, StaleTiers, TiersOf
  <1>2. IsTerminal(l.providerResultState) => l.lifecycleState \notin Active
    BY DEF RowOK, EndsWithResult, Active
  <1>3. Visible(l, t) /\ l.lifecycleState # "ENDED" => Swept(l) /\ l.lifecycleState \in Active
    <2> SUFFICES ASSUME Visible(l, t), l.lifecycleState # "ENDED"
                 PROVE  Swept(l) /\ l.lifecycleState \in Active
      OBVIOUS
    <2>1. l.auctionTime # Null /\ ~IsTerminal(l.providerResultState)
      BY PublicFacts, NullAssumption
    <2>2. l.lifecycleState \in {"UPCOMING", "OPEN", "LIVE", "ENDED", "SOLD", "REMOVED", "NOT_READY"}
          /\ l.state \in {"DISCOVERED", "IMPORTED"}
      BY RowFields DEF RowOK
    <2> QED
      BY <2>1, <2>2 DEF RowOK, EndsWithResult, Swept, Active
  <1> QED
    BY <1>1, <1>2, <1>3 DEF TiersOf, PendingTiers

(* A lot that is stale on the dashboard has no time: nobody else shows it. *)
LEMMA DashboardAgrees ==
    ASSUME NEW l, RowOK(l), NEW t \in Int
    PROVE  LET dashboard == DashboardLots(l, t) IN
           /\ "activePublic" \in dashboard <=> Visible(l, t)
           /\ CatalogState({l}, t) = "INVENTORY_RECOVERY" <=> "activePublic" \notin dashboard
           /\ "stale" \in dashboard =>
                 ~Visible(l, t) /\ "unscheduled" \in DataHealth(l, t) /\ TiersOf(l) = {}
  <1>1. "activePublic" \in DashboardLots(l, t) <=> Visible(l, t)
    BY VisibleAgrees DEF DashboardLots
  <1>2. ASSUME "stale" \in DashboardLots(l, t)
        PROVE  ~Visible(l, t) /\ "unscheduled" \in DataHealth(l, t) /\ TiersOf(l) = {}
    <2>1. l.lifecycleState = "NOT_READY" /\ l.auctionTime = Null
      BY <1>2 DEF DashboardLots, RowOK, EndsWithResult
    <2>2. ~Visible(l, t)
      BY <2>1, PublicFacts, NullAssumption
    <2>3. Schedule(l, t) \in {"TERMINAL", "UNSCHEDULED"}
      BY <2>1 DEF Schedule
    <2>4. "unscheduled" \in DataHealth(l, t)
      BY <2>3 DEF DataHealth, ProjectionV2
    <2> QED
      BY <2>1, <2>2, <2>4 DEF TiersOf, Active
  <1>3. CatalogState({l}, t) = "INVENTORY_RECOVERY" <=> "activePublic" \notin DashboardLots(l, t)
    <2>1. Swept(l)
      BY RowFields DEF RowOK, Swept
    <2> QED
      BY <2>1 DEF CatalogState, DashboardLots
  <1> QED
    BY <1>1, <1>2, <1>3

(* The price that may be shown was confirmed within the day.               *)
LEMMA FreshMeansUpdated ==
    ASSUME NEW l, RowOK(l), NEW t \in Int, ObservedInOrder(l, t), HasFreshPrice(l, t)
    PROVE  UpdatedToday(l, t) # {}
  <1>1. l.priceObservedAt \in Hour /\ l.lastProviderUpdateAt \in Hour /\ l.auctionTime \in Hour
    BY RowFields DEF RowOK
  <1>2. PriceObservedAt(l) # Null /\ t - PriceObservedAt(l) <= MaxPriceAge(l.auctionTime, t)
    BY DEF HasFreshPrice
  <1>3. MaxPriceAge(l.auctionTime, t) \in {6, 12, 24}
    BY DEF MaxPriceAge
  <1>4. /\ l.lastProviderUpdateAt \in Int /\ PriceObservedAt(l) \in Int
        /\ PriceObservedAt(l) <= l.lastProviderUpdateAt
    BY <1>1, <1>2, NullAssumption DEF PriceObservedAt, Coalesce, ObservedInOrder, Hour
  <1>5. AtLeast(l.lastProviderUpdateAt, t - 24)
    <2>1. t - PriceObservedAt(l) <= 24
      BY <1>2, <1>3, <1>4
    <2>2. l.lastProviderUpdateAt >= t - 24
      BY <1>4, <2>1
    <2> QED
      BY <1>4, <2>2, NullAssumption DEF AtLeast
  <1>6. "completed" \in UpdatedToday(l, t) \/ "failed" \in UpdatedToday(l, t)
    BY <1>5 DEF UpdatedToday
  <1> QED
    BY <1>6

(* No lot that is shown waits longer for the provider than a listing lasts.*)
LEMMA OldestIsFresh ==
    ASSUME NEW l, RowOK(l), NEW t \in Int, ObservedInOrder(l, t)
    PROVE  LET age == OldestObservation({l}, t)
           IN  age # Null => age >= 0 /\ (Listed(l, t) => age <= ListingFreshWindow)
  <1> DEFINE times == {m.lastProviderUpdateAt : m \in {n \in {l} : TiersOf(n) # {}}} \ {Null}
             age == OldestObservation({l}, t)
  <1>1. age = IF times = {} THEN Null ELSE t - CHOOSE a \in times : \A b \in times : a <= b
    BY DEF OldestObservation
  <1>2. CASE times = {}
    BY <1>1, <1>2
  <1>3. CASE times # {}
    <2>1. times = {l.lastProviderUpdateAt} /\ l.lastProviderUpdateAt # Null
      BY <1>3
    <2>2. l.lastProviderUpdateAt \in Int /\ l.listingObservedAt \in Hour
      BY <2>1, RowFields DEF RowOK, Hour
    <2>3. (CHOOSE a \in times : \A b \in times : a <= b) = l.lastProviderUpdateAt
      <3> HIDE DEF times
      <3>1. \E a \in times : \A b \in times : a <= b
        BY <2>1, <2>2
      <3>2. (CHOOSE a \in times : \A b \in times : a <= b) \in times
        BY <3>1
      <3> QED
        BY <2>1, <3>2
    <2>4. age = t - l.lastProviderUpdateAt
      BY <1>1, <1>3, <2>3
    <2>5. age >= 0
      BY <2>1, <2>2, <2>4 DEF ObservedInOrder
    <2>6. ASSUME Listed(l, t) PROVE age <= ListingFreshWindow
      <3>1. ~Stale(l, t)
        BY <2>6, VisibleAgrees, PublicFacts DEF Listed
      <3>2. l.listingObservedAt # Null => l.listingObservedAt <= l.lastProviderUpdateAt
        BY DEF ObservedInOrder
      <3>3. /\ ListingObservedAt(l) \in Int /\ ListingObservedAt(l) >= t - ListingFreshWindow
            /\ ListingObservedAt(l) <= l.lastProviderUpdateAt
        BY <2>1, <2>2, <3>1, <3>2, NullAssumption
           DEF Stale, ListingObservedAt, Coalesce, AtLeast, Hour
      <3> QED
        BY <2>2, <2>4, <3>3 DEF ListingFreshWindow
    <2> HIDE DEF age
    <2> QED
      BY <2>5, <2>6 DEF age
  <1> QED
    BY <1>2, <1>3

LEMMA CountersAlwaysAgree ==
    ASSUME NEW l, RowOK(l), hour \in Int, ObservedInOrder(l, hour)
    PROVE  LET metrics == AdminMetrics(l, Null, hour)
           IN  CountersAgree(l, metrics) /\ DashboardsAgree(l, metrics)
  <1> DEFINE metrics == AdminMetrics(l, Null, hour)
  <1>1. /\ metrics.group = OperatorGroup(l, hour) /\ metrics.class = AdminClass(l, hour)
        /\ metrics.covered <=> Visible(l, hour) /\ Quality(l) = "none"
        /\ metrics.health = DataHealth(l, hour)
    BY DEF AdminMetrics
  <1> HIDE DEF metrics
  <1>2. Listed(l, hour) => Visible(l, hour)
    BY VisibleAgrees DEF Listed
  <1>3. /\ StatsOf(l, hour) # {} => "activePublic" \in DashboardLots(l, hour)
        /\ CatalogState({l}, hour) = "INVENTORY_RECOVERY" <=>
              "activePublic" \notin DashboardLots(l, hour)
        /\ metrics.group = "publicNow" <=>
              ("activePublic" \in DashboardLots(l, hour) /\ Quality(l) = "none")
        /\ "stale" \in DashboardLots(l, hour) =>
              /\ "activePublic" \notin DashboardLots(l, hour)
              /\ "unscheduled" \in metrics.health /\ TiersOf(l) = {}
        /\ Listed(l, hour) /\ HasFreshPrice(l, hour) => UpdatedToday(l, hour) # {}
    BY <1>1, <1>2, StatsAgree, GroupsAgree, DashboardAgrees, FreshMeansUpdated
  <1>4. CountersAgree(l, metrics)
    BY <1>1, StatsAgree, GroupsAgree, HealthAgrees, TiersAgree DEF CountersAgree
  <1>5. DashboardsAgree(l, metrics)
    BY <1>3, OldestIsFresh DEF DashboardsAgree
  <1> QED
    BY <1>4, <1>5 DEF metrics

(* An item is found under the one accepted value of a filter that it has.  *)
LEMMA FoundUnderItsValue ==
    ASSUME NEW item, NEW filters, \A f \in filters : item[f] \in AdminFilters[f]
    PROVE  FoundUnderOneValue(item, filters)
  <1> SUFFICES ASSUME NEW f \in filters
               PROVE  Cardinality({v \in AdminFilters[f] : AdminLots({item}, [g \in {f} |-> v]) # {}}) = 1
    BY DEF FoundUnderOneValue
  <1>1. ASSUME NEW v PROVE AdminLots({item}, [g \in {f} |-> v]) # {} <=> item[f] = v
    BY DEF AdminLots, MatchesAdminItem
  <1>2. {v \in AdminFilters[f] : AdminLots({item}, [g \in {f} |-> v]) # {}} = {item[f]}
    BY <1>1
  <1> QED
    BY <1>2, FS_Singleton

LEMMA LifecycleNames ==
    ASSUME NEW l, RowOK(l), NEW t \in Int
    PROVE  Lifecycle(l, t) \in AdminFilters["lifecycle"]
  <1>1. l.providerResultState \in {"UNKNOWN", "RESULT_PENDING"} \cup TerminalResults
    BY RowFields DEF RowOK
  <1>2. Truth(l, t) = "TERMINAL_RESULT" <=> l.providerResultState \in TerminalResults
    BY DEF Truth
  <1>3. Lifecycle(l, t) \in {"UPCOMING", "OPEN", "LIVE", "ENDED", "SOLD", "REMOVED", "NOT_READY"}
    <2>1. CASE Truth(l, t) = "TERMINAL_RESULT"
      <3>1. Lifecycle(l, t) = IF l.providerResultState = "UNSOLD" THEN "ENDED"
                              ELSE l.providerResultState
        BY <2>1 DEF Lifecycle
      <3> QED
        BY <1>2, <2>1, <3>1 DEF TerminalResults
    <2>2. CASE Truth(l, t) # "TERMINAL_RESULT"
      BY <2>2 DEF Lifecycle
    <2> QED
      BY <2>1, <2>2
  <1> QED
    BY <1>3 DEF AdminFilters

LEMMA ImportStateFound ==
    ASSUME NEW l, NEW publication \in {Null, "DRAFT", "PUBLISHED", "ARCHIVED"}, NEW t \in Int
    PROVE  AdminItem(l, publication, t).importState \in AdminFilters["importState"]
  <1>1. AdminItem(l, publication, t).importState =
           IF publication = Null THEN "unlinked"
           ELSE IF publication = "DRAFT" THEN "linked_draft"
           ELSE IF publication = "PUBLISHED" THEN "linked_published"
           ELSE "linked_other"
    BY DEF AdminItem
  <1> QED
    BY <1>1 DEF AdminFilters

LEMMA ItemFound ==
    ASSUME NEW l, RowOK(l), NEW t \in Int
    PROVE  FoundUnderOneValue(AdminItem(l, Null, t), DOMAIN AdminFilters)
  <1> DEFINE item == AdminItem(l, Null, t)
  <1>1. DOMAIN AdminFilters = {"state", "lifecycle", "freshness", "importState", "buyNow"}
    BY DEF AdminFilters
  <1>2. item.state \in AdminFilters["state"]
    <2>1. item.state = l.state /\ l.state \in {"DISCOVERED", "IMPORTED"}
      BY RowFields DEF RowOK, AdminItem
    <2> QED
      BY <2>1 DEF AdminFilters
  <1>3. item.lifecycle \in AdminFilters["lifecycle"]
    BY LifecycleNames DEF AdminItem
  <1>4. item.freshness \in AdminFilters["freshness"]
    <2>1. item.freshness = IF Visible(l, t) THEN "FRESH"
                           ELSE IF l.freshnessState = "TERMINAL" THEN "DEFERRED"
                           ELSE l.freshnessState
      BY DEF AdminItem
    <2>2. l.freshnessState \in {"FRESH", "STALE", "TERMINAL"}
      BY RowFields DEF RowOK
    <2> QED
      BY <2>1, <2>2 DEF AdminFilters
  <1>5. item.importState \in AdminFilters["importState"]
    BY ImportStateFound
  <1>6. item.buyNow \in AdminFilters["buyNow"]
    <2>1. l.isBuyNow \in BOOLEAN /\ (l.isBuyNow => Positive(l.buyNowUsd))
      BY RowFields DEF RowOK, BuyNowPriced
    <2>2. item.buyNow = IF l.isBuyNow /\ ~Positive(l.buyNowUsd) THEN Null
                        ELSE l.isBuyNow /\ Positive(l.buyNowUsd)
      BY DEF AdminItem, PriceFact
    <2>3. item.buyNow = (l.isBuyNow /\ Positive(l.buyNowUsd))
      BY <2>1, <2>2
    <2> QED
      BY <2>3 DEF AdminFilters
  <1> HIDE DEF item
  <1>7. \A f \in DOMAIN AdminFilters : item[f] \in AdminFilters[f]
    BY <1>1, <1>2, <1>3, <1>4, <1>5, <1>6
  <1>8. FoundUnderOneValue(item, DOMAIN AdminFilters)
    BY <1>7, FoundUnderItsValue
  <1> QED
    BY <1>8 DEF item

LEMMA CalculatorReady ==
    ASSUME NEW l, RowOK(l), NEW t \in Int, Visible(l, t)
    PROVE  CalculatorInput(l, t).status = "available" <=>
             HasFreshPrice(l, t) /\ PriceFact(l).basis # "none"
  <1>1. ~IsTerminal(l.providerResultState)
    BY PublicFacts
  <1>2. l.isBuyNow <=> Positive(l.buyNowUsd)
    BY <1>1, RowFields DEF RowOK, BuyNowPriced
  <1>3. CASE ~HasFreshPrice(l, t)
    <2>1. CalculatorInput(l, t) = Unpriced("PRICE_NOT_FRESH")
      BY <1>3 DEF CalculatorInput
    <2> QED
      BY <1>3, <2>1 DEF Unpriced
  <1>4. CASE HasFreshPrice(l, t) /\ Positive(l.buyNowUsd)
    <2>1. CalculatorInput(l, t).status = "available"
      BY <1>2, <1>4 DEF CalculatorInput
    <2>2. PriceFact(l).basis = "buyNow"
      BY <1>4 DEF PriceFact
    <2> QED
      BY <1>4, <2>1, <2>2
  <1>5. CASE HasFreshPrice(l, t) /\ ~Positive(l.buyNowUsd) /\ Positive(l.currentBidUsd)
    <2>1. CalculatorInput(l, t).status = "available"
      BY <1>5 DEF CalculatorInput
    <2>2. PriceFact(l).basis = "currentBid"
      BY <1>5 DEF PriceFact
    <2> QED
      BY <1>5, <2>1, <2>2
  <1>6. CASE HasFreshPrice(l, t) /\ ~Positive(l.buyNowUsd) /\ ~Positive(l.currentBidUsd)
    <2>1. CalculatorInput(l, t) = Unpriced("PRICE_NOT_FRESH")
      BY <1>6 DEF CalculatorInput
    <2>2. PriceFact(l).basis = "none"
      BY <1>6 DEF PriceFact
    <2> QED
      BY <2>1, <2>2 DEF Unpriced
  <1> QED
    BY <1>3, <1>4, <1>5, <1>6

LEMMA OperatorsFindIt ==
    ASSUME lot # Null, RowOK(lot), hour \in Int
    PROVE  FoundByOperators(AdminLotDetail(lot, Null, hour))
  <1> DEFINE item == AdminItem(lot, Null, hour)
             detail == AdminLotDetail(lot, Null, hour)
  <1>1. detail.item = item /\ detail.qualityReasonCode = Quality(lot)
    BY DEF AdminLotDetail
  <1>2. FoundUnderOneValue(item, DOMAIN AdminFilters)
    BY ItemFound
  <1>3. ASSUME item.publicVisible
        PROVE  /\ item.freshness = "FRESH" /\ item.v2.reasonCode \in {"OK", "STALE_PRICE"}
               /\ item.calculator = "input_ready" <=>
                     (item.v2.reasonCode = "OK" /\ item.price.basis # "none")
               /\ detail.qualityReasonCode = "none" <=> OperatorGroup(lot, hour) = "publicNow"
    <2>1. /\ item.publicVisible <=> Visible(lot, hour)
          /\ item.freshness = IF Visible(lot, hour) THEN "FRESH"
                              ELSE IF lot.freshnessState = "TERMINAL" THEN "DEFERRED"
                              ELSE lot.freshnessState
          /\ item.v2 = ProjectionV2(lot, hour)
          /\ item.price = PriceFact(lot)
          /\ item.calculator = IF CalculatorInput(lot, hour).status = "available"
                               THEN "input_ready" ELSE CalculatorInput(lot, hour).status
      BY DEF AdminItem
    <2>2. Visible(lot, hour)
      BY <1>3, <2>1
    <2>3. item.freshness = "FRESH"
      BY <2>1, <2>2
    <2>4. item.v2.reasonCode = IF HasFreshPrice(lot, hour) THEN "OK" ELSE "STALE_PRICE"
      BY <2>1, <2>2, ProjectionsAgree
    <2>5. item.calculator = "input_ready" <=> CalculatorInput(lot, hour).status = "available"
      <3>1. CalculatorInput(lot, hour).status # "input_ready"
        BY DEF CalculatorInput, Unpriced
      <3> QED
        BY <2>1, <3>1
    <2>6. OperatorGroup(lot, hour) = "publicNow" <=> Quality(lot) = "none"
      BY <2>2, GroupsAgree
    <2> HIDE DEF item, detail
    <2> QED
      BY <1>1, <2>1, <2>2, <2>3, <2>4, <2>5, <2>6, CalculatorReady
  <1> HIDE DEF item, detail
  <1>4. FoundByOperators(detail)
    BY <1>1, <1>2, <1>3 DEF FoundByOperators
  <1> QED
    BY <1>4 DEF detail

(* The filters, the row rules, the second projection, the operators' list  *)
(* and the counters never disagree about a lot.                            *)
THEOREM ViewsAlwaysAgree == CatalogSpec => []ViewsAgree
  <1>1. ASSUME CatalogInv PROVE ViewsAgree
    <2> SUFFICES ASSUME lot # Null PROVE ViewsAgree
      BY DEF ViewsAgree
    <2>1. RowOK(lot) /\ ObservedInOrder(lot, hour) /\ hour \in Int
      BY <1>1, CatalogAssumption DEF CatalogInv
    <2>2. VisibleWhere(lot, hour) <=> Visible(lot, hour)
      BY <2>1, VisibleAgrees
    <2>3. ASSUME Visible(lot, hour)
          PROVE  /\ \A k \in {"UPCOMING", "LIVE", "ENDED"} :
                       LifecycleWhere(lot, k) <=> Lifecycle(lot, hour) = k
                 /\ FreshPriceWhere(lot, hour) <=> HasFreshPrice(lot, hour)
                 /\ LET v2 == ProjectionV2(lot, hour) IN
                    /\ v2.publicVisible
                    /\ v2.showPriceAndCta <=> HasFreshPrice(lot, hour)
      BY <2>1, <2>3, LifecyclesAgree, FreshPricesAgree, ProjectionsAgree
    <2>4. LET metrics == AdminMetrics(lot, Null, hour)
          IN  CountersAgree(lot, metrics) /\ DashboardsAgree(lot, metrics)
      BY <2>1, CountersAlwaysAgree
    <2>5. FoundByOperators(AdminLotDetail(lot, Null, hour))
      BY <2>1, OperatorsFindIt
    <2>6. \A publication \in {"DRAFT", "PUBLISHED", "ARCHIVED"} :
             FoundUnderOneValue(AdminItem(lot, publication, hour), {"importState"})
      <3> SUFFICES ASSUME NEW publication \in {"DRAFT", "PUBLISHED", "ARCHIVED"}
                   PROVE  FoundUnderOneValue(AdminItem(lot, publication, hour), {"importState"})
        OBVIOUS
      <3>1. AdminItem(lot, publication, hour).importState \in AdminFilters["importState"]
        BY <2>1, ImportStateFound
      <3>2. \A f \in {"importState"} :
               AdminItem(lot, publication, hour)[f] \in AdminFilters[f]
        BY <3>1
      <3> QED
        BY <3>2, FoundUnderItsValue
    <2> QED
      BY <2>2, <2>3, <2>4, <2>5, <2>6 DEF ViewsAgree
  <1> QED
    BY <1>1, CatalogInvariant, PTL

-----------------------------------------------------------------------------
(* The showroom: the vehicles and lots the site lists, and the options of  *)
(* its filters.                                                            *)
(* Whatever administrators and scripts do, the rows stay what they are.    *)
LEMMA ShowroomStart == ShowroomInit => ShowroomTypeOK
  BY DEF ShowroomInit, ShowroomTypeOK

LEMMA ShowroomStep == ShowroomTypeOK /\ [ShowroomNext]_showroomVars => ShowroomTypeOK'
  <1> SUFFICES ASSUME ShowroomTypeOK, [ShowroomNext]_showroomVars PROVE ShowroomTypeOK'
    OBVIOUS
  <1>1. \A v \in Car : car[v] # NoCar => car[v] \in Vehicle
    BY DEF ShowroomTypeOK
  <1>2. ASSUME NEW p \in Publication, NEW f \in CarFacts, NEW demo \in BOOLEAN
        PROVE  VehicleRow(p, "AVAILABLE", f, demo) \in Vehicle
    BY DEF VehicleRow, Vehicle
  <1>3. ASSUME NEW r \in Vehicle
        PROVE  /\ \A p \in Publication : [r EXCEPT !.publication = p] \in Vehicle
               /\ [r EXCEPT !.publication = "ARCHIVED", !.availability = "NOT_AVAILABLE"] \in Vehicle
               /\ \A a \in Availability \cup {r.availability}, f \in CarFacts :
                     [r EXCEPT !.availability = a, !.facts = f] \in Vehicle
    BY DEF Vehicle, Publication
  <1>4. ASSUME NEW v \in Car, AddVehicle(v) PROVE ShowroomTypeOK'
    <2>1. PICK p \in {"DRAFT", "READY", "PUBLISHED"}, f \in CarFacts :
            car' = [car EXCEPT ![v] = VehicleRow(p, "AVAILABLE", f, FALSE)]
      BY <1>4 DEF AddVehicle
    <2>2. VehicleRow(p, "AVAILABLE", f, FALSE) \in Vehicle
      BY <1>2 DEF Publication
    <2> QED
      BY <1>4, <2>1, <2>2 DEF AddVehicle, ShowroomTypeOK
  <1>5. ASSUME NEW v \in Car, UpdateVehicle(v) PROVE ShowroomTypeOK'
    <2>1. PICK a \in Availability \cup {car[v].availability}, f \in CarFacts :
            car' = [car EXCEPT ![v].availability = a, ![v].facts = f]
      BY <1>5 DEF UpdateVehicle
    <2>2. car' = [car EXCEPT ![v] = [car[v] EXCEPT !.availability = a, !.facts = f]]
      BY <2>1 DEF ShowroomTypeOK
    <2>3. [car[v] EXCEPT !.availability = a, !.facts = f] \in Vehicle
      BY <1>1, <1>3, <1>5 DEF UpdateVehicle
    <2> QED
      BY <1>5, <2>2, <2>3 DEF UpdateVehicle, ShowroomTypeOK
  <1>6. ASSUME NEW k \in Admin, NEW v \in Car, NEW op \in {"publish", "hide", "archive"},
               ReadVehicle(k, op, v)
        PROVE  ShowroomTypeOK'
    BY <1>6 DEF ReadVehicle, ShowroomTypeOK
  <1>7. ASSUME NEW k \in Admin, WriteVehicle(k) PROVE ShowroomTypeOK'
    <2> DEFINE v == admin[k].car
    <2>1. v \in Car /\ admin[k].op \in {"publish", "hide", "archive"}
          /\ admin' = [admin EXCEPT ![k] = NoWork] /\ UNCHANGED <<usaLot, linked>>
      BY <1>7 DEF WriteVehicle, ShowroomTypeOK
    <2>2. CASE car[v] = NoCar
      BY <1>7, <2>1, <2>2 DEF WriteVehicle, ShowroomTypeOK
    <2>3. CASE car[v] # NoCar
      <3>1. car[v] \in Vehicle
        BY <1>1, <2>1, <2>3
      <3>2. \E r \in Vehicle : car' = [car EXCEPT ![v] = r]
        <4>1. CASE admin[k].op = "publish"
          <5>1. car' = [car EXCEPT ![v] = [car[v] EXCEPT !.publication = "PUBLISHED"]]
            BY <1>7, <2>1, <2>3, <4>1 DEF WriteVehicle, ShowroomTypeOK
          <5> QED
            BY <1>3, <3>1, <5>1 DEF Publication
        <4>2. CASE admin[k].op = "hide"
          <5>1. car' = [car EXCEPT ![v] = [car[v] EXCEPT !.publication = "HIDDEN"]]
            BY <1>7, <2>1, <2>3, <4>2 DEF WriteVehicle, ShowroomTypeOK
          <5> QED
            BY <1>3, <3>1, <5>1 DEF Publication
        <4>3. CASE admin[k].op = "archive"
          <5>1. car' = [car EXCEPT ![v] = [car[v] EXCEPT !.publication = "ARCHIVED",
                                                         !.availability = "NOT_AVAILABLE"]]
            BY <1>7, <2>1, <2>3, <4>3 DEF WriteVehicle, ShowroomTypeOK
          <5> QED
            BY <1>3, <3>1, <5>1
        <4> QED
          BY <2>1, <4>1, <4>2, <4>3
      <3> QED
        BY <2>1, <3>2 DEF ShowroomTypeOK
    <2> QED
      BY <2>2, <2>3
  <1>8. CASE CreateDemoInventory
    <2>1. PICK f \in CarFacts, v \in Car :
            car' = [car EXCEPT ![v] = VehicleRow("PUBLISHED", "AVAILABLE", f, TRUE)]
      BY <1>8 DEF CreateDemoInventory
    <2>2. VehicleRow("PUBLISHED", "AVAILABLE", f, TRUE) \in Vehicle
      BY <1>2 DEF Publication
    <2> QED
      BY <1>8, <2>1, <2>2 DEF CreateDemoInventory, ShowroomTypeOK
  <1>9. CASE DeleteDemoInventory
    BY <1>9 DEF DeleteDemoInventory, ShowroomTypeOK
  <1>10. CASE ReconcileLegacy
    <2>1. \A v \in Published : car[v] \in Vehicle
      BY <1>1 DEF Published, NoCar
    <2>2. car' \in [Car -> Vehicle \cup {NoCar}]
      BY <1>3, <1>10, <2>1 DEF ReconcileLegacy, ShowroomTypeOK
    <2> QED
      BY <1>10, <2>2 DEF ReconcileLegacy, ShowroomTypeOK
  <1>11. ASSUME NEW l \in AuctionLot, LotIsShown(l) PROVE ShowroomTypeOK'
    BY <1>11 DEF LotIsShown, ShowroomTypeOK
  <1>12. ASSUME NEW l \in AuctionLot, NEW v \in Car, LinkLot(l, v) PROVE ShowroomTypeOK'
    BY <1>12 DEF LinkLot, ShowroomTypeOK
  <1>13. CASE UNCHANGED showroomVars
    BY <1>13 DEF showroomVars, ShowroomTypeOK
  <1> QED
    BY <1>4, <1>5, <1>6, <1>7, <1>8, <1>9, <1>10, <1>11, <1>12, <1>13 DEF ShowroomNext

(* In every reachable state each vehicle is a row or absent, and each lot  *)
(* shown is one of the lots there are.                                     *)
THEOREM ShowroomTyped == ShowroomSpec => []ShowroomTypeOK
  BY ShowroomStart, ShowroomStep, PTL DEF ShowroomSpec

(* What a finite set is mapped to is finite.                               *)
LEMMA ImageIsFinite ==
    ASSUME NEW S, IsFiniteSet(S), NEW f
    PROVE  IsFiniteSet({f[x] : x \in S})
  <1> DEFINE T == {f[x] : x \in S}
             g == [x \in S |-> f[x]]
  <1>1. g \in Surjection(S, T)
    BY DEF Surjection
  <1> QED
    BY <1>1, FS_Surjection

LEMMA CardsAreFinite == ASSUME NEW view PROVE IsFiniteSet(Inventory(view))
  <1> DEFINE lots == {m \in OnAuction : view # "all" \/ linked[m] \notin Published}
             ofLot == [l \in AuctionLot |-> AuctionItem(l)]
             ofCar == [v \in Car |-> VehicleItem(v)]
  <1>1. lots \subseteq AuctionLot /\ Published \subseteq Car
    BY DEF OnAuction, Published
  <1>2. IsFiniteSet(lots) /\ IsFiniteSet(Published)
    BY <1>1, FS_Subset, ShowroomAssumption
  <1>3. IsFiniteSet({ofLot[l] : l \in lots}) /\ IsFiniteSet({ofCar[v] : v \in Published})
    BY <1>2, ImageIsFinite
  <1>4. Inventory(view) = {ofLot[l] : l \in lots} \cup {ofCar[v] : v \in Published}
    BY <1>1 DEF Inventory
  <1> QED
    BY <1>3, <1>4, FS_Union

(* A card has the kind and the fields that the filters look at.            *)
LEMMA CardFields ==
    ASSUME NEW view, NEW item \in Inventory(view)
    PROVE  /\ item.kind \in {"auctionLot", "vehicle"}
           /\ item.kind = "vehicle" => item["provider"] = Nothing /\ item["lifecycle"] = Nothing
  BY DEF Inventory, AuctionItem, VehicleItem

(* What a filter promises it finds: the cards that pass the filters that   *)
(* are set and have the value of the option pass it as well.               *)
LEMMA InventoryAlwaysLeads == InventoryLeads
  <1> SUFFICES ASSUME NEW view \in {"all", "curated"}, NEW item \in Counted(view),
                      NEW q \in Query, Supported(view, q), NEW d \in Dimensions,
                      item[d] # Nothing, Passes(item, view, q, d),
                      d \in Texts => item[d].spelling # "padded"
               PROVE  LET chosen == [q EXCEPT ![d] = Parsed(d, item[d])]
                          promised == {i \in Counted(view) : i[d] = item[d] /\ Passes(i, view, q, d)}
                          found == {i \in Inventory(view) : Passes(i, view, chosen, "none")}
                      IN  Supported(view, chosen) /\ Cardinality(found) >= Cardinality(promised)
    BY DEF InventoryLeads
  <1> DEFINE chosen == [q EXCEPT ![d] = Parsed(d, item[d])]
             promised == {i \in Counted(view) : i[d] = item[d] /\ Passes(i, view, q, d)}
             found == {i \in Inventory(view) : Passes(i, view, chosen, "none")}
  <1>1. Counted(view) = Inventory(view)
    BY DEF Counted, Inventory
  <1>2. Parsed(d, item[d]) = item[d] /\ Matches(d, item[d], item[d])
    BY DEF Parsed, Trim, Matches, Same
  <1>3. \A f \in Filters : chosen[f] = IF f = d THEN item[d] ELSE q[f]
    <2>1. q = [f \in Filters |-> q[f]]
      BY ShowroomAssumption
    <2> QED
      BY <1>2, <2>1
  <1> HIDE DEF chosen
  <1>4. /\ chosen["buyNow"] = q["buyNow"] /\ chosen["priceFrom"] = q["priceFrom"]
        /\ chosen["priceTo"] = q["priceTo"]
        /\ chosen["provider"] = IF d = "provider" THEN item[d] ELSE q["provider"]
        /\ chosen["lifecycle"] = IF d = "lifecycle" THEN item[d] ELSE q["lifecycle"]
    BY <1>3 DEF Filters, Dimensions
  <1>5. Supported(view, chosen)
    <2>1. view = "curated" => item[d] # Nothing /\ d \notin {"provider", "lifecycle"}
      BY <1>1, CardFields DEF Passes
    <2> QED
      BY <1>4, <2>1 DEF Supported
  <1>6. ASSUME NEW i \in promised PROVE i \in found
    <2>1. i \in Inventory(view) /\ i[d] = item[d] /\ Passes(i, view, q, d)
      BY <1>1
    <2>2. (chosen.provider # Nothing \/ chosen.lifecycle # Nothing \/ chosen.buyNow # Nothing)
             => i.kind = "auctionLot"
      BY <1>4, <2>1, CardFields DEF Passes
    <2>3. \A e \in Dimensions \ {"none"} : chosen[e] # Nothing => Matches(e, i[e], chosen[e])
      BY <1>2, <1>3, <2>1 DEF Passes, Filters
    <2>4. Within(i.price, q) => Within(i.price, chosen)
      BY <1>4 DEF Within
    <2> QED
      BY <1>4, <2>1, <2>2, <2>3, <2>4 DEF Passes
  <1>7. IsFiniteSet(found)
    BY CardsAreFinite, FS_Subset
  <1>8. Cardinality(promised) <= Cardinality(found)
    BY <1>6, <1>7, FS_Subset
  <1>9. Cardinality(promised) \in Nat /\ Cardinality(found) \in Nat
    BY <1>6, <1>7, FS_Subset, FS_CardinalityType
  <1> QED
    BY <1>5, <1>8, <1>9 DEF chosen

(* An option of the USA list has no blanks at its ends, so that a filter   *)
(* keeps it as it is.                                                      *)
LEMMA OptionIsTrimmed ==
    ASSUME NEW l \in LotFacts, NEW d \in Texts, UsaOption(l, d) # Nothing
    PROVE  UsaOption(l, d).spelling # "padded" /\ Parsed(d, UsaOption(l, d)) = UsaOption(l, d)
  <1>1. {l.make, l.model, l.locationState, l.yard} \subseteq Text \cup {Nothing}
    BY ShowroomAssumption
  <1>2. ASSUME NEW t \in Text
        PROVE  Trim(t).spelling # "padded" /\ Canonical(t).spelling # "padded"
    BY DEF Trim, Canonical, Spelt, Text
  <1>3. UsaOption(l, d).spelling # "padded"
    BY <1>1, <1>2 DEF UsaOption, StateFromLocation, Texts
  <1> QED
    BY <1>3 DEF Parsed, Trim

(* A row without stray blanks passes the filter for its own option, however*)
(* the option is spelled.                                                  *)
LEMMA TidyRowIsFound ==
    ASSUME NEW l \in LotFacts, NEW d \in Texts, NEW value,
           UsaOptionCounts(l, d, value), l[d] # Nothing => Tidy(l[d])
    PROVE  /\ d = "make" => Same(l.make, value)
           /\ d = "model" => Includes(l.model, value)
           /\ d = "locationState" => InState(l, value)
  <1>1. UsaOption(l, d) # Nothing /\ Same(UsaOption(l, d), value)
    BY DEF UsaOptionCounts, Matches
  <1>2. ASSUME NEW t, Tidy(t) PROVE Trim(t) = t /\ Canonical(t) = t
    BY <1>2 DEF Tidy, Trim, Canonical
  <1>3. CASE d = "make"
    BY <1>1, <1>2, <1>3 DEF UsaOption
  <1>4. CASE d = "model"
    BY <1>1, <1>2, <1>4 DEF UsaOption, Includes
  <1>5. CASE d = "locationState"
    BY <1>1, <1>2, <1>5 DEF UsaOption, StateFromLocation, InState
  <1> QED
    BY <1>3, <1>4, <1>5

(* A lot that an option of the USA list counts is found when the option is *)
(* chosen, if it is in the range of prices and has no stray blanks.        *)
LEMMA UsaAlwaysLeads == ShowroomTypeOK => UsaLeads
  <1> SUFFICES ASSUME ShowroomTypeOK, NEW q \in Query
               PROVE  LET counted == {l \in OnAuction : InUsaOptions(usaLot[l], q)}
                          prices == UsaPrices({usaLot[l] : l \in counted})
                      IN  /\ \A l \in counted, d \in Dimensions :
                                LET value == UsaOption(usaLot[l], d)
                                    chosen == [q EXCEPT ![d] = Parsed(d, value)]
                                    kept == {m \in counted :
                                                /\ UsaOptionCounts(usaLot[m], d, value)
                                                /\ InPriceRange(usaLot[m], q)
                                                /\ d \in Texts /\ usaLot[m][d] # Nothing
                                                      => Tidy(usaLot[m][d])}
                                    found == {m \in OnAuction : InUsaList(usaLot[m], chosen)}
                                IN  value # Nothing => Cardinality(found) >= Cardinality(kept)
                          /\ \A lowest, highest \in prices :
                                (\A p \in prices : lowest <= p /\ p <= highest) =>
                                LET whole == [q EXCEPT !.priceFrom = lowest, !.priceTo = highest]
                                IN  \A l \in counted :
                                       usaLot[l].fresh /\ CardPrice(usaLot[l]) # Nothing =>
                                          InUsaList(usaLot[l], whole)
    BY DEF UsaLeads
  <1> DEFINE counted == {l \in OnAuction : InUsaOptions(usaLot[l], q)}
             prices == UsaPrices({usaLot[l] : l \in counted})
  <1>1. \A l \in OnAuction : /\ usaLot[l] \in LotFacts
                             /\ usaLot[l].currentBidUsd \in Int \cup {Nothing}
                             /\ usaLot[l].buyNowUsd \in Int \cup {Nothing}
    BY ShowroomAssumption DEF ShowroomTypeOK, OnAuction
  <1>2. q = [f \in Filters |-> q[f]]
    BY ShowroomAssumption
  <1>3. ASSUME NEW l \in counted, NEW d \in Dimensions, UsaOption(usaLot[l], d) # Nothing
        PROVE  LET value == UsaOption(usaLot[l], d)
                   kept == {m \in counted : /\ UsaOptionCounts(usaLot[m], d, value)
                                            /\ InPriceRange(usaLot[m], q)
                                            /\ d \in Texts /\ usaLot[m][d] # Nothing
                                                  => Tidy(usaLot[m][d])}
                   found == {m \in OnAuction : InUsaList(usaLot[m], [q EXCEPT ![d] = Parsed(d, value)])}
               IN  Cardinality(found) >= Cardinality(kept)
    <2> DEFINE value == UsaOption(usaLot[l], d)
               chosen == [q EXCEPT ![d] = Parsed(d, value)]
               kept == {m \in counted : /\ UsaOptionCounts(usaLot[m], d, value)
                                        /\ InPriceRange(usaLot[m], q)
                                        /\ d \in Texts /\ usaLot[m][d] # Nothing
                                              => Tidy(usaLot[m][d])}
               found == {m \in OnAuction : InUsaList(usaLot[m], chosen)}
    <2>1. \A f \in Filters : chosen[f] = IF f = d THEN value ELSE q[f]
      <3>1. Parsed(d, value) = value
        BY <1>1, <1>3, OptionIsTrimmed DEF Parsed
      <3> QED
        BY <1>2, <3>1
    <2> HIDE DEF chosen
    <2>2. ASSUME NEW m \in kept PROVE m \in found
      <3>1. /\ m \in OnAuction /\ InUsaOptions(usaLot[m], q) /\ UsaOptionCounts(usaLot[m], d, value)
            /\ InPriceRange(usaLot[m], q)
            /\ d \in Texts /\ usaLot[m][d] # Nothing => Tidy(usaLot[m][d])
        OBVIOUS
      <3>2. /\ chosen["priceFrom"] = q["priceFrom"] /\ chosen["priceTo"] = q["priceTo"]
            /\ chosen["buyNow"] = q["buyNow"]
        BY <2>1 DEF Filters, Dimensions
      <3> DEFINE Sought(e) == chosen[e] = IF e = d THEN value ELSE q[e]
      <3> HIDE DEF value
      <3>3. Sought("provider") /\ Sought("make") /\ Sought("model") /\ Sought("locationState") /\ Sought("lifecycle")
        BY <2>1 DEF Filters, Dimensions
      <3>4. /\ d = "make" => Same(usaLot[m].make, value)
            /\ d = "model" => Includes(usaLot[m].model, value)
            /\ d = "locationState" => InState(usaLot[m], value)
        BY <1>1, <3>1, TidyRowIsFound DEF Texts
      <3>5. d \notin Texts => UsaOption(usaLot[m], d) = value
        BY <3>1 DEF UsaOptionCounts, Matches
      <3>6. chosen["provider"] # Nothing => usaLot[m].provider = chosen["provider"]
        BY <3>1, <3>3, <3>5 DEF InUsaOptions, UsaOption, Texts
      <3>7. chosen["make"] # Nothing => Same(usaLot[m].make, chosen["make"])
        BY <3>1, <3>3, <3>4 DEF InUsaOptions
      <3>8. chosen["model"] # Nothing => Includes(usaLot[m].model, chosen["model"])
        BY <3>1, <3>3, <3>4 DEF InUsaOptions
      <3>9. chosen["locationState"] # Nothing => InState(usaLot[m], chosen["locationState"])
        BY <3>1, <3>3, <3>4 DEF InUsaOptions
      <3>10. chosen["lifecycle"] # Nothing => CardLifecycle(usaLot[m]) = chosen["lifecycle"]
        BY <3>1, <3>3, <3>5 DEF InUsaOptions, UsaOption, Texts
      <3>11. chosen["buyNow"] # Nothing => usaLot[m].isBuyNow = (chosen["buyNow"] = "yes") /\ usaLot[m].fresh
        BY <3>1, <3>2 DEF InUsaOptions
      <3>12. InPriceRange(usaLot[m], chosen)
        BY <3>1, <3>2 DEF InPriceRange, Within
      <3> QED
        BY <3>1, <3>6, <3>7, <3>8, <3>9, <3>10, <3>11, <3>12 DEF InUsaList, InUsaOptions
    <2>3. IsFiniteSet(found)
      <3>1. found \subseteq AuctionLot
        BY DEF OnAuction
      <3> QED
        BY <3>1, FS_Subset, ShowroomAssumption
    <2>4. Cardinality(kept) <= Cardinality(found)
      BY <2>2, <2>3, FS_Subset
    <2>5. Cardinality(kept) \in Nat /\ Cardinality(found) \in Nat
      BY <2>2, <2>3, FS_Subset, FS_CardinalityType
    <2>6. Cardinality(found) >= Cardinality(kept)
      BY <2>4, <2>5
    <2> QED
      BY <2>6 DEF chosen
  <1>4. ASSUME NEW lowest \in prices, NEW highest \in prices,
               \A p \in prices : lowest <= p /\ p <= highest,
               NEW l \in counted, usaLot[l].fresh, CardPrice(usaLot[l]) # Nothing
        PROVE  InUsaList(usaLot[l], [q EXCEPT !.priceFrom = lowest, !.priceTo = highest])
    <2> DEFINE whole == [q EXCEPT !.priceFrom = lowest, !.priceTo = highest]
               price == CardPrice(usaLot[l])
    <2>1. \A f \in Filters : whole[f] = IF f = "priceFrom" THEN lowest
                                       ELSE IF f = "priceTo" THEN highest ELSE q[f]
      BY <1>2 DEF Filters
    <2> HIDE DEF whole
    <2>2. InUsaOptions(usaLot[l], whole)
      <3>1. /\ whole["provider"] = q["provider"] /\ whole["make"] = q["make"]
            /\ whole["model"] = q["model"] /\ whole["locationState"] = q["locationState"]
            /\ whole["lifecycle"] = q["lifecycle"] /\ whole["buyNow"] = q["buyNow"]
        BY <2>1 DEF Filters, Dimensions
      <3> QED
        BY <3>1 DEF InUsaOptions
    <2>3. price \in {usaLot[l].buyNowUsd, usaLot[l].currentBidUsd} /\ IsPrice(price)
      BY <1>4 DEF CardPrice
    <2>4. price \in prices
      BY <1>4, <2>3 DEF UsaPrices
    <2>5. prices \subseteq Int
      <3>1. \A p \in prices : p # Nothing /\ \E m \in counted : p \in {usaLot[m].buyNowUsd, usaLot[m].currentBidUsd}
        BY DEF UsaPrices, IsPrice
      <3> QED
        BY <1>1, <3>1
    <2>6. lowest <= price /\ price <= highest /\ {lowest, highest, price} \subseteq Int
      BY <1>4, <2>4, <2>5
    <2>7. Within(price, whole)
      <3>1. whole["priceFrom"] = lowest /\ whole["priceTo"] = highest
        BY <2>1 DEF Filters, Dimensions
      <3> QED
        BY <2>3, <2>6, <3>1 DEF Within
    <2>8. price # Nothing
      BY <1>4
    <2> HIDE DEF price
    <2>9. InUsaList(usaLot[l], whole)
      BY <1>4, <2>2, <2>3, <2>7, <2>8 DEF InUsaList, InPriceRange
    <2> QED
      BY <2>9 DEF whole
  <1> QED
    BY <1>3, <1>4

(* A make or model of the site's own cars leads back to the car it was     *)
(* taken from, which has a page.                                           *)
LEMMA SiteAlwaysLeads == ShowroomTypeOK => SiteLeads
  <1> SUFFICES ASSUME ShowroomTypeOK, NEW region \in {Nothing, "UKRAINE", "EUROPE"}
               PROVE  /\ \A make \in SiteOptions(region, "make") : FindAll(region, make, Nothing) # {}
                      /\ \A model \in SiteOptions(region, "model") : FindAll(region, Nothing, model) # {}
                      /\ \A v \in FindAll(region, Nothing, Nothing) : Opens(v)
    BY DEF SiteLeads
  <1>1. ASSUME NEW v \in Car, SiteDefault(v, region)
        PROVE  /\ Same(car[v].facts.make, car[v].facts.make)
               /\ Includes(car[v].facts.model, car[v].facts.model)
    <2>1. car[v].facts \in CarFacts
      BY <1>1 DEF SiteDefault, Published, ShowroomTypeOK, NoCar, Vehicle
    <2>2. car[v].facts.make \in Text /\ car[v].facts.model \in Text
      BY <2>1, ShowroomAssumption
    <2>3. Nothing \notin Text
      BY ShowroomAssumption
    <2> QED
      BY <2>2, <2>3 DEF Same, Includes
  <1>2. ASSUME NEW make \in SiteOptions(region, "make") PROVE FindAll(region, make, Nothing) # {}
    <2>1. PICK v \in Car : SiteDefault(v, region) /\ make = car[v].facts["make"]
      BY DEF SiteOptions
    <2>2. v \in FindAll(region, make, Nothing)
      BY <1>1, <2>1 DEF FindAll
    <2> QED
      BY <2>2
  <1>3. ASSUME NEW model \in SiteOptions(region, "model") PROVE FindAll(region, Nothing, model) # {}
    <2>1. PICK v \in Car : SiteDefault(v, region) /\ model = car[v].facts["model"]
      BY DEF SiteOptions
    <2>2. v \in FindAll(region, Nothing, model)
      BY <1>1, <2>1 DEF FindAll
    <2> QED
      BY <2>2
  <1>4. ASSUME NEW v \in FindAll(region, Nothing, Nothing) PROVE Opens(v)
    BY DEF FindAll, SiteDefault, Opens
  <1> QED
    BY <1>2, <1>3, <1>4

(* A problem of the dashboard is a car that the list of vehicles shows, and*)
(* a car that visitors find is counted as published.                       *)
LEMMA DashboardAlwaysLeads == ShowroomTypeOK => DashboardLeads
  <1> SUFFICES ASSUME ShowroomTypeOK PROVE DashboardLeads
    OBVIOUS
  <1>1. ASSUME NEW kind \in Problems
        PROVE  \E p \in Publication : DashboardCars(kind) \cap AdminVehicles(Nothing, "internal", p) # {}
    <2>1. PICK v : v \in DashboardCars(kind)
      BY DEF Problems
    <2>2. v \in Car /\ car[v] # NoCar /\ car[v].facts.source = "internal"
      BY <2>1 DEF DashboardCars, OwnCars
    <2>3. car[v].publication \in Publication
      BY <2>2 DEF ShowroomTypeOK, Vehicle
    <2>4. v \in AdminVehicles(Nothing, "internal", car[v].publication)
      BY <2>2 DEF AdminVehicles
    <2> QED
      BY <2>1, <2>3, <2>4
  <1>2. ASSUME NEW region \in {"UKRAINE", "EUROPE"},
               NEW v \in FindAll(region, Nothing, Nothing) \cap OwnCars
        PROVE  /\ v \in DashboardCars(region) \cap DashboardCars("PUBLISHED")
               /\ v \in AdminVehicles(region, "internal", "PUBLISHED")
               /\ v \notin DashboardCars("DRAFT") \cup DashboardCars("HIDDEN")
    <2>1. /\ v \in Car /\ car[v] # NoCar /\ car[v].facts.source = "internal"
          /\ car[v].publication = "PUBLISHED"
      BY DEF FindAll, SiteDefault, OwnCars, Published
    <2>2. car[v].facts.region = region
      BY ShowroomAssumption DEF FindAll, SiteDefault
    <2>3. v \in OwnCars
      OBVIOUS
    <2>4. v \in DashboardCars(region) /\ v \in DashboardCars("PUBLISHED")
      BY <2>1, <2>2, <2>3 DEF DashboardCars
    <2>5. v \notin DashboardCars("DRAFT") /\ v \notin DashboardCars("HIDDEN")
      BY <2>1 DEF DashboardCars
    <2>6. v \in AdminVehicles(region, "internal", "PUBLISHED")
      BY <2>1, <2>2 DEF AdminVehicles
    <2> QED
      BY <2>4, <2>5, <2>6
  <1> QED
    BY <1>1, <1>2 DEF DashboardLeads

(* Whatever cars, lots and filters there are, an option of the three lists *)
(* leads to the cards it counts, but for stray blanks and prices the USA   *)
(* list alone looks at, and a number of the dashboard to cars (inventory,  *)
(* inventoryFilterOptions, usaFilterOptions, findAll, getFilterOptions,    *)
(* getDashboardSummary).                                                   *)
THEOREM OptionsAlwaysLead == ShowroomSpec => []OptionsLeadSomewhere
  <1>1. ShowroomTypeOK => OptionsLeadSomewhere
    BY InventoryAlwaysLeads, UsaAlwaysLeads, SiteAlwaysLeads, DashboardAlwaysLeads
       DEF OptionsLeadSomewhere
  <1> QED
    BY <1>1, ShowroomTyped, PTL
=============================================================================
