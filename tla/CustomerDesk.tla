----------------------------- MODULE CustomerDesk -----------------------------
(***************************************************************************)
(* Leads: the requests customers make about auction lots                   *)
(* (createAssistanceRequest, auction-lots.service.ts), the contact forms   *)
(* of visitors, and the managers who move both along (leads.service.ts).   *)
(* A lead is identified by its place in leads.                             *)
(*                                                                         *)
(* offer[l] is the intent a visible lot with a fresh price can be asked    *)
(* for, or None: LotRules says which (AssistancePrice).                    *)
(***************************************************************************)
EXTENDS Naturals, Sequences

CONSTANTS
    None,
    Customer, Lot,
    Request,      \* calls of createAssistanceRequest in progress
    Manager,      \* calls of update in progress
    AskedStatus,  \* the statuses managers ask for
    Window,       \* the fifteen minutes in which a request is not repeated
    MaxClock, MaxLeads

LeadStatus == {"NEW", "IN_PROGRESS", "QUALIFIED", "WON", "LOST", "SPAM", "ARCHIVED"}

ASSUME DeskAssumption ==
    /\ {Window, MaxClock, MaxLeads} \subseteq Nat
    /\ AskedStatus \subseteq LeadStatus
    /\ None \notin Customer \cup LeadStatus \cup {"COMPLETED"}

VARIABLES
    clock,
    offer,
    leads,
    request,      \* request[r]: which lead is asked for, since when, how far
    manager       \* manager[m]: a change between its read and its write

deskVars == <<clock, offer, leads, request, manager>>

Intent == {"BID_ASSISTANCE", "BUY_NOW_ASSISTANCE"}
Idle == [phase |-> "idle"]

DeskInit ==
    /\ clock = 0
    /\ offer \in [Lot -> Intent]
    /\ leads = <<>>
    /\ request = [r \in Request |-> Idle]
    /\ manager = [m \in Manager |-> Idle]

-----------------------------------------------------------------------------
(* The key of the advisory lock: one customer, lot and intent.             *)
Key(q) == <<q.customer, q.lot, q.intent>>

(* The call takes the time and begins its transaction.                     *)
BeginRequest(r, c, l, i) ==
    /\ request[r] = Idle
    /\ request' = [request EXCEPT ![r] = [phase |-> "waits", customer |-> c, lot |-> l,
                                          intent |-> i, now |-> clock]]
    /\ UNCHANGED <<clock, offer, leads, manager>>

(* A slip: no lock, so that both of two calls find no earlier lead.        *)
LockWhateverIsHeld(r) ==
    /\ request[r].phase = "waits"
    /\ request' = [request EXCEPT ![r].phase = "locked"]
    /\ UNCHANGED <<clock, offer, leads, manager>>

(* pg_advisory_xact_lock: until the holder's transaction ends.             *)
Lock(r) ==
    /\ request[r].phase = "waits"
    /\ \A q \in Request :
          request[q].phase \in {"locked", "clear"} => Key(request[q]) # Key(request[r])
    /\ request' = [request EXCEPT ![r].phase = "locked"]
    /\ UNCHANGED <<clock, offer, leads, manager>>

Recent(q) ==
    \E n \in DOMAIN leads : Key(leads[n]) = Key(q) /\ leads[n].createdAt + Window >= q.now

(* It reads the lot, then looks for an earlier lead: refused, answered     *)
(* with that lead, or clear to insert.                                     *)
CheckRequest(r) ==
    /\ request[r].phase = "locked"
    /\ request' = [request EXCEPT ![r] =
          IF offer[@.lot] = @.intent /\ ~Recent(@) THEN [@ EXCEPT !.phase = "clear"] ELSE Idle]
    /\ UNCHANGED <<clock, offer, leads, manager>>

(* The insert and the commit, which releases the lock.  The database dates *)
(* the lead at some moment of the transaction.                             *)
InsertRequest(r) ==
    LET q == request[r]
    IN  /\ q.phase = "clear"
        /\ Len(leads) < MaxLeads
        /\ \E t \in q.now .. clock :
              leads' = Append(leads, [customer |-> q.customer, lot |-> q.lot,
                                      intent |-> q.intent, createdAt |-> t,
                                      status |-> "NEW", assistance |-> "NEW",
                                      history |-> {}])
        /\ request' = [request EXCEPT ![r] = Idle]
        /\ UNCHANGED <<clock, offer, manager>>

(* A contact form: LeadsService.create.                                    *)
CreateLead ==
    /\ Len(leads) < MaxLeads
    /\ leads' = Append(leads, [customer |-> None, lot |-> None, intent |-> "CONTACT_FORM",
                               createdAt |-> clock, status |-> "NEW", assistance |-> None,
                               history |-> {}])
    /\ UNCHANGED <<clock, offer, request, manager>>

-----------------------------------------------------------------------------
(* LeadsService.update reads the lead's two states; to complete a request  *)
(* qualifies its lead, and asks for no other status.                       *)
Completes(read, assistance) == read.assistance = "NEW" /\ assistance = "COMPLETED"

(* A slip: the completion leaves the status as the caller gave it.         *)
StatusAsGiven(read, status, assistance) == status

NextStatus(read, status, assistance) ==
    IF Completes(read, assistance) THEN "QUALIFIED" ELSE status

ReadLead(m, n, status, assistance) ==
    LET read == leads[n]
    IN  /\ manager[m] = Idle
        /\ assistance # None => read.assistance # None
        /\ Completes(read, assistance) => status \in {None, "QUALIFIED"}
        /\ manager' = [manager EXCEPT ![m] =
              [phase |-> "write", lead |-> n, from |-> read.status,
               to |-> NextStatus(read, status, assistance), assistance |-> assistance]]
        /\ UNCHANGED <<clock, offer, leads, request>>

(* The history row, when the status differs from the one that was read,    *)
(* and the lead, in one transaction.                                       *)
Changed(lead, c) ==
    [lead EXCEPT !.status = IF c.to = None THEN @ ELSE c.to,
                 !.assistance = IF c.assistance = None THEN @ ELSE c.assistance,
                 !.history = IF c.to \in {None, c.from} THEN @
                             ELSE @ \cup {<<c.from, c.to>>}]

WriteLead(m) ==
    LET c == manager[m]
    IN  /\ c.phase = "write"
        /\ leads' = [leads EXCEPT ![c.lead] = Changed(@, c)]
        /\ manager' = [manager EXCEPT ![m] = Idle]
        /\ UNCHANGED <<clock, offer, request>>

-----------------------------------------------------------------------------
(* What a customer reads of the own requests.                              *)
MyRequests(c) == {n \in DOMAIN leads :
    leads[n].customer = c /\ leads[n].assistance # None /\ leads[n].intent \in Intent}

MyRequestStatus(lead) == IF lead.assistance = "COMPLETED" THEN "COMPLETED" ELSE "NEW"

(* What a manager reads; auctionOnly overrides the types of lead asked for.*)
FindLeads(filters) == {n \in DOMAIN leads :
    LET types == IF filters.auctionOnly THEN Intent ELSE filters.leadTypes IN
    /\ filters.status # None => leads[n].status = filters.status
    /\ types # {} => leads[n].intent \in types}

AdminLeadSummary(lead) ==
    [customer |-> lead.customer, auctionLot |-> lead.lot, leadType |-> lead.intent,
     status |-> lead.status,
     customerStatus |-> IF lead.assistance \in {"NEW", "COMPLETED"} THEN lead.assistance ELSE None]

LeadDetail(n) == [summary |-> AdminLeadSummary(leads[n]), statusHistory |-> leads[n].history]

-----------------------------------------------------------------------------
LotChanges(l) ==
    /\ \E o \in Intent \cup {None} : offer' = [offer EXCEPT ![l] = o]
    /\ UNCHANGED <<clock, leads, request, manager>>

DeskTick ==
    /\ clock < MaxClock
    /\ clock' = clock + 1
    /\ UNCHANGED <<offer, leads, request, manager>>

RequestsNext ==
    \/ \E r \in Request : \/ \E c \in Customer, l \in Lot, i \in Intent : BeginRequest(r, c, l, i)
                          \/ Lock(r) \/ CheckRequest(r) \/ InsertRequest(r)
    \/ \E l \in Lot : LotChanges(l)
    \/ DeskTick

ManagersNext ==
    \/ CreateLead
    \/ \E m \in Manager :
          \/ \E n \in DOMAIN leads, s \in AskedStatus \cup {None},
                a \in {"NEW", "COMPLETED", None} : ReadLead(m, n, s, a)
          \/ WriteLead(m)

DeskNext == RequestsNext \/ ManagersNext

DeskSpec == DeskInit /\ [][DeskNext]_deskVars

-----------------------------------------------------------------------------
(* Two leads of one customer for the same action on the same lot are more  *)
(* than the window apart, however many of the customer's calls overlap and *)
(* however long one waits for the lock with the time it took before.       *)
NoDuplicateRequests ==
    \A n, k \in DOMAIN leads :
        n # k /\ Key(leads[n]) = Key(leads[k]) /\ leads[n].customer # None =>
            \/ leads[n].createdAt > leads[k].createdAt + Window
            \/ leads[k].createdAt > leads[n].createdAt + Window

(* What makes NoDuplicateRequests inductive: one call of a key is past the *)
(* lock, and a call that is clear to insert has no lead of its key near.   *)
Lead == [customer : Customer \cup {None}, lot : Lot \cup {None},
         intent : Intent \cup {"CONTACT_FORM"}, createdAt : Nat,
         status : LeadStatus, assistance : {"NEW", "COMPLETED", None},
         history : SUBSET (LeadStatus \X LeadStatus)]

Call == [phase : {"waits", "locked", "clear"}, customer : Customer, lot : Lot,
         intent : Intent, now : Nat]

Change == [phase : {"write"}, lead : Nat, from : LeadStatus, to : LeadStatus \cup {None},
           assistance : {"NEW", "COMPLETED", None}]

DeskTypeOK ==
    /\ clock \in Nat
    /\ leads \in Seq(Lead)
    /\ request \in [Request -> {Idle} \cup Call]
    /\ manager \in [Manager -> {Idle} \cup Change]

HoldsLock(r) == request[r].phase \in {"locked", "clear"}

OneHolder ==
    \A q, r \in Request :
        HoldsLock(q) /\ HoldsLock(r) /\ Key(request[q]) = Key(request[r]) => q = r

ClearToInsert ==
    \A r \in Request : request[r].phase = "clear" => ~Recent(request[r])

(* The statuses that a history says a lead has had.                        *)
Reached(history) == {"NEW"} \cup {h[2] : h \in history}

(* The history explains a lead that several managers change at once from   *)
(* what each has read: it names the status the lead has, and a completed   *)
(* request was qualified.  A customer's list of requests holds each of     *)
(* them with the progress the managers' list shows of it.                  *)
HistoryExplainsLead ==
    \A n \in DOMAIN leads :
        LET lead == LeadDetail(n).summary
            reached == Reached(LeadDetail(n).statusHistory) IN
        /\ lead.status \in reached
        /\ lead.customerStatus = "COMPLETED" => "QUALIFIED" \in reached
        /\ \A c \in Customer :
              /\ n \in MyRequests(c) <=> lead.customer = c
              /\ n \in MyRequests(c) =>
                    /\ n \in FindLeads([status |-> lead.status, leadTypes |-> {},
                                        auctionOnly |-> TRUE])
                    /\ MyRequestStatus(leads[n]) = lead.customerStatus

(* What makes HistoryExplainsLead inductive: a customer's request, and no  *)
(* other lead, has a progress; and a change that a manager has yet to      *)
(* write starts from a status the lead has had, and qualifies a lead that  *)
(* it completes unless the lead was qualified before.                      *)
LeadsExplained ==
    \A n \in DOMAIN leads :
        LET lead == leads[n] IN
        /\ lead.status \in Reached(lead.history)
        /\ lead.assistance = "COMPLETED" => "QUALIFIED" \in Reached(lead.history)
        /\ lead.customer # None <=> lead.assistance # None
        /\ lead.assistance # None => lead.intent \in Intent

ChangesExplained ==
    \A m \in Manager : manager[m] # Idle =>
        LET c == manager[m] IN
        /\ c.lead \in DOMAIN leads
        /\ c.from \in Reached(leads[c.lead].history)
        /\ c.assistance # None => leads[c.lead].assistance # None
        /\ c.assistance = "COMPLETED" =>
              c.to = "QUALIFIED" \/ "QUALIFIED" \in Reached(leads[c.lead].history)

HistoryInv == LeadsExplained /\ ChangesExplained

DeskInv == DeskTypeOK /\ OneHolder /\ ClearToInsert /\ NoDuplicateRequests
=============================================================================
