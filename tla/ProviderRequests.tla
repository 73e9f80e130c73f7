-------------------------- MODULE ProviderRequests --------------------------
(***************************************************************************)
(* The requests this service sends to the provider of lots: providerFetch  *)
(* with its retries and hooks, and the callers around it:                  *)
(*   page    RapidApiTransport.listVehicles, for a discovery run           *)
(*   import  one page of processImportJobWithPlatform                      *)
(*   live    AuctionSearchService.search, with its cache and its requests  *)
(*           in flight                                                     *)
(*   browse  CopartService.search, for an administrator                    *)
(*   lot     CopartService.importSingle                                    *)
(* A page reserves, confirms and completes every attempt in the hooks; an  *)
(* import reserves in a hook; the others reserve once.  The ledger is what *)
(* RequestBudget keeps of an attempt, with room for Room more.             *)
(***************************************************************************)
EXTENDS Naturals, FiniteSets

CONSTANTS
    Caller,
    Room,         \* routine requests the budget still allows
    Allowance,    \* attempts a tick gives a page
    MaxFaults     \* bound: database calls that fail

ASSUME RequestsAssumption == Room \in Nat /\ Allowance \in Nat /\ MaxFaults \in Nat

MaxAttempts == 3
Attempt == 1 .. MaxAttempts

VARIABLES
    kind,       \* kind[c]: which caller c is
    room,       \* what is left of the budget
    ledger,     \* ledger[c][n]: the reservation for the n-th attempt of c
    call,       \* call[c]: where c is
    inflight,   \* inflightRequests: the live search others join
    cached,     \* the search's answer is in the cache
    binding,    \* the import that bound the lot
    faults,     \* the database calls that failed
    unrecorded  \* history: the attempts whose completion failed

vars == <<kind, room, ledger, call, inflight, cached, binding, faults, unrecorded>>
state == <<kind, inflight, cached, binding>>

Kinds == {"page", "import", "live", "browse", "lot"}
Hooked(c) == kind[c] \in {"page", "import"}

Idle == [phase |-> "start", n |-> 1, answer |-> "none", sent |-> 0, stored |-> FALSE]

Init ==
    /\ kind \in [Caller -> Kinds]
    /\ room = Room
    /\ ledger = [c \in Caller |-> [n \in Attempt |-> "none"]]
    /\ call = [c \in Caller |-> Idle]
    /\ inflight = {} /\ cached = FALSE /\ binding = {}
    /\ faults = 0 /\ unrecorded = {}

-----------------------------------------------------------------------------
(* The attempts a caller knows to be reserved.  An unclaimed one is in the *)
(* budget, but its caller was told that it is not and forgot its id.       *)
Granted(c) == {n \in Attempt : ledger[c][n] \notin {"none", "unclaimed"}}
Last(c) == CHOOSE n \in Granted(c) : \A m \in Granted(c) : m <= n

At(c, phase) == call[c].phase = phase
Goes(c, phase) == call' = [call EXCEPT ![c].phase = phase]
Fault == faults < MaxFaults /\ faults' = faults + 1
NoFault == UNCHANGED <<faults, unrecorded>>

(* The budget's three calls, a transaction each.  A fault keeps the answer *)
(* from the caller, whether the transaction was committed before or not:   *)
(* confirm and complete throw, reserve answers a refusal, or throws too    *)
(* when it cannot read the usage it answers with.                          *)
Reserve(c, n) ==
    /\ room > 0
    /\ room' = room - 1
    /\ ledger' = [ledger EXCEPT ![c][n] = "allocated"]
    /\ NoFault

ReserveFails(c, n) ==
    /\ Fault
    /\ \/ UNCHANGED <<room, ledger>>
       \/ /\ room > 0
          /\ room' = room - 1
          /\ ledger' = [ledger EXCEPT ![c][n] = "unclaimed"]
    /\ UNCHANGED unrecorded

NotReserved(c, n) ==
    \/ room = 0 /\ UNCHANGED <<room, ledger, faults, unrecorded>>
    \/ ReserveFails(c, n)

Confirmed(c, n) ==
    IF ledger[c][n] = "allocated" THEN [ledger EXCEPT ![c][n] = "confirmed"] ELSE ledger

Confirm(c, n) == ledger' = Confirmed(c, n) /\ UNCHANGED room /\ NoFault

ConfirmationFails(c, n) ==
    /\ Fault
    /\ ledger' \in {ledger, Confirmed(c, n)}
    /\ UNCHANGED <<room, unrecorded>>

Completed(c, n, outcome) ==
    IF \/ outcome = "success" /\ ledger[c][n] = "confirmed"
       \/ outcome = "failure" /\ ledger[c][n] \in {"allocated", "confirmed"}
    THEN [ledger EXCEPT ![c][n] = outcome] ELSE ledger

Complete(c, n, outcome) == ledger' = Completed(c, n, outcome) /\ UNCHANGED room /\ NoFault

CompletionFails(c, n, outcome) ==
    /\ Fault
    /\ ledger' \in {ledger, Completed(c, n, outcome)}
    /\ unrecorded' = unrecorded \cup {<<c, n>>}
    /\ UNCHANGED room

NoBudgetCall == UNCHANGED <<room, ledger, faults, unrecorded>>

-----------------------------------------------------------------------------
(* providerFetch.  Attempt n passes the gate, is sent, and is answered, or *)
(* not; what is retryable is tried again, three times in all.              *)
Blocked(c) == kind[c] = "page" /\ Cardinality(Granted(c)) = Allowance

(* A slip: only the first attempt asks the gate.                           *)
GateFirst(c) == Hooked(c) /\ call[c].n = 1

Gated(c) == Hooked(c)

PassGate(c) ==
    /\ At(c, "gate")
    /\ IF Gated(c)
       THEN ~ Blocked(c) /\ Reserve(c, call[c].n)
       ELSE NoBudgetCall
    /\ Goes(c, "send")
    /\ UNCHANGED state

Refuse(c) ==
    /\ At(c, "gate") /\ Gated(c)
    /\ IF Blocked(c) THEN NoBudgetCall ELSE NotReserved(c, call[c].n)
    /\ call' = [call EXCEPT ![c].phase = "failed", ![c].answer = "blocked"]
    /\ UNCHANGED state

(* An exception of the hook leaves providerFetch.                          *)
ReserveThrows(c) ==
    /\ At(c, "gate") /\ Gated(c) /\ ~ Blocked(c)
    /\ ReserveFails(c, call[c].n)
    /\ Goes(c, "error")
    /\ UNCHANGED state

Answers == {"ok", "badJson", "4xx", "busy", "5xx"}   \* busy: 429 and retryable 5xx
Retryable(answer) == answer \in {"busy", "lost"}

(* The deadline has passed; or the request is sent, and answered, or lost, *)
(* or cut off by the deadline.                                             *)
Send(c) ==
    /\ At(c, "send")
    /\ \/ call' = [call EXCEPT ![c].phase = "late", ![c].answer = "deadline"]
       \/ \E answer \in Answers \cup {"lost", "deadline"} :
            call' = [call EXCEPT ![c].phase = IF answer \in Answers THEN "answered" ELSE "thrown",
                                 ![c].answer = answer, ![c].sent = @ + 1]
    /\ NoBudgetCall /\ UNCHANGED state

(* onResponse.  If it throws, the answer counts as a network error.        *)
Respond(c) ==
    /\ At(c, "answered")
    /\ IF kind[c] = "page" THEN Confirm(c, call[c].n) ELSE NoBudgetCall
    /\ Goes(c, IF call[c].answer = "ok" THEN "fetched" ELSE "rejected")
    /\ UNCHANGED state

RespondThrows(c) ==
    /\ At(c, "answered") /\ kind[c] = "page"
    /\ ConfirmationFails(c, call[c].n)
    /\ call' = [call EXCEPT ![c].phase = "thrown", ![c].answer = "lost"]
    /\ UNCHANGED state

(* onFailure, of an answer, of the deadline or of an exception; then the   *)
(* next attempt or the end.                                                *)
Failing(c) == call[c].phase \in {"rejected", "late", "thrown"}

(* A slip: an exception is not reported to the budget.                     *)
ReportAnswers(c) ==
    IF kind[c] = "page" /\ ~ At(c, "thrown") THEN Complete(c, call[c].n, "failure")
    ELSE NoBudgetCall

ReportFailure(c) ==
    IF kind[c] = "page" THEN Complete(c, call[c].n, "failure") ELSE NoBudgetCall

Fail(c) ==
    /\ Failing(c)
    /\ ReportFailure(c)
    /\ IF Retryable(call[c].answer) /\ call[c].n < MaxAttempts
       THEN call' = [call EXCEPT ![c].phase = "gate", ![c].n = @ + 1]
       ELSE Goes(c, "failed")
    /\ UNCHANGED state

(* If onFailure throws inside the try block, the catch block takes it for  *)
(* a network error; elsewhere the exception leaves providerFetch.          *)
FailThrows(c) ==
    /\ Failing(c) /\ kind[c] = "page"
    /\ CompletionFails(c, call[c].n, "failure")
    /\ IF At(c, "rejected")
       THEN call' = [call EXCEPT ![c].phase = "thrown", ![c].answer = "lost"]
       ELSE Goes(c, "error")
    /\ UNCHANGED state

-----------------------------------------------------------------------------
(* A page: what was fetched is validated and stored, and then the last     *)
(* attempt is completed.                                                   *)
PageFailed(c) ==
    /\ kind[c] = "page" /\ At(c, "failed")
    /\ Goes(c, "error") /\ NoBudgetCall /\ UNCHANGED state

StorePage(c) ==
    /\ kind[c] = "page" /\ At(c, "fetched")
    /\ \E stored, told \in BOOLEAN :
         LET outcome == IF stored THEN "success" ELSE "failure"
         IN /\ IF told THEN Complete(c, Last(c), outcome) ELSE CompletionFails(c, Last(c), outcome)
            /\ call' = [call EXCEPT ![c].stored = stored,
                           ![c].phase = IF stored /\ told THEN "done" ELSE "error"]
    /\ UNCHANGED state

(* The others confirm and complete after the fetch.  An import completes   *)
(* the last attempt it reserved, if any.                                   *)
Fetched(c) == kind[c] # "page" /\ call[c].phase \in {"fetched", "failed"}

SettleConfirm(c) ==
    /\ Fetched(c) /\ Granted(c) # {} /\ ledger[c][Last(c)] = "allocated"
    /\ \/ Confirm(c, Last(c)) /\ UNCHANGED call
       \/ ConfirmationFails(c, Last(c)) /\ Goes(c, "error")
    /\ UNCHANGED state

SettleComplete(c) ==
    /\ Fetched(c)
    /\ IF Granted(c) = {}
       THEN NoBudgetCall /\ Goes(c, "error")
       ELSE /\ ledger[c][Last(c)] = "confirmed"
            /\ LET outcome == IF At(c, "fetched") THEN "success" ELSE "failure"
               IN \/ /\ Complete(c, Last(c), outcome)
                     /\ Goes(c, IF At(c, "fetched") THEN "settled" ELSE "error")
                  \/ CompletionFails(c, Last(c), outcome) /\ Goes(c, "error")
    /\ UNCHANGED state

-----------------------------------------------------------------------------
(* Before the fetch.                                                       *)
BeginHooked(c) ==
    /\ At(c, "start") /\ Hooked(c)
    /\ Goes(c, IF kind[c] = "import" /\ room = 0 THEN "error" ELSE "gate")
    /\ NoBudgetCall /\ UNCHANGED state

(* search: the cache, then a request in flight, else a new request, which  *)
(* is in flight before anything is awaited again.                          *)
ReadCache(c) ==
    /\ At(c, "start") /\ kind[c] = "live"
    /\ Goes(c, IF cached THEN "done" ELSE "missed")
    /\ NoBudgetCall /\ UNCHANGED state

(* A slip: the request is in flight only from the next read on.            *)
RegisterLater(c) == IF inflight = {} THEN inflight' \in {{}, {c}} ELSE UNCHANGED inflight

Register(c) == IF inflight = {} THEN inflight' = {c} ELSE UNCHANGED inflight

JoinOrBegin(c) ==
    /\ At(c, "missed")
    /\ Register(c)
    /\ Goes(c, IF inflight = {} THEN "check" ELSE "joined")
    /\ NoBudgetCall /\ UNCHANGED <<kind, cached, binding>>

BeginBrowse(c) ==
    /\ At(c, "start") /\ kind[c] = "browse"
    /\ Goes(c, "check")
    /\ NoBudgetCall /\ UNCHANGED state

BeginLot(c) ==
    /\ At(c, "start") /\ kind[c] = "lot"
    /\ Goes(c, IF binding = {} THEN "check" ELSE "done")
    /\ NoBudgetCall /\ UNCHANGED state

(* canMakeRoutineRequest, then one reservation.                            *)
CheckBudget(c) ==
    /\ At(c, "check")
    /\ Goes(c, IF room > 0 THEN "reserve" ELSE "error")
    /\ NoBudgetCall /\ UNCHANGED state

ReserveOnce(c) ==
    /\ At(c, "reserve")
    /\ \/ Reserve(c, 1) /\ Goes(c, "gate")
       \/ NotReserved(c, 1) /\ Goes(c, "error")
    /\ UNCHANGED state

-----------------------------------------------------------------------------
(* After the fetch.  An import's page and an administrator's search are    *)
(* done with; a live search stores its lots and then its cache entry, and  *)
(* then is in flight no more.                                              *)
Finish(c) ==
    /\ At(c, "settled") /\ kind[c] \in {"import", "browse"}
    /\ Goes(c, "done") /\ NoBudgetCall /\ UNCHANGED state

Ends(c, phase, joined) ==
    /\ inflight' = inflight \ {c}
    /\ call' = [d \in Caller |->
                  IF d = c THEN [call[d] EXCEPT !.phase = phase]
                  ELSE IF At(d, "joined") THEN [call[d] EXCEPT !.phase = joined] ELSE call[d]]

(* Who joined has the result, whether or not it reached the cache.         *)
StoreInCache(c) ==
    /\ At(c, "settled") /\ kind[c] = "live"
    /\ \/ cached' = TRUE /\ Ends(c, "done", "done") /\ UNCHANGED faults
       \/ Fault /\ Ends(c, "error", "done") /\ UNCHANGED cached
    /\ UNCHANGED <<kind, room, ledger, binding, unrecorded>>

(* A search that failed is in flight no more; who joined fails with it.    *)
SearchFails(c) ==
    /\ c \in inflight /\ At(c, "error")
    /\ Ends(c, "error", "error")
    /\ NoBudgetCall /\ UNCHANGED <<kind, cached, binding>>

CacheExpires ==
    /\ cached /\ cached' = FALSE
    /\ NoBudgetCall /\ UNCHANGED <<kind, call, inflight, binding>>

(* importSingle creates a vehicle and then its binding, which is unique:   *)
(* the second import of a lot fails here and leaves its vehicle.           *)
CreateVehicle(c) ==
    /\ At(c, "settled") /\ kind[c] = "lot"
    /\ \/ call' = [call EXCEPT ![c].phase = "created", ![c].stored = TRUE]
       \/ Goes(c, "error")
    /\ NoBudgetCall /\ UNCHANGED state

CreateBinding(c) ==
    /\ At(c, "created")
    /\ IF binding = {} THEN binding' = {c} /\ Goes(c, "done")
       ELSE UNCHANGED binding /\ Goes(c, "error")
    /\ NoBudgetCall /\ UNCHANGED <<kind, inflight, cached>>

Fetch(c) ==
    \/ PassGate(c) \/ Refuse(c) \/ ReserveThrows(c) \/ Send(c)
    \/ Respond(c) \/ RespondThrows(c) \/ Fail(c) \/ FailThrows(c)

Step(c) ==
    \/ BeginHooked(c) \/ ReadCache(c) \/ JoinOrBegin(c) \/ BeginBrowse(c) \/ BeginLot(c)
    \/ CheckBudget(c) \/ ReserveOnce(c)
    \/ Fetch(c)
    \/ PageFailed(c) \/ StorePage(c) \/ SettleConfirm(c) \/ SettleComplete(c)
    \/ Finish(c) \/ StoreInCache(c) \/ SearchFails(c) \/ CreateVehicle(c) \/ CreateBinding(c)

Next == (\E c \in Caller : Step(c)) \/ CacheExpires

Spec == Init /\ [][Next]_vars

-----------------------------------------------------------------------------
(* The discovery and the import send no request that is not reserved, the  *)
(* retries included, whatever the hooks and the answers do; a page sends   *)
(* no more than its tick allows; the others send at most three for one.    *)
EveryRequestReserved ==
    \A c \in Caller :
        /\ call[c].sent <= IF Hooked(c) THEN Cardinality(Granted(c)) ELSE MaxAttempts
        /\ kind[c] = "page" => call[c].sent <= Allowance

(* When a page's call has ended, each attempt the budget has of it is      *)
(* completed, or its completion failed, and none is a success whose page   *)
(* was not stored.  There may be one more, the last: its reservation was   *)
(* committed and the answer lost.  It was never sent, and stays allocated. *)
Settled(c, n) == ledger[c][n] \in {"success", "failure"} \/ <<c, n>> \in unrecorded

PageAttemptsSettled ==
    \A c \in Caller : kind[c] = "page" /\ call[c].phase \in {"done", "error"} =>
        \A n \in Attempt : ledger[c][n] # "none" =>
            \/ Settled(c, n) /\ (ledger[c][n] = "success" => call[c].stored)
            \/ ledger[c][n] = "unclaimed" /\ n = call[c].n /\ call[c].sent < n

(* At most one request for one query of the live search is under way, and  *)
(* who joined waits for one that is.                                       *)
Searching(c) == kind[c] = "live" /\ call[c].phase \notin {"start", "missed", "joined", "done", "error"}

OneSearchInFlight ==
    /\ Cardinality({c \in Caller : Searching(c)}) <= 1
    /\ \A c \in Caller : At(c, "joined") => inflight # {}

-----------------------------------------------------------------------------
(* What makes them inductive.                                              *)
Before == {"start", "missed", "joined", "check", "reserve"}
Reported == {"send", "answered", "rejected", "late", "thrown"}
Phase == Before \cup Reported \cup
         {"gate", "fetched", "failed", "settled", "created", "done", "error"}

Entry == {"none", "unclaimed", "allocated", "confirmed", "success", "failure"}

CallState == [phase : Phase, n : Attempt, sent : Nat, stored : BOOLEAN,
              answer : Answers \cup {"none", "blocked", "lost", "deadline"}]

TypeOK ==
    /\ kind \in [Caller -> Kinds]
    /\ room \in Nat
    /\ ledger \in [Caller -> [Attempt -> Entry]]
    /\ call \in [Caller -> CallState]
    /\ inflight \subseteq Caller /\ binding \subseteq Caller
    /\ cached \in BOOLEAN
    /\ faults \in Nat
    /\ unrecorded \subseteq Caller \X Attempt

(* Which caller can be where.                                              *)
KindFits(c) ==
    /\ call[c].phase \in {"missed", "joined"} => kind[c] = "live"
    /\ call[c].phase \in {"check", "reserve"} => ~Hooked(c)
    /\ call[c].phase = "settled" => kind[c] # "page"
    /\ call[c].phase = "created" => kind[c] = "lot"

(* The attempts that were sent, and those that were granted, follow the    *)
(* attempt a caller is at: at the gate the current one is not granted yet. *)
AttemptsCounted(c) ==
    LET q == call[c] IN
    /\ q.phase \in Before => q.n = 1
    /\ q.sent <= IF q.phase \in Before \cup {"gate", "send"} THEN q.n - 1 ELSE q.n
    /\ Hooked(c) => \E k \in {q.n - 1, q.n} :
          /\ Granted(c) = 1 .. k
          /\ q.sent <= k
          /\ q.phase \in Before \cup {"gate"} => k = q.n - 1
          /\ q.phase \in Reported \cup {"fetched"} => k = q.n
          /\ kind[c] = "page" => k <= Allowance

(* What the budget knows of a page's attempts: of all but the current one  *)
(* the outcome, and of that one as much as the page does.                  *)
PageAttempts(c) ==
    LET q == call[c] IN
    kind[c] = "page" =>
        /\ \A m \in Granted(c) : m < q.n \/ q.phase \in {"failed", "done", "error"} => Settled(c, m)
        /\ q.phase \in Reported => ledger[c][q.n] \in {"allocated", "confirmed", "failure"}
        /\ q.phase \in {"send", "answered"} => ledger[c][q.n] # "failure"
        /\ q.phase = "fetched" => ledger[c][q.n] = "confirmed"
        /\ \A m \in Attempt :
             /\ ledger[c][m] = "success" => q.phase \in {"done", "error"} /\ q.stored
             /\ ledger[c][m] = "unclaimed" =>
                   q.phase \in {"failed", "error"} /\ m = q.n /\ q.sent < q.n

(* The search in flight is the one that is under way, or has just failed.  *)
SearchTracked ==
    /\ \A c \in Caller : Searching(c) => inflight = {c}
    /\ \A c \in inflight : inflight = {c}
    /\ \A c \in Caller : At(c, "joined") => inflight # {}

RequestsInv ==
    /\ TypeOK
    /\ \A c \in Caller : KindFits(c) /\ AttemptsCounted(c) /\ PageAttempts(c)
    /\ SearchTracked
=============================================================================
