------------------------ MODULE ProviderRequestsProofs ------------------------
(***************************************************************************)
(* Theorems about the requests to the provider for any set of callers, any *)
(* budget and allowance, and any number of faults.                         *)
(***************************************************************************)
EXTENDS ProviderRequests, FiniteSetTheorems, TLAPS

(* What a caller's own state has to satisfy.                               *)
Own(c) == KindFits(c) /\ AttemptsCounted(c) /\ PageAttempts(c)

(* A step of caller c that no other caller notices.                        *)
Alone(c) ==
    /\ kind' = kind
    /\ unrecorded \subseteq unrecorded'
    /\ \A d \in Caller \ {c} : ledger'[d] = ledger[d] /\ call'[d] = call[d]

-----------------------------------------------------------------------------
(* The attempts that were granted.                                         *)

LEMMA GrantedStays ==
    ASSUME NEW c \in Caller, TypeOK, ledger'[c] = ledger[c]
    PROVE  Granted(c)' = Granted(c)
  BY DEF Granted

(* An entry that moves on leaves its attempt granted.                      *)
LEMMA GrantedMovesOn ==
    ASSUME TypeOK, NEW c \in Caller, NEW n \in Attempt, n \in Granted(c),
           NEW entry, entry \notin {"none", "unclaimed"}, ledger' = [ledger EXCEPT ![c][n] = entry]
    PROVE  Granted(c)' = Granted(c)
  BY DEF Granted, TypeOK

LEMMA GrantedGrows ==
    ASSUME TypeOK, NEW c \in Caller, NEW n \in Attempt,
           ledger' = [ledger EXCEPT ![c][n] = "allocated"]
    PROVE  Granted(c)' = Granted(c) \cup {n}
  BY DEF Granted, TypeOK

LEMMA IntervalSize == ASSUME NEW k \in Nat PROVE Cardinality(1 .. k) = k
  <1>1. Cardinality(1 .. k) = IF 1 > k THEN 0 ELSE k - 1 + 1
    BY FS_Interval
  <1> QED
    BY <1>1

(* When the attempts up to k were granted, the last one is k.              *)
LEMMA LastGranted ==
    ASSUME NEW c \in Caller, NEW k \in Attempt, Granted(c) = 1 .. k
    PROVE  Last(c) = k
  <1>1. k \in Granted(c) /\ \A m \in Granted(c) : m <= k
    BY DEF Attempt, MaxAttempts
  <1>2. \A n \in Granted(c) : (\A m \in Granted(c) : m <= n) => n = k
    BY <1>1 DEF Attempt, MaxAttempts
  <1> QED
    BY <1>1, <1>2 DEF Last

-----------------------------------------------------------------------------
(* A caller that another one's step leaves alone.                          *)
LEMMA OthersStay ==
    ASSUME TypeOK, NEW c, Alone(c), NEW d \in Caller \ {c}, Own(d)
    PROVE  Own(d)'
  <1>1. /\ kind'[d] = kind[d] /\ ledger'[d] = ledger[d] /\ call'[d] = call[d]
        /\ Granted(d)' = Granted(d)
    BY GrantedStays DEF Alone
  <1>2. \A m : Settled(d, m) => Settled(d, m)'
    BY <1>1 DEF Settled, Alone
  <1>3. KindFits(d)'
    BY <1>1 DEF Own, KindFits, Hooked
  <1>4. AttemptsCounted(d)'
    BY <1>1 DEF Own, AttemptsCounted, Hooked
  <1>5. PageAttempts(d)'
    BY <1>1, <1>2 DEF Own, PageAttempts
  <1> QED
    BY <1>3, <1>4, <1>5 DEF Own

(* A step that moves c between two phases in which what the invariant says *)
(* of its attempts is the same or less, and grants c nothing if its hooks  *)
(* reserve.                                                                *)
Relaxes(c, r) ==
    \/ call[c].phase \in Before /\ r.phase \in Before \cup {"gate"}
    \/ /\ call[c].phase \in Before /\ r.phase \in {"done", "error"}
       /\ kind[c] # "page"
    \/ /\ call[c].phase \notin Before \cup {"gate", "send"}
       /\ r.phase \in {"settled", "created", "done", "error"}
       /\ kind[c] # "page"
    \/ call[c].phase = "failed" /\ r.phase = "error"
    \/ r = call[c]

LEMMA PhaseMoves ==
    ASSUME TypeOK, NEW c \in Caller, Own(c), NEW r \in CallState,
           call'[c] = r, r.n = call[c].n, r.sent = call[c].sent, Relaxes(c, r),
           kind' = kind, unrecorded \subseteq unrecorded', KindFits(c)',
           Hooked(c) => Granted(c)' = Granted(c),
           kind[c] = "page" => ledger'[c] = ledger[c]
    PROVE  Own(c)'
  <1>1. /\ kind'[c] = kind[c] /\ Hooked(c)' = Hooked(c)
        /\ call[c].n \in Attempt /\ call[c].sent \in Nat
    BY DEF TypeOK, CallState, Hooked
  <1>2. AttemptsCounted(c)'
    <2>1. /\ r.phase \in Before => r.n = 1
          /\ r.sent <= IF r.phase \in Before \cup {"gate", "send"} THEN r.n - 1 ELSE r.n
      BY <1>1 DEF Relaxes, Own, AttemptsCounted, Before, Reported, Attempt, MaxAttempts
    <2>2. ASSUME Hooked(c)
          PROVE  \E k \in {r.n - 1, r.n} :
                    /\ Granted(c)' = 1 .. k
                    /\ r.sent <= k
                    /\ r.phase \in Before \cup {"gate"} => k = r.n - 1
                    /\ r.phase \in Reported \cup {"fetched"} => k = r.n
                    /\ kind[c] = "page" => k <= Allowance
      <3>1. PICK k \in {r.n - 1, r.n} :
                    /\ Granted(c) = 1 .. k
                    /\ r.sent <= k
                    /\ call[c].phase \in Before \cup {"gate"} => k = r.n - 1
                    /\ call[c].phase \in Reported \cup {"fetched"} => k = r.n
                    /\ kind[c] = "page" => k <= Allowance
        BY <2>2 DEF Own, AttemptsCounted
      <3> QED
        BY <2>2, <3>1 DEF Relaxes, Before, Reported
    <2> QED
      BY <1>1, <2>1, <2>2 DEF AttemptsCounted
  <1>3. PageAttempts(c)'
    <2> SUFFICES ASSUME kind[c] = "page" PROVE PageAttempts(c)'
      BY <1>1 DEF PageAttempts
    <2>1. /\ Granted(c)' = Granted(c) /\ ledger'[c] = ledger[c]
          /\ \A m : Settled(c, m) => Settled(c, m)'
      BY DEF Hooked, Settled
    <2> QED
      BY <1>1, <2>1 DEF Relaxes, Own, PageAttempts, Before, Reported
  <1> QED
    BY <1>2, <1>3 DEF Own

-----------------------------------------------------------------------------
(* The calls of the budget.                                                *)

(* A completion of an attempt that is open ends it with its outcome, and   *)
(* leaves the other attempts of its caller as they were.                   *)
LEMMA Completes ==
    ASSUME TypeOK, NEW c \in Caller, NEW n \in Attempt, NEW outcome \in {"success", "failure"},
           IF outcome = "success" THEN ledger[c][n] = "confirmed"
           ELSE ledger[c][n] \in {"allocated", "confirmed", "failure"},
           ledger' = Completed(c, n, outcome)
    PROVE  /\ Granted(c)' = Granted(c)
           /\ ledger' \in [Caller -> [Attempt -> Entry]]
           /\ ledger'[c][n] = outcome
           /\ \A m \in Attempt \ {n} : ledger'[c][m] = ledger[c][m]
           /\ \A d \in Caller \ {c} : ledger'[d] = ledger[d]
  <1>1. CASE ledger[c][n] = "failure"
    <2>1. ledger' = ledger /\ outcome = "failure"
      BY <1>1 DEF Completed
    <2> QED
      BY <1>1, <2>1, GrantedStays DEF TypeOK
  <1>2. CASE ledger[c][n] # "failure"
    <2>1. ledger' = [ledger EXCEPT ![c][n] = outcome] /\ n \in Granted(c)
      BY <1>2 DEF Completed, Granted
    <2>2. Granted(c)' = Granted(c)
      BY <2>1, GrantedMovesOn
    <2> QED
      BY <2>1, <2>2 DEF TypeOK, Entry
  <1> QED
    BY <1>1, <1>2

(* When it throws, the completion was made or not, and is remembered.      *)
LEMMA CompletionThrows ==
    ASSUME TypeOK, NEW c \in Caller, NEW n \in Attempt, NEW outcome \in {"success", "failure"},
           IF outcome = "success" THEN ledger[c][n] = "confirmed"
           ELSE ledger[c][n] \in {"allocated", "confirmed", "failure"},
           CompletionFails(c, n, outcome)
    PROVE  /\ Granted(c)' = Granted(c)
           /\ ledger' \in [Caller -> [Attempt -> Entry]]
           /\ ledger'[c][n] \in {ledger[c][n], outcome}
           /\ \A m \in Attempt \ {n} : ledger'[c][m] = ledger[c][m]
           /\ \A d \in Caller \ {c} : ledger'[d] = ledger[d]
           /\ room' = room /\ faults' \in Nat
           /\ unrecorded' = unrecorded \cup {<<c, n>>}
  <1>1. /\ room' = room /\ faults' \in Nat /\ unrecorded' = unrecorded \cup {<<c, n>>}
    BY DEF CompletionFails, Fault, TypeOK
  <1>2. CASE ledger' = ledger
    BY <1>1, <1>2, GrantedStays DEF TypeOK
  <1>3. CASE ledger' = Completed(c, n, outcome)
    BY <1>1, <1>3, Completes
  <1> QED
    BY <1>2, <1>3 DEF CompletionFails

(* A confirmation touches no attempt but one that was only allocated.      *)
LEMMA Confirms ==
    ASSUME TypeOK, NEW c \in Caller, NEW n \in Attempt, ledger' = Confirmed(c, n)
    PROVE  /\ Granted(c)' = Granted(c)
           /\ ledger' \in [Caller -> [Attempt -> Entry]]
           /\ ledger'[c][n] = IF ledger[c][n] = "allocated" THEN "confirmed" ELSE ledger[c][n]
           /\ \A m \in Attempt \ {n} : ledger'[c][m] = ledger[c][m]
           /\ \A d \in Caller \ {c} : ledger'[d] = ledger[d]
  <1>1. CASE ledger[c][n] = "allocated"
    <2>1. ledger' = [ledger EXCEPT ![c][n] = "confirmed"] /\ n \in Granted(c)
      BY <1>1 DEF Confirmed, Granted
    <2>2. "confirmed" \notin {"none", "unclaimed"}
      OBVIOUS
    <2>3. Granted(c)' = Granted(c)
      BY <2>1, <2>2, GrantedMovesOn
    <2> QED
      BY <1>1, <2>1, <2>3 DEF TypeOK, Entry
  <1>2. CASE ledger[c][n] # "allocated"
    <2>1. ledger' = ledger /\ ledger'[c] = ledger[c]
      BY <1>2 DEF Confirmed
    <2> QED
      BY <1>2, <2>1, GrantedStays DEF TypeOK
  <1> QED
    BY <1>1, <1>2

(* A reservation that is not acknowledged grants nothing: the attempt is   *)
(* as it was, or unclaimed.                                                *)
LEMMA ReservationFails ==
    ASSUME TypeOK, NEW c \in Caller, NEW n \in Attempt, NotReserved(c, n)
    PROVE  /\ n \notin Granted(c) => Granted(c)' = Granted(c)
           /\ ledger' \in [Caller -> [Attempt -> Entry]]
           /\ ledger'[c][n] \in {ledger[c][n], "unclaimed"}
           /\ \A m \in Attempt \ {n} : ledger'[c][m] = ledger[c][m]
           /\ \A d \in Caller \ {c} : ledger'[d] = ledger[d]
           /\ room' \in Nat /\ faults' \in Nat /\ unrecorded' = unrecorded
  <1>1. /\ room' \in Nat /\ faults' \in Nat /\ unrecorded' = unrecorded
        /\ \/ ledger' = ledger
           \/ ledger' = [ledger EXCEPT ![c][n] = "unclaimed"]
    BY DEF NotReserved, ReserveFails, Fault, TypeOK
  <1>2. CASE ledger' = ledger
    BY <1>1, <1>2, GrantedStays DEF TypeOK
  <1>3. CASE ledger' = [ledger EXCEPT ![c][n] = "unclaimed"]
    BY <1>1, <1>3 DEF Granted, TypeOK, Entry
  <1> QED
    BY <1>1, <1>2, <1>3

(* A reservation adds the attempt to those that were granted.              *)
LEMMA Reserves ==
    ASSUME TypeOK, NEW c \in Caller, NEW n \in Attempt, Reserve(c, n)
    PROVE  /\ Granted(c)' = Granted(c) \cup {n}
           /\ ledger' \in [Caller -> [Attempt -> Entry]]
           /\ ledger'[c][n] = "allocated"
           /\ \A m \in Attempt \ {n} : ledger'[c][m] = ledger[c][m]
           /\ \A d \in Caller \ {c} : ledger'[d] = ledger[d]
           /\ room' \in Nat /\ UNCHANGED <<faults, unrecorded>>
  <1>1. ledger' = [ledger EXCEPT ![c][n] = "allocated"]
    BY DEF Reserve
  <1>2. Granted(c)' = Granted(c) \cup {n}
    BY <1>1, GrantedGrows
  <1> QED
    BY <1>1, <1>2 DEF Reserve, NoFault, TypeOK, Entry

-----------------------------------------------------------------------------
(* providerFetch. *)

(* The gate: the attempts up to the current one are granted now, and the   *)
(* current one is only allocated.                                          *)
LEMMA GateStep ==
    ASSUME TypeOK, NEW c \in Caller, Own(c), PassGate(c)
    PROVE  Alone(c) /\ Own(c)' /\ TypeOK'
  <1> DEFINE q == call[c]
  <1>1. /\ q.phase = "gate" /\ q.n \in Attempt /\ q.sent \in Nat
        /\ call' = [call EXCEPT ![c].phase = "send"] /\ UNCHANGED state
    BY DEF PassGate, At, Goes, TypeOK, CallState
  <1>2. /\ call'[c].phase = "send" /\ call'[c].n = q.n /\ call'[c].sent = q.sent
        /\ call'[c].stored = q.stored
        /\ \A d \in Caller \ {c} : call'[d] = call[d]
    BY <1>1 DEF TypeOK, CallState
  <1>3. call' \in [Caller -> CallState]
    BY ZenonT(40), <1>1 DEF TypeOK, CallState, Phase, Reported
  <1>4. KindFits(c)'
    BY <1>1, <1>2 DEF state, KindFits
  <1>5. CASE ~Hooked(c)
    <2>1. UNCHANGED <<room, ledger, faults, unrecorded>>
      BY <1>5 DEF PassGate, Gated, NoBudgetCall
    <2>2. AttemptsCounted(c)'
      BY <1>1, <1>2, <1>5 DEF state, Own, AttemptsCounted, Hooked, Before
    <2>3. PageAttempts(c)'
      BY <1>1, <1>5 DEF state, PageAttempts, Hooked
    <2>4. TypeOK'
      BY <1>1, <1>3, <2>1 DEF TypeOK, state
    <2> QED
      BY <1>1, <1>2, <1>4, <2>1, <2>2, <2>3, <2>4 DEF Alone, Own, state
  <1>6. CASE Hooked(c)
    <2>1. Reserve(c, q.n) /\ ~Blocked(c)
      BY <1>6 DEF PassGate, Gated
    <2>2. /\ Granted(c)' = Granted(c) \cup {q.n}
          /\ ledger' \in [Caller -> [Attempt -> Entry]]
          /\ ledger'[c][q.n] = "allocated"
          /\ \A m \in Attempt \ {q.n} : ledger'[c][m] = ledger[c][m]
          /\ \A d \in Caller \ {c} : ledger'[d] = ledger[d]
          /\ room' \in Nat /\ UNCHANGED <<faults, unrecorded>>
      BY <1>1, <2>1, Reserves
    <2>3. /\ Granted(c) = 1 .. (q.n - 1) /\ q.sent <= q.n - 1
          /\ kind[c] = "page" => q.n - 1 <= Allowance
      BY <1>1, <1>6 DEF Own, AttemptsCounted
    <2>4. Granted(c)' = 1 .. q.n
      BY <1>1, <2>2, <2>3 DEF Attempt, MaxAttempts
    <2>5. kind[c] = "page" => q.n <= Allowance
      <3>1. Cardinality(1 .. (q.n - 1)) = q.n - 1
        <4>1. q.n - 1 \in Nat
          BY <1>1 DEF Attempt, MaxAttempts
        <4> QED
          BY <4>1, IntervalSize
      <3>2. kind[c] = "page" => q.n - 1 # Allowance
        BY <2>1, <2>3, <3>1 DEF Blocked
      <3> QED
        BY <1>1, <2>3, <3>2, RequestsAssumption DEF Attempt, MaxAttempts
    <2>6. AttemptsCounted(c)'
      BY <1>1, <1>2, <2>3, <2>4, <2>5
         DEF state, AttemptsCounted, Hooked, Before, Reported, Attempt, MaxAttempts
    <2>7. PageAttempts(c)'
      <3> SUFFICES ASSUME kind[c] = "page"
                   PROVE  /\ \A m \in 1 .. q.n : m < q.n => Settled(c, m)'
                          /\ ledger'[c][q.n] \in {"allocated", "confirmed"}
                          /\ \A m \in Attempt : ledger'[c][m] \notin {"success", "unclaimed"}
        BY <1>1, <1>2, <2>4 DEF state, PageAttempts
      <3>1. \A m \in 1 .. (q.n - 1) : Settled(c, m)
        BY <1>1, <2>3 DEF Own, PageAttempts, Attempt, MaxAttempts
      <3>2. \A m \in 1 .. (q.n - 1) : m \in Attempt \ {q.n}
        BY <1>1 DEF Attempt, MaxAttempts
      <3>3. \A m \in 1 .. (q.n - 1) : Settled(c, m)'
        BY <2>2, <3>1, <3>2 DEF Settled
      <3>4. \A m \in Attempt : ledger[c][m] \notin {"success", "unclaimed"}
        BY <1>1 DEF Own, PageAttempts
      <3> QED
        BY <1>1, <2>2, <3>3, <3>4 DEF Attempt, MaxAttempts
    <2>8. TypeOK'
      BY <1>1, <1>3, <2>2 DEF TypeOK, state
    <2> QED
      BY <1>1, <1>2, <1>4, <2>2, <2>6, <2>7, <2>8 DEF Alone, Own, state
  <1> QED
    BY <1>5, <1>6

(* A refusal, or an exception of the reservation, grants nothing; at most  *)
(* the attempt at the gate is unclaimed from then on.                      *)
LEMMA RefuseStep ==
    ASSUME TypeOK, NEW c \in Caller, Own(c), Refuse(c) \/ ReserveThrows(c)
    PROVE  Alone(c) /\ Own(c)' /\ TypeOK'
  <1> DEFINE q == call[c]
  <1>1. /\ q.phase = "gate" /\ q.n \in Attempt /\ q.sent \in Nat /\ Hooked(c)
        /\ UNCHANGED state
    BY DEF Refuse, ReserveThrows, At, Gated, TypeOK, CallState
  <1>2. PICK phase \in {"failed", "error"} :
          \/ call' = [call EXCEPT ![c].phase = phase, ![c].answer = "blocked"]
          \/ call' = [call EXCEPT ![c].phase = phase]
    BY DEF Refuse, ReserveThrows, Goes
  <1>3. /\ call'[c].phase = phase /\ call'[c].n = q.n /\ call'[c].sent = q.sent
        /\ call'[c].stored = q.stored
        /\ \A d \in Caller \ {c} : call'[d] = call[d]
    BY <1>2 DEF TypeOK, CallState
  <1>4. /\ Granted(c) = 1 .. (q.n - 1) /\ q.n \notin Granted(c) /\ q.sent < q.n
        /\ kind[c] = "page" => q.n - 1 <= Allowance
    BY <1>1 DEF Own, AttemptsCounted, Before, Attempt, MaxAttempts
  <1>5. /\ Granted(c)' = Granted(c)
        /\ ledger' \in [Caller -> [Attempt -> Entry]]
        /\ ledger'[c][q.n] \in {ledger[c][q.n], "unclaimed"}
        /\ \A m \in Attempt \ {q.n} : ledger'[c][m] = ledger[c][m]
        /\ \A d \in Caller \ {c} : ledger'[d] = ledger[d]
        /\ room' \in Nat /\ faults' \in Nat /\ unrecorded' = unrecorded
    <2>1. CASE NoBudgetCall
      BY <2>1, GrantedStays DEF NoBudgetCall, TypeOK
    <2>2. CASE NotReserved(c, q.n)
      BY <1>1, <1>4, <2>2, ReservationFails
    <2> QED
      BY <2>1, <2>2 DEF Refuse, ReserveThrows, NotReserved
  <1>6. AttemptsCounted(c)'
    BY <1>1, <1>3, <1>4, <1>5 DEF state, AttemptsCounted, Hooked, Before, Reported, Attempt, MaxAttempts
  <1>7. PageAttempts(c)'
    <2> SUFFICES ASSUME kind[c] = "page"
                 PROVE  /\ \A m \in Granted(c) : Settled(c, m)'
                        /\ \A m \in Attempt :
                             /\ ledger'[c][m] # "success"
                             /\ ledger'[c][m] = "unclaimed" => m = q.n
      BY <1>1, <1>3, <1>4, <1>5 DEF state, PageAttempts, Reported
    <2>1. \A m \in Granted(c) : m \in Attempt \ {q.n} /\ m < q.n
      BY <1>1, <1>4 DEF Attempt, MaxAttempts
    <2>2. \A m \in Granted(c) : Settled(c, m)
      BY <2>1 DEF Own, PageAttempts
    <2>3. \A m \in Attempt : ledger[c][m] # "success" /\ ledger[c][m] # "unclaimed"
      BY <1>1 DEF Own, PageAttempts
    <2> QED
      BY <1>5, <2>1, <2>2, <2>3 DEF Settled
  <1>8. KindFits(c)'
    BY <1>1, <1>3 DEF state, KindFits
  <1>9. call' \in [Caller -> CallState]
    <2>1. phase \in Phase
      BY DEF Phase
    <2> QED
      BY <1>2, <2>1 DEF TypeOK, CallState
  <1>10. TypeOK'
    BY <1>1, <1>5, <1>9 DEF TypeOK, state
  <1> QED
    BY <1>1, <1>3, <1>5, <1>6, <1>7, <1>8, <1>10 DEF Alone, Own, state

(* An attempt is sent, unless the deadline has passed before: the requests *)
(* that were sent do not pass the attempts that were granted.              *)
LEMMA SendStep ==
    ASSUME TypeOK, NEW c \in Caller, Own(c), Send(c)
    PROVE  Alone(c) /\ Own(c)' /\ TypeOK'
  <1> DEFINE q == call[c]
  <1>1. q.phase = "send" /\ q.n \in Attempt /\ q.sent \in Nat /\ UNCHANGED state
        /\ UNCHANGED <<room, ledger, faults, unrecorded>>
    BY DEF Send, At, TypeOK, CallState, NoBudgetCall
  <1>2. PICK phase \in {"late", "answered", "thrown"},
             answer \in Answers \cup {"lost", "deadline"}, sent \in {q.sent, q.sent + 1} :
          call' = [call EXCEPT ![c].phase = phase, ![c].answer = answer, ![c].sent = sent]
    <2>1. CASE call' = [call EXCEPT ![c].phase = "late", ![c].answer = "deadline"]
      <3>1. call' = [call EXCEPT ![c].phase = "late", ![c].answer = "deadline", ![c].sent = q.sent]
        BY <2>1 DEF TypeOK
      <3> QED
        BY <3>1
    <2>2. CASE \E answer \in Answers \cup {"lost", "deadline"} :
                 call' = [call EXCEPT
                            ![c].phase = IF answer \in Answers THEN "answered" ELSE "thrown",
                            ![c].answer = answer, ![c].sent = @ + 1]
      BY <2>2
    <2> QED
      BY <2>1, <2>2 DEF Send
  <1>3. /\ call'[c].phase = phase /\ call'[c].n = q.n /\ call'[c].sent = sent
        /\ \A d \in Caller \ {c} : call'[d] = call[d]
    BY <1>2 DEF TypeOK, CallState
  <1>4. Granted(c)' = Granted(c)
    BY <1>1, GrantedStays
  <1>5. AttemptsCounted(c)'
    BY <1>1, <1>2, <1>3, <1>4
       DEF state, Own, AttemptsCounted, Hooked, Before, Reported, Attempt, MaxAttempts
  <1>6. PageAttempts(c)'
    BY <1>1, <1>2, <1>3, <1>4 DEF state, Own, PageAttempts, Settled, Reported
  <1>7. KindFits(c)'
    BY <1>1, <1>2, <1>3 DEF state, KindFits
  <1>8. call' \in [Caller -> CallState]
    <2>1. phase \in Phase
      BY DEF Phase, Reported
    <2>2. sent \in Nat
      BY <1>1
    <2>3. answer \in Answers \cup {"none", "blocked", "lost", "deadline"}
      OBVIOUS
    <2> HIDE DEF q
    <2>4. \A r \in CallState : [r EXCEPT !.phase = phase, !.answer = answer, !.sent = sent] \in CallState
      BY <2>1, <2>2, <2>3 DEF CallState
    <2>5. call' = [call EXCEPT ![c] = [call[c] EXCEPT !.phase = phase, !.answer = answer, !.sent = sent]]
      BY <1>2, Zenon
    <2> QED
      BY <2>4, <2>5 DEF TypeOK
  <1>9. TypeOK'
    BY <1>1, <1>8 DEF TypeOK, state
  <1> QED
    BY <1>1, <1>3, <1>5, <1>6, <1>7, <1>9 DEF Alone, Own, state

(* An answer is confirmed, or the confirmation throws.                     *)
LEMMA RespondStep ==
    ASSUME TypeOK, NEW c \in Caller, Own(c), Respond(c) \/ RespondThrows(c)
    PROVE  Alone(c) /\ Own(c)' /\ TypeOK'
  <1> DEFINE q == call[c]
  <1>1. q.phase = "answered" /\ q.n \in Attempt /\ q.sent \in Nat /\ UNCHANGED state
    BY DEF Respond, RespondThrows, At, TypeOK, CallState
  <1>2. PICK phase \in {"fetched", "rejected", "thrown"} :
          /\ \/ call' = [call EXCEPT ![c].phase = phase] /\ Respond(c)
             \/ call' = [call EXCEPT ![c].phase = phase, ![c].answer = "lost"]
                 /\ phase = "thrown" /\ RespondThrows(c)
    BY DEF Respond, RespondThrows, Goes
  <1>3. /\ call'[c].phase = phase /\ call'[c].n = q.n /\ call'[c].sent = q.sent
        /\ \A d \in Caller \ {c} : call'[d] = call[d]
    BY <1>2 DEF TypeOK, CallState
  <1>4. call' \in [Caller -> CallState]
    <2>1. phase \in Phase
      BY DEF Phase, Reported
    <2> QED
      BY <1>2, <2>1 DEF TypeOK, CallState
  <1>5. KindFits(c)'
    BY <1>1, <1>2, <1>3 DEF state, KindFits
  <1>6. /\ Granted(c)' = Granted(c) /\ ledger' \in [Caller -> [Attempt -> Entry]]
        /\ \A d \in Caller \ {c} : ledger'[d] = ledger[d]
        /\ room' = room /\ unrecorded' = unrecorded /\ faults' \in Nat
        /\ kind[c] = "page" =>
              /\ \A m \in Attempt \ {q.n} : ledger'[c][m] = ledger[c][m]
              /\ ledger'[c][q.n] \in {"allocated", "confirmed"}
              /\ phase = "fetched" => ledger'[c][q.n] = "confirmed"
    <2>1. kind[c] = "page" => ledger[c][q.n] \in {"allocated", "confirmed"}
      BY <1>1 DEF Own, PageAttempts, Reported
    <2>2. CASE Respond(c) /\ kind[c] = "page"
      <3>1. ledger' = Confirmed(c, q.n) /\ UNCHANGED <<room, faults, unrecorded>>
        BY <2>2 DEF Respond, Confirm, NoFault
      <3> QED
        BY <1>1, <2>1, <3>1, Confirms DEF TypeOK
    <2>3. CASE Respond(c) /\ kind[c] # "page"
      <3>1. UNCHANGED <<room, ledger, faults, unrecorded>>
        BY <2>3 DEF Respond, NoBudgetCall
      <3> QED
        BY <2>3, <3>1, GrantedStays DEF TypeOK
    <2>4. CASE RespondThrows(c) /\ phase # "fetched"
      <3>1. UNCHANGED <<room, unrecorded>> /\ faults' \in Nat
        BY <2>4 DEF RespondThrows, ConfirmationFails, Fault, TypeOK
      <3>2. CASE ledger' = ledger
        BY <2>1, <2>4, <3>1, <3>2, GrantedStays DEF TypeOK
      <3>3. CASE ledger' = Confirmed(c, q.n)
        BY <1>1, <2>1, <2>4, <3>1, <3>3, Confirms
      <3> QED
        BY <2>4, <3>2, <3>3 DEF RespondThrows, ConfirmationFails
    <2> QED
      BY <1>2, <2>2, <2>3, <2>4
  <1>7. AttemptsCounted(c)'
    BY <1>1, <1>2, <1>3, <1>6
       DEF state, Own, AttemptsCounted, Hooked, Before, Reported, Attempt, MaxAttempts
  <1>8. PageAttempts(c)'
    <2> SUFFICES ASSUME kind[c] = "page"
                 PROVE  /\ \A m \in Granted(c) : m < q.n => Settled(c, m)'
                        /\ ledger'[c][q.n] \in {"allocated", "confirmed"}
                        /\ phase = "fetched" => ledger'[c][q.n] = "confirmed"
                        /\ \A m \in Attempt : ledger'[c][m] \notin {"success", "unclaimed"}
      BY <1>1, <1>2, <1>3, <1>6 DEF state, PageAttempts
    <2>1. \A m \in Granted(c) : m \in Attempt /\ (m < q.n => Settled(c, m))
      BY DEF Own, PageAttempts, Granted
    <2>2. \A m \in Granted(c) : m < q.n => Settled(c, m)'
      BY <1>1, <1>6, <2>1 DEF Settled, Attempt, MaxAttempts
    <2>3. \A m \in Attempt : ledger[c][m] \notin {"success", "unclaimed"}
      BY <1>1 DEF Own, PageAttempts
    <2> QED
      BY <1>6, <2>2, <2>3
  <1>9. TypeOK'
    BY <1>1, <1>4, <1>6 DEF TypeOK, state
  <1> QED
    BY <1>1, <1>3, <1>5, <1>6, <1>7, <1>8, <1>9 DEF Alone, Own, state

(* A failed attempt is reported, and tried again if that may help; or the  *)
(* report throws.                                                          *)
LEMMA FailStep ==
    ASSUME TypeOK, NEW c \in Caller, Own(c), Fail(c) \/ FailThrows(c)
    PROVE  Alone(c) /\ Own(c)' /\ TypeOK'
  <1> DEFINE q == call[c]
  <1>1. /\ q.phase \in {"rejected", "late", "thrown"} /\ q.n \in Attempt /\ q.sent \in Nat
        /\ UNCHANGED state
    BY DEF Fail, FailThrows, Failing, TypeOK, CallState
  <1>2. /\ \A m \in Granted(c) : m \in Attempt
        /\ kind[c] = "page" => \A m \in Granted(c) : m < q.n => Settled(c, m)
        /\ kind[c] = "page" => ledger[c][q.n] \in {"allocated", "confirmed", "failure"}
        /\ kind[c] = "page" => \A m \in Attempt : ledger[c][m] \notin {"success", "unclaimed"}
        /\ Hooked(c) => Granted(c) = 1 .. q.n /\ (kind[c] = "page" => q.n <= Allowance)
        /\ q.sent <= q.n
    <2>1. kind[c] = "page" => /\ \A m \in Granted(c) : m < q.n => Settled(c, m)
                              /\ ledger[c][q.n] \in {"allocated", "confirmed", "failure"}
                              /\ \A m \in Attempt : ledger[c][m] \notin {"success", "unclaimed"}
      BY <1>1 DEF Own, PageAttempts, Reported
    <2>2. Hooked(c) => Granted(c) = 1 .. q.n /\ (kind[c] = "page" => q.n <= Allowance)
      BY <1>1 DEF Own, AttemptsCounted, Reported
    <2>3. q.sent <= q.n
      BY <1>1 DEF Own, AttemptsCounted, Before
    <2>4. \A m \in Granted(c) : m \in Attempt
      BY DEF Granted
    <2> QED
      BY <2>1, <2>2, <2>3, <2>4
  <1>3. CASE Fail(c)
    <2>1. /\ Granted(c)' = Granted(c) /\ ledger' \in [Caller -> [Attempt -> Entry]]
          /\ \A d \in Caller \ {c} : ledger'[d] = ledger[d]
          /\ UNCHANGED <<room, faults, unrecorded>>
          /\ kind[c] = "page" =>
                /\ ledger'[c][q.n] = "failure"
                /\ \A m \in Attempt \ {q.n} : ledger'[c][m] = ledger[c][m]
      <3>1. CASE kind[c] = "page"
        <4>1. ledger' = Completed(c, q.n, "failure") /\ UNCHANGED <<room, faults, unrecorded>>
          BY <1>3, <3>1 DEF Fail, ReportFailure, Complete, NoFault
        <4> QED
          BY <1>1, <1>2, <3>1, <4>1, Completes
      <3>2. CASE kind[c] # "page"
        <4>1. UNCHANGED <<room, ledger, faults, unrecorded>>
          BY <1>3, <3>2 DEF Fail, ReportFailure, NoBudgetCall
        <4> QED
          BY <3>2, <4>1, GrantedStays DEF TypeOK
      <3> QED
        BY <3>1, <3>2
    <2>2. kind[c] = "page" =>
             /\ \A m \in Granted(c) : m <= q.n => Settled(c, m)'
             /\ \A m \in Attempt : ledger'[c][m] \notin {"success", "unclaimed"}
      BY <1>1, <1>2, <2>1 DEF Settled, Attempt, MaxAttempts
    <2>3. CASE Retryable(q.answer) /\ q.n < MaxAttempts
      <3>1. call' = [call EXCEPT ![c].phase = "gate", ![c].n = @ + 1]
        BY <1>3, <2>3 DEF Fail
      <3>2. q.n + 1 \in Attempt
        BY <1>1, <2>3 DEF Attempt, MaxAttempts
      <3>3. /\ call'[c].phase = "gate" /\ call'[c].n = q.n + 1 /\ call'[c].sent = q.sent
            /\ \A d \in Caller \ {c} : call'[d] = call[d]
        BY <3>1 DEF TypeOK, CallState
      <3>4. call' \in [Caller -> CallState]
        <4>1. "gate" \in Phase
          BY DEF Phase
        <4>2. [q EXCEPT !.phase = "gate", !.n = q.n + 1] \in CallState
          BY <3>2, <4>1 DEF TypeOK, CallState
        <4>3. call' = [call EXCEPT ![c] = [q EXCEPT !.phase = "gate", !.n = q.n + 1]]
          BY <3>1 DEF TypeOK, CallState
        <4> QED
          BY <4>2, <4>3 DEF TypeOK
      <3>5. AttemptsCounted(c)'
        BY <1>1, <1>2, <2>1, <3>2, <3>3
           DEF state, AttemptsCounted, Hooked, Before, Reported, Attempt, MaxAttempts
      <3>6. PageAttempts(c)'
        <4> SUFFICES ASSUME kind[c] = "page"
                     PROVE  /\ \A m \in Granted(c) : m < q.n + 1 => Settled(c, m)'
                            /\ \A m \in Attempt : ledger'[c][m] \notin {"success", "unclaimed"}
          BY <1>1, <2>1, <3>3 DEF state, PageAttempts, Reported
        <4> QED
          BY <1>1, <1>2, <2>2 DEF Attempt, MaxAttempts
      <3>7. KindFits(c)'
        BY <1>1, <3>3 DEF state, KindFits
      <3>8. TypeOK'
        BY <1>1, <2>1, <3>4 DEF TypeOK, state
      <3> QED
        BY <1>1, <2>1, <3>3, <3>5, <3>6, <3>7, <3>8 DEF Alone, Own, state
    <2>4. CASE ~(Retryable(q.answer) /\ q.n < MaxAttempts)
      <3>1. call' = [call EXCEPT ![c].phase = "failed"]
        BY <1>3, <2>4 DEF Fail, Goes
      <3>2. /\ call'[c].phase = "failed" /\ call'[c].n = q.n /\ call'[c].sent = q.sent
            /\ \A d \in Caller \ {c} : call'[d] = call[d]
        BY <3>1 DEF TypeOK, CallState
      <3>3. call' \in [Caller -> CallState]
        BY ZenonT(40), <3>1 DEF TypeOK, CallState, Phase
      <3>4. AttemptsCounted(c)'
        BY <1>1, <1>2, <2>1, <3>2
           DEF state, AttemptsCounted, Hooked, Before, Reported, Attempt, MaxAttempts
      <3>5. PageAttempts(c)'
        <4> SUFFICES ASSUME kind[c] = "page"
                     PROVE  /\ \A m \in Granted(c) : Settled(c, m)'
                            /\ \A m \in Attempt : ledger'[c][m] \notin {"success", "unclaimed"}
          BY <1>1, <2>1, <3>2 DEF state, PageAttempts, Reported
        <4>1. \A m \in Granted(c) : m <= q.n
          BY <1>1, <1>2 DEF Hooked, Attempt, MaxAttempts
        <4> QED
          BY <2>2, <4>1
      <3>6. KindFits(c)'
        BY <1>1, <3>2 DEF state, KindFits
      <3>7. TypeOK'
        BY <1>1, <2>1, <3>3 DEF TypeOK, state
      <3> QED
        BY <1>1, <2>1, <3>2, <3>4, <3>5, <3>6, <3>7 DEF Alone, Own, state
    <2> QED
      BY <2>3, <2>4
  <1>4. CASE FailThrows(c)
    <2>1. kind[c] = "page" /\ CompletionFails(c, q.n, "failure")
      BY <1>4 DEF FailThrows
    <2>2. /\ Granted(c)' = Granted(c) /\ ledger' \in [Caller -> [Attempt -> Entry]]
          /\ ledger'[c][q.n] \in {"allocated", "confirmed", "failure"}
          /\ \A m \in Attempt \ {q.n} : ledger'[c][m] = ledger[c][m]
          /\ \A d \in Caller \ {c} : ledger'[d] = ledger[d]
          /\ room' = room /\ faults' \in Nat
          /\ unrecorded' = unrecorded \cup {<<c, q.n>>}
      BY <1>1, <1>2, <2>1, CompletionThrows
    <2>3. /\ \A m \in Granted(c) : m <= q.n => Settled(c, m)'
          /\ \A m \in Attempt : ledger'[c][m] \notin {"success", "unclaimed"}
      BY <1>1, <1>2, <2>1, <2>2 DEF Settled, Attempt, MaxAttempts
    <2>4. \A m \in Granted(c) : m <= q.n
      BY <1>1, <1>2, <2>1 DEF Hooked, Attempt, MaxAttempts
    <2>5. PICK phase \in {"thrown", "error"} :
             \/ call' = [call EXCEPT ![c].phase = phase, ![c].answer = "lost"]
             \/ call' = [call EXCEPT ![c].phase = phase]
      BY <1>4 DEF FailThrows, Goes
    <2>6. /\ call'[c].phase = phase /\ call'[c].n = q.n /\ call'[c].sent = q.sent
          /\ \A d \in Caller \ {c} : call'[d] = call[d]
      BY <2>5 DEF TypeOK, CallState
    <2>7. call' \in [Caller -> CallState]
      <3>1. phase \in Phase
        BY DEF Phase, Reported
      <3> QED
        BY <2>5, <3>1 DEF TypeOK, CallState
    <2>8. AttemptsCounted(c)'
      BY <1>1, <1>2, <2>1, <2>2, <2>6
         DEF state, AttemptsCounted, Hooked, Before, Reported, Attempt, MaxAttempts
    <2>9. PageAttempts(c)'
      BY <1>1, <1>2, <2>1, <2>2, <2>3, <2>4, <2>6 DEF state, PageAttempts, Reported
    <2>10. KindFits(c)'
      BY <1>1, <2>6 DEF state, KindFits
    <2>11. TypeOK'
      BY <1>1, <2>2, <2>7 DEF TypeOK, state
    <2> QED
      BY <1>1, <2>2, <2>6, <2>8, <2>9, <2>10, <2>11 DEF Alone, Own, state
  <1> QED
    BY <1>3, <1>4

-----------------------------------------------------------------------------
(* After the fetch of a page: what was fetched is stored or not, and its   *)
(* attempt is completed, or the completion fails.                          *)
LEMMA StoreStep ==
    ASSUME TypeOK, NEW c \in Caller, Own(c), StorePage(c)
    PROVE  Alone(c) /\ Own(c)' /\ TypeOK'
  <1> DEFINE q == call[c]
  <1>1. /\ q.phase = "fetched" /\ q.n \in Attempt /\ q.sent \in Nat
        /\ UNCHANGED state /\ kind[c] = "page"
    BY DEF StorePage, At, TypeOK, CallState
  <1> PICK n \in Attempt : n = q.n
    BY <1>1
  <1>2. /\ \A m \in Granted(c) : m < q.n => Settled(c, m)
        /\ ledger[c][q.n] = "confirmed"
        /\ \A m \in Attempt : ledger[c][m] \notin {"success", "unclaimed"}
        /\ Granted(c) = 1 .. q.n /\ q.n <= Allowance /\ q.sent <= q.n
    BY <1>1 DEF Own, PageAttempts, AttemptsCounted, Before, Hooked
  <1>3. Last(c) = q.n
    BY <1>1, <1>2, LastGranted
  <1>4. PICK stored \in BOOLEAN, phase \in {"done", "error"}, outcome \in {"success", "failure"} :
          /\ outcome = "success" => stored
          /\ call' = [call EXCEPT ![c].stored = stored, ![c].phase = phase]
          /\ Complete(c, q.n, outcome) \/ CompletionFails(c, q.n, outcome)
    <2>1. PICK stored \in BOOLEAN, told \in BOOLEAN :
            LET outcome == IF stored THEN "success" ELSE "failure"
            IN /\ IF told THEN Complete(c, q.n, outcome) ELSE CompletionFails(c, q.n, outcome)
               /\ call' = [call EXCEPT ![c].stored = stored,
                              ![c].phase = IF stored /\ told THEN "done" ELSE "error"]
      BY <1>3 DEF StorePage
    <2>2. PICK outcome \in {"success", "failure"} : outcome = IF stored THEN "success" ELSE "failure"
      OBVIOUS
    <2> QED
      BY <2>1, <2>2
  <1>5. /\ call'[c].phase = phase /\ call'[c].stored = stored
        /\ call'[c].n = q.n /\ call'[c].sent = q.sent
        /\ \A d \in Caller \ {c} : call'[d] = call[d]
    BY <1>4 DEF TypeOK, CallState
  <1>6. call' \in [Caller -> CallState]
    <2>1. phase \in Phase
      BY DEF Phase
    <2>2. \A r \in CallState : [r EXCEPT !.stored = stored, !.phase = phase] \in CallState
      BY <2>1 DEF CallState
    <2>3. call' = [call EXCEPT ![c] = [call[c] EXCEPT !.stored = stored, !.phase = phase]]
      BY <1>4, Zenon
    <2> QED
      BY <2>2, <2>3 DEF TypeOK
  <1>7. /\ Granted(c)' = Granted(c) /\ ledger' \in [Caller -> [Attempt -> Entry]]
        /\ \A d \in Caller \ {c} : ledger'[d] = ledger[d]
        /\ room' = room /\ faults' \in Nat
        /\ unrecorded \subseteq unrecorded' /\ unrecorded' \subseteq Caller \X Attempt
        /\ \A m \in Attempt \ {q.n} : ledger'[c][m] = ledger[c][m]
        /\ Settled(c, n)' /\ (ledger'[c][q.n] = "success" => stored)
        /\ ledger'[c][q.n] # "unclaimed"
    <2>1. CASE Complete(c, q.n, outcome)
      <3>1. ledger' = Completed(c, q.n, outcome) /\ UNCHANGED <<room, faults, unrecorded>>
        BY <2>1 DEF Complete, NoFault
      <3>2. /\ Granted(c)' = Granted(c)
            /\ ledger' \in [Caller -> [Attempt -> Entry]]
            /\ ledger'[c][q.n] = outcome
            /\ \A m \in Attempt \ {q.n} : ledger'[c][m] = ledger[c][m]
            /\ \A d \in Caller \ {c} : ledger'[d] = ledger[d]
        BY <1>1, <1>2, <3>1, Completes
      <3>3. faults' \in Nat /\ unrecorded' \subseteq Caller \X Attempt
        BY <3>1 DEF TypeOK
      <3>4. Settled(c, n)'
        BY <3>2 DEF Settled
      <3> QED
        BY <1>4, <3>1, <3>2, <3>3, <3>4
    <2>2. CASE CompletionFails(c, q.n, outcome)
      <3>1. /\ Granted(c)' = Granted(c)
            /\ ledger' \in [Caller -> [Attempt -> Entry]]
            /\ ledger'[c][q.n] \in {ledger[c][q.n], outcome}
            /\ \A m \in Attempt \ {q.n} : ledger'[c][m] = ledger[c][m]
            /\ \A d \in Caller \ {c} : ledger'[d] = ledger[d]
            /\ room' = room /\ faults' \in Nat
            /\ unrecorded' = unrecorded \cup {<<c, q.n>>}
        BY <1>1, <1>2, <2>2, CompletionThrows
      <3>2. unrecorded' \subseteq Caller \X Attempt
        BY <1>1, <3>1 DEF TypeOK
      <3>3. Settled(c, n)'
        BY <3>1 DEF Settled
      <3> QED
        BY <1>2, <1>4, <3>1, <3>2, <3>3
    <2> QED
      BY <1>4, <2>1, <2>2
  <1>8. AttemptsCounted(c)'
    BY <1>1, <1>2, <1>5, <1>7
       DEF state, AttemptsCounted, Hooked, Before, Reported, Attempt, MaxAttempts
  <1>9. PageAttempts(c)'
    <2>1. ASSUME NEW m \in Granted(c) PROVE Settled(c, m)'
      <3>1. m \in Attempt /\ (m < q.n \/ m = q.n)
        <4>1. m \in 1 .. q.n
          BY <1>2
        <4> QED
          BY <1>1, <4>1 DEF Attempt, MaxAttempts
      <3>2. CASE m = q.n
        BY <1>7, <3>1, <3>2
      <3>3. CASE m < q.n
        <4>1. m \in Attempt \ {q.n} /\ Settled(c, m)
          BY <1>1, <1>2, <3>1, <3>3 DEF Attempt, MaxAttempts
        <4> QED
          BY <1>7, <4>1 DEF Settled
      <3> QED
        BY <3>1, <3>2, <3>3
    <2>2. \A m \in Attempt : /\ ledger'[c][m] = "success" => stored
                             /\ ledger'[c][m] # "unclaimed"
      BY <1>2, <1>7
    <2> QED
      BY <1>1, <1>5, <1>7, <2>1, <2>2 DEF state, PageAttempts, Reported
  <1>10. KindFits(c)'
    BY <1>1, <1>5 DEF state, KindFits
  <1>11. TypeOK'
    BY <1>1, <1>6, <1>7 DEF TypeOK, state
  <1> QED
    BY <1>1, <1>5, <1>7, <1>8, <1>9, <1>10, <1>11 DEF Alone, Own, state

-----------------------------------------------------------------------------
(* Before and after the fetch.                                             *)

(* The steps that call no budget and move c alone.                         *)
Moves(c, phase) ==
    /\ \/ call[c].phase \in Before /\ phase \in Before \cup {"gate"}
       \/ call[c].phase \in Before /\ phase \in {"done", "error"} /\ kind[c] # "page"
       \/ /\ call[c].phase \in {"settled", "created"} /\ phase \in {"created", "done", "error"}
          /\ kind[c] # "page"
       \/ call[c].phase = "failed" /\ phase = "error"
    /\ phase \in {"missed", "joined"} => kind[c] = "live"
    /\ phase \in {"check", "reserve"} => ~Hooked(c)
    /\ phase = "created" => kind[c] = "lot"

LEMMA MoveStep ==
    ASSUME TypeOK, NEW c \in Caller, Own(c),
           \/ PageFailed(c) \/ BeginHooked(c) \/ ReadCache(c) \/ JoinOrBegin(c)
           \/ BeginBrowse(c) \/ BeginLot(c) \/ CheckBudget(c)
           \/ Finish(c) \/ CreateVehicle(c) \/ CreateBinding(c)
    PROVE  Alone(c) /\ Own(c)' /\ TypeOK'
  <1>1. /\ kind' = kind /\ UNCHANGED <<room, ledger, faults, unrecorded>>
        /\ cached' \in BOOLEAN /\ inflight' \subseteq Caller /\ binding' \subseteq Caller
    BY DEF PageFailed, BeginHooked, ReadCache, JoinOrBegin, Register, BeginBrowse, BeginLot,
           CheckBudget, Finish, CreateVehicle, CreateBinding, NoBudgetCall, state, TypeOK
  <1>2. /\ call[c].phase \in {"missed", "joined"} => kind[c] = "live"
        /\ call[c].phase \in {"check", "reserve"} => ~Hooked(c)
        /\ call[c].phase = "settled" => kind[c] # "page"
        /\ call[c].phase = "created" => kind[c] = "lot"
    BY DEF Own, KindFits
  <1>3. PICK phase \in Phase :
          /\ Moves(c, phase) /\ phase # "settled"
          /\ \/ Goes(c, phase)
             \/ call' = [call EXCEPT ![c].phase = phase, ![c].stored = TRUE]
    <2> USE <1>2 DEF Moves, At, Hooked, Before, Phase
    <2>1. CASE PageFailed(c)
      BY <2>1 DEF PageFailed
    <2>2. CASE BeginHooked(c)
      BY <2>2 DEF BeginHooked
    <2>3. CASE ReadCache(c)
      BY <2>3 DEF ReadCache
    <2>4. CASE JoinOrBegin(c)
      BY <2>4 DEF JoinOrBegin
    <2>5. CASE BeginBrowse(c)
      BY <2>5 DEF BeginBrowse
    <2>6. CASE BeginLot(c)
      BY <2>6 DEF BeginLot
    <2>7. CASE CheckBudget(c)
      BY <2>7 DEF CheckBudget
    <2>8. CASE Finish(c)
      BY <2>8 DEF Finish
    <2>9. CASE CreateVehicle(c)
      BY <2>9 DEF CreateVehicle
    <2>10. CASE CreateBinding(c)
      BY <2>10 DEF CreateBinding
    <2> QED
      BY <2>1, <2>2, <2>3, <2>4, <2>5, <2>6, <2>7, <2>8, <2>9, <2>10
  <1>4. PICK r \in CallState :
          /\ call' = [call EXCEPT ![c] = r]
          /\ r.phase = phase /\ r.n = call[c].n /\ r.sent = call[c].sent
    <2>1. PICK stored \in BOOLEAN :
            call' = [call EXCEPT ![c] = [call[c] EXCEPT !.phase = phase, !.stored = stored]]
      <3>1. CASE Goes(c, phase)
        <4>1. call' = [call EXCEPT ![c] = [call[c] EXCEPT !.phase = phase, !.stored = call[c].stored]]
          BY <3>1 DEF Goes, TypeOK, CallState
        <4> QED
          BY <4>1 DEF TypeOK, CallState
      <3>2. CASE call' = [call EXCEPT ![c].phase = phase, ![c].stored = TRUE]
        BY <3>2, Zenon
      <3> QED
        BY <1>3, <3>1, <3>2
    <2>2. \A q \in CallState :
            /\ [q EXCEPT !.phase = phase, !.stored = stored] \in CallState
            /\ [q EXCEPT !.phase = phase, !.stored = stored].phase = phase
            /\ [q EXCEPT !.phase = phase, !.stored = stored].n = q.n
            /\ [q EXCEPT !.phase = phase, !.stored = stored].sent = q.sent
      BY DEF CallState
    <2> QED
      BY <2>1, <2>2 DEF TypeOK
  <1>5. /\ call'[c] = r /\ \A d \in Caller \ {c} : call'[d] = call[d]
        /\ call' \in [Caller -> CallState]
    BY <1>4 DEF TypeOK
  <1>6. KindFits(c)'
    BY <1>1, <1>3, <1>4, <1>5 DEF Moves, KindFits, Hooked
  <1>7. Own(c)'
    <2>1. Relaxes(c, r)
      BY <1>3, <1>4 DEF Moves, Relaxes, Before
    <2>2. Granted(c)' = Granted(c)
      BY <1>1, GrantedStays
    <2> QED
      BY <1>1, <1>4, <1>5, <1>6, <2>1, <2>2, PhaseMoves
  <1>8. TypeOK'
    BY <1>1, <1>5 DEF TypeOK
  <1> QED
    BY <1>1, <1>5, <1>7, <1>8 DEF Alone

(* Where c goes, as the record that it becomes.                            *)
LEMMA GoesTo ==
    ASSUME TypeOK, NEW c \in Caller, NEW phase \in Phase, Goes(c, phase)
    PROVE  \E r \in CallState :
              /\ call' = [call EXCEPT ![c] = r]
              /\ r.phase = phase /\ r.n = call[c].n /\ r.sent = call[c].sent
  <1>1. \A q \in CallState :
          /\ [q EXCEPT !.phase = phase] \in CallState
          /\ [q EXCEPT !.phase = phase].phase = phase
          /\ [q EXCEPT !.phase = phase].n = q.n
          /\ [q EXCEPT !.phase = phase].sent = q.sent
    BY DEF CallState
  <1>2. call' = [call EXCEPT ![c] = [call[c] EXCEPT !.phase = phase]]
    BY Zenon DEF Goes
  <1>3. call[c] \in CallState
    BY DEF TypeOK
  <1> QED
    BY <1>1, <1>2, <1>3

(* Who was granted attempts has a last one.                                *)
LEMMA LastIsGranted ==
    ASSUME NEW c \in Caller, Granted(c) # {}
    PROVE  Last(c) \in Granted(c) /\ Last(c) \in Attempt
  <1>1. \A n \in Granted(c) : n \in {1, 2, 3}
    BY DEF Granted, Attempt, MaxAttempts
  <1>2. \E n \in Granted(c) : \A m \in Granted(c) : m <= n
    <2>1. CASE 3 \in Granted(c)
      BY <1>1, <2>1
    <2>2. CASE 3 \notin Granted(c) /\ 2 \in Granted(c)
      BY <1>1, <2>2
    <2>3. CASE 3 \notin Granted(c) /\ 2 \notin Granted(c)
      BY <1>1, <2>3
    <2> QED
      BY <2>1, <2>2, <2>3
  <1>3. Last(c) \in Granted(c)
    BY <1>2 DEF Last
  <1> QED
    BY <1>3 DEF Granted

(* One reservation, before the fetch, for a caller whose hooks make none.  *)
LEMMA ReserveStep ==
    ASSUME TypeOK, NEW c \in Caller, Own(c), ReserveOnce(c)
    PROVE  Alone(c) /\ Own(c)' /\ TypeOK'
  <1>1. call[c].phase = "reserve" /\ ~Hooked(c) /\ kind[c] # "page" /\ UNCHANGED state
    BY DEF ReserveOnce, At, Own, KindFits, Hooked
  <1>2. PICK phase \in {"gate", "error"} : Goes(c, phase)
    BY DEF ReserveOnce
  <1>3. PICK r \in CallState :
          /\ call' = [call EXCEPT ![c] = r]
          /\ r.phase = phase /\ r.n = call[c].n /\ r.sent = call[c].sent
    BY <1>2, GoesTo DEF Phase
  <1>4. /\ call'[c] = r /\ \A d \in Caller \ {c} : call'[d] = call[d]
        /\ call' \in [Caller -> CallState]
    BY <1>3 DEF TypeOK
  <1>5. /\ ledger' \in [Caller -> [Attempt -> Entry]]
        /\ \A d \in Caller \ {c} : ledger'[d] = ledger[d]
        /\ room' \in Nat /\ faults' \in Nat /\ unrecorded' = unrecorded
    <2>1. CASE Reserve(c, 1)
      <3>1. 1 \in Attempt
        BY DEF Attempt, MaxAttempts
      <3> QED
        BY <2>1, <3>1, Reserves DEF TypeOK
    <2>2. CASE NotReserved(c, 1)
      <3>1. 1 \in Attempt
        BY DEF Attempt, MaxAttempts
      <3> QED
        BY <2>2, <3>1, ReservationFails
    <2> QED
      BY <2>1, <2>2 DEF ReserveOnce
  <1>6. KindFits(c)'
    BY <1>3, <1>4 DEF KindFits
  <1>7. Own(c)'
    <2>1. Relaxes(c, r)
      BY <1>1, <1>3 DEF Relaxes, Before
    <2> QED
      BY <1>1, <1>3, <1>4, <1>5, <1>6, <2>1, PhaseMoves DEF state
  <1>8. TypeOK'
    BY <1>1, <1>4, <1>5 DEF TypeOK, state
  <1> QED
    BY <1>1, <1>4, <1>5, <1>7, <1>8 DEF Alone, state

(* The last attempt is confirmed and completed after the fetch.            *)
LEMMA SettleStep ==
    ASSUME TypeOK, NEW c \in Caller, Own(c), SettleConfirm(c) \/ SettleComplete(c)
    PROVE  Alone(c) /\ Own(c)' /\ TypeOK'
  <1>1. /\ call[c].phase \in {"fetched", "failed"} /\ kind[c] # "page"
        /\ UNCHANGED state
    BY DEF SettleConfirm, SettleComplete, Fetched
  <1>2. /\ Granted(c)' = Granted(c)
        /\ ledger' \in [Caller -> [Attempt -> Entry]]
        /\ \A d \in Caller \ {c} : ledger'[d] = ledger[d]
        /\ room' = room /\ faults' \in Nat
        /\ unrecorded \subseteq unrecorded' /\ unrecorded' \subseteq Caller \X Attempt
    <2>1. CASE NoBudgetCall
      BY <2>1, GrantedStays DEF NoBudgetCall, TypeOK
    <2>2. CASE /\ Granted(c) # {} /\ ledger[c][Last(c)] = "confirmed"
               /\ \E outcome \in {"success", "failure"} : CompletionFails(c, Last(c), outcome)
      <3>1. Last(c) \in Attempt
        BY <2>2, LastIsGranted
      <3>2. PICK outcome \in {"success", "failure"} : CompletionFails(c, Last(c), outcome)
        BY <2>2
      <3>3. /\ Granted(c)' = Granted(c)
            /\ ledger' \in [Caller -> [Attempt -> Entry]]
            /\ \A d \in Caller \ {c} : ledger'[d] = ledger[d]
            /\ room' = room /\ faults' \in Nat
            /\ unrecorded' = unrecorded \cup {<<c, Last(c)>>}
        BY <2>2, <3>1, <3>2, CompletionThrows
      <3> QED
        BY <3>1, <3>3 DEF TypeOK
    <2>3. CASE Granted(c) # {} /\ (Confirm(c, Last(c)) \/ ConfirmationFails(c, Last(c)))
      <3>1. Last(c) \in Attempt
        BY <2>3, LastIsGranted
      <3>2. room' = room /\ unrecorded' = unrecorded /\ faults' \in Nat
        BY <2>3 DEF Confirm, ConfirmationFails, NoFault, Fault, TypeOK
      <3>3. CASE ledger' = ledger
        BY <3>2, <3>3, GrantedStays DEF TypeOK
      <3>4. CASE ledger' = Confirmed(c, Last(c))
        BY <3>1, <3>2, <3>4, Confirms DEF TypeOK
      <3> QED
        BY <2>3, <3>3, <3>4 DEF Confirm, ConfirmationFails
    <2>4. CASE /\ Granted(c) # {} /\ ledger[c][Last(c)] = "confirmed"
               /\ \E outcome \in {"success", "failure"} : Complete(c, Last(c), outcome)
      <3>1. Last(c) \in Attempt
        BY <2>4, LastIsGranted
      <3>2. PICK outcome \in {"success", "failure"} : Complete(c, Last(c), outcome)
        BY <2>4
      <3>3. ledger' = Completed(c, Last(c), outcome) /\ UNCHANGED <<room, faults, unrecorded>>
        BY <3>2 DEF Complete, NoFault
      <3> QED
        BY <2>4, <3>1, <3>3, Completes DEF TypeOK
    <2> QED
      BY <2>1, <2>2, <2>3, <2>4 DEF SettleConfirm, SettleComplete
  <1>3. PICK r \in CallState :
          /\ call' = [call EXCEPT ![c] = r]
          /\ r = call[c] \/ r.phase \in {"settled", "error"}
          /\ r.n = call[c].n /\ r.sent = call[c].sent
    <2>1. CASE UNCHANGED call
      BY <2>1 DEF TypeOK
    <2>2. CASE \E phase \in {"settled", "error"} : Goes(c, phase)
      BY <2>2, GoesTo DEF Phase
    <2> QED
      BY <2>1, <2>2 DEF SettleConfirm, SettleComplete
  <1>4. /\ call'[c] = r /\ \A d \in Caller \ {c} : call'[d] = call[d]
        /\ call' \in [Caller -> CallState]
    BY <1>3 DEF TypeOK
  <1>5. KindFits(c)'
    BY <1>1, <1>3, <1>4 DEF KindFits, state
  <1>6. Own(c)'
    <2>1. Relaxes(c, r)
      BY <1>1, <1>3 DEF Relaxes, Before
    <2> QED
      BY <1>1, <1>2, <1>3, <1>4, <1>5, <2>1, PhaseMoves DEF state
  <1>7. TypeOK'
    BY <1>1, <1>2, <1>4 DEF TypeOK, state
  <1> QED
    BY <1>1, <1>2, <1>4, <1>6, <1>7 DEF Alone, state

-----------------------------------------------------------------------------
(* The end of a live search: its caller and who joined it move on, and     *)
(* nothing is in flight.                                                   *)
LEMMA EndsStep ==
    ASSUME RequestsInv, NEW c \in Caller, StoreInCache(c) \/ SearchFails(c)
    PROVE  RequestsInv'
  <1>1. /\ TypeOK /\ SearchTracked /\ \A d \in Caller : Own(d)
        /\ UNCHANGED <<kind, room, ledger, binding, unrecorded>>
        /\ cached' \in BOOLEAN /\ faults' \in Nat
    <2>1. TypeOK /\ SearchTracked /\ \A d \in Caller : Own(d)
      BY DEF RequestsInv, Own
    <2>2. UNCHANGED <<kind, room, ledger, binding, unrecorded>>
      BY DEF StoreInCache, SearchFails, NoBudgetCall
    <2>3. cached' \in BOOLEAN
      BY <2>1 DEF StoreInCache, SearchFails, TypeOK
    <2>4. faults' \in Nat
      BY <2>1 DEF StoreInCache, SearchFails, NoBudgetCall, Fault, TypeOK
    <2> QED
      BY <2>1, <2>2, <2>3, <2>4
  <1>2. /\ inflight = {c}
        /\ \/ call[c].phase = "settled" /\ kind[c] = "live"
           \/ call[c].phase = "error"
    <2>1. CASE StoreInCache(c)
      <3>1. Searching(c) /\ call[c].phase = "settled" /\ kind[c] = "live"
        BY <2>1 DEF StoreInCache, Searching, At
      <3> QED
        BY <1>1, <3>1 DEF SearchTracked
    <2>2. CASE SearchFails(c)
      BY <1>1, <2>2 DEF SearchFails, SearchTracked, At
    <2> QED
      BY <2>1, <2>2
  <1>3. PICK own \in {"done", "error"}, joined \in {"done", "error"} :
          Ends(c, own, joined) /\ (call[c].phase = "error" => own = "error")
    BY <1>2 DEF StoreInCache, SearchFails, At
  <1>4. inflight' = {}
    BY <1>2, <1>3 DEF Ends
  <1>5. ASSUME NEW d \in Caller
        PROVE  /\ call'[d] \in CallState
               /\ call'[d].n = call[d].n /\ call'[d].sent = call[d].sent
               /\ \/ d = c /\ call'[d].phase = own
                  \/ d # c /\ call[d].phase = "joined" /\ call'[d].phase = joined
                  \/ d # c /\ call[d].phase # "joined" /\ call'[d] = call[d]
               /\ call[d].phase = "error" => call'[d] = call[d]
    <2>1. call[d] \in CallState
      BY <1>1 DEF TypeOK
    <2>2. ASSUME NEW to \in {"done", "error"}, NEW q \in CallState
          PROVE  /\ [q EXCEPT !.phase = to] \in CallState
                 /\ [q EXCEPT !.phase = to].phase = to
                 /\ [q EXCEPT !.phase = to].n = q.n
                 /\ [q EXCEPT !.phase = to].sent = q.sent
                 /\ q.phase = to => [q EXCEPT !.phase = to] = q
      <3>1. to \in Phase
        BY DEF Phase
      <3> QED
        BY <3>1 DEF CallState
    <2>3. CASE d = c
      <3>1. call'[d] = [call[d] EXCEPT !.phase = own]
        BY <1>3, <2>3 DEF Ends
      <3> QED
        BY <1>3, <2>1, <2>2, <2>3, <3>1
    <2>4. CASE d # c /\ call[d].phase = "joined"
      <3>1. call'[d] = [call[d] EXCEPT !.phase = joined]
        BY <1>3, <2>4 DEF Ends, At
      <3> QED
        BY <2>1, <2>2, <2>4, <3>1
    <2>5. CASE d # c /\ call[d].phase # "joined"
      <3>1. call'[d] = call[d]
        BY <1>3, <2>5 DEF Ends, At
      <3> QED
        BY <2>1, <2>5, <3>1
    <2> QED
      BY <2>3, <2>4, <2>5
  <1>6. ASSUME NEW d \in Caller PROVE Own(d)'
    <2>1. Own(d) /\ KindFits(d)
      BY <1>1 DEF Own
    <2>2. KindFits(d)'
      BY <1>1, <1>5, <2>1 DEF KindFits, Hooked
    <2>3. Relaxes(d, call'[d])
      BY <1>2, <1>5, <2>1 DEF Relaxes, KindFits, Before
    <2>4. Granted(d)' = Granted(d)
      BY <1>1, GrantedStays
    <2>5. PICK r \in CallState : r = call'[d]
      BY <1>5
    <2>6. Relaxes(d, r)
      BY <2>3, <2>5
    <2> QED
      BY <1>1, <1>5, <2>1, <2>2, <2>4, <2>5, <2>6, PhaseMoves
  <1>7. TypeOK'
    <2>1. call' \in [Caller -> CallState]
      BY <1>3, <1>5 DEF Ends
    <2> QED
      BY <1>1, <1>4, <2>1 DEF TypeOK
  <1>8. SearchTracked'
    <2>1. ASSUME NEW d \in Caller PROVE ~Searching(d)' /\ ~At(d, "joined")'
      <3>1. d # c => ~Searching(d)
        BY <1>1, <1>2 DEF SearchTracked
      <3> QED
        BY <1>1, <1>3, <1>5, <3>1 DEF Searching, At
    <2> QED
      BY <1>4, <2>1 DEF SearchTracked
  <1> QED
    BY <1>6, <1>7, <1>8 DEF RequestsInv, Own

(* A step that neither begins nor ends a search, nor joins one.            *)
Quiet(c) ==
    /\ inflight' = inflight
    /\ ~At(c, "joined")'
    /\ kind[c] = "live" =>
          \/ call[c].phase \notin {"start", "missed", "joined", "done", "error"}
          \/ call'[c].phase \in {"missed", "done"}

LEMMA QuietKeepsSearch ==
    ASSUME SearchTracked, NEW c \in Caller, Alone(c), Quiet(c)
    PROVE  SearchTracked'
  <1>1. \A d \in Caller : /\ Searching(d)' => Searching(d)
                          /\ At(d, "joined")' => At(d, "joined")
    <2>1. Searching(c)' => Searching(c)
      BY DEF Quiet, Searching, Alone
    <2>2. At(c, "joined")' => At(c, "joined")
      BY DEF Quiet
    <2>3. \A d \in Caller \ {c} : /\ Searching(d)' = Searching(d)
                                  /\ At(d, "joined")' = At(d, "joined")
      BY DEF Alone, Searching, At
    <2> QED
      BY <2>1, <2>2, <2>3
  <1> QED
    BY <1>1 DEF SearchTracked, Quiet

LEMMA StepsAreQuiet ==
    ASSUME TypeOK, NEW c \in Caller, KindFits(c), Step(c),
           ~JoinOrBegin(c), ~StoreInCache(c), ~SearchFails(c)
    PROVE  Quiet(c)
  <1>1. call \in [Caller -> CallState]
    BY DEF TypeOK
  <1>2. \A phase : Goes(c, phase) => call'[c].phase = phase
    BY <1>1 DEF Goes, CallState
  <1> USE DEF state, At, Quiet, Hooked, KindFits
  <1>3. CASE BeginHooked(c) \/ ReadCache(c) \/ BeginBrowse(c) \/ BeginLot(c) \/ CheckBudget(c)
    BY <1>2, <1>3 DEF BeginHooked, ReadCache, BeginBrowse, BeginLot, CheckBudget
  <1>4. CASE ReserveOnce(c) \/ Respond(c) \/ PageFailed(c) \/ Finish(c) \/ PassGate(c)
    BY <1>2, <1>4 DEF ReserveOnce, Respond, PageFailed, Finish, PassGate
  <1>5. CASE SettleConfirm(c) \/ SettleComplete(c)
    BY <1>2, <1>5 DEF SettleConfirm, SettleComplete, Fetched
  <1>6. CASE Refuse(c) \/ RespondThrows(c)
    BY <1>1, <1>6 DEF Refuse, RespondThrows, CallState
  <1>12. CASE ReserveThrows(c)
    BY <1>2, <1>12 DEF ReserveThrows
  <1>7. CASE Send(c)
    <2>1. call[c].phase = "send" /\ inflight' = inflight
      BY <1>7 DEF Send
    <2>2. call'[c].phase \in {"late", "answered", "thrown"}
      <3> HIDE DEF Quiet, KindFits, state, Hooked
      <3>1. CASE call' = [call EXCEPT ![c].phase = "late", ![c].answer = "deadline"]
        BY <1>1, <3>1 DEF CallState
      <3>2. CASE \E answer \in Answers \cup {"lost", "deadline"} :
                   call' = [call EXCEPT
                              ![c].phase = IF answer \in Answers THEN "answered" ELSE "thrown",
                              ![c].answer = answer, ![c].sent = @ + 1]
        <4>1. \E answer, sent : \E phase \in {"answered", "thrown"} :
                 call' = [call EXCEPT ![c].phase = phase, ![c].answer = answer, ![c].sent = sent]
          BY <3>2
        <4> QED
          BY <1>1, <4>1 DEF CallState
      <3> QED
        BY <1>7, <3>1, <3>2 DEF Send
    <2> QED
      BY <2>1, <2>2
  <1>8. CASE Fail(c) \/ FailThrows(c)
    <2>1. call'[c].phase \in {"gate", "failed", "thrown", "error"}
      BY <1>1, <1>2, <1>8 DEF Fail, FailThrows, CallState
    <2> QED
      BY <1>8, <2>1 DEF Fail, FailThrows, Failing
  <1>9. CASE StorePage(c)
    <2>1. call'[c].phase \in {"done", "error"}
      BY <1>1, <1>9 DEF StorePage, CallState
    <2> QED
      BY <1>9, <2>1 DEF StorePage
  <1>10. CASE CreateVehicle(c)
    <2>1. call'[c].phase \in {"created", "error"}
      BY <1>1, <1>2, <1>10 DEF CreateVehicle, CallState
    <2> QED
      BY <1>10, <2>1 DEF CreateVehicle
  <1>11. CASE CreateBinding(c)
    BY <1>2, <1>11 DEF CreateBinding
  <1> QED
    BY <1>3, <1>4, <1>5, <1>6, <1>7, <1>8, <1>9, <1>10, <1>11, <1>12 DEF Step, Fetch

(* A search begins only when none is in flight.                            *)
LEMMA BeginKeepsSearch ==
    ASSUME TypeOK, SearchTracked, NEW c \in Caller, JoinOrBegin(c), Alone(c)
    PROVE  SearchTracked'
  <1>1. /\ call[c].phase = "missed"
        /\ call'[c].phase = IF inflight = {} THEN "check" ELSE "joined"
        /\ inflight' = IF inflight = {} THEN {c} ELSE inflight
    BY DEF JoinOrBegin, At, Goes, Register, TypeOK, CallState
  <1>2. \A d \in Caller \ {c} : /\ Searching(d)' = Searching(d)
                                /\ At(d, "joined")' = At(d, "joined")
    BY DEF Alone, Searching, At
  <1>3. CASE inflight = {}
    BY <1>1, <1>2, <1>3 DEF SearchTracked
  <1>4. CASE inflight # {}
    <2>1. ~Searching(c)'
      BY <1>1, <1>4 DEF Searching
    <2> QED
      BY <1>1, <1>2, <1>4, <2>1 DEF SearchTracked
  <1> QED
    BY <1>3, <1>4

-----------------------------------------------------------------------------
(* The invariant.                                                          *)
LEMMA RequestsInit == Init => RequestsInv
  <1> SUFFICES ASSUME Init PROVE RequestsInv
    OBVIOUS
  <1>1. \A c \in Caller : call[c] = Idle /\ Granted(c) = {} /\ kind[c] \in Kinds
    BY DEF Init, Granted
  <1>2. TypeOK
    <2>1. Idle \in CallState
      BY DEF Idle, CallState, Phase, Before, Attempt, MaxAttempts
    <2> QED
      BY <2>1, RequestsAssumption DEF Init, TypeOK, Entry
  <1>3. ASSUME NEW c \in Caller PROVE KindFits(c) /\ AttemptsCounted(c) /\ PageAttempts(c)
    <2>1. KindFits(c)
      BY <1>1 DEF Idle, KindFits
    <2>2. AttemptsCounted(c)
      <3>1. Granted(c) = 1 .. 0
        BY <1>1
      <3> QED
        BY <1>1, <3>1, RequestsAssumption DEF Idle, AttemptsCounted, Before, Reported
    <2>3. PageAttempts(c)
      BY <1>1 DEF Idle, PageAttempts, Reported, Init
    <2> QED
      BY <2>1, <2>2, <2>3
  <1>4. SearchTracked
    BY <1>1 DEF Init, Idle, SearchTracked, Searching, At
  <1> QED
    BY <1>2, <1>3, <1>4 DEF RequestsInv

LEMMA RequestsStep == RequestsInv /\ [Next]_vars => RequestsInv'
  <1> SUFFICES ASSUME RequestsInv, [Next]_vars PROVE RequestsInv'
    OBVIOUS
  <1>1. TypeOK /\ SearchTracked /\ \A c \in Caller : Own(c) /\ KindFits(c)
    BY DEF RequestsInv, Own
  <1>2. ASSUME NEW c \in Caller, Step(c) PROVE RequestsInv'
    <2>1. CASE StoreInCache(c) \/ SearchFails(c)
      BY <2>1, EndsStep
    <2>2. CASE ~StoreInCache(c) /\ ~SearchFails(c)
      <3>1. Alone(c) /\ Own(c)' /\ TypeOK'
        BY <1>1, <1>2, <2>2, GateStep, RefuseStep, SendStep, RespondStep, FailStep, StoreStep,
           MoveStep, ReserveStep, SettleStep DEF Step, Fetch
      <3>2. \A d \in Caller : Own(d)'
        BY <1>1, <3>1, OthersStay
      <3>3. SearchTracked'
        BY <1>1, <1>2, <2>2, <3>1, BeginKeepsSearch, StepsAreQuiet, QuietKeepsSearch
      <3> QED
        BY <3>1, <3>2, <3>3 DEF RequestsInv, Own
    <2> QED
      BY <2>1, <2>2
  <1>3. ASSUME /\ UNCHANGED <<kind, room, ledger, call, inflight, binding, faults, unrecorded>>
               /\ cached' \in BOOLEAN
        PROVE  RequestsInv'
    <2>1. TypeOK'
      BY <1>1, <1>3 DEF TypeOK
    <2>2. \A c \in Caller : Own(c)'
      BY <1>1, <1>3
         DEF Own, KindFits, AttemptsCounted, PageAttempts, Hooked, Granted, Settled
    <2>3. SearchTracked'
      BY <1>1, <1>3 DEF SearchTracked, Searching, At
    <2> QED
      BY <2>1, <2>2, <2>3 DEF RequestsInv, Own
  <1>4. CASE CacheExpires
    BY <1>3, <1>4 DEF CacheExpires, NoBudgetCall
  <1>5. CASE UNCHANGED vars
    BY <1>1, <1>3, <1>5 DEF vars, TypeOK
  <1> QED
    BY <1>2, <1>4, <1>5 DEF Next

(* In every reachable state the attempts, what the budget knows of them    *)
(* and the searches in flight agree.                                       *)
THEOREM RequestsInvariant == Spec => []RequestsInv
  <1> QED
    BY RequestsInit, RequestsStep, PTL DEF Spec

(* No request of the discovery or of an import is sent unless it was       *)
(* reserved, retries included, and a page sends no more than its tick      *)
(* allows.                                                                 *)
THEOREM RequestsAreReserved == Spec => []EveryRequestReserved
  <1>1. RequestsInv => EveryRequestReserved
    <2> SUFFICES ASSUME RequestsInv, NEW c \in Caller
                 PROVE  /\ call[c].sent <= IF Hooked(c) THEN Cardinality(Granted(c))
                                           ELSE MaxAttempts
                        /\ kind[c] = "page" => call[c].sent <= Allowance
      BY DEF EveryRequestReserved
    <2>1. AttemptsCounted(c) /\ call[c].n \in 1 .. 3 /\ call[c].sent \in Nat
      BY DEF RequestsInv, TypeOK, CallState, Attempt, MaxAttempts
    <2>2. CASE Hooked(c)
      <3>1. PICK k \in {call[c].n - 1, call[c].n} :
               /\ Granted(c) = 1 .. k /\ call[c].sent <= k
               /\ kind[c] = "page" => k <= Allowance
        BY <2>1, <2>2 DEF AttemptsCounted
      <3>2. Cardinality(Granted(c)) = k
        <4>1. k \in Nat
          BY <2>1, <3>1
        <4> QED
          BY <3>1, <4>1, IntervalSize
      <3> QED
        BY <2>1, <2>2, <3>1, <3>2, RequestsAssumption
    <2>3. CASE ~Hooked(c)
      BY <2>1, <2>3 DEF AttemptsCounted, Hooked, MaxAttempts
    <2> QED
      BY <2>2, <2>3
  <1> QED
    BY <1>1, RequestsInvariant, PTL

(* When a page has ended, the budget knows the outcome of each of its      *)
(* attempts, unless telling it failed or the answer of its reservation was *)
(* lost, and no page that was not stored is a success there.               *)
THEOREM PagesAreSettled == Spec => []PageAttemptsSettled
  <1>1. RequestsInv => PageAttemptsSettled
    BY DEF RequestsInv, PageAttempts, PageAttemptsSettled, Granted
  <1> QED
    BY <1>1, RequestsInvariant, PTL

(* At most one live search of a query is under way, and nobody waits for   *)
(* one that is not.                                                        *)
THEOREM SearchesAreSingle == Spec => []OneSearchInFlight
  <1>1. RequestsInv => OneSearchInFlight
    <2> SUFFICES ASSUME RequestsInv PROVE OneSearchInFlight
      OBVIOUS
    <2>1. SearchTracked
      BY DEF RequestsInv
    <2>2. Cardinality({c \in Caller : Searching(c)}) <= 1
      <3>1. CASE {c \in Caller : Searching(c)} = {}
        BY <3>1, FS_EmptySet
      <3>2. ASSUME NEW c \in Caller, Searching(c)
            PROVE  Cardinality({d \in Caller : Searching(d)}) <= 1
        <4>1. {d \in Caller : Searching(d)} = {c}
          BY <2>1, <3>2 DEF SearchTracked
        <4>2. Cardinality({c}) = 1
          BY FS_Singleton
        <4> QED
          BY <4>1, <4>2
      <3> QED
        BY <3>1, <3>2
    <2> QED
      BY <2>1, <2>2 DEF OneSearchInFlight, SearchTracked
  <1> QED
    BY <1>1, RequestsInvariant, PTL
=============================================================================
