--------------------------- MODULE CalculatorEngine ---------------------------
(***************************************************************************)
(* Price previews (calculator-engine.service.ts): one process asks the     *)
(* dealer's calculator, first for a session and then for the calculation,  *)
(* keeps sessions and answers for a while, and lets calls for one input    *)
(* share a request that is under way.  What the dealer would answer        *)
(* changes with time: an answer is identified by the time it was given.    *)
(***************************************************************************)
EXTENDS Integers, Sequences, Lists

CONSTANTS
    Input,         \* the inputs of a preview, with their basis: the cache keys
    Visitor,       \* calls of preview in progress
    UidTtl, PreviewTtl,   \* how long a session and an answer are kept
    MaxEntries,    \* bound of the cache
    Never,
    MaxMinute

ASSUME EngineAssumption ==
    /\ {UidTtl, MaxMinute} \subseteq Nat
    /\ {PreviewTtl, MaxEntries} \subseteq Nat \ {0}

VARIABLES
    minute,
    dealerUid,       \* when the session that is kept expires, or Never
    previewCache,    \* the entries in the order of insertion
    pendingPreviews, \* pendingPreviews[i]: how far the request under way is, or none
    visitor          \* visitor[v]: what a call waits for or has been given

engineVars == <<minute, dealerUid, previewCache, pendingPreviews, visitor>>

NoCallYet == [phase |-> "idle"]

EngineInit ==
    /\ minute = 0
    /\ dealerUid = Never
    /\ previewCache = <<>>
    /\ pendingPreviews = [i \in Input |-> "none"]
    /\ visitor = [v \in Visitor |-> NoCallYet]

-----------------------------------------------------------------------------
Entries(cache, i) == {cache[n] : n \in {m \in DOMAIN cache : cache[m].input = i}}
LivePreviews(i) == {e \in Entries(previewCache, i) : e.expiresAt > minute}

KnowsDealer == dealerUid # Never /\ dealerUid > minute

(* A call is answered from the cache, waits for the request of its input   *)
(* that is under way, or sends one, with the session that is kept if it    *)
(* has not expired.                                                        *)
Preview(v, i) ==
    LET hit == CHOOSE e \in LivePreviews(i) : TRUE
    IN  /\ visitor[v].phase # "waits"
        /\ visitor' = [visitor EXCEPT ![v] =
              IF LivePreviews(i) # {}
              THEN [phase |-> "shown", givenAt |-> hit.givenAt, shownAt |-> minute]
              ELSE [phase |-> "waits", input |-> i]]
        /\ pendingPreviews' = [pendingPreviews EXCEPT ![i] =
              IF LivePreviews(i) # {} \/ @ # "none" THEN @
              ELSE IF KnowsDealer THEN "calculate" ELSE "profile"]
        /\ UNCHANGED <<minute, dealerUid, previewCache>>

(* The dealer's page answers with a session.                               *)
GetDealerUid(i) ==
    /\ pendingPreviews[i] = "profile"
    /\ pendingPreviews' = [pendingPreviews EXCEPT ![i] = "calculate"]
    /\ dealerUid' = minute + UidTtl
    /\ UNCHANGED <<minute, previewCache, visitor>>

Unexpired(cache) == Filtered(cache, {n \in DOMAIN cache : cache[n].expiresAt > minute})

(* A slip: a full cache drops what has expired and nothing else.           *)
RoomyUnlessLive(cache) ==
    IF Len(cache) < MaxEntries THEN cache ELSE Unexpired(cache)
(* A full cache drops what has expired, and its oldest entry if that is    *)
(* not enough.  An entry that is written again keeps its place.            *)
Roomy(cache) ==
    LET live == Unexpired(cache)
    IN  IF Len(cache) < MaxEntries THEN cache
        ELSE IF Len(live) >= MaxEntries THEN Tail(live) ELSE live

Written(cache, entry) ==
    IF Entries(cache, entry.input) = {} THEN Append(cache, entry)
    ELSE [n \in DOMAIN cache |-> IF cache[n].input = entry.input THEN entry ELSE cache[n]]

Resolve(i, result) ==
    /\ pendingPreviews' = [pendingPreviews EXCEPT ![i] = "none"]
    /\ visitor' = [v \in Visitor |-> IF visitor[v] = [phase |-> "waits", input |-> i]
                                     THEN result ELSE visitor[v]]

(* The calculation arrives, is kept, and answers everyone who waits.       *)
Calculated(i) ==
    /\ pendingPreviews[i] = "calculate"
    /\ previewCache' = Written(Roomy(previewCache), [input |-> i, givenAt |-> minute,
                                                     expiresAt |-> minute + PreviewTtl])
    /\ Resolve(i, [phase |-> "shown", givenAt |-> minute, shownAt |-> minute])
    /\ UNCHANGED <<minute, dealerUid>>

(* An error, an unusable answer, or no answer in time: nothing is kept.    *)
PreviewFails(i) ==
    /\ pendingPreviews[i] # "none"
    /\ Resolve(i, [phase |-> "unavailable"])
    /\ UNCHANGED <<minute, dealerUid, previewCache>>

(* Only the headers of an answer are waited for with a timeout: a request  *)
(* whose body stalls stays under way, and calls for its input wait.        *)
EngineTick ==
    /\ minute < MaxMinute
    /\ minute' = minute + 1
    /\ UNCHANGED <<dealerUid, previewCache, pendingPreviews, visitor>>

EngineNext ==
    \/ \E v \in Visitor, i \in Input : Preview(v, i)
    \/ \E i \in Input : GetDealerUid(i) \/ Calculated(i) \/ PreviewFails(i)
    \/ EngineTick

EngineSpec == EngineInit /\ [][EngineNext]_engineVars

-----------------------------------------------------------------------------
(* However many requests are under way when the cache is full, it stays    *)
(* within its bound and holds one answer of an input; nobody is shown an   *)
(* answer older than it may be kept, also when an entry was written again  *)
(* in the place of an expired one; and whoever waits has a request to wait *)
(* for.                                                                    *)
PreviewsSound ==
    /\ Len(previewCache) <= MaxEntries
    /\ \A m, n \in DOMAIN previewCache : previewCache[m].input = previewCache[n].input => m = n
    /\ \A v \in Visitor :
          /\ visitor[v].phase = "shown" => visitor[v].shownAt < visitor[v].givenAt + PreviewTtl
          /\ visitor[v].phase = "waits" => pendingPreviews[visitor[v].input] # "none"

Entry == [input : Input, givenAt : Nat, expiresAt : Nat]
PreviewCall == {NoCallYet} \cup [phase : {"shown"}, givenAt : Nat, shownAt : Nat]
                   \cup [phase : {"waits"}, input : Input] \cup [phase : {"unavailable"}]

EngineTypeOK ==
    /\ minute \in Nat
    /\ dealerUid \in Nat \cup {Never}
    /\ previewCache \in Seq(Entry)
    /\ pendingPreviews \in [Input -> {"none", "profile", "calculate"}]
    /\ visitor \in [Visitor -> PreviewCall]

(* An entry expires when its answer is too old to be shown.                *)
EngineInv ==
    /\ EngineTypeOK /\ PreviewsSound
    /\ \A n \in DOMAIN previewCache :
          previewCache[n].expiresAt = previewCache[n].givenAt + PreviewTtl
=============================================================================
