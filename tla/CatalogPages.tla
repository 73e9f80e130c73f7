----------------------------- MODULE CatalogPages -----------------------------
(***************************************************************************)
(* The pages of the public auction list without a provider filter          *)
(* (usaInventory and interleaveProviders, catalog.service.ts): the best    *)
(* lots of each provider, as many as the pages so far could show, are      *)
(* merged anew for every page, which is cut from the result.               *)
(***************************************************************************)
EXTENDS Integers, Sequences

CONSTANTS PageSizes, MaxLots, MaxPages

ASSUME PagesAssumption ==
    PageSizes \subseteq Nat \ {0} /\ MaxLots \in Nat /\ MaxPages \in Nat

VARIABLE reading   \* the lots of each provider, the size and number of the page

PagesInit ==
    reading \in [copart : 0 .. MaxLots, iaai : 0 .. MaxLots, size : PageSizes, number : {1}]

MaxConsecutive == 3

(* A slip: one card too many in a row.                                     *)
OneTooMany(copart, iaai, t) ==
    IF t.run > MaxConsecutive THEN t.last = "iaai" ELSE copart >= iaai
(* Of two lists that both have cards left, the longer one goes first, but  *)
(* not more than three times in a row.                                     *)
PickCopart(copart, iaai, t) ==
    IF t.run >= MaxConsecutive THEN t.last = "iaai" ELSE copart >= iaai

NextProvider(copart, iaai, t) ==
    LET pickCopart == copart # 0 /\ (iaai = 0 \/ PickCopart(copart, iaai, t))
    IN  IF pickCopart THEN "copart" ELSE "iaai"

(* The cards taken of each list, whose the last one is, and how many of    *)
(* its provider it makes in a row.                                         *)
NoneTaken == [copart |-> 0, iaai |-> 0, last |-> "none", run |-> 0]

Take(t, provider) ==
    [t EXCEPT ![provider] = @ + 1, !.last = provider,
              !.run = IF t.last = provider THEN @ + 1 ELSE 1]

NextTurn(t, copart, iaai) == Take(t, NextProvider(copart - t.copart, iaai - t.iaai, t))

(* The lists have that many cards; turns[n]: when n cards have been taken. *)
Turns(copart, iaai) ==
    LET turns[n \in 0 .. copart + iaai] ==
          IF n = 0 THEN NoneTaken ELSE NextTurn(turns[n - 1], copart, iaai)
    IN  turns

(* The n-th card of the page is the next one of the provider whose turn it *)
(* is.                                                                     *)
Interleaved(copart, iaai) ==
    LET turns == Turns(copart, iaai)
    IN  [n \in 1 .. copart + iaai |-> <<turns[n].last, turns[n][turns[n].last]>>]

Smaller(a, b) == IF a < b THEN a ELSE b

(* Of each provider as many lots as the page and those before it hold.     *)
Merged(r) ==
    LET fetched == r.size * r.number
    IN  Interleaved(Smaller(r.copart, fetched), Smaller(r.iaai, fetched))

Skipped(r) == r.size * (r.number - 1)
PageOf(r) == SubSeq(Merged(r), Skipped(r) + 1, Smaller(Skipped(r) + r.size, Len(Merged(r))))

HasNext(r) == r.number * r.size < r.copart + r.iaai

TurnPage ==
    /\ HasNext(reading) /\ reading.number < MaxPages
    /\ reading' = [reading EXCEPT !.number = @ + 1]

PagesNext == TurnPage

PagesSpec == PagesInit /\ [][PagesNext]_reading

-----------------------------------------------------------------------------
(* Every page is full until the lots run out.  As long as both providers   *)
(* have lots that neither this page nor the merge before it has shown, no  *)
(* more than three cards in a row come from one of them, also across the   *)
(* beginning of a page.                                                    *)
BothProvidersShown ==
    LET r == reading  merged == Merged(r)
        Rest(k) == {merged[n] : n \in k .. Len(merged)}
    IN  /\ Len(PageOf(r)) = Smaller(r.size, r.copart + r.iaai - Skipped(r))
        /\ \A k \in MaxConsecutive + 1 .. Skipped(r) + Len(PageOf(r)) :
              (\A p \in {"copart", "iaai"} : \E c \in Rest(k) : c[1] = p) =>
                  \E n \in k - MaxConsecutive .. k : merged[n][1] # merged[k][1]

(* There was a card to turn the page for.                                  *)
PagesInv ==
    /\ reading \in [copart : Nat, iaai : Nat, size : PageSizes, number : Nat \ {0}]
    /\ reading.number # 1 => Skipped(reading) < reading.copart + reading.iaai
=============================================================================
