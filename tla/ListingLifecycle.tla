-------------------------- MODULE ListingLifecycle --------------------------
(***************************************************************************)
(* What the marketplace promises about one listing if every request were   *)
(* handled alone: only content submitted as it is gets public, contacts    *)
(* are opened only while it is, a sale is final and leaves no inquiry      *)
(* open.  An approval is for whatever is submitted when it takes effect.   *)
(* Marketplace, with its reads and writes apart, is shown to implement it. *)
(***************************************************************************)
CONSTANT Buyer

VARIABLES status,     \* the listing's status, "none" before it exists
          submitted,  \* the content is the one last submitted
          open        \* the buyers with an open inquiry

vars == <<status, submitted, open>>

Init == status = "none" /\ submitted = FALSE /\ open = {}

Create == /\ status = "none"
          /\ status' = "DRAFT"
          /\ UNCHANGED <<submitted, open>>

(* Editing a published listing sends it back to moderation. *)
Edit == /\ status \in {"DRAFT", "REJECTED", "PUBLISHED"}
        /\ status' = IF status = "PUBLISHED" THEN "SUBMITTED" ELSE status
        /\ submitted' = (status = "PUBLISHED")
        /\ UNCHANGED open

Submit == /\ status \in {"DRAFT", "REJECTED"}
          /\ status' = "SUBMITTED"
          /\ submitted' = TRUE
          /\ UNCHANGED open

Approve == /\ status = "SUBMITTED"
           /\ status' = "PUBLISHED"
           /\ UNCHANGED <<submitted, open>>

Reject == /\ status = "SUBMITTED"
          /\ status' = "REJECTED"
          /\ UNCHANGED <<submitted, open>>

(* Time passes for a published listing, and its seller renews it. *)
Expire == status = "PUBLISHED" /\ status' = "EXPIRED" /\ UNCHANGED <<submitted, open>>
Renew == status = "EXPIRED" /\ status' = "PUBLISHED" /\ UNCHANGED <<submitted, open>>

Sell == /\ status = "PUBLISHED"
        /\ status' = "SOLD"
        /\ open' = {}
        /\ UNCHANGED submitted

Contact(b) == /\ status = "PUBLISHED"
              /\ open' = open \cup {b}
              /\ UNCHANGED <<status, submitted>>

Close(b) == /\ open' = open \ {b}
            /\ UNCHANGED <<status, submitted>>

Next == \/ Create \/ Edit \/ Submit \/ Approve \/ Reject \/ Expire \/ Renew \/ Sell
        \/ \E b \in Buyer : Contact(b) \/ Close(b)

Spec == Init /\ [][Next]_vars
=============================================================================
