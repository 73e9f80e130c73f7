----------------------------- MODULE Marketplace -----------------------------
(***************************************************************************)
(* One listing of marketplace/marketplace.service.ts with its vehicle, its *)
(* inquiries and its reviews.                                              *)
(*                                                                         *)
(* A request reads, checks what it read, and writes later; between the two *)
(* any other request may run.  So a call remembers what it saw.  Writes of *)
(* the listing are conditional on the status seen; a write that comes too  *)
(* late, or fails, ends the call without effect.  A transaction whose      *)
(* first statement locks the listing row is one step.                      *)
(***************************************************************************)
EXTENDS Integers

CONSTANTS Caller,       \* requests in flight
          Buyer,        \* users other than the seller
          NoOne,        \* no buyer, no replier
          ExpiryDays,   \* EXPIRY_DAYS
          MaxTime,      \* bound on the clock
          MaxVersion,   \* bound on the edits
          MaxRounds     \* bound on the submissions for moderation

ASSUME MarketAssumption ==
    /\ NoOne \notin Buyer \cup Caller
    /\ ExpiryDays \in Nat \ {0}
    /\ MaxTime \in Nat
    /\ MaxVersion \in Nat
    /\ MaxRounds \in Nat

VARIABLES now,        \* the clock the requests read
          listing,    \* the row of marketplace_listings, and which content it shows
          vehicle,    \* the backing vehicle
          inquiry,    \* inquiry[b]: the status of b's inquiry, "none" before it exists
          review,     \* review[b]: the review b wrote for its inquiry
          call        \* call[c]: what request c is doing and what it has read

vars == <<now, listing, vehicle, inquiry, review, call>>

ListingStatus == {"none", "DRAFT", "SUBMITTED", "PUBLISHED", "REJECTED", "SOLD", "EXPIRED"}
Closed == {"CLOSED_INTERESTED", "CLOSED_NOT_INTERESTED", "CLOSED_SOLD"}
ReviewStatus == {"none", "PENDING", "APPROVED", "REJECTED"}
Never == -1

(* Besides the row: version counts the edits of the content and round its  *)
(* submissions, submitted is the version of the last one, and approved and *)
(* approvedIn are the version and the round that the last approval read.   *)
Listing == [status : ListingStatus, expiresAt : Int, version : Nat, round : Nat,
            submitted : Int, approved : Int, approvedIn : Int]
Vehicle == [publication : {"none", "DRAFT", "HIDDEN"}, availability : {"none", "AVAILABLE", "SOLD"}]
Review == [status : ReviewStatus, reply : Caller \cup {NoOne}]

ListingOp == {"update", "submit", "renew", "sell", "approve", "reject", "expire"}
Op == ListingOp \cup {"idle", "create", "rejected", "reveal", "close", "review", "reply"}

(* What a request read: the status, the buyer and the clock, and when it   *)
(* is an approval the content of the listing.                              *)
Call == [op : Op, seen : ListingStatus, buyer : Buyer \cup {NoOne}, at : Nat,
         version : Nat, round : Nat]
Idle == [op |-> "idle", seen |-> "none", buyer |-> NoOne, at |-> 0, version |-> 0, round |-> 0]

TypeOK == /\ now \in Nat
          /\ listing \in Listing
          /\ vehicle \in Vehicle
          /\ inquiry \in [Buyer -> {"none", "OPEN"} \cup Closed]
          /\ review \in [Buyer -> Review]
          /\ call \in [Caller -> Call]

Init == /\ now = 0
        /\ listing = [status |-> "none", expiresAt |-> Never, version |-> 0, round |-> 0,
                      submitted |-> -1, approved |-> -1, approvedIn |-> -1]
        /\ vehicle = [publication |-> "none", availability |-> "none"]
        /\ inquiry = [b \in Buyer |-> "none"]
        /\ review = [b \in Buyer |-> [status |-> "none", reply |-> NoOne]]
        /\ call = [c \in Caller |-> Idle]

-----------------------------------------------------------------------------
Begin(c, read) ==
    /\ call[c].op = "idle"
    /\ call' = [call EXCEPT ![c] = read]
    /\ UNCHANGED <<now, listing, vehicle, inquiry, review>>

Finish(c, op) == /\ call[c].op = op
                 /\ call' = [call EXCEPT ![c] = Idle]

(* A conditional write that finds another status, a unique key taken, a    *)
(* database error, the death of the process: the call just ends.           *)
Fail(c) == /\ call[c].op # "idle"
           /\ call' = [call EXCEPT ![c] = Idle]
           /\ UNCHANGED <<now, listing, vehicle, inquiry, review>>

(* createListing: the vehicle, and then the listing, are written.          *)
CreateVehicle(c) ==
    /\ listing.status = "none"
    /\ vehicle.publication = "none"
    /\ call[c].op = "idle"
    /\ call' = [call EXCEPT ![c] = [Idle EXCEPT !.op = "create"]]
    /\ vehicle' = [publication |-> "DRAFT", availability |-> "AVAILABLE"]
    /\ UNCHANGED <<now, listing, inquiry, review>>

CreateListing(c) ==
    /\ Finish(c, "create")
    /\ listing' = [listing EXCEPT !.status = "DRAFT"]
    /\ UNCHANGED <<now, vehicle, inquiry, review>>

-----------------------------------------------------------------------------
(* The listing's transitions: the statuses an operation accepts when it    *)
(* reads the listing, and its write if the status is still the same.       *)

Accepts == [update  |-> {"DRAFT", "REJECTED", "PUBLISHED"},
            submit  |-> {"DRAFT", "REJECTED"},
            renew   |-> {"PUBLISHED", "EXPIRED"},
            sell    |-> {"PUBLISHED"},
            approve |-> {"SUBMITTED"},
            reject  |-> {"SUBMITTED"},
            expire  |-> {"PUBLISHED"}]

ReadListing(c, op) ==
    /\ listing.status \in Accepts[op]
    /\ op = "expire" => listing.expiresAt <= now
    /\ Begin(c, [op |-> op, seen |-> listing.status, buyer |-> NoOne, at |-> now,
                 version |-> IF op = "approve" THEN listing.version ELSE 0,
                 round |-> IF op = "approve" THEN listing.round ELSE 0])

(* Faulty variant: the write is not conditional on the status that was read. *)
WhateverSeen(c) == TRUE

SameAsSeen(c) == listing.status = call[c].seen

(* An edit of published content takes the listing back to moderation.      *)
Edit(c) ==
    /\ listing.version < MaxVersion
    /\ IF call[c].seen = "PUBLISHED"
       THEN /\ listing.round < MaxRounds
            /\ listing' = [listing EXCEPT !.status = "SUBMITTED", !.expiresAt = Never,
                                          !.version = @ + 1, !.round = @ + 1,
                                          !.submitted = listing.version + 1]
            /\ vehicle' = [vehicle EXCEPT !.publication = "DRAFT"]
       ELSE /\ listing' = [listing EXCEPT !.version = @ + 1]
            /\ UNCHANGED vehicle
    /\ UNCHANGED <<now, inquiry, review>>

(* Faulty variant: an edit that does not test the status again. *)
UpdateUnconditionally(c) == Finish(c, "update") /\ Edit(c)

UpdateListing(c) == Finish(c, "update") /\ SameAsSeen(c) /\ Edit(c)

SubmitListing(c) ==
    /\ Finish(c, "submit")
    /\ SameAsSeen(c)
    /\ listing.round < MaxRounds
    /\ listing' = [listing EXCEPT !.status = "SUBMITTED", !.round = @ + 1,
                                  !.submitted = listing.version]
    /\ UNCHANGED <<now, vehicle, inquiry, review>>

(* The new expiry counts from a clock read between the read and the write. *)
RenewListing(c) ==
    /\ Finish(c, "renew")
    /\ SameAsSeen(c)
    /\ \E t \in call[c].at .. now :
          listing' = [listing EXCEPT !.status = "PUBLISHED", !.expiresAt = t + ExpiryDays]
    /\ UNCHANGED <<now, vehicle, inquiry, review>>

(* One transaction: the sale, the vehicle, and every inquiry still open.   *)
MarkSold(c) ==
    /\ Finish(c, "sell")
    /\ SameAsSeen(c)
    /\ listing' = [listing EXCEPT !.status = "SOLD"]
    /\ vehicle' = [publication |-> "HIDDEN", availability |-> "SOLD"]
    /\ inquiry' = [b \in Buyer |-> IF inquiry[b] = "OPEN" THEN "CLOSED_SOLD" ELSE inquiry[b]]
    /\ UNCHANGED <<now, review>>

(* The write tests that the listing is submitted, not that it is still the *)
(* submission that was read.                                               *)
ApproveListing(c) ==
    /\ Finish(c, "approve")
    /\ SameAsSeen(c)
    /\ \E t \in call[c].at .. now :
          listing' = [listing EXCEPT !.status = "PUBLISHED", !.expiresAt = t + ExpiryDays,
                                     !.approved = call[c].version, !.approvedIn = call[c].round]
    /\ vehicle' = [publication |-> "DRAFT", availability |-> "AVAILABLE"]
    /\ UNCHANGED <<now, inquiry, review>>

(* Two writes and no transaction: the listing, and later its vehicle.      *)
RejectListing(c) ==
    /\ call[c].op = "reject"
    /\ SameAsSeen(c)
    /\ listing' = [listing EXCEPT !.status = "REJECTED"]
    /\ call' = [call EXCEPT ![c] = [Idle EXCEPT !.op = "rejected"]]
    /\ UNCHANGED <<now, vehicle, inquiry, review>>

RejectVehicle(c) ==
    /\ Finish(c, "rejected")
    /\ vehicle' = [vehicle EXCEPT !.publication = "DRAFT"]
    /\ UNCHANGED <<now, listing, inquiry, review>>

(* Faulty variant: the write trusts the expiry that was read. *)
ExpireAsRead(c) ==
    /\ Finish(c, "expire")
    /\ SameAsSeen(c)
    /\ listing' = [listing EXCEPT !.status = "EXPIRED"]
    /\ UNCHANGED <<now, vehicle, inquiry, review>>

(* The expiry is tested again by the write, for a renewal may have come.   *)
ExpireListing(c) ==
    /\ Finish(c, "expire")
    /\ SameAsSeen(c)
    /\ listing.expiresAt <= call[c].at
    /\ listing' = [listing EXCEPT !.status = "EXPIRED"]
    /\ UNCHANGED <<now, vehicle, inquiry, review>>

-----------------------------------------------------------------------------
(* Inquiries.  revealContact writes the listing row first, so it is one    *)
(* step; closeInquiry checks what it read and then writes by id alone.     *)

ReadClock(c, b) == Begin(c, [Idle EXCEPT !.op = "reveal", !.buyer = b, !.at = now])

(* Faulty variant: no guarded write of the listing row. *)
RevealUnguarded(c) ==
    /\ Finish(c, "reveal")
    /\ listing.status # "none"
    /\ inquiry' = [inquiry EXCEPT ![call[c].buyer] = "OPEN"]
    /\ UNCHANGED <<now, listing, vehicle, review>>

RevealContact(c) ==
    /\ Finish(c, "reveal")
    /\ listing.status = "PUBLISHED"
    /\ listing.expiresAt > call[c].at
    /\ inquiry' = [inquiry EXCEPT ![call[c].buyer] = "OPEN"]
    /\ UNCHANGED <<now, listing, vehicle, review>>

ReadInquiry(c, b) ==
    /\ inquiry[b] = "OPEN"
    /\ Begin(c, [Idle EXCEPT !.op = "close", !.buyer = b])

CloseInquiry(c) ==
    /\ Finish(c, "close")
    /\ \E s \in {"CLOSED_INTERESTED", "CLOSED_NOT_INTERESTED"} :
          inquiry' = [inquiry EXCEPT ![call[c].buyer] = s]
    /\ UNCHANGED <<now, listing, vehicle, review>>

-----------------------------------------------------------------------------
(* Reviews: unique per inquiry in the database. *)

ReadForReview(c, b) ==
    /\ inquiry[b] \in Closed
    /\ review[b].status = "none"
    /\ Begin(c, [Idle EXCEPT !.op = "review", !.buyer = b])

CreateReview(c) ==
    /\ Finish(c, "review")
    /\ review[call[c].buyer].status = "none"
    /\ review' = [review EXCEPT ![call[c].buyer] = [status |-> "PENDING", reply |-> NoOne]]
    /\ UNCHANGED <<now, listing, vehicle, inquiry>>

ReadReview(c, b) ==
    /\ review[b].status # "none"
    /\ review[b].reply = NoOne
    /\ Begin(c, [Idle EXCEPT !.op = "reply", !.buyer = b])

ReplyToReview(c) ==
    /\ Finish(c, "reply")
    /\ review[call[c].buyer].reply = NoOne
    /\ review' = [review EXCEPT ![call[c].buyer].reply = c]
    /\ UNCHANGED <<now, listing, vehicle, inquiry>>

ModerateReview(b) ==
    /\ review[b].status # "none"
    /\ \E s \in ReviewStatus \ {"none"} : review' = [review EXCEPT ![b].status = s]
    /\ UNCHANGED <<now, listing, vehicle, inquiry, call>>

Tick == /\ now < MaxTime
        /\ now' = now + 1
        /\ UNCHANGED <<listing, vehicle, inquiry, review, call>>

Write(c) ==
    \/ CreateListing(c) \/ UpdateListing(c) \/ SubmitListing(c) \/ RenewListing(c)
    \/ MarkSold(c) \/ ApproveListing(c) \/ RejectListing(c) \/ RejectVehicle(c)
    \/ ExpireListing(c) \/ RevealContact(c) \/ CloseInquiry(c)
    \/ CreateReview(c) \/ ReplyToReview(c)

Read(c) ==
    \/ \E op \in ListingOp : ReadListing(c, op)
    \/ \E b \in Buyer : ReadClock(c, b) \/ ReadInquiry(c, b) \/ ReadForReview(c, b) \/ ReadReview(c, b)

Next == \/ \E c \in Caller : CreateVehicle(c) \/ Read(c) \/ Write(c) \/ Fail(c)
        \/ \E b \in Buyer : ModerateReview(b)
        \/ Tick

Spec == Init /\ [][Next]_vars

-----------------------------------------------------------------------------
(* What the pages show: the public list of listings and the page of one,   *)
(* the inquiries of a buyer and of the seller, the reviews.                *)

Listed == /\ listing.status = "PUBLISHED"
          /\ listing.expiresAt > now

Opens == ~ \/ listing.status # "PUBLISHED"
           \/ listing.expiresAt = Never
           \/ listing.expiresAt <= now

BuyerInquiries == {b \in Buyer : inquiry[b] # "none"}
SellerInquiries == {b \in Buyer : inquiry[b] # "none"}
SellerReviews == {b \in Buyer : review[b].status # "none"}
PublicReviews == {b \in Buyer : review[b].status = "APPROVED"}

(* What the public sees was submitted for moderation and not edited since, *)
(* and it is the very content the approval read, but for one case: the     *)
(* listing was submitted anew between the approval's read and its write.   *)
(* So no edit that overlaps an approval alone slips past it.  Whatever is  *)
(* listed opens and is for sale, and whoever wrote a review the pages show *)
(* still finds the inquiry it is about.                                    *)
OnlyApprovedIsPublic ==
    /\ listing.status \in {"PUBLISHED", "EXPIRED", "SOLD"} =>
          /\ listing.version = listing.submitted
          /\ listing.version # listing.approved => listing.approvedIn < listing.round
    /\ Listed => Opens
    /\ Opens => vehicle.availability = "AVAILABLE"
    /\ PublicReviews \cup SellerReviews \subseteq BuyerInquiries \cap SellerInquiries

(* A sold vehicle is not offered anywhere and nobody waits for its seller: *)
(* a contact that raced the sale is either closed by it or refused.        *)
SaleIsComplete ==
    listing.status = "SOLD" =>
        /\ vehicle.availability = "SOLD"
        /\ \A b \in Buyer : inquiry[b] # "OPEN"

(* A listing has an expiry exactly from its approval on. *)
ExpiryMatchesStatus ==
    listing.expiresAt # Never <=> listing.status \in {"PUBLISHED", "EXPIRED", "SOLD"}

(* The reconciliation never expires a listing that was renewed since the   *)
(* reconciliation read it.                                                 *)
NotExpiredEarly ==
    [][ (listing.status = "PUBLISHED" /\ listing'.status = "EXPIRED")
          => listing.expiresAt <= now ]_vars

(* A seller's reply is given once and never replaced. *)
RepliedOnce ==
    [][ \A b \in Buyer : review[b].reply # NoOne => review'[b].reply = review[b].reply ]_vars

(* Each request takes effect as if it were handled alone. *)
Lifecycle == INSTANCE ListingLifecycle
                WITH status <- listing.status,
                     submitted <- (listing.version = listing.submitted),
                     open <- {b \in Buyer : inquiry[b] = "OPEN"}

ImplementsLifecycle == Lifecycle!Spec
=============================================================================
