------------------------- MODULE MarketplaceProofs -------------------------
(* Theorems about Marketplace for every set of requests and buyers and     *)
(* every value of the times and bounds.                                    *)
EXTENDS Marketplace, TLAPS

(* What a request between its read and its write still knows: the status   *)
(* it saw was one its operation accepts, the clock it read has passed, and *)
(* the inquiry it is about has a buyer.                                    *)
CallsConsistent ==
    \A c \in Caller :
        /\ call[c].op \in ListingOp => call[c].seen \in Accepts[call[c].op] /\ call[c].at <= now
        /\ call[c].op \in {"reveal", "close", "review", "reply"} => call[c].buyer \in Buyer
        /\ call[c].op = "reply" => review[call[c].buyer].status # "none"
        /\ call[c].op = "review" => inquiry[call[c].buyer] # "none"

(* There is one creation, it precedes the listing, and its vehicle comes   *)
(* first.                                                                  *)
CreatedOnce ==
    /\ vehicle.publication = "none" =>
          listing.status = "none" /\ \A c \in Caller : call[c].op # "create"
    /\ \A c \in Caller : call[c].op = "create" => listing.status = "none"
    /\ \A c, d \in Caller : call[c].op = "create" /\ call[d].op = "create" => c = d

(* What was submitted is a version there has been; a vehicle is for sale as*)
(* long as its listing may be shown; only a review that exists has a       *)
(* reply, and it is about an inquiry that exists.                          *)
RecordsConsistent ==
    /\ listing.submitted <= listing.version
    /\ listing.status \in {"PUBLISHED", "EXPIRED"} => vehicle.availability = "AVAILABLE"
    /\ \A b \in Buyer : /\ review[b].status = "none" => review[b].reply = NoOne
                        /\ review[b].status # "none" => inquiry[b] # "none"

(* An approval in flight read the content of this submission, unless the   *)
(* listing was submitted anew since.                                       *)
ApprovalsConsistent ==
    \A c \in Caller : call[c].op = "approve" =>
        /\ call[c].round <= listing.round
        /\ listing.status = "SUBMITTED" /\ call[c].round = listing.round
              => call[c].version = listing.version

(* The first part of OnlyApprovedIsPublic, and the part that is inductive: *)
(* nothing is edited between its submission and the end of its publication.*)
PublishedIsApproved ==
    /\ listing.approvedIn <= listing.round
    /\ listing.status \in {"SUBMITTED", "PUBLISHED", "EXPIRED", "SOLD"} =>
          listing.version = listing.submitted
    /\ listing.status \in {"PUBLISHED", "EXPIRED", "SOLD"} =>
          (listing.approvedIn = listing.round => listing.version = listing.approved)

MarketInv ==
    /\ TypeOK /\ CallsConsistent /\ ApprovalsConsistent /\ CreatedOnce /\ RecordsConsistent
    /\ PublishedIsApproved /\ SaleIsComplete /\ ExpiryMatchesStatus

-----------------------------------------------------------------------------
LEMMA IdleIsCall == Idle \in Call
  BY DEF Idle, Call, Op, ListingOp, ListingStatus

(* A row keeps its type when an operation writes it. *)
LEMMA ListingWritten ==
  ASSUME NEW l \in Listing, NEW s \in ListingStatus, NEW e \in Int, NEW v \in Nat, NEW r \in Nat,
         NEW m \in Int, NEW a \in Int, NEW i \in Int
  PROVE  /\ [l EXCEPT !.status = s, !.round = r, !.submitted = m] \in Listing
         /\ [l EXCEPT !.status = s, !.expiresAt = e] \in Listing
         /\ [l EXCEPT !.status = s, !.expiresAt = e, !.approved = a, !.approvedIn = i] \in Listing
         /\ [l EXCEPT !.status = s, !.expiresAt = e, !.version = v, !.round = r, !.submitted = m] \in Listing
         /\ [l EXCEPT !.version = v] \in Listing
  BY DEF Listing

LEMMA MarketInit == Init => MarketInv
<1> SUFFICES ASSUME Init PROVE MarketInv
  OBVIOUS
<1>1. TypeOK
  BY IdleIsCall DEF Init, TypeOK, Listing, Vehicle, Review, ListingStatus, ReviewStatus, Never
<1>2. CallsConsistent /\ CreatedOnce /\ RecordsConsistent
  BY DEF Init, CallsConsistent, CreatedOnce, RecordsConsistent, Idle, ListingOp
<1>3. ApprovalsConsistent /\ PublishedIsApproved /\ SaleIsComplete /\ ExpiryMatchesStatus
  BY DEF Init, ApprovalsConsistent, Idle, PublishedIsApproved, SaleIsComplete, ExpiryMatchesStatus
<1> QED BY <1>1, <1>2, <1>3 DEF MarketInv

(* A step that ends calls or leaves them alone, while time only passes and *)
(* no review disappears, keeps what the other calls know.                  *)
LEMMA CallsKept ==
  ASSUME TypeOK, CallsConsistent,
         \A d \in Caller : call'[d] = call[d] \/ call'[d] = Idle,
         now' \in Nat, now <= now',
         \A b \in Buyer : review[b].status # "none" => review'[b].status # "none",
         \A b \in Buyer : inquiry[b] # "none" => inquiry'[b] # "none"
  PROVE  CallsConsistent'
<1> SUFFICES ASSUME NEW c \in Caller
             PROVE  /\ call'[c].op \in ListingOp =>
                          call'[c].seen \in Accepts[call'[c].op] /\ call'[c].at <= now'
                    /\ call'[c].op \in {"reveal", "close", "review", "reply"} => call'[c].buyer \in Buyer
                    /\ call'[c].op = "reply" => review'[call'[c].buyer].status # "none"
                    /\ call'[c].op = "review" => inquiry'[call'[c].buyer] # "none"
  BY DEF CallsConsistent
<1>1. CASE call'[c] = Idle
  BY <1>1 DEF Idle, ListingOp
<1>2. CASE call'[c] = call[c]
  <2>1. call[c].at \in Nat /\ now \in Nat
    BY DEF TypeOK, Call
  <2> QED BY <1>2, <2>1 DEF CallsConsistent
<1> QED BY <1>1, <1>2

(* No approval learns more of the content than it read, and what it read   *)
(* stays the submission it read until another one is made.                 *)
LEMMA ApprovalsKept ==
  ASSUME TypeOK, ApprovalsConsistent, listing' \in Listing,
         \A d \in Caller : call'[d] = call[d] \/ call'[d].op # "approve",
         \/ listing' = listing
         \/ listing'.status # "SUBMITTED" /\ listing'.round = listing.round
         \/ listing'.round = listing.round + 1
  PROVE  ApprovalsConsistent'
<1> SUFFICES ASSUME NEW c \in Caller, call'[c].op = "approve"
             PROVE  /\ call'[c].round <= listing'.round
                    /\ listing'.status = "SUBMITTED" /\ call'[c].round = listing'.round
                          => call'[c].version = listing'.version
  BY DEF ApprovalsConsistent
<1>1. call'[c] = call[c] /\ call[c].round \in Nat
  BY DEF TypeOK, Call
<1>2. listing.round \in Nat /\ listing'.round \in Nat
  BY DEF TypeOK, Listing
<1> QED BY <1>1, <1>2 DEF ApprovalsConsistent

(* A call in the middle of an operation on the listing that still sees its *)
(* status: the operation accepts the listing as it is.                     *)
LEMMA SeenIsCurrent ==
  ASSUME CallsConsistent, NEW c \in Caller, call[c].op \in ListingOp, SameAsSeen(c)
  PROVE  listing.status \in Accepts[call[c].op] /\ call[c].at <= now
  BY DEF CallsConsistent, SameAsSeen

LEMMA AcceptedStatuses ==
    /\ Accepts["update"] = {"DRAFT", "REJECTED", "PUBLISHED"}
    /\ Accepts["submit"] = {"DRAFT", "REJECTED"}
    /\ Accepts["renew"] = {"PUBLISHED", "EXPIRED"}
    /\ Accepts["sell"] = {"PUBLISHED"}
    /\ Accepts["approve"] = {"SUBMITTED"}
    /\ Accepts["reject"] = {"SUBMITTED"}
    /\ Accepts["expire"] = {"PUBLISHED"}
  BY DEF Accepts

(* No request breaks the invariant, whatever ran between its read and its  *)
(* write.                                                                  *)
LEMMA MarketStep == MarketInv /\ [Next]_vars => MarketInv'
<1> SUFFICES ASSUME MarketInv, [Next]_vars PROVE MarketInv'
  OBVIOUS
<1>a. /\ TypeOK /\ CallsConsistent /\ ApprovalsConsistent /\ CreatedOnce /\ RecordsConsistent
      /\ PublishedIsApproved /\ SaleIsComplete /\ ExpiryMatchesStatus
  BY DEF MarketInv
<1>b. /\ now \in Nat /\ ExpiryDays \in Nat \ {0} /\ NoOne \notin Buyer \cup Caller
      /\ listing.version \in Nat /\ listing.round \in Nat /\ listing.submitted \in Int
      /\ listing.approved \in Int /\ listing.approvedIn \in Int /\ listing.expiresAt \in Int
      /\ listing.status \in ListingStatus
      /\ \A c \in Caller : call[c].at \in Nat /\ call[c].version \in Nat /\ call[c].round \in Nat
  BY <1>a, MarketAssumption DEF TypeOK, Listing, Call
<1>1. ASSUME NEW c \in Caller, CreateVehicle(c)
      PROVE  MarketInv'
  <2>1. TypeOK'
    BY <1>a, <1>b, <1>1, IdleIsCall DEF CreateVehicle, TypeOK, Listing, Vehicle, Review, ListingStatus, ReviewStatus, Closed, Never, Idle, Call, Op
  <2>2. CallsConsistent'
    BY <1>a, <1>b, <1>1, IdleIsCall DEF CreateVehicle, TypeOK, CallsConsistent, Idle, ListingOp
  <2>3. CreatedOnce'
    BY <1>a, <1>b, <1>1, IdleIsCall DEF CreateVehicle, CreatedOnce, TypeOK, Idle
  <2>4. RecordsConsistent'
    BY <1>a, <1>b, <1>1, IdleIsCall DEF CreateVehicle, RecordsConsistent, TypeOK
  <2>5. PublishedIsApproved' /\ SaleIsComplete' /\ ExpiryMatchesStatus'
    BY <1>a, <1>b, <1>1, IdleIsCall DEF CreateVehicle, PublishedIsApproved, SaleIsComplete, ExpiryMatchesStatus, TypeOK, Listing, Vehicle, Never
  <2>6. ApprovalsConsistent'
    BY <1>a, <1>b, <1>1, <2>1, ApprovalsKept DEF CreateVehicle, Idle, TypeOK
  <2> QED BY <2>1, <2>2, <2>3, <2>4, <2>5, <2>6 DEF MarketInv
<1>2. ASSUME NEW c \in Caller, CreateListing(c)
      PROVE  MarketInv'
  <2>0. listing.status = "none"
    BY <1>a, <1>2 DEF CreateListing, Finish, CreatedOnce
  <2>1. TypeOK'
    BY <1>a, <1>b, <1>2, IdleIsCall DEF CreateListing, Finish, TypeOK, Listing, Vehicle, Review, ListingStatus, ReviewStatus, Closed, Never
  <2>2. CallsConsistent'
    BY <1>a, <1>b, <1>2, CallsKept, IdleIsCall DEF CreateListing, Finish, TypeOK
  <2>3. CreatedOnce'
    BY <1>a, <1>b, <1>2, IdleIsCall DEF CreateListing, Finish, CreatedOnce, TypeOK, Idle
  <2>4. RecordsConsistent'
    BY <1>a, <1>b, <1>2, IdleIsCall DEF CreateListing, Finish, RecordsConsistent, TypeOK
  <2>5. PublishedIsApproved' /\ SaleIsComplete' /\ ExpiryMatchesStatus'
    BY <1>a, <1>b, <1>2, <2>0 DEF CreateListing, Finish, PublishedIsApproved, SaleIsComplete, ExpiryMatchesStatus, TypeOK, Listing, Vehicle, Never
  <2>6. ApprovalsConsistent'
    BY <1>a, <1>b, <1>2, <2>1, <2>0, ApprovalsKept DEF CreateListing, Finish, Idle, TypeOK
  <2> QED BY <2>1, <2>2, <2>3, <2>4, <2>5, <2>6 DEF MarketInv
<1>3. ASSUME NEW c \in Caller, UpdateListing(c)
      PROVE  MarketInv'
  <2>0. /\ listing.status \in Accepts["update"] /\ call[c].seen = listing.status
        /\ listing \in Listing /\ vehicle \in Vehicle /\ call \in [Caller -> Call]
    BY <1>a, <1>3, SeenIsCurrent DEF UpdateListing, Finish, SameAsSeen, ListingOp, TypeOK
  <2>1. /\ now' = now /\ inquiry' = inquiry /\ review' = review /\ call' = [call EXCEPT ![c] = Idle]
        /\ listing' \in Listing /\ vehicle' \in Vehicle
        /\ listing'.version = listing.version + 1 /\ listing'.approvedIn = listing.approvedIn
        /\ vehicle'.publication \in {vehicle.publication, "DRAFT"}
        /\ vehicle'.availability = vehicle.availability
        /\ \/ /\ listing.status \in {"DRAFT", "REJECTED"} /\ listing'.status = listing.status
              /\ listing'.round = listing.round /\ listing'.submitted = listing.submitted
              /\ listing'.expiresAt = listing.expiresAt
           \/ /\ listing.status = "PUBLISHED" /\ listing'.status = "SUBMITTED"
              /\ listing'.round = listing.round + 1 /\ listing'.submitted = listing'.version
              /\ listing'.expiresAt = Never
    <3>1. CASE call[c].seen = "PUBLISHED"
      <4>1. /\ listing.round + 1 \in Nat /\ listing.version + 1 \in Nat /\ listing.version + 1 \in Int
            /\ "SUBMITTED" \in ListingStatus /\ Never \in Int
        BY <1>b DEF ListingStatus, Never
      <4>2. /\ listing' = [listing EXCEPT !.status = "SUBMITTED", !.expiresAt = Never,
                                          !.version = @ + 1, !.round = @ + 1,
                                          !.submitted = listing.version + 1]
            /\ vehicle' = [vehicle EXCEPT !.publication = "DRAFT"]
            /\ now' = now /\ inquiry' = inquiry /\ review' = review /\ call' = [call EXCEPT ![c] = Idle]
        BY <1>3, <3>1 DEF UpdateListing, Edit, Finish
      <4>3. listing' \in Listing
        BY <2>0, <4>1, <4>2, ListingWritten
      <4>4. vehicle' \in Vehicle /\ vehicle'.publication = "DRAFT" /\ vehicle'.availability = vehicle.availability
        BY <2>0, <4>2 DEF Vehicle
      <4> QED BY <2>0, <3>1, <4>2, <4>3, <4>4 DEF Listing
    <3>2. CASE call[c].seen # "PUBLISHED"
      BY <1>3, <2>0, <3>2, AcceptedStatuses DEF UpdateListing, Edit, Finish, Listing
    <3> QED BY <3>1, <3>2
  <2>2. \A d \in Caller : call'[d] = call[d] \/ call'[d] = Idle
    BY <2>0, <2>1
  <2>3. TypeOK'
    BY <1>a, <2>1, IdleIsCall DEF TypeOK
  <2>4. CallsConsistent'
    BY <1>a, <1>b, <2>1, <2>2, CallsKept
  <2>5. ApprovalsConsistent'
    BY <1>a, <2>1, <2>2, ApprovalsKept DEF Idle
  <2>6. CreatedOnce' /\ RecordsConsistent'
    BY <1>a, <1>b, <2>1, <2>2 DEF CreatedOnce, RecordsConsistent, Idle
  <2>7. PublishedIsApproved' /\ SaleIsComplete' /\ ExpiryMatchesStatus'
    BY <1>a, <1>b, <2>1 DEF PublishedIsApproved, SaleIsComplete, ExpiryMatchesStatus
  <2> QED BY <2>3, <2>4, <2>5, <2>6, <2>7 DEF MarketInv
<1>4. ASSUME NEW c \in Caller, SubmitListing(c)
      PROVE  MarketInv'
  <2>0. /\ listing.status \in Accepts["submit"] /\ call[c].at \in Nat /\ call[c].at <= now
        /\ call[c].seen = listing.status
    BY <1>a, <1>b, <1>4, SeenIsCurrent DEF SubmitListing, Finish, SameAsSeen, ListingOp
  <2>1. TypeOK'
    <3>1. listing \in Listing
      BY <1>a DEF TypeOK
    <3>2. listing' \in Listing
      <4>1. listing.round + 1 \in Nat /\ listing.version \in Int /\ "SUBMITTED" \in ListingStatus
        BY <1>b DEF ListingStatus
      <4> QED BY <3>1, <4>1, <1>4, ListingWritten DEF SubmitListing
    <3> QED BY <3>2, <1>a, <1>4, IdleIsCall DEF SubmitListing, Finish, TypeOK
  <2>2. CallsConsistent'
    BY <1>a, <1>b, <1>4, <2>0, AcceptedStatuses, CallsKept, IdleIsCall DEF SubmitListing, Finish, TypeOK
  <2>3. CreatedOnce'
    BY <1>a, <1>b, <1>4, <2>0, AcceptedStatuses, IdleIsCall DEF SubmitListing, Finish, CreatedOnce, TypeOK, Idle
  <2>4. RecordsConsistent'
    BY <1>a, <1>b, <1>4, <2>0, AcceptedStatuses, IdleIsCall DEF SubmitListing, Finish, RecordsConsistent, TypeOK
  <2>5. PublishedIsApproved' /\ SaleIsComplete' /\ ExpiryMatchesStatus'
    BY <1>a, <1>b, <1>4, <2>0, AcceptedStatuses, IdleIsCall DEF SubmitListing, Finish, PublishedIsApproved, SaleIsComplete, ExpiryMatchesStatus, TypeOK, Listing, Vehicle, Never
  <2>6. ApprovalsConsistent'
    BY <1>a, <1>b, <1>4, <2>1, <2>0, AcceptedStatuses, ApprovalsKept DEF SubmitListing, Finish, Idle, TypeOK
  <2> QED BY <2>1, <2>2, <2>3, <2>4, <2>5, <2>6 DEF MarketInv
<1>5. ASSUME NEW c \in Caller, RenewListing(c)
      PROVE  MarketInv'
  <2>0. /\ listing.status \in Accepts["renew"] /\ call[c].at \in Nat /\ call[c].at <= now
        /\ call[c].seen = listing.status
    BY <1>a, <1>b, <1>5, SeenIsCurrent DEF RenewListing, Finish, SameAsSeen, ListingOp
  <2>1. TypeOK'
    <3>1. listing \in Listing
      BY <1>a DEF TypeOK
    <3>2. listing' \in Listing
      <4>1. PICK t \in call[c].at .. now :
               listing' = [listing EXCEPT !.status = "PUBLISHED", !.expiresAt = t + ExpiryDays]
        BY <1>5 DEF RenewListing
      <4>2. t + ExpiryDays \in Int /\ "PUBLISHED" \in ListingStatus
        BY <1>b DEF ListingStatus
      <4> QED BY <3>1, <4>1, <4>2, ListingWritten
    <3> QED BY <3>2, <1>a, <1>5, IdleIsCall DEF RenewListing, Finish, TypeOK
  <2>2. CallsConsistent'
    BY <1>a, <1>b, <1>5, <2>0, AcceptedStatuses, CallsKept, IdleIsCall DEF RenewListing, Finish, TypeOK
  <2>3. CreatedOnce'
    BY <1>a, <1>b, <1>5, <2>0, AcceptedStatuses, IdleIsCall DEF RenewListing, Finish, CreatedOnce, TypeOK, Idle
  <2>4. RecordsConsistent'
    BY <1>a, <1>b, <1>5, <2>0, AcceptedStatuses, IdleIsCall DEF RenewListing, Finish, RecordsConsistent, TypeOK
  <2>5. PublishedIsApproved' /\ SaleIsComplete' /\ ExpiryMatchesStatus'
    BY <1>a, <1>b, <1>5, <2>0, AcceptedStatuses, IdleIsCall DEF RenewListing, Finish, PublishedIsApproved, SaleIsComplete, ExpiryMatchesStatus, TypeOK, Listing, Vehicle, Never
  <2>6. ApprovalsConsistent'
    BY <1>a, <1>b, <1>5, <2>1, <2>0, AcceptedStatuses, ApprovalsKept DEF RenewListing, Finish, Idle, TypeOK
  <2> QED BY <2>1, <2>2, <2>3, <2>4, <2>5, <2>6 DEF MarketInv
<1>6. ASSUME NEW c \in Caller, MarkSold(c)
      PROVE  MarketInv'
  <2>0. /\ listing.status \in Accepts["sell"] /\ call[c].at \in Nat /\ call[c].at <= now
        /\ call[c].seen = listing.status
    BY <1>a, <1>b, <1>6, SeenIsCurrent DEF MarkSold, Finish, SameAsSeen, ListingOp
  <2>1. TypeOK'
    BY <1>a, <1>b, <1>6, <2>0, AcceptedStatuses, IdleIsCall DEF MarkSold, Finish, TypeOK, Listing, Vehicle, Review, ListingStatus, ReviewStatus, Closed, Never
  <2>2. CallsConsistent'
    BY <1>a, <1>b, <1>6, <2>0, AcceptedStatuses, CallsKept, IdleIsCall DEF MarkSold, Finish, TypeOK
  <2>3. CreatedOnce'
    BY <1>a, <1>b, <1>6, <2>0, AcceptedStatuses, IdleIsCall DEF MarkSold, Finish, CreatedOnce, TypeOK, Idle
  <2>4. RecordsConsistent'
    BY <1>a, <1>b, <1>6, <2>0, AcceptedStatuses, IdleIsCall DEF MarkSold, Finish, RecordsConsistent, TypeOK
  <2>5. PublishedIsApproved' /\ SaleIsComplete' /\ ExpiryMatchesStatus'
    BY <1>a, <1>b, <1>6, <2>0, AcceptedStatuses, IdleIsCall DEF MarkSold, Finish, PublishedIsApproved, SaleIsComplete, ExpiryMatchesStatus, TypeOK, Listing, Vehicle, Never
  <2>6. ApprovalsConsistent'
    BY <1>a, <1>b, <1>6, <2>1, <2>0, AcceptedStatuses, ApprovalsKept DEF MarkSold, Finish, Idle, TypeOK
  <2> QED BY <2>1, <2>2, <2>3, <2>4, <2>5, <2>6 DEF MarketInv
<1>7. ASSUME NEW c \in Caller, ApproveListing(c)
      PROVE  MarketInv'
  <2>0. /\ listing.status \in Accepts["approve"] /\ call[c].at \in Nat /\ call[c].at <= now
        /\ call[c].seen = listing.status
    BY <1>a, <1>b, <1>7, SeenIsCurrent DEF ApproveListing, Finish, SameAsSeen, ListingOp
  <2>1. TypeOK'
    <3>1. listing \in Listing
      BY <1>a DEF TypeOK
    <3>2. listing' \in Listing
      <4>1. PICK t \in call[c].at .. now :
               listing' = [listing EXCEPT !.status = "PUBLISHED", !.expiresAt = t + ExpiryDays,
                                          !.approved = call[c].version, !.approvedIn = call[c].round]
        BY <1>7 DEF ApproveListing
      <4>2. /\ t + ExpiryDays \in Int /\ "PUBLISHED" \in ListingStatus
            /\ call[c].version \in Int /\ call[c].round \in Int
        BY <1>b DEF ListingStatus
      <4> QED BY <3>1, <4>1, <4>2, ListingWritten
    <3> QED BY <3>2, <1>a, <1>7, IdleIsCall DEF ApproveListing, Finish, TypeOK, Vehicle
  <2>2. CallsConsistent'
    BY <1>a, <1>b, <1>7, <2>0, AcceptedStatuses, CallsKept, IdleIsCall DEF ApproveListing, Finish, TypeOK
  <2>3. CreatedOnce'
    BY <1>a, <1>b, <1>7, <2>0, AcceptedStatuses, IdleIsCall DEF ApproveListing, Finish, CreatedOnce, TypeOK, Idle
  <2>4. RecordsConsistent'
    BY <1>a, <1>b, <1>7, <2>0, AcceptedStatuses, IdleIsCall DEF ApproveListing, Finish, RecordsConsistent, TypeOK
  <2>5. PublishedIsApproved' /\ SaleIsComplete' /\ ExpiryMatchesStatus'
    <3>1. /\ call[c].op = "approve" /\ listing.status = "SUBMITTED"
          /\ call[c].round <= listing.round
          /\ call[c].round = listing.round => call[c].version = listing.version
      BY <1>a, <1>7, <2>0, AcceptedStatuses DEF ApproveListing, Finish, ApprovalsConsistent
    <3>2. /\ listing'.version = listing.version /\ listing'.submitted = listing.submitted
          /\ listing'.round = listing.round /\ listing'.approved = call[c].version
          /\ listing'.approvedIn = call[c].round
          /\ listing'.status = "PUBLISHED" /\ listing'.expiresAt # Never
      BY <1>a, <1>b, <1>7 DEF ApproveListing, TypeOK, Listing, Never
    <3> QED BY <1>a, <3>1, <3>2 DEF PublishedIsApproved, SaleIsComplete, ExpiryMatchesStatus
  <2>6. ApprovalsConsistent'
    BY <1>a, <1>b, <1>7, <2>1, <2>0, AcceptedStatuses, ApprovalsKept DEF ApproveListing, Finish, Idle, TypeOK
  <2> QED BY <2>1, <2>2, <2>3, <2>4, <2>5, <2>6 DEF MarketInv
<1>8. ASSUME NEW c \in Caller, RejectListing(c)
      PROVE  MarketInv'
  <2>0. /\ listing.status \in Accepts["reject"] /\ call[c].at \in Nat /\ call[c].at <= now
        /\ call[c].seen = listing.status
    BY <1>a, <1>b, <1>8, SeenIsCurrent DEF RejectListing, Finish, SameAsSeen, ListingOp
  <2>1. TypeOK'
    BY <1>a, <1>b, <1>8, <2>0, AcceptedStatuses, IdleIsCall DEF RejectListing, TypeOK, Listing, Vehicle, Review, ListingStatus, ReviewStatus, Closed, Never, Idle, Call, Op
  <2>2. CallsConsistent'
    BY <1>a, <1>b, <1>8, <2>0, AcceptedStatuses, IdleIsCall DEF RejectListing, TypeOK, CallsConsistent, Idle, ListingOp
  <2>3. CreatedOnce'
    BY <1>a, <1>b, <1>8, <2>0, AcceptedStatuses, IdleIsCall DEF RejectListing, CreatedOnce, TypeOK, Idle
  <2>4. RecordsConsistent'
    BY <1>a, <1>b, <1>8, <2>0, AcceptedStatuses, IdleIsCall DEF RejectListing, RecordsConsistent, TypeOK
  <2>5. PublishedIsApproved' /\ SaleIsComplete' /\ ExpiryMatchesStatus'
    BY <1>a, <1>b, <1>8, <2>0, AcceptedStatuses, IdleIsCall DEF RejectListing, PublishedIsApproved, SaleIsComplete, ExpiryMatchesStatus, TypeOK, Listing, Vehicle, Never
  <2>6. ApprovalsConsistent'
    BY <1>a, <1>b, <1>8, <2>1, <2>0, AcceptedStatuses, ApprovalsKept DEF RejectListing, Idle, TypeOK
  <2> QED BY <2>1, <2>2, <2>3, <2>4, <2>5, <2>6 DEF MarketInv
<1>9. ASSUME NEW c \in Caller, RejectVehicle(c)
      PROVE  MarketInv'
  <2>1. TypeOK'
    BY <1>a, <1>b, <1>9, IdleIsCall DEF RejectVehicle, Finish, TypeOK, Listing, Vehicle, Review, ListingStatus, ReviewStatus, Closed, Never
  <2>2. CallsConsistent'
    BY <1>a, <1>b, <1>9, CallsKept, IdleIsCall DEF RejectVehicle, Finish, TypeOK
  <2>3. CreatedOnce'
    BY <1>a, <1>b, <1>9, IdleIsCall DEF RejectVehicle, Finish, CreatedOnce, TypeOK, Idle
  <2>4. RecordsConsistent'
    BY <1>a, <1>b, <1>9, IdleIsCall DEF RejectVehicle, Finish, RecordsConsistent, TypeOK
  <2>5. PublishedIsApproved' /\ SaleIsComplete' /\ ExpiryMatchesStatus'
    BY <1>a, <1>b, <1>9, IdleIsCall DEF RejectVehicle, Finish, PublishedIsApproved, SaleIsComplete, ExpiryMatchesStatus, TypeOK, Listing, Vehicle, Never
  <2>6. ApprovalsConsistent'
    BY <1>a, <1>b, <1>9, <2>1, ApprovalsKept DEF RejectVehicle, Finish, Idle, TypeOK
  <2> QED BY <2>1, <2>2, <2>3, <2>4, <2>5, <2>6 DEF MarketInv
<1>10. ASSUME NEW c \in Caller, ExpireListing(c)
      PROVE  MarketInv'
  <2>0. /\ listing.status \in Accepts["expire"] /\ call[c].at \in Nat /\ call[c].at <= now
        /\ call[c].seen = listing.status
    BY <1>a, <1>b, <1>10, SeenIsCurrent DEF ExpireListing, Finish, SameAsSeen, ListingOp
  <2>1. TypeOK'
    BY <1>a, <1>b, <1>10, <2>0, AcceptedStatuses, IdleIsCall DEF ExpireListing, Finish, TypeOK, Listing, Vehicle, Review, ListingStatus, ReviewStatus, Closed, Never
  <2>2. CallsConsistent'
    BY <1>a, <1>b, <1>10, <2>0, AcceptedStatuses, CallsKept, IdleIsCall DEF ExpireListing, Finish, TypeOK
  <2>3. CreatedOnce'
    BY <1>a, <1>b, <1>10, <2>0, AcceptedStatuses, IdleIsCall DEF ExpireListing, Finish, CreatedOnce, TypeOK, Idle
  <2>4. RecordsConsistent'
    BY <1>a, <1>b, <1>10, <2>0, AcceptedStatuses, IdleIsCall DEF ExpireListing, Finish, RecordsConsistent, TypeOK
  <2>5. PublishedIsApproved' /\ SaleIsComplete' /\ ExpiryMatchesStatus'
    BY <1>a, <1>b, <1>10, <2>0, AcceptedStatuses, IdleIsCall DEF ExpireListing, Finish, PublishedIsApproved, SaleIsComplete, ExpiryMatchesStatus, TypeOK, Listing, Vehicle, Never
  <2>6. ApprovalsConsistent'
    BY <1>a, <1>b, <1>10, <2>1, <2>0, AcceptedStatuses, ApprovalsKept DEF ExpireListing, Finish, Idle, TypeOK
  <2> QED BY <2>1, <2>2, <2>3, <2>4, <2>5, <2>6 DEF MarketInv
<1>11. ASSUME NEW c \in Caller, RevealContact(c)
      PROVE  MarketInv'
  <2>1. TypeOK'
    BY <1>a, <1>b, <1>11, IdleIsCall DEF RevealContact, Finish, TypeOK, Listing, Vehicle, Review, ListingStatus, ReviewStatus, Closed, Never
  <2>2. CallsConsistent'
    BY <1>a, <1>b, <1>11, CallsKept, IdleIsCall DEF RevealContact, Finish, TypeOK
  <2>3. CreatedOnce'
    BY <1>a, <1>b, <1>11, IdleIsCall DEF RevealContact, Finish, CreatedOnce, TypeOK, Idle
  <2>4. RecordsConsistent'
    BY <1>a, <1>b, <1>11, IdleIsCall DEF RevealContact, Finish, RecordsConsistent, TypeOK
  <2>5. PublishedIsApproved' /\ SaleIsComplete' /\ ExpiryMatchesStatus'
    BY <1>a, <1>b, <1>11, IdleIsCall DEF RevealContact, Finish, PublishedIsApproved, SaleIsComplete, ExpiryMatchesStatus, TypeOK, Listing, Vehicle, Never
  <2>6. ApprovalsConsistent'
    BY <1>a, <1>b, <1>11, <2>1, ApprovalsKept DEF RevealContact, Finish, Idle, TypeOK
  <2> QED BY <2>1, <2>2, <2>3, <2>4, <2>5, <2>6 DEF MarketInv
<1>12. ASSUME NEW c \in Caller, CloseInquiry(c)
      PROVE  MarketInv'
  <2>1. TypeOK'
    BY <1>a, <1>b, <1>12, IdleIsCall DEF CloseInquiry, Finish, TypeOK, Listing, Vehicle, Review, ListingStatus, ReviewStatus, Closed, Never
  <2>2. CallsConsistent'
    BY <1>a, <1>b, <1>12, CallsKept, IdleIsCall DEF CloseInquiry, Finish, TypeOK
  <2>3. CreatedOnce'
    BY <1>a, <1>b, <1>12, IdleIsCall DEF CloseInquiry, Finish, CreatedOnce, TypeOK, Idle
  <2>4. RecordsConsistent'
    BY <1>a, <1>b, <1>12, IdleIsCall DEF CloseInquiry, Finish, RecordsConsistent, TypeOK
  <2>5. PublishedIsApproved' /\ SaleIsComplete' /\ ExpiryMatchesStatus'
    BY <1>a, <1>b, <1>12, IdleIsCall DEF CloseInquiry, Finish, PublishedIsApproved, SaleIsComplete, ExpiryMatchesStatus, TypeOK, Listing, Vehicle, Never
  <2>6. ApprovalsConsistent'
    BY <1>a, <1>b, <1>12, <2>1, ApprovalsKept DEF CloseInquiry, Finish, Idle, TypeOK
  <2> QED BY <2>1, <2>2, <2>3, <2>4, <2>5, <2>6 DEF MarketInv
<1>13. ASSUME NEW c \in Caller, CreateReview(c)
      PROVE  MarketInv'
  <2>1. TypeOK'
    BY <1>a, <1>b, <1>13, IdleIsCall DEF CreateReview, Finish, TypeOK, Listing, Vehicle, Review, ListingStatus, ReviewStatus, Closed, Never
  <2>2. CallsConsistent'
    BY <1>a, <1>b, <1>13, CallsKept, IdleIsCall DEF CreateReview, Finish, TypeOK
  <2>3. CreatedOnce'
    BY <1>a, <1>b, <1>13, IdleIsCall DEF CreateReview, Finish, CreatedOnce, TypeOK, Idle
  <2>4. RecordsConsistent'
    BY <1>a, <1>b, <1>13, IdleIsCall DEF CreateReview, Finish, RecordsConsistent, CallsConsistent, TypeOK
  <2>5. PublishedIsApproved' /\ SaleIsComplete' /\ ExpiryMatchesStatus'
    BY <1>a, <1>b, <1>13, IdleIsCall DEF CreateReview, Finish, PublishedIsApproved, SaleIsComplete, ExpiryMatchesStatus, TypeOK, Listing, Vehicle, Never
  <2>6. ApprovalsConsistent'
    BY <1>a, <1>b, <1>13, <2>1, ApprovalsKept DEF CreateReview, Finish, Idle, TypeOK
  <2> QED BY <2>1, <2>2, <2>3, <2>4, <2>5, <2>6 DEF MarketInv
<1>14. ASSUME NEW c \in Caller, ReplyToReview(c)
      PROVE  MarketInv'
  <2>0. /\ call[c].buyer \in Buyer /\ review[call[c].buyer].status # "none"
        /\ review[call[c].buyer] \in Review
        /\ review' = [review EXCEPT ![call[c].buyer] = [@ EXCEPT !.reply = c]]
    BY <1>a, <1>14 DEF ReplyToReview, Finish, CallsConsistent, TypeOK
  <2>1. TypeOK'
    BY <1>a, <1>b, <1>14, <2>0, IdleIsCall DEF ReplyToReview, Finish, TypeOK, Listing, Vehicle, Review, ListingStatus, ReviewStatus, Closed, Never
  <2>2. CallsConsistent'
    BY <1>a, <1>b, <1>14, <2>0, CallsKept, IdleIsCall DEF ReplyToReview, Finish, TypeOK
  <2>3. CreatedOnce'
    BY <1>a, <1>b, <1>14, <2>0, IdleIsCall DEF ReplyToReview, Finish, CreatedOnce, TypeOK, Idle
  <2>4. RecordsConsistent'
    BY <1>a, <1>b, <1>14, <2>0, IdleIsCall DEF ReplyToReview, Finish, RecordsConsistent, TypeOK, Review
  <2>5. PublishedIsApproved' /\ SaleIsComplete' /\ ExpiryMatchesStatus'
    BY <1>a, <1>b, <1>14, <2>0, IdleIsCall DEF ReplyToReview, Finish, PublishedIsApproved, SaleIsComplete, ExpiryMatchesStatus, TypeOK, Listing, Vehicle, Never
  <2>6. ApprovalsConsistent'
    BY <1>a, <1>b, <1>14, <2>1, <2>0, ApprovalsKept DEF ReplyToReview, Finish, Idle, TypeOK
  <2> QED BY <2>1, <2>2, <2>3, <2>4, <2>5, <2>6 DEF MarketInv
<1>15. ASSUME NEW c \in Caller, Fail(c)
      PROVE  MarketInv'
  <2>1. TypeOK'
    BY <1>a, <1>b, <1>15, IdleIsCall DEF Fail, TypeOK, Listing, Vehicle, Review, ListingStatus, ReviewStatus, Closed, Never
  <2>2. CallsConsistent'
    BY <1>a, <1>b, <1>15, CallsKept, IdleIsCall DEF Fail, TypeOK
  <2>3. CreatedOnce'
    BY <1>a, <1>b, <1>15, IdleIsCall DEF Fail, CreatedOnce, TypeOK, Idle
  <2>4. RecordsConsistent'
    BY <1>a, <1>b, <1>15, IdleIsCall DEF Fail, RecordsConsistent, TypeOK
  <2>5. PublishedIsApproved' /\ SaleIsComplete' /\ ExpiryMatchesStatus'
    BY <1>a, <1>b, <1>15, IdleIsCall DEF Fail, PublishedIsApproved, SaleIsComplete, ExpiryMatchesStatus, TypeOK, Listing, Vehicle, Never
  <2>6. ApprovalsConsistent'
    BY <1>a, <1>b, <1>15, <2>1, ApprovalsKept DEF Fail, Idle, TypeOK
  <2> QED BY <2>1, <2>2, <2>3, <2>4, <2>5, <2>6 DEF MarketInv
<1>16. ASSUME NEW c \in Caller, NEW op \in ListingOp, ReadListing(c, op)
      PROVE  MarketInv'
  <2>1. TypeOK'
    BY <1>a, <1>b, <1>16 DEF ReadListing, Begin, TypeOK, Call, Op, ListingStatus
  <2>2. CallsConsistent'
    BY <1>a, <1>b, <1>16 DEF ReadListing, Begin, CallsConsistent, TypeOK, ListingOp
  <2>3. CreatedOnce'
    BY <1>a, <1>b, <1>16 DEF ReadListing, Begin, CreatedOnce, TypeOK, ListingOp
  <2>4. /\ RecordsConsistent'
        /\ PublishedIsApproved' /\ SaleIsComplete' /\ ExpiryMatchesStatus'
    BY <1>a, <1>16 DEF ReadListing, Begin, RecordsConsistent, PublishedIsApproved, SaleIsComplete, ExpiryMatchesStatus
  <2>6. ApprovalsConsistent'
    BY <1>a, <1>b, <1>16 DEF ReadListing, Begin, ApprovalsConsistent, TypeOK
  <2> QED BY <2>1, <2>2, <2>3, <2>4, <2>6 DEF MarketInv
<1>17. ASSUME NEW c \in Caller, NEW b \in Buyer, ReadClock(c, b)
      PROVE  MarketInv'
  <2>1. TypeOK'
    BY <1>a, <1>b, <1>17, IdleIsCall DEF ReadClock, Begin, TypeOK, Call, Op, ListingStatus, Idle
  <2>2. CallsConsistent'
    BY <1>a, <1>b, <1>17 DEF ReadClock, Begin, CallsConsistent, TypeOK, ListingOp
  <2>3. CreatedOnce'
    BY <1>a, <1>b, <1>17 DEF ReadClock, Begin, CreatedOnce, TypeOK, ListingOp
  <2>4. /\ RecordsConsistent'
        /\ PublishedIsApproved' /\ SaleIsComplete' /\ ExpiryMatchesStatus'
    BY <1>a, <1>17 DEF ReadClock, Begin, RecordsConsistent, PublishedIsApproved, SaleIsComplete, ExpiryMatchesStatus
  <2>6. ApprovalsConsistent'
    BY <1>a, <1>b, <1>17, <2>1, ApprovalsKept DEF ReadClock, Begin, Idle, TypeOK
  <2> QED BY <2>1, <2>2, <2>3, <2>4, <2>6 DEF MarketInv
<1>18. ASSUME NEW c \in Caller, NEW b \in Buyer, ReadInquiry(c, b)
      PROVE  MarketInv'
  <2>1. TypeOK'
    BY <1>a, <1>b, <1>18, IdleIsCall DEF ReadInquiry, Begin, TypeOK, Call, Op, ListingStatus, Idle
  <2>2. CallsConsistent'
    BY <1>a, <1>b, <1>18 DEF ReadInquiry, Begin, CallsConsistent, TypeOK, ListingOp
  <2>3. CreatedOnce'
    BY <1>a, <1>b, <1>18 DEF ReadInquiry, Begin, CreatedOnce, TypeOK, ListingOp
  <2>4. /\ RecordsConsistent'
        /\ PublishedIsApproved' /\ SaleIsComplete' /\ ExpiryMatchesStatus'
    BY <1>a, <1>18 DEF ReadInquiry, Begin, RecordsConsistent, PublishedIsApproved, SaleIsComplete, ExpiryMatchesStatus
  <2>6. ApprovalsConsistent'
    BY <1>a, <1>b, <1>18, <2>1, ApprovalsKept DEF ReadInquiry, Begin, Idle, TypeOK
  <2> QED BY <2>1, <2>2, <2>3, <2>4, <2>6 DEF MarketInv
<1>19. ASSUME NEW c \in Caller, NEW b \in Buyer, ReadForReview(c, b)
      PROVE  MarketInv'
  <2>1. TypeOK'
    BY <1>a, <1>b, <1>19, IdleIsCall DEF ReadForReview, Begin, TypeOK, Call, Op, ListingStatus, Idle
  <2>2. CallsConsistent'
    BY <1>a, <1>b, <1>19 DEF ReadForReview, Begin, CallsConsistent, TypeOK, ListingOp, Closed
  <2>3. CreatedOnce'
    BY <1>a, <1>b, <1>19 DEF ReadForReview, Begin, CreatedOnce, TypeOK, ListingOp
  <2>4. /\ RecordsConsistent'
        /\ PublishedIsApproved' /\ SaleIsComplete' /\ ExpiryMatchesStatus'
    BY <1>a, <1>19 DEF ReadForReview, Begin, RecordsConsistent, PublishedIsApproved, SaleIsComplete, ExpiryMatchesStatus
  <2>6. ApprovalsConsistent'
    BY <1>a, <1>b, <1>19, <2>1, ApprovalsKept DEF ReadForReview, Begin, Idle, TypeOK
  <2> QED BY <2>1, <2>2, <2>3, <2>4, <2>6 DEF MarketInv
<1>20. ASSUME NEW c \in Caller, NEW b \in Buyer, ReadReview(c, b)
      PROVE  MarketInv'
  <2>1. TypeOK'
    BY <1>a, <1>b, <1>20, IdleIsCall DEF ReadReview, Begin, TypeOK, Call, Op, ListingStatus, Idle
  <2>2. CallsConsistent'
    BY <1>a, <1>b, <1>20 DEF ReadReview, Begin, CallsConsistent, TypeOK, ListingOp
  <2>3. CreatedOnce'
    BY <1>a, <1>b, <1>20 DEF ReadReview, Begin, CreatedOnce, TypeOK, ListingOp
  <2>4. /\ RecordsConsistent'
        /\ PublishedIsApproved' /\ SaleIsComplete' /\ ExpiryMatchesStatus'
    BY <1>a, <1>20 DEF ReadReview, Begin, RecordsConsistent, PublishedIsApproved, SaleIsComplete, ExpiryMatchesStatus
  <2>6. ApprovalsConsistent'
    BY <1>a, <1>b, <1>20, <2>1, ApprovalsKept DEF ReadReview, Begin, Idle, TypeOK
  <2> QED BY <2>1, <2>2, <2>3, <2>4, <2>6 DEF MarketInv
<1>21. ASSUME NEW b \in Buyer, ModerateReview(b)
      PROVE  MarketInv'
  <2>1. TypeOK'
    BY <1>a, <1>21 DEF ModerateReview, TypeOK, Review, ReviewStatus
  <2>2. CallsConsistent' /\ RecordsConsistent'
    BY <1>a, <1>21 DEF ModerateReview, CallsConsistent, RecordsConsistent, TypeOK
  <2>3. ApprovalsConsistent' /\ CreatedOnce' /\ PublishedIsApproved' /\ SaleIsComplete' /\ ExpiryMatchesStatus'
    BY <1>a, <1>21 DEF ModerateReview, ApprovalsConsistent, CreatedOnce, PublishedIsApproved, SaleIsComplete, ExpiryMatchesStatus
  <2> QED BY <2>1, <2>2, <2>3 DEF MarketInv
<1>22. CASE Tick
  <2>1. TypeOK' /\ CallsConsistent'
    BY <1>a, <1>b, <1>22 DEF Tick, TypeOK, CallsConsistent
  <2>2. /\ ApprovalsConsistent' /\ CreatedOnce' /\ RecordsConsistent'
        /\ PublishedIsApproved' /\ SaleIsComplete' /\ ExpiryMatchesStatus'
    BY <1>a, <1>22 DEF Tick, ApprovalsConsistent, CreatedOnce, RecordsConsistent, PublishedIsApproved, SaleIsComplete, ExpiryMatchesStatus
  <2> QED BY <2>1, <2>2 DEF MarketInv
<1>23. CASE UNCHANGED vars
  BY <1>a, <1>23 DEF vars, MarketInv, TypeOK, CallsConsistent, ApprovalsConsistent, CreatedOnce, RecordsConsistent,
     PublishedIsApproved, SaleIsComplete, ExpiryMatchesStatus
<1> QED
  BY <1>1, <1>2, <1>3, <1>4, <1>5, <1>6, <1>7, <1>8, <1>9, <1>10, <1>11, <1>12, <1>13, <1>14, <1>15, <1>16, <1>17, <1>18, <1>19, <1>20, <1>21, <1>22, <1>23 DEF Next, Read, Write

(* The inductive invariant holds in every reachable state. *)
THEOREM MarketInvariant == Spec => []MarketInv
  BY MarketInit, MarketStep, PTL DEF Spec

(* Every row, and what every request remembers, has its type: no statuses  *)
(* but those of the schema are ever written.                               *)
THEOREM MarketTyped == Spec => []TypeOK
<1>1. MarketInv => TypeOK
  BY DEF MarketInv
<1> QED BY <1>1, MarketInvariant, PTL

(* What is public was submitted as it is, and read so by its approval if   *)
(* the listing was not submitted anew meanwhile; whatever is listed opens  *)
(* and is for sale, and every review is about an inquiry.                  *)
THEOREM OnlyApprovedShown == Spec => []OnlyApprovedIsPublic
<1>1. MarketInv => OnlyApprovedIsPublic
  BY DEF MarketInv, PublishedIsApproved, RecordsConsistent, TypeOK, Listing, Review, ReviewStatus,
     OnlyApprovedIsPublic, Listed, Opens, BuyerInquiries, SellerInquiries, SellerReviews,
     PublicReviews, Never
<1> QED BY <1>1, MarketInvariant, PTL

(* A sold listing has a sold vehicle and no open inquiry. *)
THEOREM SalesAreComplete == Spec => []SaleIsComplete
<1>1. MarketInv => SaleIsComplete
  BY DEF MarketInv
<1> QED BY <1>1, MarketInvariant, PTL

(* A listing has an expiry exactly while it is published, expired or sold. *)
THEOREM ExpiryFollowsStatus == Spec => []ExpiryMatchesStatus
<1>1. MarketInv => ExpiryMatchesStatus
  BY DEF MarketInv
<1> QED BY <1>1, MarketInvariant, PTL

-----------------------------------------------------------------------------
(* Only ExpireListing turns a published listing into an expired one, and   *)
(* its clock was read before.                                              *)
THEOREM RenewalsAreSafe == Spec => NotExpiredEarly
<1> DEFINE NotEarly == (listing.status = "PUBLISHED" /\ listing'.status = "EXPIRED")
                          => listing.expiresAt <= now
<1>1. MarketInv /\ [Next]_vars => [NotEarly]_vars
  <2> SUFFICES ASSUME MarketInv, Next, listing.status = "PUBLISHED", listing'.status = "EXPIRED"
               PROVE  listing.expiresAt <= now
    BY DEF vars
  <2>1. TypeOK /\ CallsConsistent /\ CreatedOnce
    BY DEF MarketInv
  <2>2. listing \in Listing
    BY <2>1 DEF TypeOK
  <2>3. ASSUME NEW c \in Caller, Write(c)
        PROVE  listing.expiresAt <= now
    <3>1. CASE ExpireListing(c)
      <4>1. call[c].at \in Nat /\ now \in Nat /\ listing.expiresAt \in Int
        BY <2>1, <2>2 DEF TypeOK, Call, Listing
      <4>2. call[c].at <= now
        BY <2>1, <3>1 DEF ExpireListing, Finish, CallsConsistent, ListingOp
      <4> QED BY <4>1, <4>2, <3>1 DEF ExpireListing
    <3>2. CASE UpdateListing(c)
      BY <2>2, <3>2 DEF UpdateListing, Edit, Listing
    <3>3. CASE CreateListing(c) \/ SubmitListing(c) \/ RenewListing(c) \/ MarkSold(c)
                 \/ ApproveListing(c) \/ RejectListing(c)
      BY <2>2, <3>3 DEF CreateListing, SubmitListing, RenewListing, MarkSold, ApproveListing,
                       RejectListing, Listing
    <3>4. CASE RejectVehicle(c) \/ RevealContact(c) \/ CloseInquiry(c) \/ CreateReview(c)
                 \/ ReplyToReview(c)
      BY <3>4 DEF RejectVehicle, RevealContact, CloseInquiry, CreateReview, ReplyToReview
    <3> QED BY <2>3, <3>1, <3>2, <3>3, <3>4 DEF Write
  <2>4. ASSUME NEW c \in Caller, CreateVehicle(c) \/ Read(c) \/ Fail(c)
        PROVE  FALSE
    BY <2>4 DEF CreateVehicle, Read, ReadListing, ReadClock, ReadInquiry, ReadForReview,
                ReadReview, Begin, Fail
  <2>5. ASSUME (\E b \in Buyer : ModerateReview(b)) \/ Tick
        PROVE  FALSE
    BY <2>5 DEF ModerateReview, Tick
  <2> QED BY <2>3, <2>4, <2>5 DEF Next
<1> QED
  BY <1>1, MarketInvariant, PTL DEF Spec, NotExpiredEarly

(* A reply is written only where there is none, and no review is created   *)
(* over one that has a reply.                                              *)
THEOREM RepliesAreFinal == Spec => RepliedOnce
<1> DEFINE Kept == \A b \in Buyer : review[b].reply # NoOne => review'[b].reply = review[b].reply
<1>1. MarketInv /\ [Next]_vars => [Kept]_vars
  <2> SUFFICES ASSUME MarketInv, Next, NEW b \in Buyer, review[b].reply # NoOne
               PROVE  review'[b].reply = review[b].reply
    BY DEF vars
  <2>1. review \in [Buyer -> Review] /\ RecordsConsistent
    BY DEF MarketInv, TypeOK
  <2>2. CASE UNCHANGED review
    BY <2>2
  <2>3. ASSUME NEW c \in Caller, CreateReview(c)
        PROVE  review'[b].reply = review[b].reply
    BY <2>1, <2>3 DEF CreateReview, RecordsConsistent
  <2>4. ASSUME NEW c \in Caller, ReplyToReview(c)
        PROVE  review'[b].reply = review[b].reply
    BY <2>1, <2>4 DEF ReplyToReview
  <2>5. ASSUME NEW d \in Buyer, ModerateReview(d)
        PROVE  review'[b].reply = review[b].reply
    BY <2>1, <2>5 DEF ModerateReview, Review
  <2>6. ASSUME NEW c \in Caller,
               CreateVehicle(c) \/ Read(c) \/ Fail(c)
                 \/ (Write(c) /\ ~CreateReview(c) /\ ~ReplyToReview(c))
        PROVE  UNCHANGED review
    BY <2>6 DEF CreateVehicle, Read, ReadListing, ReadClock, ReadInquiry, ReadForReview,
       ReadReview, Begin, Fail, Write, CreateListing, UpdateListing, Edit, SubmitListing,
       RenewListing, MarkSold, ApproveListing, RejectListing, RejectVehicle, ExpireListing, RevealContact, CloseInquiry
  <2>7. Tick => UNCHANGED review
    BY DEF Tick
  <2> QED BY <2>2, <2>3, <2>4, <2>5, <2>6, <2>7 DEF Next
<1> QED
  BY <1>1, MarketInvariant, PTL DEF Spec, RepliedOnce

-----------------------------------------------------------------------------
(* Each write is the lifecycle's own step, every other step is a stutter.  *)
LEMMA LifecycleInit == Init => Lifecycle!Init
  BY DEF Init, Lifecycle!Init

LEMMA LifecycleStep == MarketInv /\ [Next]_vars => [Lifecycle!Next]_Lifecycle!vars
<1> SUFFICES ASSUME MarketInv, [Next]_vars PROVE [Lifecycle!Next]_Lifecycle!vars
  OBVIOUS
<1>a. /\ TypeOK /\ CallsConsistent /\ CreatedOnce /\ RecordsConsistent
      /\ listing \in Listing /\ listing.version \in Nat /\ listing.submitted \in Int
      /\ listing.submitted <= listing.version /\ inquiry \in [Buyer -> {"none", "OPEN"} \cup Closed]
  BY DEF MarketInv, TypeOK, Listing, RecordsConsistent
<1>b. UNCHANGED <<listing, inquiry>> => UNCHANGED Lifecycle!vars
  BY DEF Lifecycle!vars
<1>1. ASSUME NEW c \in Caller, CreateListing(c)
      PROVE  Lifecycle!Create
  <2>0. listing.status = "none"
    BY <1>a, <1>1 DEF CreateListing, Finish, CreatedOnce
  <2> QED BY <1>a, <1>1, <2>0 DEF CreateListing, Finish, Lifecycle!Create, Lifecycle!vars, Listing
<1>2. ASSUME NEW c \in Caller, UpdateListing(c)
      PROVE  Lifecycle!Edit
  <2>0. listing.status \in Accepts["update"] /\ call[c].seen = listing.status
    BY <1>a, <1>2, SeenIsCurrent DEF UpdateListing, Finish, SameAsSeen, ListingOp
  <2>1. CASE call[c].seen = "PUBLISHED"
    BY <1>a, <1>2, <2>0, <2>1 DEF UpdateListing, Edit, Lifecycle!Edit, Listing
  <2>2. CASE call[c].seen # "PUBLISHED"
    <3>1. listing' = [listing EXCEPT !.version = @ + 1] /\ inquiry' = inquiry
      BY <1>2, <2>2 DEF UpdateListing, Edit
    <3>2. listing'.version # listing'.submitted
      BY <1>a, <3>1 DEF Listing
    <3> QED BY <1>a, <2>0, <2>2, <3>1, <3>2, AcceptedStatuses DEF Lifecycle!Edit, Listing
  <2> QED BY <2>1, <2>2
<1>3. ASSUME NEW c \in Caller, SubmitListing(c)
      PROVE  Lifecycle!Submit
  <2>0. listing.status \in Accepts["submit"] /\ call[c].seen = listing.status
    BY <1>a, <1>3, SeenIsCurrent DEF SubmitListing, Finish, SameAsSeen, ListingOp
  <2> QED BY <1>a, <1>3, <2>0, AcceptedStatuses DEF SubmitListing, Finish, Lifecycle!Submit, Lifecycle!vars, Listing
<1>4. ASSUME NEW c \in Caller, RenewListing(c)
      PROVE  Lifecycle!Renew \/ UNCHANGED Lifecycle!vars
  <2>0. listing.status \in Accepts["renew"] /\ call[c].seen = listing.status
    BY <1>a, <1>4, SeenIsCurrent DEF RenewListing, Finish, SameAsSeen, ListingOp
  <2> QED BY <1>a, <1>4, <2>0, AcceptedStatuses DEF RenewListing, Finish, Lifecycle!Renew, Lifecycle!vars, Listing
<1>5. ASSUME NEW c \in Caller, MarkSold(c)
      PROVE  Lifecycle!Sell
  <2>0. listing.status \in Accepts["sell"] /\ call[c].seen = listing.status
    BY <1>a, <1>5, SeenIsCurrent DEF MarkSold, Finish, SameAsSeen, ListingOp
  <2> QED BY <1>a, <1>5, <2>0, AcceptedStatuses DEF MarkSold, Finish, Lifecycle!Sell, Lifecycle!vars, Listing
<1>6. ASSUME NEW c \in Caller, ApproveListing(c)
      PROVE  Lifecycle!Approve
  <2>0. listing.status \in Accepts["approve"] /\ call[c].seen = listing.status
    BY <1>a, <1>6, SeenIsCurrent DEF ApproveListing, Finish, SameAsSeen, ListingOp
  <2> QED BY <1>a, <1>6, <2>0, AcceptedStatuses DEF ApproveListing, Finish, Lifecycle!Approve, Lifecycle!vars, Listing
<1>7. ASSUME NEW c \in Caller, RejectListing(c)
      PROVE  Lifecycle!Reject
  <2>0. listing.status \in Accepts["reject"] /\ call[c].seen = listing.status
    BY <1>a, <1>7, SeenIsCurrent DEF RejectListing, Finish, SameAsSeen, ListingOp
  <2> QED BY <1>a, <1>7, <2>0, AcceptedStatuses DEF RejectListing, Finish, Lifecycle!Reject, Lifecycle!vars, Listing
<1>8. ASSUME NEW c \in Caller, ExpireListing(c)
      PROVE  Lifecycle!Expire
  <2>0. listing.status \in Accepts["expire"] /\ call[c].seen = listing.status
    BY <1>a, <1>8, SeenIsCurrent DEF ExpireListing, Finish, SameAsSeen, ListingOp
  <2> QED BY <1>a, <1>8, <2>0, AcceptedStatuses DEF ExpireListing, Finish, Lifecycle!Expire, Lifecycle!vars, Listing
<1>9. ASSUME NEW c \in Caller, NEW b \in Buyer, b = call[c].buyer, RevealContact(c)
      PROVE  Lifecycle!Contact(b)
  BY <1>a, <1>9 DEF RevealContact, Finish, Lifecycle!Contact
<1>10. ASSUME NEW c \in Caller, NEW b \in Buyer, b = call[c].buyer, CloseInquiry(c)
      PROVE  Lifecycle!Close(b)
  BY <1>a, <1>10 DEF CloseInquiry, Finish, Lifecycle!Close
<1>11. ASSUME NEW c \in Caller,
             CreateVehicle(c) \/ Read(c) \/ Fail(c) \/ RejectVehicle(c) \/ CreateReview(c) \/ ReplyToReview(c)
      PROVE  UNCHANGED <<listing, inquiry>>
  BY <1>11 DEF CreateVehicle, Read, ReadListing, ReadClock, ReadInquiry, ReadForReview, ReadReview,
     Begin, Fail, RejectVehicle, CreateReview, ReplyToReview
<1>12. ASSUME (\E b \in Buyer : ModerateReview(b)) \/ Tick \/ UNCHANGED vars
      PROVE  UNCHANGED <<listing, inquiry>>
  BY <1>12 DEF ModerateReview, Tick, vars
<1>13. ASSUME NEW c \in Caller PROVE call[c].op \in {"reveal", "close"} => call[c].buyer \in Buyer
  BY <1>a DEF CallsConsistent
<1>14. ASSUME NEW c \in Caller, Write(c)
       PROVE  Lifecycle!Next \/ UNCHANGED Lifecycle!vars
  <2>1. CASE RevealContact(c) \/ CloseInquiry(c)
    <3>1. PICK b \in Buyer : b = call[c].buyer
      BY <1>13, <2>1 DEF RevealContact, CloseInquiry, Finish
    <3> QED BY <2>1, <3>1, <1>9, <1>10 DEF Lifecycle!Next
  <2>2. CASE RejectVehicle(c) \/ CreateReview(c) \/ ReplyToReview(c)
    BY <2>2, <1>11, <1>b
  <2>3. CASE RenewListing(c)
    BY <2>3, <1>4 DEF Lifecycle!Next
  <2> QED BY <1>14, <2>1, <2>2, <2>3, <1>1, <1>2, <1>3, <1>5, <1>6, <1>7, <1>8 DEF Write, Lifecycle!Next
<1>15. ASSUME Next PROVE Lifecycle!Next \/ UNCHANGED Lifecycle!vars
  BY <1>15, <1>b, <1>11, <1>12, <1>14 DEF Next
<1> QED
  BY <1>b, <1>12, <1>15

(* Requests that interleave do to a listing what they would do alone. *)
THEOREM MarketImplementsLifecycle == Spec => ImplementsLifecycle
  BY LifecycleInit, LifecycleStep, MarketInvariant, PTL DEF Spec, ImplementsLifecycle, Lifecycle!Spec
=============================================================================
