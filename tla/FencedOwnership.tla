--------------------------- MODULE FencedOwnership ---------------------------
(***************************************************************************)
(* What ProviderLeaseService promises to its callers, with no clock, no    *)
(* row lock and no transaction: ownership of one provider is granted under *)
(* a fresh fencing token, and a protected write carries the token of the   *)
(* last grant.  ProviderLease and ImportJob are shown to implement it.     *)
(***************************************************************************)
EXTENDS Integers

CONSTANTS Owner,     \* the owner tokens
          NoOwner    \* the '' of an unowned coordination row

VARIABLES epoch,      \* the highest fencing token ever granted
          owner,      \* the token the row names, or NoOwner
          token,      \* token[o]: the fencing token o believes it holds, 0 if none
          lastWrite   \* the fencing token under which the last protected write committed

vars == <<epoch, owner, token, lastWrite>>

Init == /\ epoch = 0
        /\ owner = NoOwner
        /\ token = [o \in Owner |-> 0]
        /\ lastWrite = 0

(* A new grant; the answer may be lost on the way back to its owner. *)
Grant(o) == /\ epoch' = epoch + 1
            /\ owner' = o
            /\ token' \in {token, [token EXCEPT ![o] = epoch + 1]}
            /\ UNCHANGED lastWrite

(* The current owner asks again and is told the token it already has. *)
Reissue(o) == /\ owner = o
              /\ token' \in {token, [token EXCEPT ![o] = epoch]}
              /\ UNCHANGED <<epoch, owner, lastWrite>>

(* An owner stops; the row is cleared only if it still names that owner. *)
GiveUp(o) == /\ token' = [token EXCEPT ![o] = 0]
             /\ \/ owner' = owner
                \/ /\ owner = o
                   /\ token[o] = epoch
                   /\ owner' = NoOwner
             /\ UNCHANGED <<epoch, lastWrite>>

(* A protected write, possible only under the last grant. *)
Write(o) == /\ owner = o
            /\ token[o] = epoch
            /\ lastWrite' = epoch
            /\ UNCHANGED <<epoch, owner, token>>

Next == \E o \in Owner : Grant(o) \/ Reissue(o) \/ GiveUp(o) \/ Write(o)

Spec == Init /\ [][Next]_vars
=============================================================================
