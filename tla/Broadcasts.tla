------------------------------ MODULE Broadcasts ------------------------------
(***************************************************************************)
(* Messages to the subscribers of the Telegram bot (broadcasts.service.ts, *)
(* notifications.service.ts).  A send answers at once and works through    *)
(* the list of subscribers in the background of its process, which may     *)
(* stop.  A row of notification_messages is identified here by its         *)
(* broadcast, whose text it carries, and by its place in notices.          *)
(***************************************************************************)
EXTENDS Naturals, Sequences, FiniteSets, SequencesExt

CONSTANTS
    Broadcast, Subscriber,
    Loyal,        \* subscribers who stay active; the others come and go
    Clerk,        \* administrators' calls in progress
    MaxNotices

ASSUME BroadcastAssumption ==
    /\ IsFiniteSet(Subscriber)
    /\ Loyal \subseteq Subscriber
    /\ MaxNotices \in Nat

VARIABLES
    broadcast,    \* broadcast[b]: its channel and status, or absent
    active,       \* the subscribers whose status is active
    clerk,        \* a call of update, delete or send after its read
    jobs,         \* background loops: the broadcast and who is left
    notices       \* notification_messages

broadcastVars == <<broadcast, active, clerk, jobs, notices>>

Absent == [status |-> "absent"]
NoCall == [phase |-> "none"]

BroadcastInit ==
    /\ broadcast = [b \in Broadcast |-> Absent]
    /\ active \in {Loyal, Subscriber}
    /\ clerk = [c \in Clerk |-> NoCall]
    /\ jobs = {}
    /\ notices = <<>>

-----------------------------------------------------------------------------
CreateBroadcast(b) ==
    /\ broadcast[b] = Absent
    /\ \A n \in DOMAIN notices : notices[n].broadcast # b
    /\ \A c \in Clerk : clerk[c] # NoCall => clerk[c].broadcast # b
    /\ \A j \in jobs : j.broadcast # b
    /\ \E channel \in {"TELEGRAM", "EMAIL"} :
          broadcast' = [broadcast EXCEPT ![b] = [channel |-> channel, status |-> "DRAFT"]]
    /\ UNCHANGED <<active, clerk, jobs, notices>>

(* update, delete and send read the row, and refuse one that is no draft.  *)
ReadDraft(c, b, call) ==
    /\ clerk[c] = NoCall
    /\ broadcast[b].status = "DRAFT"
    /\ clerk' = [clerk EXCEPT ![c] = [phase |-> call, broadcast |-> b]]
    /\ UNCHANGED <<broadcast, active, jobs, notices>>

(* The delete writes without looking again, as the update of a title does. *)
DeleteBroadcast(c) ==
    /\ clerk[c].phase = "delete"
    /\ broadcast' = [broadcast EXCEPT ![clerk[c].broadcast] = Absent]
    /\ clerk' = [clerk EXCEPT ![c] = NoCall]
    /\ UNCHANGED <<active, jobs, notices>>

(* send marks the row; when it is gone the call fails.  Nothing is sent by *)
(* a channel other than Telegram.                                          *)
MarkSending(c) ==
    LET b == clerk[c].broadcast
        gone == broadcast[b] = Absent
    IN  /\ clerk[c].phase = "send"
        /\ broadcast' = IF gone THEN broadcast ELSE [broadcast EXCEPT ![b].status = "SENDING"]
        /\ clerk' = [clerk EXCEPT ![c] = IF gone \/ broadcast[b].channel # "TELEGRAM" THEN NoCall
                                         ELSE [phase |-> "list", broadcast |-> b]]
        /\ UNCHANGED <<active, jobs, notices>>

(* It reads the active subscribers and hands them to setImmediate.         *)
ListSubscribers(c) ==
    /\ clerk[c].phase = "list"
    /\ jobs' = jobs \cup {[clerk |-> c, broadcast |-> clerk[c].broadcast,
                           left |-> SetToSeq(active), posting |-> 0]}
    /\ clerk' = [clerk EXCEPT ![c] = NoCall]
    /\ UNCHANGED <<broadcast, active, notices>>

-----------------------------------------------------------------------------
(* sendTelegramNotification stores the message as pending ...              *)
StoreNotice(j) ==
    /\ j.left # <<>> /\ j.posting = 0
    /\ Len(notices) < MaxNotices
    /\ notices' = Append(notices, [broadcast |-> j.broadcast, to |-> Head(j.left),
                                   status |-> "PENDING"])
    /\ jobs' = (jobs \ {j}) \cup {[j EXCEPT !.posting = Len(notices) + 1]}
    /\ UNCHANGED <<broadcast, active, clerk>>

(* ... and posts it: sent, failed, or, without a bot token, left pending.  *)
PostNotice(j) ==
    /\ j.posting # 0
    /\ \E s \in {"PENDING", "SENT", "FAILED"} :
          notices' = [notices EXCEPT ![j.posting].status = s]
    /\ jobs' = (jobs \ {j}) \cup {[j EXCEPT !.left = Tail(@), !.posting = 0]}
    /\ UNCHANGED <<broadcast, active, clerk>>

(* A slip: the broadcast is finished before its loop.                      *)
FinishFirst(j) ==
    /\ j.posting = 0
    /\ broadcast' = IF broadcast[j.broadcast] = Absent THEN broadcast
                    ELSE [broadcast EXCEPT ![j.broadcast].status = "SENT"]
    /\ jobs' = jobs
    /\ UNCHANGED <<active, clerk, notices>>
(* After the loop the broadcast is sent.                                   *)
FinishBroadcast(j) ==
    /\ j.left = <<>>
    /\ broadcast[j.broadcast] # Absent
    /\ broadcast' = [broadcast EXCEPT ![j.broadcast].status = "SENT"]
    /\ jobs' = jobs \ {j}
    /\ UNCHANGED <<active, clerk, notices>>

(* A write of the loop fails: the last one when the row has been deleted,  *)
(* any of them when the database does.  Nothing catches the error: the     *)
(* loop ends, and the process too unless Sentry listens.                   *)
JobThrows(j) ==
    /\ \/ /\ jobs' = jobs \ {j}
          /\ UNCHANGED clerk
       \/ /\ jobs' = {}
          /\ clerk' = [c \in Clerk |-> NoCall]
    /\ UNCHANGED <<broadcast, active, notices>>

-----------------------------------------------------------------------------
SubscriberComesOrGoes(s) ==
    /\ s \notin Loyal
    /\ active' = IF s \in active THEN active \ {s} ELSE active \cup {s}
    /\ UNCHANGED <<broadcast, clerk, jobs, notices>>

BroadcastRestart ==
    /\ jobs # {} \/ \E c \in Clerk : clerk[c] # NoCall
    /\ jobs' = {}
    /\ clerk' = [c \in Clerk |-> NoCall]
    /\ UNCHANGED <<broadcast, active, notices>>

BroadcastsNext ==
    \/ \E b \in Broadcast : CreateBroadcast(b)
    \/ \E c \in Clerk : \/ \E b \in Broadcast, call \in {"delete", "send"} : ReadDraft(c, b, call)
                        \/ DeleteBroadcast(c) \/ MarkSending(c) \/ ListSubscribers(c)
    \/ \E j \in jobs : \/ StoreNotice(j) \/ PostNotice(j)
                          \/ FinishBroadcast(j) \/ JobThrows(j)
    \/ \E s \in Subscriber : SubscriberComesOrGoes(s)
    \/ BroadcastRestart

BroadcastsSpec == BroadcastInit /\ [][BroadcastsNext]_broadcastVars

-----------------------------------------------------------------------------
(* A broadcast that is shown as sent was handed to the bot for everyone    *)
(* who was subscribed all along, also when two administrators send it at   *)
(* once, when another deletes it, or when the process stops on the way.    *)
Attempted(b, s) == \E n \in DOMAIN notices : notices[n].broadcast = b /\ notices[n].to = s

SentMeansAttempted ==
    \A b \in Broadcast : broadcast[b].status = "SENT" =>
        \A s \in Loyal : Attempted(b, s)

(* What makes it inductive: a background loop has tried everyone who stays *)
(* or has them left, and the message it is posting is for the head of its  *)
(* list.                                                                   *)
Notice == [broadcast : Broadcast, to : Subscriber, status : {"PENDING", "SENT", "FAILED"}]

Loop == [clerk : Clerk, broadcast : Broadcast, left : Seq(Subscriber), posting : Nat]

BroadcastsTypeOK ==
    /\ broadcast \in [Broadcast -> {Absent} \cup
                       [channel : {"TELEGRAM", "EMAIL"}, status : {"DRAFT", "SENDING", "SENT"}]]
    /\ active \subseteq Subscriber
    /\ clerk \in [Clerk -> {NoCall} \cup
                       [phase : {"delete", "send", "list"}, broadcast : Broadcast]]
    /\ jobs \subseteq Loop
    /\ notices \in Seq(Notice)

PostsToHead(j) ==
    j.posting # 0 => /\ j.left # <<>>
                     /\ j.posting \in DOMAIN notices
                     /\ notices[j.posting].broadcast = j.broadcast
                     /\ notices[j.posting].to = Head(j.left)

MissesNobody(j) ==
    \A s \in Loyal : Attempted(j.broadcast, s) \/ \E n \in DOMAIN j.left : j.left[n] = s

BroadcastsInv ==
    /\ BroadcastsTypeOK
    /\ Loyal \subseteq active
    /\ \A j \in jobs : PostsToHead(j) /\ MissesNobody(j)
    /\ SentMeansAttempted
=============================================================================
