---------------------------------- MODULE Inbox ----------------------------------
(***************************************************************************)
(* Direct messages and the notices they cause: CommunicationService        *)
(* (internal/service/communication.go:293) over the dm_conversations,      *)
(* dm_messages and notification_outbox tables.                             *)
(*                                                                         *)
(* Users are numbered the way their ids compare.  What a message says, and *)
(* the order of conversations by their last change, are left out.          *)
(***************************************************************************)
EXTENDS Requests, Sequences

CONSTANTS
    Users,
    MessagesBound,  \* bound: messages of a conversation
    PageDefault,    \* 50: messages a page holds when the query gives no number
    PageMost        \* 200: what it holds at most

ASSUME InboxAssumption ==
    /\ Users \subseteq Nat /\ IsFiniteSet(Users)
    /\ MessagesBound \in Nat
    /\ PageDefault \in 1..PageMost /\ PageMost \in Nat

VARIABLES
    conversations,  \* the dm_conversations rows: <<user_a_id, user_b_id>>
    messages,       \* the dm_messages rows of each, oldest first
    noticed         \* per user, the dm.message rows of notification_outbox

inboxTables == <<conversations, messages, noticed>>
inboxVars == <<requests, inboxTables>>

Pairs == {c \in Users \X Users : c[1] # c[2]}

\* Notices are told apart by whether they are read only.
NoticeCount == [all : Nat, unread : Nat]

InboxInit ==
    /\ RequestsInit
    /\ conversations = {}
    /\ messages = [c \in Pairs |-> <<>>]
    /\ noticed = [u \in Users |-> [all |-> 0, unread |-> 0]]

\* As if the pair were kept in the order it came in.
AsGivenPair(a, b) == <<a, b>>

\* orderPair
OrderPair(a, b) == IF a < b THEN <<a, b>> ELSE <<b, a>>

\* The other participant.
Other(c, u) == IF c[1] = u THEN c[2] ELSE c[1]

Takes(c, u) == c[1] = u \/ c[2] = u

-------------------------------------------------------------------------------
(* Conversations and messages                                              *)

\* conversations.GetOrCreate: INSERT ... ON CONFLICT on the ordered pair
StartConversation(w, u, v) ==
    /\ AtOnce(w)
    /\ u # v
    /\ conversations' = conversations \cup {OrderPair(u, v)}
    /\ UNCHANGED <<messages, noticed>>

\* SendMessage, by a participant
BeginMessage(w, c, u) ==
    /\ Idle(w)
    /\ c \in conversations /\ Takes(c, u)
    /\ Hold(w, "message.create", [conversation |-> c, from |-> u])
    /\ UNCHANGED inboxTables

\* messages.Create
CreateMessage(w) ==
    /\ At(w, "message.create")
    /\ LET c == loc[w].conversation
       IN  /\ Len(messages[c]) < MessagesBound
           /\ messages' = [messages EXCEPT ![c] =
                    Append(@, [from |-> loc[w].from, read |-> FALSE])]
    /\ Goto(w, "message.notify")
    /\ UNCHANGED <<conversations, noticed>>

\* outbox.EnqueueInApp for the recipient, its error ignored
NotifyRecipient(w) ==
    /\ At(w, "message.notify")
    /\ LET u == Other(loc[w].conversation, loc[w].from)
       IN  \/ noticed' = [noticed EXCEPT ![u].all = @ + 1, ![u].unread = @ + 1]
           \/ setting.failures /\ UNCHANGED noticed
    /\ Finish(w)
    /\ UNCHANGED <<conversations, messages>>

\* MarkConversationRead: every unread message of the other one, also one that
\* came after the reader last looked
MarkConversationRead(w, c, u) ==
    /\ AtOnce(w)
    /\ c \in conversations /\ Takes(c, u)
    /\ messages' = [messages EXCEPT ![c] =
            [k \in DOMAIN @ |-> IF @[k].from # u THEN [@[k] EXCEPT !.read = TRUE] ELSE @[k]]]
    /\ UNCHANGED <<conversations, noticed>>

\* The messages of a page: the offset is computed from the per_page of the query,
\* the limit from that number brought into its range.
ListMessages(total, page, perPage) ==
    LET limit  == IF perPage <= 0 THEN PageDefault
                  ELSE IF perPage > PageMost THEN PageMost ELSE perPage
        offset == ((IF page <= 0 THEN 1 ELSE page) - 1) * perPage
    IN  {k \in 1..total : offset < k /\ k <= offset + limit}

-------------------------------------------------------------------------------
(* Notices                                                                 *)

\* notifications.MarkRead of an unread one; of a read one it changes nothing
MarkNotificationRead(w, u) ==
    /\ AtOnce(w)
    /\ noticed[u].unread > 0
    /\ noticed' = [noticed EXCEPT ![u].unread = @ - 1]
    /\ UNCHANGED <<conversations, messages>>

MarkAllNotificationsRead(w, u) ==
    /\ AtOnce(w)
    /\ noticed' = [noticed EXCEPT ![u].unread = 0]
    /\ UNCHANGED <<conversations, messages>>

AbortInbox(w) == Abort(w) /\ UNCHANGED inboxTables

-------------------------------------------------------------------------------
BeginInbox(w) == \E u \in Users :
    \/ \E v \in Users : StartConversation(w, u, v)
    \/ \E c \in Pairs : BeginMessage(w, c, u) \/ MarkConversationRead(w, c, u)
    \/ MarkNotificationRead(w, u) \/ MarkAllNotificationsRead(w, u)

InboxStep(w) == CreateMessage(w) \/ NotifyRecipient(w)

InboxNext == \E w \in setting.workers :
    BeginInbox(w) \/ InboxStep(w) \/ AbortInbox(w)

InboxSpec == InboxInit /\ [][InboxNext]_inboxVars

-------------------------------------------------------------------------------
(* Properties                                                              *)

\* The rows have their columns' types, a notice is unread or not, and a worker
\* holds the conversation and the sender.
InboxTypeOK ==
    /\ conversations \subseteq Pairs
    /\ \A c \in Pairs :
        /\ Len(messages[c]) <= MessagesBound
        /\ \A k \in DOMAIN messages[c] : messages[c][k] \in [from : Users, read : BOOLEAN]
    /\ noticed \in [Users -> NoticeCount]
    /\ \A u \in Users : noticed[u].unread <= noticed[u].all
    /\ \A w \in setting.workers :
        \/ pc[w] = "idle" /\ loc[w] = Nothing
        \/ /\ pc[w] \in {"message.create", "message.notify"}
           /\ loc[w] \in [conversation : Pairs, from : Users]

SentTo(u) ==
    Cardinality({m \in Pairs \X (1..MessagesBound) :
        /\ Takes(m[1], u)
        /\ m[2] \in DOMAIN messages[m[1]] /\ messages[m[1]][m[2]].from # u})

OnTheWayTo(u) ==
    Cardinality({w \in setting.workers :
        /\ pc[w] = "message.notify"
        /\ Takes(loc[w].conversation, u) /\ loc[w].from # u})

\* Both users may open the conversation at once, and a message is stored
\* statements before its notice, whose error is dropped (communication.go:301,
\* :325, :332): two users have one conversation whoever opens it, every notice
\* answers a message of the other one, and without failures every message has its
\* notice or a request on the way to make it.
\* The pages of a conversation hold every message once when their size is within
\* the range the repository allows.
ConversationsSound ==
    /\ \A c \in conversations : <<c[2], c[1]>> \notin conversations
    /\ \A u \in Users :
        /\ noticed[u].all + OnTheWayTo(u) <= SentTo(u)
        /\ Unfailing => noticed[u].all + OnTheWayTo(u) = SentTo(u)
    /\ \A c \in conversations, perPage \in 1..PageMost :
        \A k \in DOMAIN messages[c] :
            Cardinality({page \in 1..MessagesBound :
                k \in ListMessages(Len(messages[c]), page, perPage)}) = 1
===============================================================================
