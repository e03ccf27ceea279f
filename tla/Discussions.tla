----------------------------- MODULE Discussions -----------------------------
(***************************************************************************)
(* One discussion thread of a course, its posts and who is told of         *)
(* replies: CommunicationService (internal/service/communication.go:153)   *)
(* over the discussion_threads, discussion_posts and notification_outbox   *)
(* tables.                                                                 *)
(*                                                                         *)
(* Posts are counted per author; what they say, and edits of it, decide    *)
(* nothing.  All members may read the course throughout.                   *)
(***************************************************************************)
EXTENDS Requests

CONSTANTS
    Posters,     \* members of the course who take part, the teacher among them
    Teacher,
    RepliesBound \* bound on the replies ever made

ASSUME DiscussionsAssumption ==
    /\ IsFiniteSet(Posters) /\ Teacher \in Posters /\ Nothing \notin Posters
    /\ RepliesBound \in Nat

VARIABLES
    thread,   \* the discussion_threads row
    posts,    \* per author, the discussion_posts rows
    replies,  \* per author, the replies ever made (not stored)
    made,     \* all of them
    late,     \* replies made when the thread was locked (not stored)
    told      \* per member, the discussion.reply notices

discussionTables == <<thread, posts, replies, made, late, told>>
discussionVars == <<requests, discussionTables>>

ThreadRow == [status : {"none", "open", "locked"}, author : Posters \cup {Nothing}]

DiscussionsInit ==
    /\ RequestsInit
    /\ thread = [status |-> "none", author |-> Nothing]
    /\ posts = [u \in Posters |-> 0]
    /\ replies = [u \in Posters |-> 0]
    /\ made = 0
    /\ late = 0
    /\ told = [u \in Posters |-> 0]

-------------------------------------------------------------------------------
\* CreateThread: threads.Create
CreateThread(w, u) ==
    /\ Idle(w)
    /\ thread.status = "none"
    /\ thread' = [status |-> "open", author |-> u]
    /\ Hold(w, "thread.first", u)
    /\ UNCHANGED <<posts, replies, made, late, told>>

\* posts.Create of the opening post; the notice of a new thread to the teacher
\* is not followed further.
CreateFirstPost(w) ==
    /\ At(w, "thread.first")
    /\ posts' = [posts EXCEPT ![loc[w]] = @ + 1]
    /\ Finish(w)
    /\ UNCHANGED <<thread, replies, made, late, told>>

\* LockThread: there is no way back.
LockThread(w) ==
    /\ AtOnce(w)
    /\ thread.status # "none"
    /\ thread' = [thread EXCEPT !.status = "locked"]
    /\ UNCHANGED <<posts, replies, made, late, told>>

\* As if CreatePost did not look at the lock.
BeginReplyLocked(w, u) ==
    /\ Idle(w)
    /\ thread.status # "none"
    /\ Hold(w, "reply.insert", u)
    /\ UNCHANGED discussionTables

\* CreatePost: threads.GetByID finds the thread open.
BeginReply(w, u) ==
    /\ Idle(w)
    /\ thread.status = "open"
    /\ Hold(w, "reply.insert", u)
    /\ UNCHANGED discussionTables

\* posts.Create
InsertReply(w) ==
    /\ At(w, "reply.insert")
    /\ made < RepliesBound
    /\ posts' = [posts EXCEPT ![loc[w]] = @ + 1]
    /\ replies' = [replies EXCEPT ![loc[w]] = @ + 1]
    /\ made' = made + 1
    /\ late' = IF thread.status = "locked" THEN late + 1 ELSE late
    /\ Goto(w, "reply.list")
    /\ UNCHANGED <<thread, told>>

\* As if the teacher were told only of threads they take part in.
RecipientsAuthorsOnly(actor, authors) == authors \ {thread.author, actor}

\* notifyThreadParticipants: neither who replies nor who opened the thread is a
\* participant; the teacher is told in any case, once.
Recipients(actor, authors) ==
    ((authors \ {thread.author}) \cup {Teacher}) \ {actor}

\* posts.ListParticipantIDs: authors who have a post left
ListParticipants(w) ==
    /\ At(w, "reply.list")
    /\ Hold(w, "reply.notify", [actor |-> loc[w],
            todo |-> Recipients(loc[w], {u \in Posters : posts[u] > 0})])
    /\ UNCHANGED discussionTables

\* outbox.EnqueueInApp, its error ignored
NotifyReply(w) ==
    /\ At(w, "reply.notify")
    /\ \E u \in loc[w].todo :
        /\ Hold(w, "reply.notify", [loc[w] EXCEPT !.todo = @ \ {u}])
        /\ \/ told' = [told EXCEPT ![u] = @ + 1]
           \/ setting.failures /\ UNCHANGED told
    /\ UNCHANGED <<thread, posts, replies, made, late>>

AllTold(w) ==
    /\ At(w, "reply.notify")
    /\ loc[w].todo = {}
    /\ Finish(w)
    /\ UNCHANGED discussionTables

\* DeletePost: the replies to a post go with it (ON DELETE CASCADE); which they
\* are is left open.
DeletePost(w, u) ==
    /\ AtOnce(w)
    /\ posts[u] > 0
    /\ \E left \in [Posters -> 0..RepliesBound + 1] :
        /\ \A v \in Posters : left[v] <= posts[v]
        /\ left[u] < posts[u]
        /\ posts' = left
    /\ UNCHANGED <<thread, replies, made, late, told>>

AbortDiscussions(w) == Abort(w) /\ UNCHANGED discussionTables

-------------------------------------------------------------------------------
BeginDiscussion(w) == \E u \in Posters :
    CreateThread(w, u) \/ BeginReply(w, u) \/ DeletePost(w, u)

DiscussionStep(w) ==
    \/ CreateFirstPost(w) \/ InsertReply(w) \/ ListParticipants(w)
    \/ NotifyReply(w) \/ AllTold(w)

DiscussionsNext == \E w \in setting.workers :
    BeginDiscussion(w) \/ DiscussionStep(w) \/ LockThread(w) \/ AbortDiscussions(w)

DiscussionsSpec == DiscussionsInit /\ [][DiscussionsNext]_discussionVars

-------------------------------------------------------------------------------
(* Properties                                                              *)

\* The rows have their columns' types; a worker holds who acts, or also whom it
\* still has to tell.
DiscussionsTypeOK ==
    /\ thread \in ThreadRow
    /\ posts \in [Posters -> 0..RepliesBound + 1]
    /\ replies \in [Posters -> 0..RepliesBound]
    /\ made \in 0..RepliesBound
    /\ late \in 0..RepliesBound
    /\ told \in [Posters -> 0..RepliesBound]
    /\ \A w \in setting.workers :
        \/ pc[w] = "idle" /\ loc[w] = Nothing
        \/ pc[w] \in {"thread.first", "reply.insert", "reply.list"} /\ loc[w] \in Posters
        \/ pc[w] = "reply.notify" /\ loc[w] \in [actor : Posters, todo : SUBSET Posters]

\* CreatePost tests the lock in an earlier statement than the insert
\* (communication.go:225, :233): replies still arrive in a locked thread, but
\* only those that were under way, fewer than requests run at a time.
LateRepliesBound ==
    late + Cardinality({w \in setting.workers :
                thread.status = "locked" /\ pc[w] = "reply.insert"})
        <= Cardinality(setting.workers) - 1

\* However replies interleave with each other and with deletions, nobody is told
\* of a reply twice or of their own, and whoever opened the thread is not told at
\* all unless it is the teacher; unless a request fails, the teacher has been told
\* of every reply of somebody else once no request is under way
\* (communication.go:459-480).
RepliesTold ==
    /\ \A u \in Posters :
        told[u] <= IF u = thread.author /\ u # Teacher THEN 0
                   ELSE made - replies[u]
    /\ Unfailing /\ Quiet => told[Teacher] = made - replies[Teacher]
===============================================================================
