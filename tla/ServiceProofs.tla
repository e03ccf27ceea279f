---------------------------- MODULE ServiceProofs ----------------------------
(***************************************************************************)
(* Theorems about the rate limiter, media, organizations, accounts, access *)
(* tokens, live sessions, payment webhooks, prices, the inbox and the      *)
(* process, for every number of requests at a time, with or without        *)
(* failing requests, and about the services together.                      *)
(***************************************************************************)
EXTENDS Services, RequestsProofs

-------------------------------------------------------------------------------
(* The rate limiter: tokens left and requests admitted share one budget    *)

\* What makes AdmittedWithinBudget inductive: a token admits once.
TokensLeft ==
    \A b \in Buckets : bucket[b].admitted + bucket[b].tokens <= Burst + bucket[b].refilled

LimiterInv == Shaped /\ RateLimiterTypeOK /\ TokensLeft

LEMMA LimiterInit == RateLimiterInit => LimiterInv
<1> SUFFICES ASSUME RateLimiterInit PROVE LimiterInv
  OBVIOUS
<1>1. Shaped
  BY ShapedInit DEF RateLimiterInit
<1>2. RateLimiterTypeOK
  BY DEF RateLimiterInit, RequestsInit, RateLimiterTypeOK, Bucket, NoBucket
<1>3. TokensLeft
  BY RateLimiterAssumption DEF RateLimiterInit, TokensLeft, NoBucket
<1> QED
  BY <1>1, <1>2, <1>3 DEF LimiterInv

LEMMA LimiterNext ==
    ASSUME LimiterInv, [RateLimiterNext]_limiterVars
    PROVE  LimiterInv'
<1>1. /\ Shaped /\ RateLimiterTypeOK /\ TokensLeft
      /\ Burst \in Nat /\ Refills \in Nat /\ Buckets \subseteq Nat \ {0}
  BY RateLimiterAssumption DEF LimiterInv
<1>2. ASSUME NEW w \in setting.workers, GetBucket(w) PROVE LimiterInv'
  <2>1. CASE current # 0 /\ Hold(w, "limiter.allow", current) /\ UNCHANGED limiterTables
    <3>1. Shaped' /\ Moved(w, "limiter.allow", current)
      BY <1>1, <2>1, HoldMoves
    <3> QED
      BY <1>1, <2>1, <3>1
      DEF LimiterInv, RateLimiterTypeOK, TokensLeft, Moved, limiterTables
  <2>2. ASSUME NEW b \in Buckets, ~bucket[b].made, current' = b,
               bucket' = [bucket EXCEPT ![b] = [NoBucket EXCEPT !.made = TRUE,
                                                                !.tokens = Burst]],
               Hold(w, "limiter.allow", b)
        PROVE  LimiterInv'
    <3>1. Shaped' /\ Moved(w, "limiter.allow", b)
      BY <1>1, <2>2, HoldMoves
    <3>2. bucket'[b] = [made |-> TRUE, tokens |-> Burst, refilled |-> 0, admitted |-> 0]
      BY <1>1, <2>2 DEF RateLimiterTypeOK, NoBucket
    <3>3. /\ bucket' \in [Buckets -> Bucket]
          /\ \A c \in Buckets \ {b} : bucket'[c] = bucket[c]
      BY <1>1, <2>2, <3>2 DEF RateLimiterTypeOK, Bucket, NoBucket
    <3>4. RateLimiterTypeOK'
      BY <1>1, <2>2, <3>1, <3>2, <3>3 DEF RateLimiterTypeOK, Moved
    <3>5. TokensLeft'
      BY <1>1, <3>2, <3>3 DEF TokensLeft
    <3> QED
      BY <3>1, <3>4, <3>5 DEF LimiterInv
  <2> QED
    BY <1>2, <2>1, <2>2 DEF GetBucket
<1>3. ASSUME NEW w \in setting.workers, Allow(w) PROVE LimiterInv'
  <2> DEFINE b == loc[w]
  <2>1. Shaped' /\ Moved(w, "idle", Nothing) /\ b \in Buckets /\ bucket[b] \in Bucket
    BY <1>1, <1>3, FinishMoves DEF Allow, At, RateLimiterTypeOK
  <2>2. \/ UNCHANGED bucket
        \/ /\ bucket[b].tokens # 0
           /\ bucket' = [bucket EXCEPT ![b].tokens = @ - 1, ![b].admitted = @ + 1]
    BY <1>3 DEF Allow
  <2>3. CASE UNCHANGED bucket
    BY <1>1, <1>3, <2>1, <2>3
    DEF LimiterInv, RateLimiterTypeOK, TokensLeft, Moved, Allow
  <2>4. CASE /\ bucket[b].tokens # 0
             /\ bucket' = [bucket EXCEPT ![b].tokens = @ - 1, ![b].admitted = @ + 1]
    <3>1. /\ bucket'[b] \in Bucket /\ bucket'[b].made = bucket[b].made
          /\ bucket'[b].tokens = bucket[b].tokens - 1
          /\ bucket'[b].admitted = bucket[b].admitted + 1
          /\ bucket'[b].refilled = bucket[b].refilled
      BY <1>1, <2>1, <2>4 DEF RateLimiterTypeOK, Bucket
    <3>2. bucket' \in [Buckets -> Bucket] /\ \A c \in Buckets \ {b} : bucket'[c] = bucket[c]
      BY <1>1, <2>1, <2>4, <3>1 DEF RateLimiterTypeOK
    <3>3. RateLimiterTypeOK'
      BY <1>1, <1>3, <2>1, <3>1, <3>2 DEF RateLimiterTypeOK, Moved, Allow
    <3>4. TokensLeft'
      BY <1>1, <2>1, <3>1, <3>2 DEF TokensLeft, Bucket
    <3> QED
      BY <2>1, <3>3, <3>4 DEF LimiterInv
  <2> QED
    BY <2>2, <2>3, <2>4
<1>4. ASSUME NEW b \in Buckets, Refill(b) PROVE LimiterInv'
  <2>1. /\ bucket[b] \in Bucket
        /\ bucket' = [bucket EXCEPT ![b].tokens = @ + 1, ![b].refilled = @ + 1]
        /\ UNCHANGED requests /\ UNCHANGED current
    BY <1>1, <1>4 DEF Refill, RateLimiterTypeOK
  <2>2. Shaped' /\ setting' = setting /\ pc' = pc /\ loc' = loc
    BY <1>1, <2>1, StayShaped
  <2>3. /\ bucket'[b] \in Bucket /\ bucket'[b].made = bucket[b].made
        /\ bucket'[b].tokens = bucket[b].tokens + 1
        /\ bucket'[b].refilled = bucket[b].refilled + 1
        /\ bucket'[b].admitted = bucket[b].admitted
    BY <1>1, <2>1 DEF RateLimiterTypeOK, Bucket
  <2>4. bucket' \in [Buckets -> Bucket] /\ \A c \in Buckets \ {b} : bucket'[c] = bucket[c]
    BY <1>1, <2>1, <2>3 DEF RateLimiterTypeOK
  <2>5. RateLimiterTypeOK'
    BY <1>1, <2>1, <2>2, <2>3, <2>4 DEF RateLimiterTypeOK
  <2>6. TokensLeft'
    BY <1>1, <2>1, <2>3, <2>4 DEF TokensLeft, Bucket
  <2> QED
    BY <2>2, <2>5, <2>6 DEF LimiterInv
<1>5. CASE Cleanup
  <2>1. Shaped' /\ setting' = setting /\ pc' = pc /\ loc' = loc
    BY <1>1, <1>5, StayShaped DEF Cleanup
  <2> QED
    BY <1>1, <1>5, <2>1 DEF Cleanup, LimiterInv, RateLimiterTypeOK, TokensLeft
<1>6. CASE UNCHANGED limiterVars
  <2>1. Shaped' /\ setting' = setting /\ pc' = pc /\ loc' = loc
    BY <1>1, <1>6, StayShaped DEF limiterVars
  <2> QED
    BY <1>1, <1>6, <2>1
    DEF limiterVars, limiterTables, LimiterInv, RateLimiterTypeOK, TokensLeft
<1> QED
  BY <1>2, <1>3, <1>4, <1>5, <1>6 DEF RateLimiterNext

\* However requests interleave between get and Allow, and whatever a cleanup
\* drops in between (ratelimit.go:30, :54, :76), a bucket never admits more than
\* its burst and what time has given it since, for every burst, number of
\* buckets and number of requests.
THEOREM BudgetTheorem == RateLimiterSpec => []AdmittedWithinBudget
<1>1. LimiterInv => AdmittedWithinBudget
  BY RateLimiterAssumption
  DEF LimiterInv, TokensLeft, AdmittedWithinBudget, RateLimiterTypeOK, Bucket
<1> QED
  BY <1>1, LimiterInit, LimiterNext, PTL DEF RateLimiterSpec

-------------------------------------------------------------------------------
(* Media: what each worker holds agrees with what it may write             *)

\* What makes InfectedRejected inductive: whoever is about to write that a scan
\* found an infection also writes that the asset is rejected, and no completion
\* starts from an infected asset.
VerdictsHeld ==
    \A w \in setting.workers :
        pc[w] \in {"media.head", "media.purge", "media.update"} /\ loc[w].scan = "infected"
            => loc[w].status = "rejected"

\* What makes the second part of EndedStays inductive: alone, no request goes on
\* from a copy older than the rejection.
RejectionsHeld ==
    Alone => \A w \in setting.workers :
        asset.status = "rejected" =>
            /\ pc[w] # "media.head"
            /\ pc[w] \in {"media.purge", "media.update"} => loc[w].status = "rejected"

MediaInv ==
    /\ Shaped
    /\ MediaTypeOK
    /\ InfectedRejected
    /\ VerdictsHeld
    /\ RejectionsHeld

LEMMA MediaInitInv == MediaInit => MediaInv
<1> SUFFICES ASSUME MediaInit PROVE MediaInv
  OBVIOUS
<1>1. Shaped
  BY ShapedInit DEF MediaInit
<1>2. MediaTypeOK /\ InfectedRejected /\ VerdictsHeld /\ RejectionsHeld
  BY DEF MediaInit, RequestsInit, MediaTypeOK, MediaAsset, MediaStatus, MediaScan,
         InfectedRejected, VerdictsHeld, RejectionsHeld
<1> QED
  BY <1>1, <1>2 DEF MediaInv

LEMMA MediaWorkerStep ==
    ASSUME MediaInv, NEW w \in setting.workers, MediaStep(w)
    PROVE  MediaInv'
<1>1. /\ Shaped /\ MediaTypeOK /\ InfectedRejected /\ VerdictsHeld /\ RejectionsHeld
      /\ ScanResults \subseteq MediaScan
  BY MediaAssumption DEF MediaInv, MediaScan
<1>2. Alone => setting.workers = {w}
  BY <1>1, AloneOne
<1> USE DEF MediaInv, MediaTypeOK, MediaAsset, MediaStatus, MediaScan, MediaLabels,
            InfectedRejected, VerdictsHeld, RejectionsHeld, mediaTables, Moved
<1>3. CASE CreateUpload(w)
  <2>1. Shaped' /\ setting' = setting /\ pc' = pc /\ loc' = loc
    BY <1>1, <1>3, StayShaped DEF CreateUpload, AtOnce
  <2> QED
    BY <1>1, <1>3, <2>1 DEF CreateUpload, Alone
<1>4. CASE BeginComplete(w)
  <2>1. Shaped' /\ Moved(w, "media.head", asset)
    BY <1>1, <1>4, HoldMoves DEF BeginComplete
  <2> QED
    BY <1>1, <1>2, <1>4, <2>1 DEF BeginComplete, Alone
<1>5. CASE HeadObject(w)
  <2>1. CASE Finish(w)
    <3>1. Shaped' /\ Moved(w, "idle", Nothing)
      BY <1>1, <2>1, FinishMoves
    <3> QED
      BY <1>1, <1>2, <1>5, <3>1 DEF HeadObject, Alone
  <2>2. CASE Hold(w, "media.purge", [loc[w] EXCEPT !.status = "rejected"])
    <3>1. Shaped' /\ Moved(w, "media.purge", [loc[w] EXCEPT !.status = "rejected"])
      BY <1>1, <2>2, HoldMoves
    <3> QED
      BY <1>1, <1>2, <1>5, <3>1 DEF HeadObject, At, Alone
  <2>3. ASSUME NEW result \in ScanResults,
               Hold(w, "media.update", [status |-> Scanned(result), scan |-> result])
        PROVE  MediaInv'
    <3> DEFINE l == [status |-> Scanned(result), scan |-> result]
    <3>1. Shaped' /\ Moved(w, "media.update", l)
      BY <1>1, <2>3, HoldMoves
    <3>2. /\ Scanned(result) \in {"rejected", "ready", "uploaded"}
          /\ result = "infected" => Scanned(result) = "rejected"
      BY DEF Scanned
    <3>3. /\ l \in [status : MediaStatus \ {"none", "deleted"}, scan : MediaScan]
          /\ l.scan = "infected" => l.status = "rejected"
      BY <1>1, <3>2
    <3>4. Alone => l.status = "rejected" \/ asset.status # "rejected"
      BY <1>1, <1>5 DEF HeadObject, At
    <3> HIDE DEF l
    <3> QED
      BY <1>1, <1>2, <1>5, <3>1, <3>3, <3>4 DEF HeadObject, At, Alone
  <2> QED
    BY <1>5, <2>1, <2>2, <2>3 DEF HeadObject
<1>6. CASE PurgeObject(w)
  <2>1. Shaped' /\ Moved(w, "media.update", loc[w])
    BY <1>1, <1>6, GotoMoves DEF PurgeObject
  <2> QED
    BY <1>1, <1>2, <1>6, <2>1 DEF PurgeObject, At, Alone
<1>7. CASE WriteAsset(w)
  <2>1. Shaped' /\ Moved(w, "idle", Nothing)
    BY <1>1, <1>7, FinishMoves DEF WriteAsset
  <2> QED
    BY <1>1, <1>2, <1>7, <2>1 DEF WriteAsset, At, Alone
<1>8. ASSUME NEW result \in MediaScan, BeginApplyScan(w, result) PROVE MediaInv'
  <2> DEFINE label == IF result = "infected" THEN "media.purge" ELSE "media.update"
             l == [status |-> IF result = "infected" THEN "rejected"
                              ELSE IF /\ result \in {"clean", "skipped"}
                                      /\ asset.status \in {"uploaded", "pending"}
                                   THEN "ready" ELSE asset.status,
                   scan |-> result]
  <2>1. Hold(w, label, l) /\ Present
    BY <1>8 DEF BeginApplyScan
  <2>2. Shaped' /\ Moved(w, label, l)
    BY <1>1, <2>1, HoldMoves
  <2>3. /\ l \in [status : MediaStatus \ {"none", "deleted"}, scan : MediaScan]
        /\ l.scan = "infected" => l.status = "rejected"
        /\ asset.status = "rejected" => l.status = "rejected"
    BY <1>1, <2>1 DEF Present
  <2> QED
    BY <1>1, <1>2, <1>8, <2>2, <2>3 DEF BeginApplyScan, Alone
<1>9. CASE BeginDeleteAsset(w)
  <2>1. Shaped' /\ Moved(w, "media.drop", asset)
    BY <1>1, <1>9, HoldMoves DEF BeginDeleteAsset
  <2> QED
    BY <1>1, <1>2, <1>9, <2>1 DEF BeginDeleteAsset, Present, Alone
<1>10. CASE DropObject(w)
  <2>1. Shaped' /\ Moved(w, "media.forget", loc[w])
    BY <1>1, <1>10, GotoMoves DEF DropObject
  <2> QED
    BY <1>1, <1>2, <1>10, <2>1 DEF DropObject, At, Alone
<1>11. CASE SoftDeleteAsset(w)
  <2>1. Shaped' /\ Moved(w, "idle", Nothing)
    BY <1>1, <1>11, FinishMoves DEF SoftDeleteAsset
  <2> QED
    BY <1>1, <1>2, <1>11, <2>1 DEF SoftDeleteAsset, At, Alone
<1>12. CASE AbortMedia(w)
  <2>1. Shaped' /\ Moved(w, "idle", Nothing)
    BY <1>1, <1>12, FinishMoves DEF AbortMedia, Abort
  <2> QED
    BY <1>1, <1>2, <1>12, <2>1 DEF AbortMedia, Alone
<1> QED
  BY <1>3, <1>4, <1>5, <1>6, <1>7, <1>8, <1>9, <1>10, <1>11, <1>12 DEF MediaStep

LEMMA MediaInvNext ==
    ASSUME MediaInv, [MediaNext]_mediaVars
    PROVE  MediaInv'
<1>1. CASE \E w \in setting.workers : MediaStep(w)
  BY <1>1, MediaWorkerStep
<1>2. CASE PutObject
  <2>1. Shaped' /\ setting' = setting /\ pc' = pc /\ loc' = loc
    BY <1>2, StayShaped DEF MediaInv, PutObject
  <2> QED
    BY <1>2, <2>1 DEF PutObject, MediaInv, MediaTypeOK, InfectedRejected, VerdictsHeld,
                      RejectionsHeld, Alone
<1>3. CASE UNCHANGED mediaVars
  <2>1. Shaped' /\ setting' = setting /\ pc' = pc /\ loc' = loc
    BY <1>3, StayShaped DEF MediaInv, mediaVars
  <2> QED
    BY <1>3, <2>1 DEF mediaVars, mediaTables, MediaInv, MediaTypeOK, InfectedRejected,
                      VerdictsHeld, RejectionsHeld, Alone
<1> QED
  BY <1>1, <1>2, <1>3 DEF MediaNext

\* A completion and a scan each write the whole row from a copy (media.go:174,
\* :232): for any number of requests, failing or not, an asset that a scan found
\* infected is never pending, uploaded or ready.
THEOREM InfectedTheorem == MediaSpec => []InfectedRejected
<1>1. MediaInv => InfectedRejected
  BY DEF MediaInv
<1> QED
  BY <1>1, MediaInitInv, MediaInvNext, PTL DEF MediaSpec

\* media.Update writes only rows that are not deleted (media.go of the
\* repository): no request brings a deleted asset back; alone, none accepts a
\* rejected one.
THEOREM EndedTheorem == MediaSpec => EndedStays
<1> DEFINE Stays ==
        /\ asset.status = "deleted" => asset'.status = "deleted"
        /\ Alone /\ asset.status = "rejected" => asset'.status \in {"rejected", "deleted"}
        /\ InfectedRejected'
<1>1. ASSUME MediaInv, [MediaNext]_mediaVars PROVE Stays \/ UNCHANGED mediaVars
  <2>1. Shaped /\ MediaTypeOK /\ RejectionsHeld /\ InfectedRejected'
    BY <1>1, MediaInvNext DEF MediaInv
  <2>2. ASSUME NEW w \in setting.workers, WriteAsset(w) PROVE Stays
    BY <2>1, <2>2 DEF WriteAsset, At, Present, RejectionsHeld
  <2>3. ASSUME NEW w \in setting.workers, SoftDeleteAsset(w) PROVE Stays
    BY <2>1, <2>3 DEF SoftDeleteAsset, MediaTypeOK, MediaAsset
  <2>4. ASSUME NEW w \in setting.workers, CreateUpload(w) PROVE Stays
    BY <2>1, <2>4 DEF CreateUpload
  <2>5. ASSUME NEW w \in setting.workers, MediaStep(w) PROVE Stays
    <3>1. CASE UNCHANGED asset
      BY <2>1, <3>1
    <3> QED
      BY <2>2, <2>3, <2>4, <2>5, <3>1
      DEF MediaStep, BeginComplete, HeadObject, PurgeObject, BeginApplyScan,
          BeginDeleteAsset, DropObject, AbortMedia, mediaTables
  <2>6. CASE PutObject
    BY <2>1, <2>6 DEF PutObject
  <2> QED
    BY <1>1, <2>5, <2>6 DEF MediaNext
<1>2. ASSUME MediaInv, [MediaNext]_mediaVars PROVE [Stays]_mediaVars
  BY <1>1, <1>2
<1> QED
  BY <1>2, MediaInitInv, MediaInvNext, PTL DEF MediaSpec, EndedStays

-------------------------------------------------------------------------------
(* Organizations: who is under way with which invite                       *)

Joining(i)   == {w \in setting.workers : pc[w] = "org.join" /\ loc[w].invite = i}
Accepting(i) == {w \in setting.workers : pc[w] = "org.accept" /\ loc[w].invite = i}

\* What makes InvitesHonoured inductive: while an invite is open, each row it has
\* added belongs to a request about to mark it, so those under way with it and
\* those it has admitted are different workers; alone, a revocation meets nobody.
HonouredSoFar(i) ==
    /\ ~(invites[i].accepted /\ invites[i].revoked)
    /\ Unfailing =>
          /\ admitted[i] + Cardinality(Joining(i)) <= Cardinality(setting.workers)
          /\ ~Closed(i) => admitted[i] <= Cardinality(Accepting(i))
    /\ Calm /\ invites[i].revoked => admitted[i] = 0 /\ Joining(i) = {}

InviteBudget == \A i \in OrgInvites : HonouredSoFar(i)

\* An invite that is closed, or that a request is about, has been created.
InvitesHeld ==
    /\ \A i \in OrgInvites : invites[i].state = "unused" => ~Closed(i)
    /\ \A w \in setting.workers :
        pc[w] \in {"org.revoke", "org.join", "org.accept"} =>
            invites[loc[w].invite].state = "created"

\* What makes LastOwnerStays inductive: alone, whoever is about to take an owner's
\* role away has counted another one.
OwnersCounted ==
    Alone => \A w \in setting.workers :
        /\ (pc[w] = "org.role" /\ loc[w].to # "owner") \/ pc[w] = "org.remove"
        /\ member[loc[w].target] = "owner"
        => Cardinality(Owners) > 1

OrganizationsInv ==
    /\ Shaped
    /\ OrganizationsTypeOK
    /\ InvitesHeld
    /\ InviteBudget
    /\ OwnersCounted

LEMMA OrganizationsInitInv == OrganizationsInit => OrganizationsInv
<1> SUFFICES ASSUME OrganizationsInit PROVE OrganizationsInv
  OBVIOUS
<1>1. Shaped
  BY ShapedInit DEF OrganizationsInit
<1>2. OrganizationsTypeOK
  BY DEF OrganizationsInit, RequestsInit, OrganizationsTypeOK, OrgRole, OrgInvite, NoInvite
<1>3. OwnersCounted
  BY DEF OrganizationsInit, RequestsInit, OwnersCounted
<1>4. ASSUME NEW i \in OrgInvites
      PROVE  Joining(i) = {} /\ Accepting(i) = {} /\ admitted[i] = 0 /\ invites[i] = NoInvite
  BY DEF OrganizationsInit, RequestsInit, Joining, Accepting
<1>5. Cardinality({}) = 0 /\ Cardinality(setting.workers) \in Nat
  BY <1>1, FS_EmptySet, FS_CardinalityType DEF Shaped
<1>6. ASSUME NEW i \in OrgInvites
      PROVE  /\ Cardinality(Joining(i)) = 0 /\ Cardinality(Accepting(i)) = 0
             /\ ~invites[i].accepted /\ ~invites[i].revoked
  BY <1>4, <1>5 DEF NoInvite
<1>7. InviteBudget
  BY <1>4, <1>5, <1>6 DEF InviteBudget, HonouredSoFar, Closed
<1>8. InvitesHeld
  BY <1>6 DEF OrganizationsInit, RequestsInit, InvitesHeld, Closed
<1> QED
  BY <1>1, <1>2, <1>3, <1>7, <1>8 DEF OrganizationsInv

\* The groups of workers are finite and apart.
LEMMA GroupsCount ==
    ASSUME Shaped, NEW i
    PROVE  /\ Joining(i) \in SUBSET setting.workers
           /\ Accepting(i) \in SUBSET setting.workers
           /\ Cardinality(Joining(i)) \in Nat /\ Cardinality(Accepting(i)) \in Nat
           /\ Cardinality(setting.workers) \in Nat
           /\ Cardinality(Joining(i)) + Cardinality(Accepting(i))
                <= Cardinality(setting.workers)
<1>1. /\ Joining(i) \in SUBSET setting.workers
      /\ Accepting(i) \in SUBSET setting.workers
      /\ Joining(i) \cap Accepting(i) = {}
  BY DEF Joining, Accepting
<1> QED
  BY <1>1, WorkersCount, TwoGroups

\* A worker that is elsewhere before and after changes no group.
LEMMA GroupsStay ==
    ASSUME Shaped, NEW w \in setting.workers, NEW label, NEW l, Moved(w, label, l),
           NEW i,
           w \notin Joining(i) \cup Accepting(i),
           label \in {"org.join", "org.accept"} => l.invite # i
    PROVE  Joining(i)' = Joining(i) /\ Accepting(i)' = Accepting(i)
BY DEF Joining, Accepting, Moved

\* Where each statement of a request leaves its worker.
LEMMA OrganizationsMoves ==
    ASSUME Shaped, NEW w \in setting.workers, OrganizationsStep(w)
    PROVE  /\ Shaped'
           /\ setting' = setting
           /\ \E label, l : Moved(w, label, l)
<1>1. \E label, l : Hold(w, label, l)
  <2>1. ASSUME NEW label, Goto(w, label) PROVE \E k, l : Hold(w, k, l)
    BY <2>1 DEF Goto
  <2>2. Finish(w) => \E k, l : Hold(w, k, l)
    BY DEF Finish
  <2>3. CASE CountOwners(w)
    BY <2>1, <2>2, <2>3 DEF CountOwners
  <2>4. CASE Join(w)
    BY <2>1, <2>4 DEF Join
  <2>5. CASE \/ AddOwner(w) \/ SoftDeleteOrg(w) \/ UpdateRole(w) \/ RemoveRow(w)
             \/ CreateInvite(w) \/ RevokeInvite(w) \/ MarkAccepted(w)
             \/ AbortOrganizations(w)
    BY <2>2, <2>5 DEF AddOwner, SoftDeleteOrg, UpdateRole, RemoveRow, CreateInvite,
                      RevokeInvite, MarkAccepted, AbortOrganizations, Abort
  <2>6. CASE \E i \in OrgInvites : BeginAccept(w, i)
    BY <2>6 DEF BeginAccept
  <2>7. CASE \E actor \in Members :
                \/ CreateOrg(w, actor) \/ BeginDeleteOrg(w, actor)
                \/ \E i \in OrgInvites : BeginRevokeInvite(w, actor, i)
                \/ \E u \in Members :
                    \/ BeginRemove(w, actor, u)
                    \/ \E role \in OrgRole : BeginUpdateRole(w, actor, u, role)
                    \/ \E role \in {"admin", "member"} : BeginInvite(w, actor, u, role)
    BY <2>7 DEF CreateOrg, BeginDeleteOrg, BeginRevokeInvite, BeginRemove,
                BeginUpdateRole, BeginInvite
  <2> QED
    BY <2>3, <2>4, <2>5, <2>6, <2>7 DEF OrganizationsStep
<1> QED
  BY <1>1, HoldMoves DEF Moved

LEMMA InviteClosed ==
    ASSUME NEW row \in OrgInvite
    PROVE  /\ [row EXCEPT !.accepted = TRUE] \in OrgInvite
           /\ [row EXCEPT !.revoked = TRUE] \in OrgInvite
           /\ [row EXCEPT !.expired = TRUE] \in OrgInvite
BY DEF OrgInvite

LEMMA OrganizationsTyped ==
    ASSUME Shaped, OrganizationsTypeOK, NEW w \in setting.workers, OrganizationsStep(w)
    PROVE  OrganizationsTypeOK'
<1> USE DEF OrganizationsTypeOK, OrgRole, Moved, organizationTables
<1>1. CASE AddOwner(w)
  <2>1. Moved(w, "idle", Nothing) /\ loc[w].user \in Members
    BY <1>1, FinishMoves DEF AddOwner, At
  <2> QED
    BY <1>1, <2>1 DEF AddOwner
<1>2. CASE SoftDeleteOrg(w)
  <2>1. Moved(w, "idle", Nothing)
    BY <1>2, FinishMoves DEF SoftDeleteOrg
  <2> QED
    BY <1>2, <2>1 DEF SoftDeleteOrg
<1>3. CASE CountOwners(w)
  <2>1. \/ Moved(w, "idle", Nothing)
        \/ Moved(w, IF loc[w].to = "none" THEN "org.remove" ELSE "org.role", loc[w])
    BY <1>3, FinishMoves, GotoMoves DEF CountOwners
  <2> QED
    BY <1>3, <2>1 DEF CountOwners, At
<1>4. CASE UpdateRole(w)
  <2>1. Moved(w, "idle", Nothing) /\ loc[w] \in [target : Members, to : OrgRole \cup {"none"}]
    BY <1>4, FinishMoves DEF UpdateRole, At
  <2> QED
    BY <1>4, <2>1 DEF UpdateRole
<1>5. CASE RemoveRow(w)
  <2>1. Moved(w, "idle", Nothing) /\ loc[w] \in [target : Members, to : OrgRole \cup {"none"}]
    BY <1>5, FinishMoves DEF RemoveRow, At
  <2> QED
    BY <1>5, <2>1 DEF RemoveRow
<1>6. CASE CreateInvite(w)
  <2>1. Moved(w, "idle", Nothing) /\ loc[w] \in [to : Members, role : {"admin", "member"}]
    BY <1>6, FinishMoves DEF CreateInvite, At
  <2>2. PICK i \in OrgInvites :
           invites' = [invites EXCEPT ![i] =
                [NoInvite EXCEPT !.state = "created", !.to = loc[w].to, !.role = loc[w].role]]
    BY <1>6 DEF CreateInvite
  <2>3. [NoInvite EXCEPT !.state = "created", !.to = loc[w].to, !.role = loc[w].role]
            \in OrgInvite
    BY <2>1 DEF NoInvite, OrgInvite
  <2>4. invites' \in [OrgInvites -> OrgInvite]
    BY <2>2, <2>3
  <2> QED
    BY <1>6, <2>1, <2>4 DEF CreateInvite
<1>7. CASE RevokeInvite(w)
  <2>1. Moved(w, "idle", Nothing) /\ loc[w] \in [invite : OrgInvites]
    BY <1>7, FinishMoves DEF RevokeInvite, At
  <2> DEFINE i == loc[w].invite
  <2>2. i \in OrgInvites /\ [invites[i] EXCEPT !.revoked = TRUE] \in OrgInvite
    BY <2>1, InviteClosed
  <2>3. \/ invites' = invites
        \/ invites' = [invites EXCEPT ![i] = [invites[i] EXCEPT !.revoked = TRUE]]
    BY <1>7, <2>2 DEF RevokeInvite
  <2>4. invites' \in [OrgInvites -> OrgInvite]
    BY <2>2, <2>3
  <2> QED
    BY <1>7, <2>1, <2>4 DEF RevokeInvite
<1>8. CASE MarkAccepted(w)
  <2>1. Moved(w, "idle", Nothing) /\ loc[w] \in [invite : OrgInvites]
    BY <1>8, FinishMoves DEF MarkAccepted, At
  <2> DEFINE i == loc[w].invite
  <2>2. i \in OrgInvites /\ [invites[i] EXCEPT !.accepted = TRUE] \in OrgInvite
    BY <2>1, InviteClosed
  <2>3. \/ invites' = invites
        \/ invites' = [invites EXCEPT ![i] = [invites[i] EXCEPT !.accepted = TRUE]]
    BY <1>8, <2>2 DEF MarkAccepted
  <2>4. invites' \in [OrgInvites -> OrgInvite]
    BY <2>2, <2>3
  <2> QED
    BY <1>8, <2>1, <2>4 DEF MarkAccepted
<1>9. CASE Join(w)
  <2> DEFINE i == loc[w].invite
  <2>1. Moved(w, "org.accept", loc[w]) /\ loc[w] \in [invite : OrgInvites]
    BY <1>9, GotoMoves DEF Join, At
  <2>2. invites[i].role \in {"admin", "member"} /\ admitted[i] \in Nat
    BY <2>1 DEF OrgInvite
  <2>3. member' \in [Members -> OrgRole \cup {"none"}] /\ admitted' \in [OrgInvites -> Nat]
    BY <1>9, <2>1, <2>2 DEF Join
  <2> QED
    BY <1>9, <2>1, <2>3 DEF Join
<1>10. ASSUME NEW i \in OrgInvites, BeginAccept(w, i) PROVE OrganizationsTypeOK'
  <2>1. Moved(w, "org.join", [invite |-> i])
    BY <1>10, HoldMoves DEF BeginAccept
  <2> QED
    BY <1>10, <2>1 DEF BeginAccept
<1>11. ASSUME NEW u \in Members, CreateOrg(w, u) PROVE OrganizationsTypeOK'
  <2>1. Moved(w, "org.owner", [user |-> u])
    BY <1>11, HoldMoves DEF CreateOrg
  <2> QED
    BY <1>11, <2>1 DEF CreateOrg
<1>12. ASSUME NEW u \in Members, BeginDeleteOrg(w, u) PROVE OrganizationsTypeOK'
  <2>1. Moved(w, "org.delete", [user |-> u])
    BY <1>12, HoldMoves DEF BeginDeleteOrg
  <2> QED
    BY <1>12, <2>1 DEF BeginDeleteOrg
<1>13. ASSUME NEW u \in Members, NEW i \in OrgInvites, BeginRevokeInvite(w, u, i)
       PROVE  OrganizationsTypeOK'
  <2>1. Moved(w, "org.revoke", [invite |-> i])
    BY <1>13, HoldMoves DEF BeginRevokeInvite
  <2> QED
    BY <1>13, <2>1 DEF BeginRevokeInvite
<1>14. ASSUME NEW actor \in Members, NEW u \in Members, BeginRemove(w, actor, u)
       PROVE  OrganizationsTypeOK'
  <2>1. Moved(w, OwnersFirst(u, "org.remove"), [target |-> u, to |-> "none"])
    BY <1>14, HoldMoves DEF BeginRemove
  <2> QED
    BY <1>14, <2>1 DEF BeginRemove, OwnersFirst
<1>15. ASSUME NEW actor \in Members, NEW u \in Members, NEW role \in OrgRole,
              BeginUpdateRole(w, actor, u, role)
       PROVE  OrganizationsTypeOK'
  <2>1. Moved(w, IF role = "owner" THEN "org.role" ELSE OwnersFirst(u, "org.role"),
              [target |-> u, to |-> role])
    BY <1>15, HoldMoves DEF BeginUpdateRole
  <2> QED
    BY <1>15, <2>1 DEF BeginUpdateRole, OwnersFirst
<1>16. ASSUME NEW actor \in Members, NEW u \in Members, NEW role \in {"admin", "member"},
              BeginInvite(w, actor, u, role)
       PROVE  OrganizationsTypeOK'
  <2>1. Moved(w, "org.invite", [to |-> u, role |-> role])
    BY <1>16, HoldMoves DEF BeginInvite
  <2> QED
    BY <1>16, <2>1 DEF BeginInvite
<1>17. CASE AbortOrganizations(w)
  <2>1. Moved(w, "idle", Nothing)
    BY <1>17, FinishMoves DEF AbortOrganizations, Abort
  <2> QED
    BY <1>17, <2>1 DEF AbortOrganizations
<1> QED
  BY <1>1, <1>2, <1>3, <1>4, <1>5, <1>6, <1>7, <1>8, <1>9, <1>10, <1>11, <1>12, <1>13,
     <1>14, <1>15, <1>16, <1>17 DEF OrganizationsStep

\* Closing an invite sets one of its two marks.
LEMMA InviteMarked ==
    ASSUME OrganizationsTypeOK, NEW i \in OrgInvites
    PROVE  /\ invites' = [invites EXCEPT ![i].accepted = TRUE] /\ ~Closed(i) =>
                /\ Closed(i)' /\ ~(invites'[i].accepted /\ invites'[i].revoked)
                /\ invites'[i].revoked = invites[i].revoked
                /\ invites'[i].state = invites[i].state
                /\ \A j \in OrgInvites \ {i} : invites'[j] = invites[j]
           /\ invites' = [invites EXCEPT ![i].revoked = TRUE] /\ ~Closed(i) =>
                /\ Closed(i)' /\ ~(invites'[i].accepted /\ invites'[i].revoked)
                /\ invites'[i].state = invites[i].state
                /\ \A j \in OrgInvites \ {i} : invites'[j] = invites[j]
           /\ invites' = invites /\ Closed(i) => Closed(i)'
BY DEF OrganizationsTypeOK, OrgInvite, Closed

\* An invite a request under way is about has been created, and stays so.
LEMMA OrganizationsHeld ==
    ASSUME Shaped, OrganizationsTypeOK, InvitesHeld,
           NEW w \in setting.workers, OrganizationsStep(w)
    PROVE  InvitesHeld'
<1>1. CASE UNCHANGED invites
  <2>1. PICK label, l : Moved(w, label, l)
    BY OrganizationsMoves
  <2>2. label \in {"org.revoke", "org.join", "org.accept"} =>
            invites[l.invite].state = "created"
    <3>1. CASE \/ AddOwner(w) \/ SoftDeleteOrg(w) \/ UpdateRole(w) \/ RemoveRow(w)
               \/ CreateInvite(w) \/ RevokeInvite(w) \/ MarkAccepted(w)
               \/ AbortOrganizations(w)
      <4>1. Moved(w, "idle", Nothing)
        BY <3>1, FinishMoves
        DEF AddOwner, SoftDeleteOrg, UpdateRole, RemoveRow, CreateInvite, RevokeInvite,
            MarkAccepted, AbortOrganizations, Abort
      <4> QED
        BY <2>1, <4>1 DEF Moved
    <3>2. CASE CountOwners(w)
      <4>1. \/ Moved(w, "idle", Nothing) \/ Moved(w, "org.remove", loc[w])
            \/ Moved(w, "org.role", loc[w])
        BY <3>2, FinishMoves, GotoMoves DEF CountOwners
      <4> QED
        BY <2>1, <4>1 DEF Moved
    <3>3. CASE Join(w)
      <4>1. Moved(w, "org.accept", loc[w]) /\ invites[loc[w].invite].state = "created"
        BY <3>3, GotoMoves DEF Join, At, InvitesHeld
      <4> QED
        BY <2>1, <4>1 DEF Moved
    <3>4. ASSUME NEW i \in OrgInvites, BeginAccept(w, i)
          PROVE  invites[l.invite].state = "created"
      <4>1. Moved(w, "org.join", [invite |-> i]) /\ invites[i].state = "created"
        BY <3>4, HoldMoves DEF BeginAccept
      <4> QED
        BY <2>1, <4>1 DEF Moved
    <3>5. ASSUME NEW u, NEW i \in OrgInvites, BeginRevokeInvite(w, u, i)
          PROVE  invites[l.invite].state = "created"
      <4>1. Moved(w, "org.revoke", [invite |-> i]) /\ invites[i].state = "created"
        BY <3>5, HoldMoves DEF BeginRevokeInvite
      <4> QED
        BY <2>1, <4>1 DEF Moved
    <3>6. ASSUME NEW actor \in Members,
                 \/ CreateOrg(w, actor) \/ BeginDeleteOrg(w, actor)
                 \/ \E u \in Members :
                    \/ BeginRemove(w, actor, u)
                    \/ \E role \in OrgRole : BeginUpdateRole(w, actor, u, role)
                    \/ \E role \in {"admin", "member"} : BeginInvite(w, actor, u, role)
          PROVE  label \notin {"org.revoke", "org.join", "org.accept"}
      <4>1. \E k \in {"org.owner", "org.delete", "org.count", "org.remove", "org.role",
                      "org.invite"} : \E m : Hold(w, k, m)
        BY <3>6 DEF CreateOrg, BeginDeleteOrg, BeginRemove, BeginUpdateRole, BeginInvite,
                    OwnersFirst
      <4>2. PICK k \in {"org.owner", "org.delete", "org.count", "org.remove", "org.role",
                        "org.invite"} : \E m : Hold(w, k, m)
        BY <4>1
      <4>3. PICK m : Hold(w, k, m)
        BY <4>2
      <4>4. Moved(w, k, m)
        BY <4>3, HoldMoves
      <4> QED
        BY <2>1, <4>4 DEF Moved
    <3> QED
      BY <3>1, <3>2, <3>3, <3>4, <3>5, <3>6 DEF OrganizationsStep
  <2> QED
    BY <1>1, <2>1, <2>2 DEF InvitesHeld, Moved, Closed
<1>2. CASE CreateInvite(w)
  <2>1. PICK i \in OrgInvites :
           /\ invites[i].state = "unused"
           /\ invites' = [invites EXCEPT ![i] =
                [NoInvite EXCEPT !.state = "created", !.to = loc[w].to, !.role = loc[w].role]]
    BY <1>2 DEF CreateInvite
  <2>2. Moved(w, "idle", Nothing)
    BY <1>2, FinishMoves DEF CreateInvite, At
  <2>3. /\ invites'[i].state = "created"
        /\ \A j \in OrgInvites \ {i} : invites'[j] = invites[j]
    BY <2>1 DEF OrganizationsTypeOK, NoInvite
  <2>4. \A j \in OrgInvites : invites[j].state = "created" => invites'[j].state = "created"
    BY <2>3
  <2>5. \A v \in setting.workers : pc[v] \in {"org.revoke", "org.join", "org.accept"} =>
            loc[v].invite \in OrgInvites
    BY DEF OrganizationsTypeOK
  <2>6. \A v \in setting.workers : pc'[v] \in {"org.revoke", "org.join", "org.accept"} =>
            pc[v] = pc'[v] /\ loc[v] = loc'[v]
    BY <2>2 DEF Moved
  <2>7. setting' = setting
    BY <2>2 DEF Moved
  <2> QED
    BY <2>3, <2>4, <2>5, <2>6, <2>7 DEF InvitesHeld, Closed
<1>3. CASE RevokeInvite(w) \/ MarkAccepted(w)
  <2>1. PICK i \in OrgInvites : /\ loc[w] = [invite |-> i]
                                /\ pc[w] \in {"org.revoke", "org.accept"}
    BY <1>3 DEF RevokeInvite, MarkAccepted, At, OrganizationsTypeOK
  <2>2. Moved(w, "idle", Nothing)
    BY <1>3, FinishMoves DEF RevokeInvite, MarkAccepted
  <2>3. /\ invites[i].state = "created"
        /\ \/ invites' = invites
           \/ ~Closed(i) /\ invites' = [invites EXCEPT ![i].revoked = TRUE]
           \/ ~Closed(i) /\ invites' = [invites EXCEPT ![i].accepted = TRUE]
    BY <1>3, <2>1 DEF RevokeInvite, MarkAccepted, InvitesHeld
  <2>4. /\ invites'[i].state = "created"
        /\ \A j \in OrgInvites \ {i} : invites'[j] = invites[j]
    BY <2>3, InviteMarked
  <2>5. \A j \in OrgInvites : invites[j].state = "created" => invites'[j].state = "created"
    BY <2>4
  <2>6. \A v \in setting.workers : pc[v] \in {"org.revoke", "org.join", "org.accept"} =>
            loc[v].invite \in OrgInvites
    BY DEF OrganizationsTypeOK
  <2>7. \A v \in setting.workers : pc'[v] \in {"org.revoke", "org.join", "org.accept"} =>
            pc[v] = pc'[v] /\ loc[v] = loc'[v]
    BY <2>2 DEF Moved
  <2>8. setting' = setting
    BY <2>2 DEF Moved
  <2> QED
    BY <2>4, <2>5, <2>6, <2>7, <2>8 DEF InvitesHeld, Closed
<1> QED
  BY <1>1, <1>2, <1>3
  DEF OrganizationsStep, AddOwner, SoftDeleteOrg, UpdateRole, RemoveRow, CountOwners, Join,
      BeginAccept, CreateOrg, BeginDeleteOrg, BeginRevokeInvite, BeginRemove,
      BeginUpdateRole, BeginInvite, AbortOrganizations, organizationTables

\* Invites whose row, count and groups stay.
LEMMA OthersHonoured ==
    ASSUME InviteBudget, setting' = setting, NEW i \in OrgInvites, HonouredSoFar(i)',
           \A j \in OrgInvites \ {i} :
                /\ invites'[j] = invites[j] /\ admitted'[j] = admitted[j]
                /\ Joining(j)' = Joining(j) /\ Accepting(j)' = Accepting(j)
    PROVE  InviteBudget'
<1>1. ASSUME NEW j \in OrgInvites \ {i} PROVE HonouredSoFar(j)'
  BY <1>1 DEF InviteBudget, HonouredSoFar, Closed, Unfailing, Calm, Alone
<1> QED
  BY <1>1 DEF InviteBudget

\* A request that has nothing to do with an invite under way.
LEMMA BudgetStays ==
    ASSUME Shaped, InviteBudget, NEW w \in setting.workers, NEW label, NEW l,
           Moved(w, label, l),
           pc[w] \notin {"org.join", "org.accept"}, label \notin {"org.join", "org.accept"},
           UNCHANGED <<invites, admitted>>
    PROVE  InviteBudget'
<1>1. ASSUME NEW i \in OrgInvites
      PROVE  Joining(i)' = Joining(i) /\ Accepting(i)' = Accepting(i)
  <2>1. w \notin Joining(i) \cup Accepting(i)
    BY DEF Joining, Accepting
  <2> QED
    BY <2>1, GroupsStay
<1> QED
  BY <1>1 DEF InviteBudget, HonouredSoFar, Closed, Unfailing, Calm, Alone, Moved

LEMMA OrganizationsBudget ==
    ASSUME Shaped, OrganizationsTypeOK, InvitesHeld, InviteBudget,
           NEW w \in setting.workers, OrganizationsStep(w)
    PROVE  InviteBudget'
<1> USE DEF organizationTables
<1>1. CASE \/ AddOwner(w) \/ SoftDeleteOrg(w) \/ UpdateRole(w) \/ RemoveRow(w)
  <2>1. /\ Moved(w, "idle", Nothing) /\ pc[w] \notin {"org.join", "org.accept"}
        /\ UNCHANGED <<invites, admitted>>
    BY <1>1, FinishMoves DEF AddOwner, SoftDeleteOrg, UpdateRole, RemoveRow, At
  <2> QED
    BY <2>1, BudgetStays
<1>2. CASE CountOwners(w)
  <2>1. /\ \/ Moved(w, "idle", Nothing)
           \/ Moved(w, "org.remove", loc[w])
           \/ Moved(w, "org.role", loc[w])
        /\ pc[w] \notin {"org.join", "org.accept"} /\ UNCHANGED <<invites, admitted>>
    BY <1>2, FinishMoves, GotoMoves DEF CountOwners, At
  <2> QED
    BY <2>1, BudgetStays
<1>3. CASE \E u \in Members : CreateOrg(w, u) \/ BeginDeleteOrg(w, u)
  <2>1. PICK u \in Members : CreateOrg(w, u) \/ BeginDeleteOrg(w, u)
    BY <1>3
  <2>2. /\ Moved(w, "org.owner", [user |-> u]) \/ Moved(w, "org.delete", [user |-> u])
        /\ pc[w] \notin {"org.join", "org.accept"} /\ UNCHANGED <<invites, admitted>>
    BY <2>1, HoldMoves DEF CreateOrg, BeginDeleteOrg, Idle
  <2> QED
    BY <2>2, BudgetStays
<1>4. ASSUME NEW u \in Members, NEW i \in OrgInvites, BeginRevokeInvite(w, u, i)
      PROVE  InviteBudget'
  <2>1. /\ Moved(w, "org.revoke", [invite |-> i])
        /\ pc[w] \notin {"org.join", "org.accept"} /\ UNCHANGED <<invites, admitted>>
    BY <1>4, HoldMoves DEF BeginRevokeInvite, Idle
  <2> QED
    BY <2>1, BudgetStays
<1>5. ASSUME NEW actor \in Members, NEW u \in Members, BeginRemove(w, actor, u)
      PROVE  InviteBudget'
  <2>1. /\ Moved(w, OwnersFirst(u, "org.remove"), [target |-> u, to |-> "none"])
        /\ pc[w] \notin {"org.join", "org.accept"} /\ UNCHANGED <<invites, admitted>>
    BY <1>5, HoldMoves DEF BeginRemove, Idle
  <2>2. OwnersFirst(u, "org.remove") \notin {"org.join", "org.accept"}
    BY DEF OwnersFirst
  <2> QED
    BY <2>1, <2>2, BudgetStays
<1>6. ASSUME NEW actor \in Members, NEW u \in Members, NEW role \in OrgRole,
             BeginUpdateRole(w, actor, u, role)
      PROVE  InviteBudget'
  <2> DEFINE label == IF role = "owner" THEN "org.role" ELSE OwnersFirst(u, "org.role")
  <2>1. /\ Moved(w, label, [target |-> u, to |-> role])
        /\ pc[w] \notin {"org.join", "org.accept"} /\ UNCHANGED <<invites, admitted>>
    BY <1>6, HoldMoves DEF BeginUpdateRole, Idle
  <2>2. label \notin {"org.join", "org.accept"}
    BY DEF OwnersFirst
  <2> QED
    BY <2>1, <2>2, BudgetStays
<1>7. ASSUME NEW actor \in Members, NEW u \in Members, NEW role \in {"admin", "member"},
             BeginInvite(w, actor, u, role)
      PROVE  InviteBudget'
  <2>1. /\ Moved(w, "org.invite", [to |-> u, role |-> role])
        /\ pc[w] \notin {"org.join", "org.accept"} /\ UNCHANGED <<invites, admitted>>
    BY <1>7, HoldMoves DEF BeginInvite, Idle
  <2> QED
    BY <2>1, BudgetStays
<1>8. CASE AbortOrganizations(w)
  <2>1. Moved(w, "idle", Nothing) /\ ~Unfailing /\ UNCHANGED <<invites, admitted>>
    BY <1>8, FinishMoves DEF AbortOrganizations, Abort, Unfailing
  <2> QED
    BY <2>1 DEF InviteBudget, HonouredSoFar, Closed, Unfailing, Calm, Moved
<1>9. ASSUME NEW i \in OrgInvites, BeginAccept(w, i) PROVE InviteBudget'
  <2>1. /\ Moved(w, "org.join", [invite |-> i]) /\ pc[w] = "idle" /\ ~Closed(i)
        /\ UNCHANGED <<invites, admitted>>
    BY <1>9, HoldMoves DEF BeginAccept, Idle
  <2>2. /\ w \in setting.workers \ (Joining(i) \cup Accepting(i))
        /\ Joining(i)' = Joining(i) \cup {w} /\ Accepting(i)' = Accepting(i)
    BY <2>1 DEF Joining, Accepting, Moved
  <2>3. \A j \in OrgInvites \ {i} :
            Joining(j)' = Joining(j) /\ Accepting(j)' = Accepting(j)
    BY <2>1 DEF Joining, Accepting, Moved
  <2>4. /\ Cardinality(Joining(i)') = Cardinality(Joining(i)) + 1
        /\ Joining(i)' \cap Accepting(i) = {}
        /\ Joining(i)' \in SUBSET setting.workers
    BY <2>2, GroupsCount, WorkersCount DEF Joining, Accepting
  <2>5. /\ Cardinality(Joining(i)') + Cardinality(Accepting(i)) <= Cardinality(setting.workers)
        /\ Cardinality(Joining(i)) \in Nat /\ Cardinality(Accepting(i)) \in Nat
        /\ Cardinality(setting.workers) \in Nat
    BY <2>4, GroupsCount, TwoGroups
  <2>6. admitted[i] \in Nat
    BY DEF OrganizationsTypeOK
  <2>7. Unfailing => admitted[i] + Cardinality(Joining(i)') <= Cardinality(setting.workers)
    BY <2>1, <2>4, <2>5, <2>6 DEF InviteBudget, HonouredSoFar
  <2> QED
    BY <2>1, <2>2, <2>3, <2>7 DEF InviteBudget, HonouredSoFar, Closed, Unfailing, Calm, Alone, Moved
<1>10. CASE Join(w)
  <2>0. PICK i \in OrgInvites : loc[w] = [invite |-> i]
    BY <1>10 DEF Join, At, OrganizationsTypeOK
  <2>1. /\ Moved(w, "org.accept", loc[w]) /\ pc[w] = "org.join"
        /\ invites' = invites
    BY <1>10, <2>0, GotoMoves DEF Join, At, OrganizationsTypeOK
  <2>2. /\ i \in OrgInvites /\ w \in Joining(i) /\ w \in setting.workers \ Accepting(i)
        /\ Joining(i)' = Joining(i) \ {w} /\ Accepting(i)' = Accepting(i) \cup {w}
    BY <2>0, <2>1 DEF Joining, Accepting, Moved
  <2>3. \A j \in OrgInvites \ {i} :
            Joining(j)' = Joining(j) /\ Accepting(j)' = Accepting(j)
    BY <2>0, <2>1 DEF Joining, Accepting, Moved
  <2>4. /\ Cardinality(Joining(i)') = Cardinality(Joining(i)) - 1
        /\ Cardinality(Accepting(i)') = Cardinality(Accepting(i)) + 1
        /\ Cardinality(Joining(i)) \in Nat /\ Cardinality(Accepting(i)) \in Nat
        /\ Cardinality(setting.workers) \in Nat
    BY <2>2, GroupsCount, WorkersCount
  <2>5. admitted \in [OrgInvites -> Nat]
    BY DEF OrganizationsTypeOK
  <2>6. /\ admitted'[i] \in {admitted[i], admitted[i] + 1}
        /\ \A j \in OrgInvites \ {i} : admitted'[j] = admitted[j]
    BY <1>10, <2>0, <2>2, <2>5 DEF Join
  <2>7. /\ Unfailing => /\ admitted'[i] + Cardinality(Joining(i)') <= Cardinality(setting.workers)
                        /\ ~Closed(i) => admitted'[i] <= Cardinality(Accepting(i)')
        /\ Calm => ~invites[i].revoked
    BY <2>2, <2>4, <2>5, <2>6 DEF InviteBudget, HonouredSoFar
  <2> QED
    BY <2>1, <2>2, <2>3, <2>6, <2>7 DEF InviteBudget, HonouredSoFar, Closed, Unfailing, Calm, Alone, Moved
<1>11. CASE MarkAccepted(w)
  <2>0. PICK i \in OrgInvites : loc[w] = [invite |-> i]
    BY <1>11 DEF MarkAccepted, At, OrganizationsTypeOK
  <2>1. /\ Moved(w, "idle", Nothing) /\ pc[w] = "org.accept"
        /\ admitted' = admitted
    BY <1>11, <2>0, FinishMoves DEF MarkAccepted, At, OrganizationsTypeOK
  <2>2. /\ i \in OrgInvites
        /\ \A j \in OrgInvites : Joining(j)' = Joining(j)
        /\ \A j \in OrgInvites \ {i} : Accepting(j)' = Accepting(j)
    BY <2>0, <2>1 DEF Joining, Accepting, Moved
  <2>3. HonouredSoFar(i)
    BY <2>2 DEF InviteBudget
  <2>4. /\ Closed(i)' /\ ~(invites'[i].accepted /\ invites'[i].revoked)
        /\ invites'[i].revoked = invites[i].revoked
        /\ \A j \in OrgInvites \ {i} : invites'[j] = invites[j]
    <3>1. CASE Closed(i)
      BY <1>11, <2>0, <2>2, <2>3, <3>1, InviteMarked DEF MarkAccepted, HonouredSoFar
    <3>2. CASE ~Closed(i)
      <4>1. invites' = [invites EXCEPT ![i].accepted = TRUE]
        BY <1>11, <2>0, <3>2 DEF MarkAccepted
      <4> QED
        BY <2>2, <3>2, <4>1, InviteMarked
    <3> QED
      BY <3>1, <3>2
  <2>5. HonouredSoFar(i)'
    BY <2>1, <2>2, <2>3, <2>4, Zenon DEF HonouredSoFar, Unfailing, Calm, Alone, Moved
  <2> QED
    BY <2>1, <2>2, <2>4, <2>5, OthersHonoured DEF Moved
<1>12. CASE RevokeInvite(w)
  <2>0. PICK i \in OrgInvites : loc[w] = [invite |-> i]
    BY <1>12 DEF RevokeInvite, At, OrganizationsTypeOK
  <2>1. /\ Moved(w, "idle", Nothing) /\ pc[w] = "org.revoke"
        /\ admitted' = admitted
    BY <1>12, <2>0, FinishMoves DEF RevokeInvite, At, OrganizationsTypeOK
  <2>2. /\ i \in OrgInvites
        /\ \A j \in OrgInvites : Joining(j)' = Joining(j) /\ Accepting(j)' = Accepting(j)
    BY <2>0, <2>1 DEF Joining, Accepting, Moved
  <2>7. HonouredSoFar(i)
    BY <2>2 DEF InviteBudget
  <2>3. /\ Closed(i)' /\ ~(invites'[i].accepted /\ invites'[i].revoked)
        /\ \A j \in OrgInvites \ {i} : invites'[j] = invites[j]
    <3>1. CASE Closed(i)
      BY <1>12, <2>0, <2>2, <2>7, <3>1, InviteMarked DEF RevokeInvite, HonouredSoFar
    <3>2. CASE ~Closed(i)
      <4>1. invites' = [invites EXCEPT ![i].revoked = TRUE]
        BY <1>12, <2>0, <3>2 DEF RevokeInvite
      <4> QED
        BY <2>2, <3>2, <4>1, InviteMarked
    <3> QED
      BY <3>1, <3>2
  <2>4. Calm /\ ~Closed(i) => admitted[i] = 0 /\ Joining(i) = {}
    <3> SUFFICES ASSUME Calm, ~Closed(i) PROVE admitted[i] = 0 /\ Joining(i) = {}
      OBVIOUS
    <3>1. \A v \in setting.workers : v = w
      BY AloneOne DEF Calm
    <3>2. Joining(i) = {} /\ Accepting(i) = {}
      BY <2>0, <2>1, <3>1 DEF Joining, Accepting
    <3>3. admitted[i] <= 0 /\ admitted[i] \in Nat
      BY <2>2, <3>2, FS_EmptySet DEF InviteBudget, HonouredSoFar, Calm, OrganizationsTypeOK
    <3> QED
      BY <3>2, <3>3
  <2>5. Closed(i) => invites' = invites
    BY <1>12, <2>0 DEF RevokeInvite
  <2>6. Calm /\ invites'[i].revoked => admitted[i] = 0 /\ Joining(i) = {}
    BY <2>2, <2>4, <2>5 DEF InviteBudget, HonouredSoFar
  <2>8. HonouredSoFar(i)'
    BY <2>1, <2>2, <2>3, <2>6, <2>7, Zenon DEF HonouredSoFar, Unfailing, Calm, Alone, Moved
  <2> QED
    BY <2>1, <2>2, <2>3, <2>8, OthersHonoured DEF Moved
<1>13. CASE CreateInvite(w)
  <2>1. PICK i \in OrgInvites :
           /\ invites[i].state = "unused"
           /\ invites' = [invites EXCEPT ![i] =
                [NoInvite EXCEPT !.state = "created", !.to = loc[w].to, !.role = loc[w].role]]
    BY <1>13 DEF CreateInvite
  <2>2. Moved(w, "idle", Nothing) /\ pc[w] = "org.invite" /\ admitted' = admitted
    BY <1>13, FinishMoves DEF CreateInvite, At
  <2>3. \A j \in OrgInvites : Joining(j)' = Joining(j) /\ Accepting(j)' = Accepting(j)
    BY <2>2 DEF Joining, Accepting, Moved
  <2>4. /\ ~invites'[i].accepted /\ ~invites'[i].revoked /\ ~Closed(i)
        /\ \A j \in OrgInvites \ {i} : invites'[j] = invites[j]
    BY <2>1 DEF OrganizationsTypeOK, NoInvite, InvitesHeld
  <2> QED
    BY <2>2, <2>3, <2>4 DEF InviteBudget, HonouredSoFar, Closed, Unfailing, Calm, Alone, Moved
<1> QED
  BY <1>1, <1>2, <1>3, <1>4, <1>5, <1>6, <1>7, <1>8, <1>9, <1>10, <1>11, <1>12, <1>13
  DEF OrganizationsStep

LEMMA OrganizationsOwners ==
    ASSUME Shaped, OrganizationsTypeOK, OwnersCounted,
           NEW w \in setting.workers, OrganizationsStep(w)
    PROVE  OwnersCounted'
<1> SUFFICES ASSUME Alone'
             PROVE  (pc'[w] = "org.role" /\ loc'[w].to # "owner") \/ pc'[w] = "org.remove" =>
                        (member'[loc'[w].target] = "owner" => Cardinality(Owners') > 1)
  <2>1. Shaped' /\ setting' = setting
    BY OrganizationsMoves
  <2>2. Alone' => Alone
    BY <2>1 DEF Alone
  <2>3. Alone' => \A v \in setting'.workers : v = w
    BY <2>1, <2>2, AloneOne
  <2> QED
    BY <2>3 DEF OwnersCounted
<1>1. CASE \/ AddOwner(w) \/ SoftDeleteOrg(w) \/ UpdateRole(w) \/ RemoveRow(w)
           \/ CreateInvite(w) \/ RevokeInvite(w) \/ MarkAccepted(w)
           \/ AbortOrganizations(w)
  <2>1. Moved(w, "idle", Nothing)
    BY <1>1, FinishMoves
    DEF AddOwner, SoftDeleteOrg, UpdateRole, RemoveRow, CreateInvite, RevokeInvite,
        MarkAccepted, AbortOrganizations, Abort
  <2> QED
    BY <2>1 DEF Moved
<1>2. CASE CountOwners(w)
  <2>1. /\ \/ Moved(w, "idle", Nothing)
           \/ ~(Cardinality(Owners) <= 1)
        /\ UNCHANGED member
    BY <1>2, FinishMoves DEF CountOwners, organizationTables
  <2>2. Owners' = Owners /\ Cardinality(Owners) \in Nat
    <3>1. IsFiniteSet(Owners)
      BY OrganizationsAssumption, FS_Subset DEF Owners
    <3> QED
      BY <2>1, <3>1, FS_CardinalityType DEF Owners
  <2> QED
    BY <2>1, <2>2 DEF Moved
<1>3. CASE Join(w)
  <2>1. Moved(w, "org.accept", loc[w])
    BY <1>3, GotoMoves DEF Join
  <2> QED
    BY <2>1 DEF Moved
<1>4. ASSUME NEW actor, NEW u \in Members, BeginRemove(w, actor, u)
      PROVE  pc'[w] = "org.remove" => member'[loc'[w].target] # "owner"
  <2>1. Moved(w, OwnersFirst(u, "org.remove"), [target |-> u, to |-> "none"])
    BY <1>4, HoldMoves DEF BeginRemove
  <2>2. UNCHANGED member /\ RoleOf(u) # "none"
    BY <1>4 DEF BeginRemove, organizationTables
  <2> QED
    BY <2>1, <2>2 DEF OwnersFirst, RoleOf, Moved
<1>5. ASSUME NEW actor, NEW u \in Members, NEW role \in OrgRole,
             BeginUpdateRole(w, actor, u, role)
      PROVE  pc'[w] = "org.role" /\ loc'[w].to # "owner" => member'[loc'[w].target] # "owner"
  <2>1. Moved(w, IF role = "owner" THEN "org.role" ELSE OwnersFirst(u, "org.role"),
              [target |-> u, to |-> role])
    BY <1>5, HoldMoves DEF BeginUpdateRole
  <2>2. UNCHANGED member /\ RoleOf(u) # "none"
    BY <1>5 DEF BeginUpdateRole, organizationTables
  <2> QED
    BY <2>1, <2>2 DEF OwnersFirst, RoleOf, Moved
<1>6. ASSUME NEW actor \in Members,
             \/ CreateOrg(w, actor) \/ BeginDeleteOrg(w, actor)
             \/ \E i \in OrgInvites : BeginAccept(w, i) \/ BeginRevokeInvite(w, actor, i)
             \/ \E u \in Members, role \in {"admin", "member"} :
                    BeginInvite(w, actor, u, role)
      PROVE  pc'[w] \notin {"org.role", "org.remove"}
  <2>1. PICK k \in {"org.owner", "org.delete", "org.join", "org.revoke", "org.invite"} :
            \E m : Hold(w, k, m)
    BY <1>6 DEF CreateOrg, BeginDeleteOrg, BeginAccept, BeginRevokeInvite, BeginInvite
  <2>2. PICK m : Hold(w, k, m)
    BY <2>1
  <2>3. Moved(w, k, m)
    BY <2>2, HoldMoves
  <2> QED
    BY <2>3 DEF Moved
<1>7. ASSUME NEW i \in OrgInvites, BeginAccept(w, i) PROVE pc'[w] \notin {"org.role", "org.remove"}
  <2>1. Moved(w, "org.join", [invite |-> i])
    BY <1>7, HoldMoves DEF BeginAccept
  <2> QED
    BY <2>1 DEF Moved
<1>8. ASSUME NEW actor \in Members, NEW u \in Members, BeginRemove(w, actor, u)
      PROVE  pc'[w] # "org.role"
  <2>1. Moved(w, OwnersFirst(u, "org.remove"), [target |-> u, to |-> "none"])
    BY <1>8, HoldMoves DEF BeginRemove
  <2> QED
    BY <2>1 DEF OwnersFirst, Moved
<1>9. ASSUME NEW actor \in Members, NEW u \in Members, NEW role \in OrgRole,
             BeginUpdateRole(w, actor, u, role)
      PROVE  pc'[w] # "org.remove"
  <2>1. Moved(w, IF role = "owner" THEN "org.role" ELSE OwnersFirst(u, "org.role"),
              [target |-> u, to |-> role])
    BY <1>9, HoldMoves DEF BeginUpdateRole
  <2> QED
    BY <2>1 DEF OwnersFirst, Moved
<1> QED
  BY <1>1, <1>2, <1>3, <1>4, <1>5, <1>6, <1>7, <1>8, <1>9 DEF OrganizationsStep

LEMMA OrganizationsInvNext ==
    ASSUME OrganizationsInv, [OrganizationsNext]_organizationVars
    PROVE  OrganizationsInv'
<1>1. Shaped /\ OrganizationsTypeOK /\ InvitesHeld /\ InviteBudget /\ OwnersCounted
  BY DEF OrganizationsInv
<1>2. ASSUME NEW w \in setting.workers, OrganizationsStep(w) PROVE OrganizationsInv'
  BY <1>1, <1>2, OrganizationsMoves, OrganizationsTyped, OrganizationsHeld,
     OrganizationsBudget, OrganizationsOwners DEF OrganizationsInv
<1>3. ASSUME UNCHANGED <<requests, org, member, admitted>>,
             \/ UNCHANGED invites /\ gone' \subseteq Members
             \/ /\ gone' = gone
                /\ \E i \in OrgInvites : invites' = [invites EXCEPT ![i].expired = TRUE]
      PROVE  OrganizationsInv'
  <2>1. Shaped' /\ setting' = setting /\ pc' = pc /\ loc' = loc
    BY <1>1, <1>3, StayShaped
  <2>2. /\ invites' \in [OrgInvites -> OrgInvite]
        /\ \A i \in OrgInvites : /\ invites'[i].state = invites[i].state
                                 /\ invites'[i].accepted = invites[i].accepted
                                 /\ invites'[i].revoked = invites[i].revoked
    <3>1. CASE UNCHANGED invites
      BY <1>1, <3>1 DEF OrganizationsTypeOK
    <3>2. ASSUME NEW j \in OrgInvites, invites' = [invites EXCEPT ![j].expired = TRUE]
          PROVE  /\ invites' \in [OrgInvites -> OrgInvite]
                 /\ \A i \in OrgInvites : /\ invites'[i].state = invites[i].state
                                          /\ invites'[i].accepted = invites[i].accepted
                                          /\ invites'[i].revoked = invites[i].revoked
      <4>1. invites[j] \in OrgInvite /\ invites \in [OrgInvites -> OrgInvite]
        BY <1>1 DEF OrganizationsTypeOK
      <4>2. invites' = [invites EXCEPT ![j] = [invites[j] EXCEPT !.expired = TRUE]]
        BY <3>2, <4>1
      <4>3. [invites[j] EXCEPT !.expired = TRUE] \in OrgInvite
        BY <4>1, InviteClosed
      <4>4. invites' \in [OrgInvites -> OrgInvite]
        BY <4>1, <4>2, <4>3
      <4>5. /\ invites'[j].state = invites[j].state
            /\ invites'[j].accepted = invites[j].accepted
            /\ invites'[j].revoked = invites[j].revoked
            /\ \A i \in OrgInvites \ {j} : invites'[i] = invites[i]
        BY <4>1, <4>2 DEF OrgInvite
      <4> QED
        BY <4>4, <4>5
    <3> QED
      BY <1>3, <3>1, <3>2
  <2>3. gone' \subseteq Members
    BY <1>1, <1>3 DEF OrganizationsTypeOK
  <2>4. OrganizationsTypeOK'
    BY <1>1, <1>3, <2>1, <2>2, <2>3 DEF OrganizationsTypeOK
  <2>5. InvitesHeld'
    BY <1>1, <2>1, <2>2 DEF InvitesHeld, Closed, OrganizationsTypeOK
  <2>6. InviteBudget'
    BY <1>1, <1>3, <2>1, <2>2
    DEF InviteBudget, HonouredSoFar, Closed, Joining, Accepting, Unfailing, Calm, Alone
  <2>7. OwnersCounted'
    BY <1>1, <1>3, <2>1 DEF OwnersCounted, Owners, Alone
  <2> QED
    BY <2>1, <2>4, <2>5, <2>6, <2>7 DEF OrganizationsInv
<1>4. ASSUME NEW i \in OrgInvites, ExpireInvite(i) PROVE OrganizationsInv'
  BY <1>3, <1>4 DEF ExpireInvite
<1>5. ASSUME NEW u \in Deletable, DeleteAccount(u) PROVE OrganizationsInv'
  BY <1>1, <1>3, <1>5, OrganizationsAssumption DEF DeleteAccount, OrganizationsTypeOK
<1>6. CASE UNCHANGED organizationVars
  BY <1>1, <1>3, <1>6 DEF organizationVars, organizationTables, OrganizationsTypeOK
<1> QED
  BY <1>2, <1>4, <1>5, <1>6 DEF OrganizationsNext

\* AcceptInvite tests, adds and marks in three statements (organization.go:259,
\* :281, :288): for any number of requests, users and invites, no invite ends both
\* accepted and revoked, it adds no more rows than requests run at a time, and
\* requests that run one at a time never leave a member of a revoked invite.
THEOREM InvitesTheorem == OrganizationsSpec => []InvitesHonoured
<1>1. OrganizationsInv => InvitesHonoured
  <2> SUFFICES ASSUME OrganizationsInv, NEW i \in OrgInvites
               PROVE  /\ ~(invites[i].accepted /\ invites[i].revoked)
                      /\ Unfailing => admitted[i] <= Cardinality(setting.workers)
                      /\ Calm /\ invites[i].revoked => admitted[i] = 0
    BY DEF InvitesHonoured
  <2>1. Shaped /\ OrganizationsTypeOK /\ HonouredSoFar(i)
    BY DEF OrganizationsInv, InviteBudget
  <2>2. /\ Cardinality(Joining(i)) \in Nat /\ Cardinality(setting.workers) \in Nat
        /\ admitted[i] \in Nat
    BY <2>1, GroupsCount DEF OrganizationsTypeOK
  <2> QED
    BY <2>1, <2>2 DEF HonouredSoFar
<1> QED
  BY <1>1, OrganizationsInitInv, OrganizationsInvNext, PTL DEF OrganizationsSpec

\* "cannot demote the last owner", "cannot remove the last owner"
\* (organization.go:163, :190): for any number of users, requests that run one at
\* a time, failing or not, never leave an organization that has an owner without.
THEOREM OwnerTheorem == OrganizationsSpec => LastOwnerStays
<1> DEFINE Stays == Alone /\ Owners # {} => Owners' # {}
<1>1. ASSUME OrganizationsInv, [OrganizationsNext]_organizationVars
      PROVE  [Stays]_organizationVars
  <2>1. Shaped /\ OrganizationsTypeOK /\ OwnersCounted
    BY <1>1 DEF OrganizationsInv
  <2>2. UNCHANGED member => Stays
    BY DEF Owners
  <2>3. ASSUME NEW u \in Members, member' = [member EXCEPT ![u] = "owner"] PROVE Stays
    BY <2>1, <2>3 DEF Owners, OrganizationsTypeOK
  <2>4. ASSUME NEW u \in Members, member[u] = "none", NEW r,
               member' = [member EXCEPT ![u] = r]
        PROVE  Stays
    BY <2>1, <2>4 DEF Owners, OrganizationsTypeOK
  <2>5. ASSUME NEW u \in Members, Alone => (member[u] = "owner" => Cardinality(Owners) > 1),
               NEW r, member' = [member EXCEPT ![u] = r]
        PROVE  Stays
    <3> SUFFICES ASSUME Alone, Owners # {} PROVE Owners' # {}
      OBVIOUS
    <3>1. IsFiniteSet(Owners)
      BY OrganizationsAssumption, FS_Subset DEF Owners
    <3>2. \E v \in Owners : v # u
      <4>1. CASE member[u] # "owner"
        BY <4>1 DEF Owners
      <4>2. CASE member[u] = "owner"
        <5>1. /\ u \in Owners /\ Cardinality(Owners) > 1
              /\ Cardinality(Owners \ {u}) = Cardinality(Owners) - 1
              /\ Cardinality(Owners) \in Nat
          BY <2>5, <3>1, <4>2, FS_RemoveElement, FS_CardinalityType DEF Owners
        <5>2. Cardinality(Owners \ {u}) # 0
          BY <5>1
        <5>3. Owners \ {u} # {}
          BY <5>2, FS_EmptySet
        <5> QED
          BY <5>3
      <4> QED
        BY <4>1, <4>2
    <3> QED
      BY <2>1, <2>5, <3>2 DEF Owners, OrganizationsTypeOK
  <2>6. ASSUME NEW w \in setting.workers, OrganizationsStep(w) PROVE Stays
    <3>1. CASE AddOwner(w)
      <4>1. loc[w].user \in Members
        BY <2>1, <3>1 DEF AddOwner, At, OrganizationsTypeOK
      <4> QED
        BY <2>2, <2>3, <3>1, <4>1 DEF AddOwner
    <3>2. CASE UpdateRole(w)
      <4>1. loc[w].target \in Members /\ pc[w] = "org.role"
        BY <2>1, <3>2 DEF UpdateRole, At, OrganizationsTypeOK
      <4>2. UNCHANGED member \/ member' = [member EXCEPT ![loc[w].target] = loc[w].to]
        BY <3>2 DEF UpdateRole
      <4>3. CASE loc[w].to = "owner"
        BY <2>2, <2>3, <4>1, <4>2, <4>3
      <4>4. CASE loc[w].to # "owner"
        BY <2>1, <2>2, <2>5, <4>1, <4>2, <4>4 DEF OwnersCounted
      <4> QED
        BY <4>3, <4>4
    <3>3. CASE RemoveRow(w)
      <4>1. /\ loc[w].target \in Members /\ pc[w] = "org.remove"
            /\ member' = [member EXCEPT ![loc[w].target] = "none"]
        BY <2>1, <3>3 DEF RemoveRow, At, OrganizationsTypeOK
      <4> QED
        BY <2>1, <2>5, <4>1 DEF OwnersCounted
    <3>4. CASE Join(w)
      <4>1. UNCHANGED member \/ \E u, r : /\ member[u] = "none"
                                          /\ member' = [member EXCEPT ![u] = r]
        BY <3>4 DEF Join
      <4>2. ASSUME NEW u, NEW r, member[u] = "none", member' = [member EXCEPT ![u] = r]
            PROVE  Stays
        BY <2>1, <4>2 DEF Owners, OrganizationsTypeOK
      <4> QED
        BY <2>2, <4>1, <4>2
    <3> QED
      BY <2>2, <2>6, <3>1, <3>2, <3>3, <3>4
      DEF OrganizationsStep, SoftDeleteOrg, CountOwners, CreateInvite, RevokeInvite,
          MarkAccepted, BeginAccept, CreateOrg, BeginDeleteOrg, BeginRevokeInvite,
          BeginRemove, BeginUpdateRole, BeginInvite, AbortOrganizations,
          organizationTables
  <2> QED
    BY <1>1, <2>2, <2>6
    DEF OrganizationsNext, ExpireInvite, DeleteAccount, organizationVars, organizationTables
<1> QED
  BY <1>1, OrganizationsInitInv, OrganizationsInvNext, PTL
  DEF OrganizationsSpec, LastOwnerStays

-------------------------------------------------------------------------------
(* Accounts: type correctness                                              *)

LEMMA AccountsTypedInit == AccountsInit => AccountsTypeOK
BY AccountsAssumption
DEF AccountsInit, RequestsInit, AccountsTypeOK, User, Session, NoSession, TokenState

\* What a token that is revoked keeps.
LEMMA RevokedKeeps ==
    ASSUME NEW s \in Session
    PROVE  /\ Revoked(s) \in Session
           /\ Revoked(s).from = s.from /\ Revoked(s).password = s.password
           /\ Revoked(s).state # "live"
           /\ Revoked(s).state = "unused" <=> s.state = "unused"
BY DEF Revoked, Session, TokenState

\* Sessions are at most revoked: none becomes live, none changes its origin.
OnlyRevoked ==
    /\ sessions' \in [Tokens -> Session]
    /\ \A t \in Tokens :
        /\ sessions'[t].from = sessions[t].from
        /\ sessions'[t].password = sessions[t].password
        /\ sessions'[t].state = "live" => sessions[t].state = "live"
        /\ sessions'[t].state = "unused" <=> sessions[t].state = "unused"

LEMMA RevokingOne ==
    ASSUME AccountsTypeOK, NEW t, sessions' = [sessions EXCEPT ![t] = Revoked(@)]
    PROVE  OnlyRevoked /\ (t \in Tokens => sessions'[t].state # "live")
<1>1. sessions \in [Tokens -> Session]
  BY DEF AccountsTypeOK
<1>2. CASE t \in Tokens
  <2>1. sessions'[t] = Revoked(sessions[t]) /\ sessions[t] \in Session
    BY <1>1, <1>2
  <2>2. \A s \in Tokens \ {t} : sessions'[s] = sessions[s]
    BY <1>1
  <2>3. sessions' \in [Tokens -> Session]
    BY <1>1, <2>1, RevokedKeeps
  <2> QED
    BY <1>1, <2>1, <2>2, <2>3, RevokedKeeps DEF OnlyRevoked
<1>3. CASE t \notin Tokens
  BY <1>1, <1>3 DEF OnlyRevoked
<1> QED
  BY <1>2, <1>3

LEMMA RevokingAll ==
    ASSUME AccountsTypeOK, sessions' = [t \in Tokens |-> Revoked(sessions[t])]
    PROVE  OnlyRevoked /\ \A t \in Tokens : sessions'[t].state # "live"
<1>1. \A t \in Tokens : sessions[t] \in Session /\ sessions'[t] = Revoked(sessions[t])
  BY DEF AccountsTypeOK
<1>2. sessions' \in [Tokens -> Session]
  BY <1>1, RevokedKeeps
<1> QED
  BY <1>1, <1>2, RevokedKeeps DEF OnlyRevoked

LEMMA RevokingNone ==
    ASSUME AccountsTypeOK, sessions' = sessions
    PROVE  OnlyRevoked
BY DEF AccountsTypeOK, OnlyRevoked

\* What issueSession inserts.
LEMMA Issued ==
    ASSUME AccountsTypeOK, NEW w \in setting.workers, IssueSession(w)
    PROVE  /\ loc[w].from \in Tokens \cup {Nothing}
           /\ loc[w].password \in Resets \cup {Nothing}
           /\ sessions' \in [Tokens -> Session]
           /\ \E t \in Tokens :
                /\ sessions[t].state = "unused"
                /\ sessions'[t] = [state |-> "live", from |-> loc[w].from,
                                   password |-> loc[w].password]
                /\ \A s \in Tokens \ {t} : sessions'[s] = sessions[s]
<1>1. /\ loc[w].from \in Tokens \cup {Nothing} /\ loc[w].password \in Resets \cup {Nothing}
  BY DEF AccountsTypeOK, IssueSession, At, IssueLabels, RotateLabels, ResetLabels
<1>2. PICK t \in Tokens :
         /\ sessions[t] = NoSession
         /\ sessions' = [sessions EXCEPT
                ![t] = [state |-> "live", from |-> loc[w].from, password |-> loc[w].password]]
  BY DEF IssueSession
<1>3. [state |-> "live", from |-> loc[w].from, password |-> loc[w].password] \in Session
  BY <1>1 DEF Session, TokenState
<1>4. sessions \in [Tokens -> Session]
  BY DEF AccountsTypeOK
<1>5. sessions' \in [Tokens -> Session]
  BY <1>2, <1>3, <1>4
<1> QED
  BY <1>1, <1>2, <1>4, <1>5 DEF NoSession

\* The columns of the users row one at a time.
LEMMA UserUpdates ==
    ASSUME NEW row \in User
    PROVE  /\ [row EXCEPT !.row = "live"] \in User
           /\ \A p \in Resets : [row EXCEPT !.password = p] \in User
           /\ [row EXCEPT !.verified = TRUE] \in User
           /\ [row EXCEPT !.row = "deleted", !.active = FALSE] \in User
           /\ \A a \in BOOLEAN, r \in Roles : [row EXCEPT !.active = a, !.role = r] \in User
BY DEF User

LEMMA AdminHolds ==
    ASSUME AccountsTypeOK, NEW patch \in AdminPatches
    PROVE  [active |-> IF "active" \in DOMAIN patch THEN patch.active ELSE account.active,
            role   |-> IF "role" \in DOMAIN patch THEN patch.role ELSE account.role,
            asked  |-> DOMAIN patch]
              \in [active : BOOLEAN, role : Roles, asked : SUBSET {"active", "role"}]
<1>1. account.active \in BOOLEAN /\ account.role \in Roles
  BY DEF AccountsTypeOK, User
<1>2. CASE patch \in [active : BOOLEAN]
  <2>1. DOMAIN patch = {"active"} /\ patch.active \in BOOLEAN
    BY <1>2
  <2> QED
    BY <1>1, <2>1
<1>3. CASE patch \in [role : Roles]
  <2>1. DOMAIN patch = {"role"} /\ patch.role \in Roles
    BY <1>3
  <2> QED
    BY <1>1, <2>1
<1> QED
  BY <1>2, <1>3 DEF AdminPatches

LEMMA AccountsTyped ==
    ASSUME Shaped, AccountsTypeOK, NEW w \in setting.workers, AccountsStep(w)
    PROVE  AccountsTypeOK'
<1> USE DEF accountTables, IssueLabels, RotateLabels, ResetLabels
<1> DEFINE Fits(label, l) ==
        \/ label = "idle" /\ l = Nothing
        \/ /\ label \in IssueLabels
           /\ l \in [from : Tokens \cup {Nothing}, password : Resets \cup {Nothing}]
        \/ /\ label \in RotateLabels
           /\ l \in [from : Tokens, password : Resets \cup {Nothing}]
        \/ label \in ResetLabels /\ l \in [from : {Nothing}, password : Resets]
        \/ /\ label = "admin.update"
           /\ l \in [active : BOOLEAN, role : Roles, asked : SUBSET {"active", "role"}]
<1>0. /\ account \in User /\ sessions \in [Tokens -> Session]
      /\ resets \in [Resets -> TokenState] /\ verify \in TokenState
      /\ \A v \in setting.workers : Fits(pc[v], loc[v])
  BY DEF AccountsTypeOK
<1> SUFFICES /\ account' \in User /\ sessions' \in [Tokens -> Session]
             /\ resets' \in [Resets -> TokenState] /\ verify' \in TokenState
             /\ \/ requests' = requests
                \/ \E label, l : Moved(w, label, l) /\ Fits(label, l)
  <2>1. ASSUME requests' = requests PROVE \A v \in setting'.workers : Fits(pc'[v], loc'[v])
    BY <1>0, <2>1 DEF requests
  <2>2. ASSUME NEW label, NEW l, Moved(w, label, l), Fits(label, l)
        PROVE  \A v \in setting'.workers : Fits(pc'[v], loc'[v])
    BY <1>0, <2>2 DEF Moved
  <2> QED
    BY <2>1, <2>2 DEF AccountsTypeOK
<1> HIDE DEF Fits
<1>1. CASE CreateUser(w)
  <2>1. Moved(w, "register.verify", Opening(Nothing, Nothing))
    BY <1>1, HoldMoves DEF CreateUser
  <2>2. Fits("register.verify", Opening(Nothing, Nothing))
    BY DEF Fits, Opening
  <2>3. account' \in User
    BY <1>0, <1>1, UserUpdates DEF CreateUser
  <2> QED
    BY <1>0, <1>1, <2>1, <2>2, <2>3 DEF CreateUser
<1>2. CASE CreateVerification(w)
  <2>1. Moved(w, "issue", loc[w]) /\ Fits(pc[w], loc[w]) /\ pc[w] = "register.verify"
    BY <1>0, <1>2, GotoMoves DEF CreateVerification, At
  <2>2. Fits("issue", loc[w])
    BY <2>1 DEF Fits
  <2> QED
    BY <1>0, <1>2, <2>1, <2>2 DEF CreateVerification, TokenState
<1>3. CASE IssueSession(w)
  <2>1. Moved(w, "idle", Nothing) /\ Fits("idle", Nothing)
    BY <1>3, FinishMoves DEF IssueSession, Fits
  <2>2. sessions' \in [Tokens -> Session]
    BY <1>3, Issued
  <2> QED
    BY <1>0, <1>3, <2>1, <2>2 DEF IssueSession
<1>4. CASE BeginLogin(w)
  <2>1. Moved(w, "issue", Opening(Nothing, account.password))
    BY <1>4, HoldMoves DEF BeginLogin
  <2>2. Fits("issue", Opening(Nothing, account.password))
    BY <1>0 DEF Fits, Opening, User
  <2> QED
    BY <1>0, <1>4, <2>1, <2>2 DEF BeginLogin
<1>5. ASSUME NEW t \in Tokens, BeginRefresh(w, t) \/ Logout(w, t)
      PROVE  /\ account' \in User /\ sessions' \in [Tokens -> Session]
             /\ resets' \in [Resets -> TokenState] /\ verify' \in TokenState
             /\ \/ requests' = requests
                \/ \E label, l : Moved(w, label, l) /\ Fits(label, l)
  <2>1. CASE BeginRefresh(w, t)
    <3>1. Moved(w, "refresh.user", Opening(t, sessions[t].password))
      BY <2>1, HoldMoves DEF BeginRefresh
    <3>2. Fits("refresh.user", Opening(t, sessions[t].password))
      BY <1>0 DEF Fits, Opening, Session
    <3> QED
      BY <1>0, <2>1, <3>1, <3>2 DEF BeginRefresh
  <2>2. CASE Logout(w, t)
    <3>1. OnlyRevoked
      BY <2>2, RevokingOne DEF Logout
    <3> QED
      BY <1>0, <2>2, <3>1 DEF Logout, AtOnce, OnlyRevoked
  <2> QED
    BY <1>5, <2>1, <2>2
<1>6. CASE ReadRefresher(w)
  <2>1. Fits(pc[w], loc[w]) /\ pc[w] = "refresh.user"
    BY <1>0, <1>6 DEF ReadRefresher, At
  <2>2. Fits("refresh.revoke", loc[w]) /\ Fits("idle", Nothing)
    BY <2>1 DEF Fits
  <2>3. Moved(w, "refresh.revoke", loc[w]) \/ Moved(w, "idle", Nothing)
    BY <1>6, GotoMoves, FinishMoves DEF ReadRefresher
  <2> QED
    BY <1>0, <1>6, <2>2, <2>3 DEF ReadRefresher
<1>7. CASE RevokePresented(w)
  <2>1. Moved(w, "issue", loc[w]) /\ Fits(pc[w], loc[w]) /\ pc[w] = "refresh.revoke"
    BY <1>0, <1>7, GotoMoves DEF RevokePresented, At
  <2>2. Fits("issue", loc[w])
    BY <2>1 DEF Fits
  <2>3. OnlyRevoked
    BY <1>7, RevokingOne, RevokingNone DEF RevokePresented
  <2> QED
    BY <1>0, <1>7, <2>1, <2>2, <2>3 DEF RevokePresented, OnlyRevoked
<1>8. CASE BeginForgot(w)
  <2>1. Moved(w, "forgot.create", Opening(Nothing, Nothing))
    BY <1>8, HoldMoves DEF BeginForgot
  <2>2. Fits("forgot.create", Opening(Nothing, Nothing))
    BY DEF Fits, Opening
  <2> QED
    BY <1>0, <1>8, <2>1, <2>2 DEF BeginForgot
<1>9. CASE CreateReset(w)
  <2>1. Moved(w, "idle", Nothing) /\ Fits("idle", Nothing)
    BY <1>9, FinishMoves DEF CreateReset, Fits
  <2>2. resets' \in [Resets -> TokenState]
    BY <1>0, <1>9 DEF CreateReset, TokenState
  <2> QED
    BY <1>0, <1>9, <2>1, <2>2 DEF CreateReset
<1>10. ASSUME NEW r \in Resets, BeginReset(w, r)
       PROVE  /\ account' \in User /\ sessions' \in [Tokens -> Session]
              /\ resets' \in [Resets -> TokenState] /\ verify' \in TokenState
              /\ \E label, l : Moved(w, label, l) /\ Fits(label, l)
  <2>1. Moved(w, "reset.password", Opening(Nothing, r))
    BY <1>10, HoldMoves DEF BeginReset
  <2>2. Fits("reset.password", Opening(Nothing, r))
    BY DEF Fits, Opening
  <2> QED
    BY <1>0, <1>10, <2>1, <2>2 DEF BeginReset
<1>11. CASE UpdatePasswordHash(w)
  <2>1. Fits(pc[w], loc[w]) /\ pc[w] = "reset.password"
    BY <1>0, <1>11 DEF UpdatePasswordHash, At
  <2>2. Fits("reset.mark", loc[w]) /\ Fits("idle", Nothing) /\ loc[w].password \in Resets
    BY <2>1 DEF Fits
  <2>3. Moved(w, "reset.mark", loc[w]) \/ Moved(w, "idle", Nothing)
    BY <1>11, GotoMoves, FinishMoves DEF UpdatePasswordHash
  <2>4. account' \in User
    BY <1>0, <1>11, <2>2, UserUpdates DEF UpdatePasswordHash
  <2> QED
    BY <1>0, <1>11, <2>2, <2>3, <2>4 DEF UpdatePasswordHash
<1>12. CASE MarkResetUsed(w)
  <2>1. Fits(pc[w], loc[w]) /\ pc[w] = "reset.mark"
    BY <1>0, <1>12 DEF MarkResetUsed, At
  <2>2. Fits("reset.revoke", loc[w]) /\ Fits("idle", Nothing) /\ loc[w].password \in Resets
    BY <2>1 DEF Fits
  <2>3. Moved(w, "reset.revoke", loc[w]) \/ Moved(w, "idle", Nothing)
    BY <1>12, GotoMoves, FinishMoves DEF MarkResetUsed
  <2>4. resets' \in [Resets -> TokenState]
    BY <1>0, <1>12, <2>2 DEF MarkResetUsed, TokenState
  <2> QED
    BY <1>0, <1>12, <2>2, <2>3, <2>4 DEF MarkResetUsed
<1>13. CASE RevokeAllForUser(w)
  <2>1. Moved(w, "idle", Nothing) /\ Fits("idle", Nothing)
    BY <1>13, FinishMoves DEF RevokeAllForUser, Fits
  <2>2. OnlyRevoked
    BY <1>13, RevokingAll DEF RevokeAllForUser
  <2> QED
    BY <1>0, <1>13, <2>1, <2>2 DEF RevokeAllForUser, OnlyRevoked
<1>14. CASE BeginVerify(w)
  <2>1. Moved(w, "verify.user", Opening(Nothing, Nothing))
    BY <1>14, HoldMoves DEF BeginVerify
  <2>2. Fits("verify.user", Opening(Nothing, Nothing))
    BY DEF Fits, Opening
  <2> QED
    BY <1>0, <1>14, <2>1, <2>2 DEF BeginVerify
<1>15. CASE MarkEmailVerified(w)
  <2>1. Fits(pc[w], loc[w]) /\ pc[w] = "verify.user"
    BY <1>0, <1>15 DEF MarkEmailVerified, At
  <2>2. Fits("verify.mark", loc[w]) /\ Fits("idle", Nothing)
    BY <2>1 DEF Fits
  <2>3. Moved(w, "verify.mark", loc[w]) \/ Moved(w, "idle", Nothing)
    BY <1>15, GotoMoves, FinishMoves DEF MarkEmailVerified
  <2>4. account' \in User
    BY <1>0, <1>15, UserUpdates DEF MarkEmailVerified
  <2> QED
    BY <1>0, <1>15, <2>2, <2>3, <2>4 DEF MarkEmailVerified
<1>16. CASE MarkVerificationUsed(w)
  <2>1. Moved(w, "idle", Nothing) /\ Fits("idle", Nothing)
    BY <1>16, FinishMoves DEF MarkVerificationUsed, Fits
  <2> QED
    BY <1>0, <1>16, <2>1 DEF MarkVerificationUsed, TokenState
<1>17. ASSUME NEW patch \in AdminPatches, BeginAdminUpdate(w, patch)
       PROVE  /\ account' \in User /\ sessions' \in [Tokens -> Session]
              /\ resets' \in [Resets -> TokenState] /\ verify' \in TokenState
              /\ \E label, l : Moved(w, label, l) /\ Fits(label, l)
  <2> DEFINE l == [active |-> IF "active" \in DOMAIN patch THEN patch.active
                              ELSE account.active,
                   role   |-> IF "role" \in DOMAIN patch THEN patch.role ELSE account.role,
                   asked  |-> DOMAIN patch]
  <2>1. Moved(w, "admin.update", l)
    BY <1>17, HoldMoves DEF BeginAdminUpdate
  <2>2. l \in [active : BOOLEAN, role : Roles, asked : SUBSET {"active", "role"}]
    BY AdminHolds
  <2> HIDE DEF l
  <2>3. Fits("admin.update", l)
    BY <2>2 DEF Fits
  <2> QED
    BY <1>0, <1>17, <2>1, <2>3 DEF BeginAdminUpdate
<1>18. CASE WriteAdminUpdate(w)
  <2>1. Fits(pc[w], loc[w]) /\ pc[w] = "admin.update"
    BY <1>0, <1>18 DEF WriteAdminUpdate, At
  <2>2. loc[w].active \in BOOLEAN /\ loc[w].role \in Roles /\ Fits("idle", Nothing)
    BY <2>1 DEF Fits
  <2>3. Moved(w, "idle", Nothing)
    BY <1>18, FinishMoves DEF WriteAdminUpdate
  <2>4. account' \in User
    BY <1>0, <1>18, <2>2, UserUpdates DEF WriteAdminUpdate
  <2> QED
    BY <1>0, <1>18, <2>2, <2>3, <2>4 DEF WriteAdminUpdate
<1>19. CASE DeleteUser(w)
  <2>1. account' \in User
    BY <1>0, <1>19, UserUpdates DEF DeleteUser
  <2> QED
    BY <1>0, <1>19, <2>1 DEF DeleteUser, AtOnce
<1>20. CASE AbortAccounts(w)
  <2>1. Moved(w, "idle", Nothing) /\ Fits("idle", Nothing)
    BY <1>20, FinishMoves DEF AbortAccounts, Abort, Fits
  <2> QED
    BY <1>0, <1>20, <2>1 DEF AbortAccounts
<1> QED
  BY <1>1, <1>2, <1>3, <1>4, <1>5, <1>6, <1>7, <1>8, <1>9, <1>10, <1>11, <1>12, <1>13, <1>14,
     <1>15, <1>16, <1>17, <1>18, <1>19, <1>20, Zenon DEF AccountsStep

-------------------------------------------------------------------------------
(* Accounts: how often a refresh token is exchanged                        *)

Rotating == {"refresh.user", "refresh.revoke", "issue"}

Exchanging(t) == {w \in setting.workers : pc[w] \in Rotating /\ loc[w].from = t}

\* A token that was or may be exchanged has been issued; who registers has none.
OriginsIssued ==
    /\ \A t \in Tokens : sessions[t].from \in Tokens =>
            sessions[sessions[t].from].state # "unused"
    /\ \A w \in setting.workers :
        /\ pc[w] = "register.verify" => loc[w].from = Nothing
        /\ pc[w] \in Rotating /\ loc[w].from \in Tokens =>
              sessions[loc[w].from].state # "unused"

\* What makes RotationBound inductive: while a token is live nothing was issued
\* for it, and the requests exchanging it are different workers.
ExchangesBounded(t) ==
    Unfailing =>
        /\ Cardinality(Successors(t)) + Cardinality(Exchanging(t))
              <= Cardinality(setting.workers)
        /\ sessions[t].state = "live" =>
              /\ Successors(t) = {}
              /\ \A w \in Exchanging(t) : pc[w] # "issue"

RotationInv ==
    /\ Shaped
    /\ AccountsTypeOK
    /\ OriginsIssued
    /\ \A t \in Tokens : ExchangesBounded(t)

LEMMA RotationInitInv == AccountsInit => RotationInv
<1> SUFFICES ASSUME AccountsInit PROVE RotationInv
  OBVIOUS
<1>1. Shaped /\ AccountsTypeOK
  BY ShapedInit, AccountsTypedInit DEF AccountsInit
<1>2. OriginsIssued
  BY AccountsAssumption DEF AccountsInit, RequestsInit, OriginsIssued, NoSession, Rotating
<1>3. ASSUME NEW t \in Tokens PROVE ExchangesBounded(t)
  <2>1. Successors(t) = {} /\ Exchanging(t) = {}
    BY AccountsAssumption
    DEF AccountsInit, RequestsInit, Successors, Exchanging, NoSession, Rotating
  <2>2. Cardinality(setting.workers) \in Nat /\ Cardinality({}) = 0
    BY <1>1, FS_CardinalityType, FS_EmptySet DEF Shaped
  <2> QED
    BY <2>1, <2>2 DEF ExchangesBounded
<1> QED
  BY <1>1, <1>2, <1>3 DEF RotationInv

LEMMA ExchangesCount ==
    ASSUME Shaped, NEW t
    PROVE  /\ Exchanging(t) \in SUBSET setting.workers
           /\ IsFiniteSet(Exchanging(t)) /\ Cardinality(Exchanging(t)) \in Nat
           /\ IsFiniteSet(Successors(t)) /\ Cardinality(Successors(t)) \in Nat
           /\ Cardinality(setting.workers) \in Nat
<1>1. Exchanging(t) \in SUBSET setting.workers
  BY DEF Exchanging
<1>2. IsFiniteSet(Successors(t))
  BY AccountsAssumption, FS_Subset DEF Successors
<1> QED
  BY <1>1, <1>2, WorkersCount, FS_CardinalityType

\* Sessions are at most revoked, and the worker takes on no token it did not have;
\* if it is about to issue one, the token it came with is spent.
LEMMA RotationStays ==
    ASSUME RotationInv, OnlyRevoked, NEW w \in setting.workers, NEW label, NEW l,
           Moved(w, label, l),
           label = "register.verify" => l.from = Nothing,
           label \in Rotating => l.from = Nothing \/ w \in Exchanging(l.from),
           label = "issue" /\ l.from \in Tokens => sessions'[l.from].state # "live"
    PROVE  OriginsIssued' /\ \A t \in Tokens : ExchangesBounded(t)'
<1>1. /\ Shaped /\ AccountsTypeOK /\ OriginsIssued /\ setting' = setting
      /\ Nothing \notin Tokens
  BY AccountsAssumption DEF RotationInv, Moved
<1>2. OriginsIssued'
  BY <1>1 DEF OriginsIssued, OnlyRevoked, Moved, Exchanging
<1>3. ASSUME NEW t \in Tokens PROVE ExchangesBounded(t)'
  <2>1. Successors(t)' = Successors(t)
    BY DEF OnlyRevoked, Successors
  <2>2. Exchanging(t)' \in SUBSET Exchanging(t)
    BY <1>1 DEF Exchanging, Moved
  <2>3. Cardinality(Exchanging(t)') <= Cardinality(Exchanging(t))
    BY <1>1, <2>2, ExchangesCount, FS_Subset
  <2>4. IsFiniteSet(Exchanging(t)')
    BY <1>1, <2>2, ExchangesCount, FS_Subset
  <2>5. /\ Cardinality(Exchanging(t)') \in Nat /\ Cardinality(Exchanging(t)) \in Nat
        /\ Cardinality(Successors(t)) \in Nat /\ Cardinality(setting.workers) \in Nat
    BY <1>1, <2>4, ExchangesCount, FS_CardinalityType
  <2>6. ExchangesBounded(t)
    BY DEF RotationInv
  <2>7. ASSUME sessions'[t].state = "live", Unfailing, NEW v \in Exchanging(t)'
        PROVE  pc'[v] # "issue"
    <3>1. CASE v = w
      BY <1>1, <2>7, <3>1 DEF Exchanging, Moved
    <3>2. CASE v # w
      <4>1. v \in Exchanging(t) /\ pc'[v] = pc[v]
        BY <1>1, <2>2, <2>7, <3>2 DEF Exchanging, Moved
      <4>2. sessions[t].state = "live"
        BY <2>7 DEF OnlyRevoked
      <4> QED
        BY <2>6, <2>7, <4>1, <4>2 DEF ExchangesBounded
    <3> QED
      BY <3>1, <3>2
  <2>8. sessions'[t].state = "live" => sessions[t].state = "live"
    BY DEF OnlyRevoked
  <2>9. Unfailing' <=> Unfailing
    BY <1>1 DEF Unfailing
  <2> QED
    BY <1>1, <2>1, <2>3, <2>5, <2>6, <2>7, <2>8, <2>9 DEF ExchangesBounded
<1> QED
  BY <1>2, <1>3

LEMMA RotationBegins ==
    ASSUME RotationInv, NEW w \in setting.workers, NEW t \in Tokens, BeginRefresh(w, t)
    PROVE  OriginsIssued' /\ \A s \in Tokens : ExchangesBounded(s)'
<1>1. /\ Shaped /\ AccountsTypeOK /\ OriginsIssued /\ Nothing \notin Tokens
  BY AccountsAssumption DEF RotationInv
<1>2. /\ Moved(w, "refresh.user", Opening(t, sessions[t].password)) /\ pc[w] = "idle"
      /\ sessions[t].state = "live" /\ sessions' = sessions
  BY <1>1, HoldMoves DEF BeginRefresh, Idle, accountTables
<1>3. Opening(t, sessions[t].password).from = t
  BY DEF Opening
<1>4. OriginsIssued'
  BY <1>1, <1>2, <1>3 DEF OriginsIssued, Moved, Rotating
<1>5. /\ w \in setting.workers \ Exchanging(t)
      /\ Exchanging(t)' = Exchanging(t) \cup {w}
      /\ \A s \in Tokens \ {t} : Exchanging(s)' = Exchanging(s)
      /\ \A s \in Tokens : Successors(s)' = Successors(s)
  BY <1>2, <1>3 DEF Exchanging, Successors, Moved, Rotating
<1>6. ASSUME NEW s \in Tokens \ {t} PROVE ExchangesBounded(s)'
  <2>1. ExchangesBounded(s) /\ w \notin Exchanging(s)
    BY <1>2 DEF RotationInv, Exchanging, Rotating
  <2>2. \A v \in Exchanging(s) : pc'[v] = pc[v]
    BY <1>2, <2>1 DEF Exchanging, Moved
  <2> QED
    BY <1>2, <1>5, <2>1, <2>2 DEF ExchangesBounded, Moved, Unfailing
<1>7. ExchangesBounded(t)'
  <2>1. ExchangesBounded(t)
    BY DEF RotationInv
  <2>2. Cardinality(Exchanging(t)') <= Cardinality(setting.workers)
    BY <1>1, <1>5, ExchangesCount, WorkersCount
  <2>3. Unfailing => Cardinality(Successors(t)) = 0
    BY <1>2, <2>1, FS_EmptySet DEF ExchangesBounded
  <2>4. Cardinality(Exchanging(t)') \in Nat /\ Cardinality(setting.workers) \in Nat
    <3>1. Exchanging(t)' \in SUBSET setting.workers
      BY <1>2 DEF Exchanging, Moved
    <3>2. IsFiniteSet(Exchanging(t)') /\ IsFiniteSet(setting.workers)
      BY <1>1, <3>1, WorkersCount DEF Shaped
    <3> QED
      BY <3>2, FS_CardinalityType
  <2>5. \A v \in Exchanging(t)' : pc'[v] = "issue" => v \in Exchanging(t) /\ pc[v] = "issue"
    BY <1>2, <1>5 DEF Exchanging, Moved
  <2> QED
    BY <1>2, <1>5, <2>1, <2>2, <2>3, <2>4, <2>5 DEF ExchangesBounded, Moved, Unfailing
<1> QED
  BY <1>4, <1>6, <1>7

LEMMA RotationEnds ==
    ASSUME RotationInv, NEW w \in setting.workers, IssueSession(w)
    PROVE  OriginsIssued' /\ \A s \in Tokens : ExchangesBounded(s)'
<1>1. Shaped /\ AccountsTypeOK /\ OriginsIssued /\ Nothing \notin Tokens
  BY AccountsAssumption DEF RotationInv
<1>2. Moved(w, "idle", Nothing) /\ pc[w] = "issue"
  BY <1>1, FinishMoves DEF IssueSession, At
<1>3. PICK from \in Tokens \cup {Nothing}, p \in Resets \cup {Nothing} :
         from = loc[w].from /\ p = loc[w].password
  BY <1>1, Issued
<1>4. PICK t \in Tokens :
         /\ sessions[t].state = "unused"
         /\ sessions'[t] = [state |-> "live", from |-> from, password |-> p]
         /\ \A s \in Tokens \ {t} : sessions'[s] = sessions[s]
  BY <1>1, <1>3, Issued
<1>5. OriginsIssued'
  BY <1>1, <1>2, <1>3, <1>4 DEF OriginsIssued, Moved, Rotating
<1>6. /\ \A s \in Tokens : Exchanging(s)' = Exchanging(s) \ {w}
      /\ \A s \in Tokens : w \in Exchanging(s) <=> s = from
  BY <1>2, <1>3 DEF Exchanging, Moved, Rotating
<1>7. sessions[t].from = Nothing \/ sessions[t].from \in Tokens
  BY <1>1 DEF AccountsTypeOK, Session
<1>8. ASSUME NEW s \in Tokens, s # from PROVE ExchangesBounded(s)'
  <2>1. ExchangesBounded(s) /\ Exchanging(s)' = Exchanging(s)
    BY <1>6, <1>8 DEF RotationInv
  <2>2. Successors(s)' \in SUBSET Successors(s)
    BY <1>4, <1>8 DEF Successors
  <2>3. /\ Cardinality(Successors(s)') <= Cardinality(Successors(s))
        /\ IsFiniteSet(Successors(s)')
    BY <1>1, <2>2, ExchangesCount, FS_Subset
  <2>4. /\ Cardinality(Successors(s)') \in Nat /\ Cardinality(Successors(s)) \in Nat
        /\ Cardinality(Exchanging(s)) \in Nat /\ Cardinality(setting.workers) \in Nat
    BY <1>1, <2>3, ExchangesCount, FS_CardinalityType
  <2>5. \A v \in Exchanging(s) : pc'[v] = pc[v]
    BY <1>2, <1>6, <1>8 DEF Exchanging, Moved
  <2>6. s = t => Successors(s) = {} /\ \A v \in Exchanging(s) : pc[v] # "issue"
    BY <1>1, <1>4 DEF OriginsIssued, Successors, Exchanging
  <2>7. s # t => sessions'[s] = sessions[s]
    BY <1>4
  <2> QED
    BY <1>2, <2>1, <2>2, <2>3, <2>4, <2>5, <2>6, <2>7 DEF ExchangesBounded, Moved, Unfailing
<1>9. ASSUME from \in Tokens PROVE ExchangesBounded(from)'
  <2>1. ExchangesBounded(from) /\ w \in Exchanging(from)
    BY <1>6, <1>9 DEF RotationInv
  <2>2. from # t /\ sessions'[from] = sessions[from]
    BY <1>1, <1>2, <1>3, <1>4, <1>9 DEF OriginsIssued, Rotating
  <2>3. Unfailing => sessions[from].state # "live"
    BY <1>2, <2>1 DEF ExchangesBounded
  <2>4. Successors(from)' \in SUBSET (Successors(from) \cup {t})
    BY <1>4 DEF Successors
  <2>5. /\ Cardinality(Successors(from)') <= Cardinality(Successors(from)) + 1
        /\ Cardinality(Successors(from)') \in Nat
    <3>1. /\ IsFiniteSet(Successors(from) \cup {t})
          /\ Cardinality(Successors(from) \cup {t}) <= Cardinality(Successors(from)) + 1
          /\ Cardinality(Successors(from)) \in Nat
      <4> DEFINE S == Successors(from)
      <4>1. IsFiniteSet(S) /\ Cardinality(S) \in Nat
        BY <1>1, ExchangesCount
      <4> HIDE DEF S
      <4>2. /\ IsFiniteSet(S \cup {t})
            /\ Cardinality(S \cup {t}) = IF t \in S THEN Cardinality(S) ELSE Cardinality(S) + 1
        BY <4>1, FS_AddElement
      <4>3. Cardinality(S \cup {t}) <= Cardinality(S) + 1
        BY <4>1, <4>2
      <4> QED
        BY <4>1, <4>2, <4>3 DEF S
    <3>2. /\ IsFiniteSet(Successors(from)')
          /\ Cardinality(Successors(from)') <= Cardinality(Successors(from) \cup {t})
      BY <2>4, <3>1, FS_Subset
    <3>3. Cardinality(Successors(from)') \in Nat
          /\ Cardinality(Successors(from) \cup {t}) \in Nat
      BY <3>1, <3>2, FS_CardinalityType
    <3> QED
      BY <3>1, <3>2, <3>3
  <2>6. Cardinality(Exchanging(from)') = Cardinality(Exchanging(from)) - 1
    BY <1>1, <1>6, <1>9, <2>1, ExchangesCount, FS_RemoveElement
  <2>7. /\ Cardinality(Exchanging(from)) \in Nat /\ Cardinality(Successors(from)) \in Nat
        /\ Cardinality(setting.workers) \in Nat
    BY <1>1, ExchangesCount
  <2> QED
    BY <1>2, <2>1, <2>2, <2>3, <2>5, <2>6, <2>7 DEF ExchangesBounded, Moved, Unfailing
<1> QED
  BY <1>5, <1>8, <1>9

\* Sessions are at most revoked and no worker moves.
LEMMA RotationRests ==
    ASSUME RotationInv, OnlyRevoked, UNCHANGED requests
    PROVE  OriginsIssued' /\ \A t \in Tokens : ExchangesBounded(t)'
<1>1. setting' = setting /\ pc' = pc /\ loc' = loc
  BY DEF requests
<1>2. OriginsIssued'
  BY <1>1 DEF RotationInv, OriginsIssued, OnlyRevoked
<1>3. ASSUME NEW t \in Tokens PROVE ExchangesBounded(t)'
  <2>1. Successors(t)' = Successors(t) /\ Exchanging(t)' = Exchanging(t)
    BY <1>1 DEF OnlyRevoked, Successors, Exchanging
  <2>2. sessions'[t].state = "live" => sessions[t].state = "live"
    BY DEF OnlyRevoked
  <2> QED
    BY <1>1, <2>1, <2>2 DEF RotationInv, ExchangesBounded, Unfailing
<1> QED
  BY <1>2, <1>3

LEMMA RotationStep ==
    ASSUME RotationInv, NEW w \in setting.workers, AccountsStep(w)
    PROVE  OriginsIssued' /\ \A t \in Tokens : ExchangesBounded(t)'
<1> DEFINE Goal == OriginsIssued' /\ \A t \in Tokens : ExchangesBounded(t)'
<1> USE DEF accountTables
<1>0. Shaped /\ AccountsTypeOK /\ OriginsIssued
  BY DEF RotationInv
<1>1. sessions' = sessions => OnlyRevoked
  BY <1>0, RevokingNone
<1>2. ASSUME sessions' = sessions, NEW label, NEW l, Moved(w, label, l),
             label \notin Rotating \cup {"register.verify"}
      PROVE  Goal
  <2>1. label # "register.verify" /\ label \notin Rotating /\ label # "issue"
    BY <1>2 DEF Rotating
  <2> QED
    BY <1>1, <1>2, <2>1, RotationStays
<1>3. CASE CreateUser(w)
  <2>1. /\ Moved(w, "register.verify", Opening(Nothing, Nothing)) /\ sessions' = sessions
        /\ Opening(Nothing, Nothing).from = Nothing
    BY <1>0, <1>3, HoldMoves DEF CreateUser, Opening
  <2>2. "register.verify" \notin Rotating
    BY DEF Rotating
  <2> QED
    BY <1>1, <2>1, <2>2, RotationStays
<1>4. CASE CreateVerification(w)
  <2>1. /\ Moved(w, "issue", loc[w]) /\ sessions' = sessions /\ loc[w].from = Nothing
        /\ Nothing \notin Tokens
    BY <1>0, <1>4, GotoMoves, AccountsAssumption DEF CreateVerification, At, OriginsIssued
  <2> QED
    BY <1>1, <2>1, RotationStays
<1>5. CASE IssueSession(w)
  BY <1>5, RotationEnds
<1>6. CASE BeginLogin(w)
  <2>1. /\ Moved(w, "issue", Opening(Nothing, account.password)) /\ sessions' = sessions
        /\ Opening(Nothing, account.password).from = Nothing /\ Nothing \notin Tokens
    BY <1>0, <1>6, HoldMoves, AccountsAssumption DEF BeginLogin, Opening
  <2> QED
    BY <1>1, <2>1, RotationStays
<1>7. ASSUME NEW t \in Tokens, BeginRefresh(w, t) \/ Logout(w, t) PROVE Goal
  <2>1. CASE BeginRefresh(w, t)
    BY <2>1, RotationBegins
  <2>2. CASE Logout(w, t)
    <3>1. OnlyRevoked /\ UNCHANGED requests
      BY <1>0, <2>2, RevokingOne DEF Logout, AtOnce
    <3> QED
      BY <3>1, RotationRests
  <2> QED
    BY <1>7, <2>1, <2>2
<1>8. CASE ReadRefresher(w)
  <2>1. /\ Moved(w, "refresh.revoke", loc[w]) \/ Moved(w, "idle", Nothing)
        /\ sessions' = sessions /\ w \in Exchanging(loc[w].from)
    BY <1>0, <1>8, GotoMoves, FinishMoves DEF ReadRefresher, At, Exchanging, Rotating
  <2>2. CASE Moved(w, "refresh.revoke", loc[w])
    BY <1>1, <2>1, <2>2, RotationStays
  <2> QED
    BY <1>2, <2>1, <2>2 DEF Rotating
<1>9. CASE RevokePresented(w)
  <2>1. Moved(w, "issue", loc[w]) /\ w \in Exchanging(loc[w].from)
    BY <1>0, <1>9, GotoMoves DEF RevokePresented, At, Exchanging, Rotating
  <2>2. CASE sessions' = [sessions EXCEPT ![loc[w].from] = Revoked(@)]
    <3>1. OnlyRevoked /\ (loc[w].from \in Tokens => sessions'[loc[w].from].state # "live")
      BY <1>0, <2>2, RevokingOne
    <3> QED
      BY <2>1, <3>1, RotationStays
  <2>3. CASE setting.failures /\ UNCHANGED sessions
    <3>1. OnlyRevoked /\ ~Unfailing /\ setting' = setting
      BY <1>1, <2>1, <2>3 DEF Unfailing, Moved
    <3>2. OriginsIssued'
      BY <1>0, <2>1, <2>3 DEF OriginsIssued, Moved, Exchanging, Rotating
    <3>3. \A t \in Tokens : ExchangesBounded(t)'
      BY <3>1 DEF ExchangesBounded, Unfailing
    <3> QED
      BY <3>2, <3>3
  <2> QED
    BY <1>9, <2>2, <2>3 DEF RevokePresented
<1>10. CASE \/ BeginForgot(w) \/ BeginVerify(w)
            \/ \E r \in Resets : BeginReset(w, r)
            \/ \E patch \in AdminPatches : BeginAdminUpdate(w, patch)
  <2>1. /\ \E label \in {"forgot.create", "verify.user", "reset.password", "admin.update"} :
                \E l : Hold(w, label, l)
        /\ sessions' = sessions
    BY <1>10 DEF BeginForgot, BeginVerify, BeginReset, BeginAdminUpdate
  <2>2. PICK label \in {"forgot.create", "verify.user", "reset.password", "admin.update"} :
                \E l : Hold(w, label, l)
    BY <2>1
  <2>3. PICK l : Hold(w, label, l)
    BY <2>2
  <2>4. Moved(w, label, l)
    BY <1>0, <2>3, HoldMoves
  <2> QED
    BY <1>2, <2>1, <2>4 DEF Rotating
<1>11. CASE \/ CreateReset(w) \/ MarkVerificationUsed(w) \/ WriteAdminUpdate(w)
  <2>1. Moved(w, "idle", Nothing) /\ sessions' = sessions
    BY <1>0, <1>11, FinishMoves DEF CreateReset, MarkVerificationUsed, WriteAdminUpdate
  <2> QED
    BY <1>2, <2>1 DEF Rotating
<1>12. CASE UpdatePasswordHash(w) \/ MarkResetUsed(w) \/ MarkEmailVerified(w)
  <2>1. /\ \/ Moved(w, "idle", Nothing) \/ Moved(w, "reset.mark", loc[w])
           \/ Moved(w, "reset.revoke", loc[w]) \/ Moved(w, "verify.mark", loc[w])
        /\ sessions' = sessions
    BY <1>0, <1>12, FinishMoves, GotoMoves DEF UpdatePasswordHash, MarkResetUsed, MarkEmailVerified
  <2> QED
    BY <1>2, <2>1 DEF Rotating
<1>13. CASE RevokeAllForUser(w)
  <2>1. Moved(w, "idle", Nothing) /\ OnlyRevoked
    BY <1>0, <1>13, FinishMoves, RevokingAll DEF RevokeAllForUser
  <2>2. "idle" \notin Rotating
    BY DEF Rotating
  <2> QED
    BY <2>1, <2>2, RotationStays
<1>14. CASE DeleteUser(w)
  BY <1>1, <1>14, RotationRests DEF DeleteUser, AtOnce
<1>15. CASE AbortAccounts(w)
  <2>1. Moved(w, "idle", Nothing) /\ sessions' = sessions
    BY <1>0, <1>15, FinishMoves DEF AbortAccounts, Abort
  <2> QED
    BY <1>2, <2>1 DEF Rotating
<1> QED
  BY <1>3, <1>4, <1>5, <1>6, <1>7, <1>8, <1>9, <1>10, <1>11, <1>12, <1>13, <1>14, <1>15, Zenon
  DEF AccountsStep

\* Every step of a request leaves the workers well shaped.
LEMMA AccountsMoves ==
    ASSUME Shaped, NEW w \in setting.workers, AccountsStep(w)
    PROVE  /\ Shaped'
           /\ UNCHANGED requests \/ \E label, l : Moved(w, label, l)
<1>1. UNCHANGED requests \/ \E label, l : Hold(w, label, l)
  BY DEF AccountsStep, CreateUser, CreateVerification, IssueSession, BeginLogin, ReadRefresher,
         RevokePresented, BeginRefresh, Logout, BeginForgot, CreateReset, BeginReset,
         UpdatePasswordHash, MarkResetUsed, RevokeAllForUser, BeginVerify, MarkEmailVerified,
         MarkVerificationUsed, BeginAdminUpdate, WriteAdminUpdate, DeleteUser,
         AbortAccounts, Abort, AtOnce, Goto, Finish
<1> QED
  BY <1>1, HoldMoves, StayShaped

LEMMA RotationNext ==
    ASSUME RotationInv, [AccountsNext]_accountVars
    PROVE  RotationInv'
<1>1. Shaped /\ AccountsTypeOK
  BY DEF RotationInv
<1>2. ASSUME NEW w \in setting.workers, AccountsStep(w) PROVE RotationInv'
  BY <1>1, <1>2, AccountsTyped, AccountsMoves, RotationStep DEF RotationInv
<1>3. ASSUME UNCHANGED <<requests, account, verify>>, OnlyRevoked,
             resets' \in [Resets -> TokenState]
      PROVE  RotationInv'
  <2>1. Shaped' /\ setting' = setting /\ pc' = pc /\ loc' = loc
    BY <1>1, <1>3, StayShaped
  <2>2. AccountsTypeOK'
    BY <1>1, <1>3, <2>1 DEF AccountsTypeOK, OnlyRevoked
  <2> QED
    BY <1>3, <2>1, <2>2, RotationRests DEF RotationInv
<1>4. ASSUME NEW t \in Tokens, ExpireSession(t) PROVE RotationInv'
  BY <1>1, <1>3, <1>4, RevokingOne DEF ExpireSession, AccountsTypeOK
<1>5. ASSUME NEW r \in Resets, ExpireReset(r) PROVE RotationInv'
  <2>1. resets' \in [Resets -> TokenState]
    BY <1>1, <1>5 DEF ExpireReset, AccountsTypeOK, TokenState
  <2> QED
    BY <1>1, <1>3, <1>5, <2>1, RevokingNone DEF ExpireReset
<1>6. CASE UNCHANGED accountVars
  <2>1. resets' \in [Resets -> TokenState]
    BY <1>1, <1>6 DEF accountVars, accountTables, AccountsTypeOK
  <2> QED
    BY <1>1, <1>3, <1>6, <2>1, RevokingNone DEF accountVars, accountTables
<1> QED
  BY <1>2, <1>4, <1>5, <1>6 DEF AccountsNext

\* Refresh tests a token in one statement and revokes it in another (auth.go:146,
\* :158): for any number of tokens, and of requests that do not fail, a token is
\* exchanged no more often than requests run at a time.
THEOREM RotationTheorem == AccountsSpec => []RotationBound
<1>1. RotationInv => RotationBound
  <2> SUFFICES ASSUME RotationInv, Unfailing, NEW t \in Tokens
               PROVE  Cardinality(Successors(t)) <= Cardinality(setting.workers)
    BY DEF RotationBound
  <2>1. Shaped /\ ExchangesBounded(t)
    BY DEF RotationInv
  <2>2. /\ Cardinality(Successors(t)) \in Nat /\ Cardinality(Exchanging(t)) \in Nat
        /\ Cardinality(setting.workers) \in Nat
    BY <2>1, ExchangesCount
  <2> QED
    BY <2>1, <2>2 DEF ExchangesBounded
<1> QED
  BY <1>1, RotationInitInv, RotationNext, PTL DEF AccountsSpec

-------------------------------------------------------------------------------
(* Accounts: who is disabled, and what a reset leaves behind               *)

\* Alone, whoever is about to open a session has found the account enabled, and
\* an admin update writes the is_active it read unless it is asked for another.
EnabledHeld ==
    /\ account.row = "none" => account.active /\ account.password = Nothing
    /\ Alone => \A w \in setting.workers :
        /\ pc[w] \in {"register.verify", "issue", "refresh.revoke"} => Enabled
        /\ pc[w] = "admin.update" =>
              loc[w].active = account.active \/ "active" \in loc[w].asked

EnabledInv == Shaped /\ AccountsTypeOK /\ EnabledHeld

LEMMA EnabledInitInv == AccountsInit => EnabledInv
<1> SUFFICES ASSUME AccountsInit PROVE EnabledInv
  OBVIOUS
<1>1. Shaped /\ AccountsTypeOK
  BY ShapedInit, AccountsTypedInit DEF AccountsInit
<1>2. account.active /\ account.password = Nothing
  BY DEF AccountsInit
<1>3. \A w \in setting.workers : pc[w] = "idle"
  BY DEF AccountsInit, RequestsInit
<1> QED
  BY <1>1, <1>2, <1>3 DEF EnabledInv, EnabledHeld

LEMMA EnabledStep ==
    ASSUME EnabledInv, NEW w \in setting.workers, AccountsStep(w)
    PROVE  EnabledInv'
<1> USE DEF accountTables
<1>0. Shaped /\ AccountsTypeOK /\ EnabledHeld /\ account \in User
  BY DEF EnabledInv, AccountsTypeOK
<1>1. AccountsTypeOK' /\ Shaped' /\ setting' = setting
  BY <1>0, AccountsTyped, AccountsMoves DEF Moved, requests
<1> DEFINE Held(label, l) ==
        /\ label \in {"register.verify", "issue", "refresh.revoke"} => Enabled
        /\ label = "admin.update" => l.active = account.active \/ "active" \in l.asked
<1>2. ASSUME account'.row = "none" => account'.active /\ account'.password = Nothing,
             Alone' => Held(pc[w], loc[w])'
      PROVE  EnabledInv'
  <2>1. Alone' => \A v \in setting'.workers : v = w
    BY <1>0, <1>1, AloneOne DEF Alone
  <2> QED
    BY <1>1, <1>2, <2>1 DEF EnabledInv, EnabledHeld
<1>3. Alone' => Held(pc[w], loc[w])
  BY <1>0, <1>1 DEF EnabledHeld, Alone
<1>4. ASSUME NEW label, NEW l, Moved(w, label, l), account' = account,
             Alone => (label \in {"register.verify", "issue", "refresh.revoke"} => Enabled),
             label = "admin.update" => l.active = account.active \/ "active" \in l.asked
      PROVE  EnabledInv'
  BY <1>0, <1>1, <1>2, <1>4 DEF EnabledHeld, Moved, Enabled, Found, Alone
<1>5. CASE CreateUser(w)
  <2>1. /\ Moved(w, "register.verify", Opening(Nothing, Nothing))
        /\ account'.row = "live" /\ account'.active = account.active /\ account.active
    BY <1>0, <1>5, HoldMoves DEF CreateUser, EnabledHeld, User
  <2> QED
    BY <1>2, <2>1 DEF Moved, Enabled, Found
<1>6. CASE CreateVerification(w)
  <2>1. Moved(w, "issue", loc[w]) /\ account' = account /\ (Alone => Enabled)
    BY <1>0, <1>6, GotoMoves DEF CreateVerification, At, EnabledHeld
  <2> QED
    BY <1>4, <2>1
<1>7. CASE IssueSession(w) \/ AbortAccounts(w) \/ RevokeAllForUser(w) \/ CreateReset(w)
           \/ MarkVerificationUsed(w)
  <2>1. Moved(w, "idle", Nothing) /\ account' = account
    BY <1>0, <1>7, FinishMoves
    DEF IssueSession, AbortAccounts, Abort, RevokeAllForUser, CreateReset, MarkVerificationUsed
  <2> QED
    BY <1>4, <2>1
<1>8. CASE BeginLogin(w)
  <2>1. /\ Moved(w, "issue", Opening(Nothing, account.password)) /\ account' = account
        /\ Enabled
    BY <1>0, <1>8, HoldMoves DEF BeginLogin
  <2> QED
    BY <1>4, <2>1
<1>9. ASSUME NEW t \in Tokens, BeginRefresh(w, t) PROVE EnabledInv'
  <2>1. Moved(w, "refresh.user", Opening(t, sessions[t].password)) /\ account' = account
    BY <1>0, <1>9, HoldMoves DEF BeginRefresh
  <2> QED
    BY <1>4, <2>1
<1>10. CASE ReadRefresher(w)
  <2>1. /\ \/ Moved(w, "refresh.revoke", loc[w]) /\ Enabled
           \/ Moved(w, "idle", Nothing)
        /\ account' = account
    BY <1>0, <1>10, GotoMoves, FinishMoves DEF ReadRefresher
  <2> QED
    BY <1>4, <2>1
<1>11. CASE RevokePresented(w)
  <2>1. Moved(w, "issue", loc[w]) /\ account' = account /\ (Alone => Enabled)
    BY <1>0, <1>11, GotoMoves DEF RevokePresented, At, EnabledHeld
  <2> QED
    BY <1>4, <2>1
<1>12. ASSUME NEW t \in Tokens, Logout(w, t) PROVE EnabledInv'
  BY <1>0, <1>2, <1>12 DEF Logout, AtOnce, requests, Idle, EnabledHeld
<1>13. CASE \/ BeginForgot(w) \/ BeginVerify(w) \/ \E r \in Resets : BeginReset(w, r)
  <2>1. PICK label \in {"forgot.create", "verify.user", "reset.password"} :
            \E l : Hold(w, label, l) /\ account' = account
    BY <1>13 DEF BeginForgot, BeginVerify, BeginReset
  <2>2. PICK l : Hold(w, label, l) /\ account' = account
    BY <2>1
  <2>3. Moved(w, label, l)
    BY <1>0, <2>2, HoldMoves
  <2> QED
    BY <1>4, <2>2, <2>3
<1>14. CASE UpdatePasswordHash(w)
  <2>1. /\ Moved(w, "reset.mark", loc[w]) \/ Moved(w, "idle", Nothing)
        /\ account' = account \/ account'.row = "live"
    BY <1>0, <1>14, GotoMoves, FinishMoves DEF UpdatePasswordHash, Found, User
  <2> QED
    BY <1>0, <1>2, <2>1 DEF Moved, EnabledHeld
<1>15. CASE MarkResetUsed(w)
  <2>1. /\ Moved(w, "reset.revoke", loc[w]) \/ Moved(w, "idle", Nothing)
        /\ account' = account
    BY <1>0, <1>15, GotoMoves, FinishMoves DEF MarkResetUsed
  <2> QED
    BY <1>4, <2>1
<1>16. CASE MarkEmailVerified(w)
  <2>1. /\ Moved(w, "verify.mark", loc[w]) \/ Moved(w, "idle", Nothing)
        /\ account' = account \/ account'.row = "live"
    BY <1>0, <1>16, GotoMoves, FinishMoves DEF MarkEmailVerified, Found, User
  <2> QED
    BY <1>0, <1>2, <2>1 DEF Moved, EnabledHeld
<1>17. ASSUME NEW patch \in AdminPatches, BeginAdminUpdate(w, patch) PROVE EnabledInv'
  <2> DEFINE l == [active |-> IF "active" \in DOMAIN patch THEN patch.active
                              ELSE account.active,
                   role   |-> IF "role" \in DOMAIN patch THEN patch.role ELSE account.role,
                   asked  |-> DOMAIN patch]
  <2>1. Moved(w, "admin.update", l) /\ account' = account
    BY <1>0, <1>17, HoldMoves DEF BeginAdminUpdate
  <2>2. l.active = account.active \/ "active" \in l.asked
    OBVIOUS
  <2> HIDE DEF l
  <2> QED
    BY <1>4, <2>1, <2>2
<1>18. CASE WriteAdminUpdate(w)
  <2>1. Moved(w, "idle", Nothing) /\ (account' = account \/ account'.row = "live")
    BY <1>0, <1>18, FinishMoves DEF WriteAdminUpdate, Found, User
  <2> QED
    BY <1>0, <1>2, <2>1 DEF Moved, EnabledHeld
<1>19. CASE DeleteUser(w)
  <2>1. pc' = pc /\ pc[w] = "idle" /\ account'.row = "deleted"
    BY <1>0, <1>19 DEF DeleteUser, AtOnce, Idle, requests, User
  <2> QED
    BY <1>2, <2>1
<1> QED
  BY <1>5, <1>6, <1>7, <1>8, <1>9, <1>10, <1>11, <1>12, <1>13, <1>14, <1>15, <1>16, <1>17,
     <1>18, <1>19 DEF AccountsStep

LEMMA EnabledNext ==
    ASSUME EnabledInv, [AccountsNext]_accountVars
    PROVE  EnabledInv'
<1>1. ASSUME NEW w \in setting.workers, AccountsStep(w) PROVE EnabledInv'
  BY <1>1, EnabledStep
<1>2. ASSUME UNCHANGED <<requests, account, verify>>, sessions' \in [Tokens -> Session],
             resets' \in [Resets -> TokenState]
      PROVE  EnabledInv'
  <2>1. Shaped' /\ setting' = setting /\ pc' = pc /\ loc' = loc
    BY <1>2, StayShaped DEF EnabledInv
  <2> QED
    BY <1>2, <2>1 DEF EnabledInv, EnabledHeld, AccountsTypeOK, Enabled, Found, Alone
<1>3. ASSUME NEW t \in Tokens, ExpireSession(t) PROVE EnabledInv'
  BY <1>2, <1>3, RevokingOne DEF ExpireSession, EnabledInv, OnlyRevoked, AccountsTypeOK
<1>4. ASSUME NEW r \in Resets, ExpireReset(r) PROVE EnabledInv'
  <2>1. resets' \in [Resets -> TokenState] /\ sessions \in [Tokens -> Session]
    BY <1>4 DEF ExpireReset, EnabledInv, AccountsTypeOK, TokenState
  <2> QED
    BY <1>2, <1>4, <2>1 DEF ExpireReset
<1>5. CASE UNCHANGED accountVars
  BY <1>2, <1>5 DEF accountVars, accountTables, EnabledInv, AccountsTypeOK
<1> QED
  BY <1>1, <1>3, <1>4, <1>5 DEF AccountsNext

\* Login and Refresh look at the account first (auth.go:126, :154), AdminUpdate
\* writes is_active with every patch (repository/postgres/user.go:257): for any
\* number of tokens, requests that run one at a time, failing or not, open no
\* session of a disabled account, and only an admin who asks enables one.
THEOREM DisabledTheorem == AccountsSpec => DisabledStaysOut
<1> DEFINE Stays == Alone /\ ~Enabled /\ account.row # "none" =>
        /\ \A t \in Tokens : sessions'[t].state = "live" => sessions[t].state = "live"
        /\ Enabled' => \E w \in setting.workers :
                            pc[w] = "admin.update" /\ "active" \in loc[w].asked
<1>1. ASSUME EnabledInv, [AccountsNext]_accountVars PROVE [Stays]_accountVars
  <2>0. Shaped /\ AccountsTypeOK /\ EnabledHeld /\ account \in User
    BY <1>1 DEF EnabledInv, AccountsTypeOK
  <2>1. OnlyRevoked /\ account' = account => Stays
    BY DEF OnlyRevoked, Enabled, Found
  <2>2. sessions' = sessions /\ account' = account => Stays
    BY DEF Enabled, Found
  <2>3. ASSUME NEW w \in setting.workers, AccountsStep(w) PROVE Stays
    <3>1. CASE IssueSession(w)
      BY <2>0, <3>1 DEF IssueSession, At, EnabledHeld
    <3>2. CASE CreateUser(w)
      BY <3>2 DEF CreateUser
    <3>3. CASE UpdatePasswordHash(w) \/ MarkEmailVerified(w)
      <4>1. /\ account'.row = account.row /\ account'.active = account.active
            /\ sessions' = sessions
        BY <2>0, <3>3 DEF UpdatePasswordHash, MarkEmailVerified, User
      <4> QED
        BY <4>1 DEF Enabled, Found
    <3>4. CASE DeleteUser(w)
      <4>1. account'.row = "deleted" /\ sessions' = sessions
        BY <2>0, <3>4 DEF DeleteUser, User
      <4> QED
        BY <4>1 DEF Enabled, Found
    <3>5. CASE WriteAdminUpdate(w)
      <4>1. /\ pc[w] = "admin.update" /\ sessions' = sessions
            /\ \/ account' = account
               \/ account.row = "live" /\ account'.active = loc[w].active
        BY <2>0, <3>5 DEF WriteAdminUpdate, At, Found, User
      <4> QED
        BY <2>0, <2>3, <4>1 DEF Enabled, Found, EnabledHeld
    <3>6. CASE \/ RevokePresented(w) \/ RevokeAllForUser(w)
               \/ \E t \in Tokens : Logout(w, t)
      BY <2>0, <2>1, <3>6, RevokingOne, RevokingAll, RevokingNone
      DEF RevokePresented, RevokeAllForUser, Logout
    <3> QED
      BY <2>2, <2>3, <3>1, <3>2, <3>3, <3>4, <3>5, <3>6
      DEF AccountsStep, CreateVerification, BeginLogin, ReadRefresher, BeginRefresh,
          BeginForgot, CreateReset, BeginReset, MarkResetUsed, BeginVerify,
          MarkVerificationUsed, BeginAdminUpdate, AbortAccounts, accountTables
  <2>4. ASSUME NEW t \in Tokens, ExpireSession(t) PROVE Stays
    BY <2>0, <2>1, <2>4, RevokingOne DEF ExpireSession
  <2>5. ASSUME NEW r \in Resets, ExpireReset(r) PROVE Stays
    BY <2>2, <2>5 DEF ExpireReset
  <2> QED
    BY <1>1, <2>3, <2>4, <2>5 DEF AccountsNext
<1> QED
  BY <1>1, EnabledInitInv, EnabledNext, PTL DEF AccountsSpec, DisabledStaysOut

\* The reset token that set the password is spent, or about to be.
MarkedOrMarking ==
    Unfailing /\ account.password # Nothing =>
        \/ resets[account.password] = "spent"
        \/ \E w \in setting.workers :
                pc[w] = "reset.mark" /\ loc[w].password = account.password

\* Alone and without failures: live sessions were opened with the current password,
\* except between its change and the revocation of all sessions, which a reset
\* reaches because nobody else can spend its token.
CurrentWith(label, l) ==
    /\ label \notin {"reset.mark", "reset.revoke"} =>
        \A t \in Tokens : sessions[t].state = "live" =>
            sessions[t].password = account.password
    /\ label \in {"register.verify", "issue", "refresh.user", "refresh.revoke"} =>
        l.password = account.password
    /\ label \in {"reset.password", "reset.mark"} => resets[l.password] # "spent"

ResetsInv ==
    /\ EnabledInv
    /\ MarkedOrMarking
    /\ Calm => \A w \in setting.workers : CurrentWith(pc[w], loc[w])

LEMMA ResetsInitInv == AccountsInit => ResetsInv
<1> SUFFICES ASSUME AccountsInit PROVE ResetsInv
  OBVIOUS
<1>1. MarkedOrMarking
  BY DEF AccountsInit, MarkedOrMarking
<1>2. \A w \in setting.workers : CurrentWith(pc[w], loc[w])
  BY DEF AccountsInit, RequestsInit, CurrentWith, NoSession
<1> QED
  BY <1>1, <1>2, EnabledInitInv DEF ResetsInv

LEMMA ResetsStep ==
    ASSUME ResetsInv, NEW w \in setting.workers, AccountsStep(w)
    PROVE  ResetsInv'
<1> USE DEF accountTables
<1>0. /\ Shaped /\ AccountsTypeOK /\ account \in User /\ MarkedOrMarking
      /\ sessions \in [Tokens -> Session]
      /\ Calm => CurrentWith(pc[w], loc[w])
      /\ Nothing \notin Resets
  BY AccountsAssumption DEF ResetsInv, EnabledInv, AccountsTypeOK
<1>1. EnabledInv' /\ Shaped' /\ setting' = setting
  BY EnabledStep, <1>0, AccountsMoves DEF ResetsInv, Moved, requests
<1>2. ASSUME MarkedOrMarking', Calm => CurrentWith(pc[w], loc[w])' PROVE ResetsInv'
  <2>1. Calm' => Calm /\ \A v \in setting'.workers : v = w
    BY <1>0, <1>1, AloneOne DEF Calm, Alone, Unfailing
  <2> QED
    BY <1>1, <1>2, <2>1 DEF ResetsInv
\* The password and the spent tokens stay, and the worker was not about to mark one.
<1>3. ASSUME account'.password = account.password, resets' = resets, NEW label, NEW l,
             Moved(w, label, l), pc[w] # "reset.mark"
      PROVE  MarkedOrMarking'
  BY <1>0, <1>3 DEF MarkedOrMarking, Moved, Unfailing
\* What the step means for the next statement, in terms of before.
<1>4. ASSUME account'.password = account.password, resets' = resets, OnlyRevoked,
             NEW label, NEW l, Moved(w, label, l),
             pc[w] \notin {"reset.mark", "reset.revoke"},
             label \in {"register.verify", "issue", "refresh.user", "refresh.revoke"} =>
                (Calm => l.password = account.password),
             label \in {"reset.password", "reset.mark"} => resets[l.password] # "spent"
      PROVE  ResetsInv'
  <2>1. Calm => CurrentWith(pc[w], loc[w])'
    BY <1>0, <1>4 DEF CurrentWith, Moved, OnlyRevoked
  <2>2. MarkedOrMarking'
    BY <1>3, <1>4
  <2> QED
    BY <1>2, <2>1, <2>2
<1>5. sessions' = sessions => OnlyRevoked
  BY <1>0, RevokingNone
<1>6. CASE CreateUser(w)
  <2>1. /\ Moved(w, "register.verify", Opening(Nothing, Nothing)) /\ pc[w] = "idle"
        /\ account'.password = account.password /\ account.row = "none"
        /\ resets' = resets /\ sessions' = sessions
    BY <1>0, <1>6, HoldMoves DEF CreateUser, Idle, User
  <2>2. account.password = Nothing /\ Opening(Nothing, Nothing).password = Nothing
    BY <2>1 DEF ResetsInv, EnabledInv, EnabledHeld, Opening
  <2> QED
    BY <1>4, <1>5, <2>1, <2>2
<1>7. CASE CreateVerification(w) \/ RevokePresented(w) \/ ReadRefresher(w)
  <2>1. /\ pc[w] \in {"register.verify", "refresh.user", "refresh.revoke"}
        /\ \/ Moved(w, "issue", loc[w]) \/ Moved(w, "refresh.revoke", loc[w])
           \/ Moved(w, "idle", Nothing)
        /\ account' = account /\ resets' = resets
    BY <1>0, <1>7, GotoMoves, FinishMoves
    DEF CreateVerification, RevokePresented, ReadRefresher, At
  <2>2. OnlyRevoked
    BY <1>0, <1>5, <1>7, RevokingOne DEF CreateVerification, RevokePresented, ReadRefresher
  <2>3. Calm => loc[w].password = account.password
    BY <1>0, <2>1 DEF CurrentWith
  <2> QED
    BY <1>4, <2>1, <2>2, <2>3
<1>8. CASE BeginLogin(w)
  <2>1. /\ Moved(w, "issue", Opening(Nothing, account.password)) /\ pc[w] = "idle"
        /\ account' = account /\ resets' = resets /\ sessions' = sessions
        /\ Opening(Nothing, account.password).password = account.password
    BY <1>0, <1>8, HoldMoves DEF BeginLogin, Idle, Opening
  <2> QED
    BY <1>4, <1>5, <2>1
<1>9. ASSUME NEW t \in Tokens, BeginRefresh(w, t) PROVE ResetsInv'
  <2>1. /\ Moved(w, "refresh.user", Opening(t, sessions[t].password)) /\ pc[w] = "idle"
        /\ account' = account /\ resets' = resets /\ sessions' = sessions
        /\ Opening(t, sessions[t].password).password = sessions[t].password
        /\ sessions[t].state = "live"
    BY <1>0, <1>9, HoldMoves DEF BeginRefresh, Idle, Opening
  <2>2. Calm => sessions[t].password = account.password
    BY <1>0, <2>1 DEF CurrentWith
  <2> QED
    BY <1>4, <1>5, <2>1, <2>2
<1>10. CASE IssueSession(w)
  <2>1. /\ Moved(w, "idle", Nothing) /\ pc[w] = "issue" /\ account' = account
        /\ resets' = resets
    BY <1>0, <1>10, FinishMoves DEF IssueSession, At
  <2>2. PICK t \in Tokens :
           /\ sessions'[t] = [state |-> "live", from |-> loc[w].from,
                              password |-> loc[w].password]
           /\ \A s \in Tokens \ {t} : sessions'[s] = sessions[s]
    BY <1>0, <1>10, Issued
  <2>3. Calm => CurrentWith(pc[w], loc[w])'
    BY <1>0, <2>1, <2>2 DEF CurrentWith, Moved
  <2> QED
    BY <1>2, <1>3, <2>1, <2>3
<1>11. ASSUME NEW t \in Tokens, Logout(w, t) PROVE ResetsInv'
  <2>1. /\ OnlyRevoked /\ Moved(w, pc[w], loc[w]) /\ pc[w] = "idle"
        /\ account' = account /\ resets' = resets
    BY <1>0, <1>11, RevokingOne DEF Logout, AtOnce, Idle, Moved, requests
  <2> QED
    BY <1>4, <2>1
<1>12. CASE BeginForgot(w) \/ BeginVerify(w)
  <2>1. PICK label \in {"forgot.create", "verify.user"} : \E l : Hold(w, label, l)
    BY <1>12 DEF BeginForgot, BeginVerify
  <2>2. PICK l : Hold(w, label, l)
    BY <2>1
  <2>3. /\ Moved(w, label, l) /\ pc[w] = "idle"
        /\ account' = account /\ resets' = resets /\ sessions' = sessions
    BY <1>0, <1>12, <2>2, HoldMoves DEF BeginForgot, BeginVerify, Idle
  <2> QED
    BY <1>4, <1>5, <2>3
<1>13. CASE CreateReset(w)
  <2>1. PICK r \in Resets : resets[r] = "unused" /\ resets' = [resets EXCEPT ![r] = "live"]
    BY <1>13 DEF CreateReset
  <2>2. /\ Moved(w, "idle", Nothing) /\ pc[w] = "forgot.create"
        /\ account' = account /\ sessions' = sessions
        /\ \A p \in Resets : resets[p] = "spent" => resets'[p] = "spent"
    BY <1>0, <1>13, <2>1, FinishMoves DEF CreateReset, At, AccountsTypeOK
  <2>3. MarkedOrMarking'
    BY <1>0, <2>2 DEF MarkedOrMarking, Moved, Unfailing, User
  <2>4. Calm => CurrentWith(pc[w], loc[w])'
    BY <1>0, <2>2 DEF CurrentWith, Moved
  <2> QED
    BY <1>2, <2>3, <2>4
<1>14. ASSUME NEW r \in Resets, BeginReset(w, r) PROVE ResetsInv'
  <2>1. /\ Moved(w, "reset.password", Opening(Nothing, r)) /\ pc[w] = "idle"
        /\ account' = account /\ resets' = resets /\ sessions' = sessions
        /\ Opening(Nothing, r).password = r /\ resets[r] = "live"
    BY <1>0, <1>14, HoldMoves DEF BeginReset, Idle, Opening
  <2> QED
    BY <1>4, <1>5, <2>1
<1>15. CASE UpdatePasswordHash(w)
  <2>1. /\ pc[w] = "reset.password" /\ resets' = resets /\ sessions' = sessions
        /\ loc[w].password \in Resets
    BY <1>0, <1>15
    DEF UpdatePasswordHash, At, AccountsTypeOK, IssueLabels, RotateLabels, ResetLabels
  <2>2. CASE Moved(w, "idle", Nothing) /\ account' = account
    BY <1>4, <1>5, <2>1, <2>2
  <2>3. CASE Moved(w, "reset.mark", loc[w]) /\ account'.password = loc[w].password
    <3>1. MarkedOrMarking'
      BY <2>3 DEF MarkedOrMarking, Moved
    <3>2. Calm => CurrentWith(pc[w], loc[w])'
      BY <1>0, <2>1, <2>3 DEF CurrentWith, Moved
    <3> QED
      BY <1>2, <3>1, <3>2
  <2>4. \/ Moved(w, "idle", Nothing) /\ account' = account
        \/ Moved(w, "reset.mark", loc[w]) /\ account'.password = loc[w].password
    BY <1>0, <1>15, GotoMoves, FinishMoves DEF UpdatePasswordHash, User
  <2> QED
    BY <2>2, <2>3, <2>4
<1>16. CASE MarkResetUsed(w)
  <2>1. /\ pc[w] = "reset.mark" /\ account' = account /\ sessions' = sessions
        /\ loc[w].password \in Resets
    BY <1>0, <1>16
    DEF MarkResetUsed, At, AccountsTypeOK, IssueLabels, RotateLabels, ResetLabels
  <2>2. \/ /\ Moved(w, "idle", Nothing) /\ resets' = resets
           /\ resets[loc[w].password] = "spent"
        \/ /\ Moved(w, "reset.revoke", loc[w])
           /\ resets' = [resets EXCEPT ![loc[w].password] = "spent"]
    BY <1>0, <1>16, GotoMoves, FinishMoves DEF MarkResetUsed
  <2>3. /\ \A p \in Resets : resets[p] = "spent" => resets'[p] = "spent"
        /\ resets'[loc[w].password] = "spent"
    BY <2>1, <2>2, <1>0 DEF AccountsTypeOK
  <2>4. MarkedOrMarking'
    BY <1>0, <2>1, <2>2, <2>3 DEF MarkedOrMarking, Moved, Unfailing, User
  <2>5. Calm => CurrentWith(pc[w], loc[w])'
    BY <1>0, <2>1, <2>2 DEF CurrentWith, Moved
  <2> QED
    BY <1>2, <2>4, <2>5
<1>17. CASE RevokeAllForUser(w)
  <2>1. /\ Moved(w, "idle", Nothing) /\ pc[w] = "reset.revoke" /\ account' = account
        /\ resets' = resets /\ \A t \in Tokens : sessions'[t].state # "live"
    BY <1>0, <1>17, FinishMoves, RevokingAll DEF RevokeAllForUser, At
  <2>2. Calm => CurrentWith(pc[w], loc[w])'
    BY <2>1 DEF CurrentWith, Moved
  <2> QED
    BY <1>2, <1>3, <2>1, <2>2
<1>18. CASE MarkEmailVerified(w) \/ MarkVerificationUsed(w) \/ WriteAdminUpdate(w)
  <2>1. /\ Moved(w, "idle", Nothing) \/ Moved(w, "verify.mark", loc[w])
        /\ pc[w] \in {"verify.user", "verify.mark", "admin.update"}
        /\ account'.password = account.password /\ resets' = resets /\ sessions' = sessions
    BY <1>0, <1>18, FinishMoves, GotoMoves
    DEF MarkEmailVerified, MarkVerificationUsed, WriteAdminUpdate, At, User
  <2> QED
    BY <1>4, <1>5, <2>1
<1>19. ASSUME NEW patch \in AdminPatches, BeginAdminUpdate(w, patch) PROVE ResetsInv'
  <2>1. PICK l : Hold(w, "admin.update", l)
    BY <1>19 DEF BeginAdminUpdate
  <2>2. /\ Moved(w, "admin.update", l) /\ pc[w] = "idle"
        /\ account' = account /\ resets' = resets /\ sessions' = sessions
    BY <1>0, <1>19, <2>1, HoldMoves DEF BeginAdminUpdate, Idle
  <2> QED
    BY <1>4, <1>5, <2>2
<1>20. CASE DeleteUser(w)
  <2>1. /\ Moved(w, pc[w], loc[w]) /\ pc[w] = "idle"
        /\ account'.password = account.password /\ resets' = resets /\ sessions' = sessions
    BY <1>0, <1>20 DEF DeleteUser, AtOnce, Idle, Moved, requests, User
  <2> QED
    BY <1>4, <1>5, <2>1
<1>21. CASE AbortAccounts(w)
  <2>1. ~Unfailing
    BY <1>21 DEF AbortAccounts, Abort, Unfailing
  <2> QED
    BY <1>1, <1>2, <2>1 DEF MarkedOrMarking, Calm, Unfailing
<1> QED
  BY <1>6, <1>7, <1>8, <1>9, <1>10, <1>11, <1>12, <1>13, <1>14, <1>15, <1>16, <1>17,
     <1>18, <1>19, <1>20, <1>21 DEF AccountsStep

LEMMA ResetsNext ==
    ASSUME ResetsInv, [AccountsNext]_accountVars
    PROVE  ResetsInv'
<1>1. ASSUME NEW w \in setting.workers, AccountsStep(w) PROVE ResetsInv'
  BY <1>1, ResetsStep
<1>2. EnabledInv' /\ AccountsTypeOK /\ account \in User
  BY EnabledNext DEF ResetsInv, EnabledInv, AccountsTypeOK
<1>3. ASSUME UNCHANGED <<requests, account>>, OnlyRevoked,
             \A r \in Resets : resets'[r] = "spent" <=> resets[r] = "spent"
      PROVE  ResetsInv'
  <2>1. setting' = setting /\ pc' = pc /\ loc' = loc /\ account' = account
    BY <1>3 DEF requests
  <2>2. MarkedOrMarking'
    BY <1>2, <1>3, <2>1 DEF ResetsInv, MarkedOrMarking, Unfailing, User
  <2>3. ASSUME Calm, NEW v \in setting.workers PROVE CurrentWith(pc[v], loc[v])'
    <3>1. CurrentWith(pc[v], loc[v])
      BY <2>3 DEF ResetsInv
    <3>2. pc[v] \in {"reset.password", "reset.mark"} => loc[v].password \in Resets
      BY <1>2, <2>3 DEF AccountsTypeOK, IssueLabels, RotateLabels, ResetLabels
    <3> QED
      BY <1>3, <2>1, <3>1, <3>2 DEF CurrentWith, OnlyRevoked
  <2> QED
    BY <1>2, <2>1, <2>2, <2>3 DEF ResetsInv, Calm, Alone, Unfailing
<1>4. ASSUME NEW t \in Tokens, ExpireSession(t) PROVE ResetsInv'
  BY <1>2, <1>3, <1>4, RevokingOne DEF ExpireSession
<1>5. ASSUME NEW r \in Resets, ExpireReset(r) PROVE ResetsInv'
  <2>1. \A p \in Resets : resets'[p] = "spent" <=> resets[p] = "spent"
    BY <1>2, <1>5 DEF ExpireReset, AccountsTypeOK
  <2> QED
    BY <1>2, <1>3, <1>5, <2>1, RevokingNone DEF ExpireReset
<1>6. CASE UNCHANGED accountVars
  BY <1>2, <1>3, <1>6, RevokingNone DEF accountVars, accountTables
<1> QED
  BY <1>1, <1>4, <1>5, <1>6 DEF AccountsNext

\* ResetPassword sets, marks and revokes in three statements (auth.go:215): for any
\* number of tokens, and of requests that do not fail, the reset token that set the
\* password is spent once no request is under way; requests that run one at a time
\* leave no live session of an older password.
THEOREM ResetTheorem == AccountsSpec => []ResetsTakeEffect
<1>1. ResetsInv => ResetsTakeEffect
  <2> SUFFICES ASSUME ResetsInv, Unfailing, Quiet
               PROVE  /\ account.password # Nothing => resets[account.password] = "spent"
                      /\ Alone => \A t \in Tokens :
                            sessions[t].state = "live" =>
                                sessions[t].password = account.password
    BY DEF ResetsTakeEffect
  <2>1. account.password # Nothing => resets[account.password] = "spent"
    BY DEF ResetsInv, MarkedOrMarking, Quiet
  <2>2. PICK w \in setting.workers : TRUE
    BY DEF ResetsInv, EnabledInv, Shaped
  <2>3. Alone => CurrentWith(pc[w], loc[w]) /\ pc[w] = "idle"
    BY <2>2 DEF ResetsInv, Calm, Quiet
  <2> QED
    BY <2>1, <2>3 DEF CurrentWith
<1> QED
  BY <1>1, ResetsInitInv, ResetsNext, PTL DEF AccountsSpec

-------------------------------------------------------------------------------
(* Access: tokens that outlive what they say, and links between users      *)

\* The tables and what is remembered of them: a role that lets its user in was last
\* held this hour, and no token outlives what its user held but by the hour in which
\* it was made.
AccessRows ==
    /\ clock \in Hours
    /\ people \in [People -> Person]
    /\ tokens \subseteq Token
    /\ links \in [People \X People -> {"none", "active", "revoked"}]
    /\ held \in [People -> [RoleCodes -> {-1} \cup Hours]]
    /\ had \in [People -> SUBSET RoleCodes]
    /\ \A u \in People, r \in RoleCodes : held[u][r] <= clock
    /\ \A u \in People : Admitted(u) => held[u][people[u].role] = clock
    /\ \A u \in People : people[u].role \in had[u]

WasGuide(u) == had[u] \cap {"parent", "admin"} # {}

TokenEnds(t) == t.exp <= held[t.user][t.role] + AccessTTL + (IF Alone THEN 0 ELSE 1)

LinkMade(pair) ==
    pair[1] # pair[2] /\ WasGuide(pair[1]) /\ "student" \in had[pair[2]]

\* What a worker has read of a user was so when it read it.
AccessHeld(label, l) ==
    \/ label = "idle" /\ l = Nothing
    \/ /\ label = "token.issue" /\ l \in [user : People, role : RoleCodes, at : Hours]
       /\ l.at <= held[l.user][l.role] /\ clock <= l.at + 1
    \/ /\ label = "user.update"
       /\ l \in [by : People, user : People, role : RoleCodes, active : BOOLEAN]
    \/ label = "user.profile" /\ l \in [user : People]
    \/ /\ label \in {"link.student", "link.create"}
       /\ l \in [parent : People, child : People] /\ WasGuide(l.parent)
       /\ label = "link.create" => l.parent # l.child /\ "student" \in had[l.child]

\* A request that runs alone makes its token for what its user still is.
StillIs(label, l) ==
    label = "token.issue" => Admitted(l.user) /\ people[l.user].role = l.role

AccessInv ==
    /\ Shaped
    /\ AccessRows
    /\ \A t \in tokens : TokenEnds(t)
    /\ \A pair \in People \X People : links[pair] = "active" => LinkMade(pair)
    /\ \A w \in setting.workers : AccessHeld(pc[w], loc[w])
    /\ Alone => \A w \in setting.workers : StillIs(pc[w], loc[w])

AccessRemember ==
    /\ held' = HeldNow(held, clock')
    /\ had' = [u \in People |-> had[u] \cup {people'[u].role}]

LEMMA AccessInitInv == AccessInit => AccessInv
<1> SUFFICES ASSUME AccessInit PROVE AccessInv
  OBVIOUS
<1>1. Shaped /\ \A w \in setting.workers : pc[w] = "idle" /\ loc[w] = Nothing
  BY ShapedInit DEF AccessInit, RequestsInit
<1>2. FirstRole \in [People -> RoleCodes] /\ LastHour \in Nat
  BY AccessAssumption
<1>3. /\ \A u \in People : people[u].role = FirstRole[u] /\ FirstRole[u] \in RoleCodes
      /\ \A u \in People, r \in RoleCodes :
            held[u][r] = IF r = FirstRole[u] THEN 0 ELSE -1
      /\ clock = 0 /\ clock \in Hours
  BY <1>2 DEF AccessInit, Hours
<1>4. people \in [People -> Person] /\ had \in [People -> SUBSET RoleCodes]
  BY <1>2 DEF AccessInit, Person
<1>5. held \in [People -> [RoleCodes -> {-1} \cup Hours]]
  BY <1>3 DEF AccessInit
<1>6. AccessRows
  BY <1>3, <1>4, <1>5 DEF AccessInit, AccessRows
<1> QED
  BY <1>1, <1>6 DEF AccessInit, AccessInv, AccessHeld, StillIs

\* What is remembered only grows, and knows what is so now.
LEMMA Remembered ==
    ASSUME AccessRows, AccessRemember, people' \in [People -> Person], clock' \in Hours,
           clock <= clock'
    PROVE  /\ held' \in [People -> [RoleCodes -> {-1} \cup Hours]]
           /\ had' \in [People -> SUBSET RoleCodes]
           /\ \A u \in People, r \in RoleCodes :
                 held[u][r] <= held'[u][r] /\ held'[u][r] <= clock'
           /\ \A u \in People : Admitted(u)' => held'[u][people'[u].role] = clock'
           /\ \A u \in People : people'[u].role \in had'[u] /\ had[u] \subseteq had'[u]
<1>1. \A u \in People : people'[u].role \in RoleCodes
  BY DEF Person
<1>2. \A u \in People, r \in RoleCodes :
        held'[u][r] = IF Admitted(u)' /\ people'[u].role = r THEN clock' ELSE held[u][r]
  BY DEF AccessRemember, HeldNow, Admitted, Exists
<1>3. held' = [u \in People |-> [r \in RoleCodes |-> held'[u][r]]]
  BY DEF AccessRemember, HeldNow
<1>4. \A u \in People, r \in RoleCodes : held[u][r] \in {-1} \cup Hours /\ held[u][r] <= clock
  BY DEF AccessRows
<1>5. clock \in Int /\ clock' \in Int /\ \A h \in {-1} \cup Hours : h \in Int
  BY AccessAssumption DEF AccessRows, Hours
<1>6. ASSUME NEW u \in People, NEW r \in RoleCodes
      PROVE  /\ held'[u][r] \in {-1} \cup Hours
             /\ held[u][r] <= held'[u][r] /\ held'[u][r] <= clock'
  <2>1. PICK a \in {-1} \cup Hours : a = held[u][r] /\ a <= clock
    BY <1>4
  <2>2. a \in Int
    BY <1>5
  <2>3. held'[u][r] = clock' \/ held'[u][r] = a
    BY <1>2, <2>1
  <2> QED
    BY <1>5, <2>1, <2>2, <2>3
<1>7. held' \in [People -> [RoleCodes -> {-1} \cup Hours]]
  BY <1>3, <1>6
<1>8. \A u \in People : Admitted(u)' => held'[u][people'[u].role] = clock'
  BY <1>1, <1>2
<1>9. /\ had' \in [People -> SUBSET RoleCodes]
      /\ \A u \in People : people'[u].role \in had'[u] /\ had[u] \subseteq had'[u]
  BY <1>1 DEF AccessRemember, AccessRows
<1> QED
  BY <1>6, <1>7, <1>8, <1>9

\* A token, and who was once what, are only ever given more.
LEMMA EndsStay ==
    ASSUME AccessRows, AccessRows', Alone' = Alone, NEW t \in Token, TokenEnds(t),
           held[t.user][t.role] <= held'[t.user][t.role]
    PROVE  TokenEnds(t)'
<1>1. /\ t.exp \in Int /\ t.user \in People /\ t.role \in RoleCodes
      /\ AccessTTL \in Int /\ \A h \in {-1} \cup Hours : h \in Int
  BY AccessAssumption DEF Token, Hours
<1>2. held[t.user][t.role] \in Int /\ held'[t.user][t.role] \in Int
  BY <1>1 DEF AccessRows
<1> QED
  BY <1>1, <1>2 DEF TokenEnds

LEMMA AccessHeldStays ==
    ASSUME NEW label, NEW l, AccessRows, AccessRows', AccessHeld(label, l),
           \A u \in People, r \in RoleCodes : held[u][r] <= held'[u][r],
           \A u \in People : had[u] \subseteq had'[u],
           clock' = clock \/ (label = "token.issue" => l.at = clock /\ clock' = clock + 1)
    PROVE  AccessHeld(label, l)'
<1>1. \A h \in {-1} \cup Hours : h \in Int
  BY AccessAssumption DEF Hours
<1>2. CASE label = "token.issue"
  <2>1. l.user \in People /\ l.role \in RoleCodes /\ l.at \in Int
    BY <1>1, <1>2 DEF AccessHeld
  <2>2. held[l.user][l.role] \in Int /\ held'[l.user][l.role] \in Int /\ clock \in Int
    BY <1>1, <2>1 DEF AccessRows
  <2> QED
    BY <1>2, <2>1, <2>2 DEF AccessHeld
<1>3. CASE label # "token.issue"
  BY <1>3 DEF AccessHeld, WasGuide
<1> QED
  BY <1>2, <1>3

\* One worker goes on.
LEMMA AccessMoved ==
    ASSUME AccessInv, NEW w \in setting.workers, NEW label, NEW l, Moved(w, label, l), Shaped',
           AccessRemember, clock' = clock, people' \in [People -> Person], tokens' \subseteq Token,
           links' \in [People \X People -> {"none", "active", "revoked"}],
           \A t \in tokens' \ tokens : TokenEnds(t),
           \A pair \in People \X People :
              links'[pair] = "active" => links[pair] = "active" \/ LinkMade(pair),
           AccessHeld(label, l) \/ AccessHeld(label, l)', Alone => StillIs(label, l)'
    PROVE  AccessInv'
<1>1. /\ setting' = setting /\ Alone' = Alone /\ AccessRows /\ clock' \in Hours
      /\ clock <= clock'
  BY AccessAssumption DEF Moved, Alone, AccessInv, AccessRows, Hours
<1>2. /\ AccessRows'
      /\ \A u \in People, r \in RoleCodes : held[u][r] <= held'[u][r]
      /\ \A u \in People : had[u] \subseteq had'[u]
  BY <1>1, Remembered DEF AccessRows
<1>3. ASSUME NEW t \in tokens' PROVE TokenEnds(t)'
  <2>1. t \in Token /\ TokenEnds(t) /\ t.user \in People /\ t.role \in RoleCodes
    BY <1>3 DEF AccessInv, Token
  <2> QED
    BY <1>1, <1>2, <2>1, EndsStay
<1>4. ASSUME NEW pair \in People \X People, links'[pair] = "active" PROVE LinkMade(pair)'
  <2>1. LinkMade(pair) /\ pair[1] \in People /\ pair[2] \in People
    BY <1>4 DEF AccessInv
  <2> QED
    BY <1>2, <2>1 DEF LinkMade, WasGuide
<1>5. ASSUME NEW v \in setting.workers PROVE AccessHeld(pc[v], loc[v])'
  <2>1. CASE v = w
    <3>1. AccessHeld(label, l)'
      BY <1>1, <1>2, AccessHeldStays
    <3> QED
      BY <2>1, <3>1 DEF Moved, AccessHeld
  <2>2. CASE v # w
    <3>1. PICK a, b : a = pc[v] /\ b = loc[v]
      OBVIOUS
    <3>2. pc'[v] = a /\ loc'[v] = b /\ AccessHeld(a, b)
      BY <2>2, <3>1 DEF Moved, AccessInv
    <3>3. AccessHeld(a, b)'
      BY <1>1, <1>2, <3>2, AccessHeldStays
    <3> QED
      BY <3>2, <3>3 DEF AccessHeld
  <2> QED
    BY <2>1, <2>2
<1>6. ASSUME Alone, NEW v \in setting.workers PROVE StillIs(pc[v], loc[v])'
  <2>1. v = w
    BY <1>6, AloneOne DEF AccessInv
  <2> QED
    BY <1>6, <2>1 DEF Moved, StillIs
<1> QED
  BY <1>1, <1>2, <1>3, <1>4, <1>5, <1>6 DEF AccessInv

LEMMA AccessReads ==
    ASSUME AccessInv, NEW w \in setting.workers, NEW label, NEW l, Moved(w, label, l), Shaped',
           AccessRemember, UNCHANGED accessTables, AccessHeld(label, l),
           Alone => StillIs(label, l)
    PROVE  AccessInv'
<1>1. clock' = clock /\ people' = people /\ tokens' = tokens /\ links' = links
  BY DEF accessTables
<1>2. Alone => StillIs(label, l)'
  BY <1>1 DEF StillIs, Admitted, Exists
<1> QED
  BY <1>1, <1>2, AccessMoved DEF AccessInv, AccessRows

LEMMA HourPasses ==
    ASSUME AccessInv, PassHour, AccessRemember
    PROVE  AccessInv'
<1>1. /\ AccessRows /\ UNCHANGED <<people, links>> /\ tokens' \subseteq tokens
      /\ Shaped' /\ setting' = setting /\ pc' = pc /\ loc' = loc /\ Alone' = Alone
  BY StayShaped DEF AccessInv, PassHour, Alone
<1>2. clock' = clock + 1 /\ clock' \in Hours /\ clock <= clock'
  BY AccessAssumption DEF PassHour, AccessInv, AccessRows, Hours
<1>3. /\ AccessRows'
      /\ \A u \in People, r \in RoleCodes : held[u][r] <= held'[u][r]
      /\ \A u \in People : had[u] \subseteq had'[u]
  BY <1>1, <1>2, Remembered DEF AccessRows
<1>4. ASSUME NEW t \in tokens' PROVE TokenEnds(t)'
  <2>1. t \in Token /\ TokenEnds(t) /\ t.user \in People /\ t.role \in RoleCodes
    BY <1>1, <1>4 DEF AccessInv, AccessRows, Token
  <2> QED
    BY <1>1, <1>3, <2>1, EndsStay
<1>5. ASSUME NEW pair \in People \X People, links'[pair] = "active" PROVE LinkMade(pair)'
  <2>1. LinkMade(pair) /\ pair[1] \in People /\ pair[2] \in People
    BY <1>1, <1>5 DEF AccessInv
  <2> QED
    BY <1>3, <2>1 DEF LinkMade, WasGuide
<1>6. ASSUME NEW v \in setting.workers
      PROVE  AccessHeld(pc[v], loc[v])' /\ (Alone => StillIs(pc[v], loc[v])')
  <2>1. PICK a, b : a = pc[v] /\ b = loc[v]
    OBVIOUS
  <2>2. /\ pc'[v] = a /\ loc'[v] = b /\ AccessHeld(a, b) /\ (Alone => StillIs(a, b))
        /\ a = "token.issue" => b.at = clock
    BY <1>1, <2>1 DEF AccessInv, PassHour
  <2>3. AccessHeld(a, b)' /\ (Alone => StillIs(a, b)')
    BY <1>1, <1>2, <1>3, <2>2, AccessHeldStays DEF StillIs, Admitted, Exists
  <2> QED
    BY <2>2, <2>3 DEF AccessHeld, StillIs
<1> QED
  BY <1>1, <1>3, <1>4, <1>5, <1>6 DEF AccessInv

\* What may be written to a users row.
LEMMA PersonWritten ==
    ASSUME people \in [People -> Person], NEW u \in People, NEW role \in RoleCodes,
           NEW on \in BOOLEAN
    PROVE  /\ [people EXCEPT ![u].role = role] \in [People -> Person]
           /\ [people EXCEPT ![u].role = role, ![u].active = on] \in [People -> Person]
           /\ [people EXCEPT ![u].deleted = TRUE, ![u].active = FALSE] \in [People -> Person]
<1>1. people[u] \in Person
  OBVIOUS
<1>2. [people EXCEPT ![u].role = role] \in [People -> Person]
  BY <1>1 DEF Person
<1>3. [people EXCEPT ![u].role = role, ![u].active = on] \in [People -> Person]
  BY <1>1 DEF Person
<1>4. [people EXCEPT ![u].deleted = TRUE, ![u].active = FALSE] \in [People -> Person]
  BY <1>1 DEF Person
<1> QED
  BY <1>2, <1>3, <1>4

LEMMA TokensHold == ASSUME AccessInv, NEW t \in tokens PROVE t \in Token /\ t.user \in People
BY DEF AccessInv, AccessRows, Token

LEMMA AccessWorker ==
    ASSUME AccessInv, NEW w \in setting.workers, AccessRemember,
           \/ SigningIn(w) \/ Managing(w) \/ Promoting(w) \/ OwnProfile(w) \/ Linking(w)
           \/ WritePerson(w) \/ WriteProfile(w) \/ ReadChild(w) \/ CreateLink(w)
           \/ AbortAccess(w)
    PROVE  AccessInv'
<1>1. /\ Shaped /\ AccessRows /\ AccessHeld(pc[w], loc[w])
      /\ Alone => StillIs(pc[w], loc[w])
      /\ AccessTTL \in Nat /\ RolesGiven \subseteq RoleCodes
      /\ \A h \in {-1} \cup Hours : h \in Int
  BY AccessAssumption DEF AccessInv, Hours
<1>2. AccessHeld("idle", Nothing) /\ StillIs("idle", Nothing) /\ StillIs("idle", Nothing)'
  BY DEF AccessHeld, StillIs
<1>3. ASSUME AtOnce(w) PROVE Shaped' /\ Moved(w, "idle", Nothing)
  <2>1. loc[w] = Nothing
    BY <1>1, <1>3 DEF AccessHeld, AtOnce, Idle
  <2> QED
    BY <1>1, <1>3, <2>1, AtOnceMoves
<1>4. ASSUME NEW u \in People, SignIn(w, u) PROVE AccessInv'
  <2>1. PICK h : h = [user |-> u, role |-> people[u].role, at |-> clock]
    OBVIOUS
  <2>2. /\ people[u].role \in RoleCodes /\ clock \in Hours /\ clock \in Int
        /\ Admitted(u) /\ held[u][people[u].role] = clock
    BY <1>1, <1>4 DEF SignIn, AccessRows, Person
  <2>3. AccessHeld("token.issue", h) /\ StillIs("token.issue", h)
    BY <2>1, <2>2 DEF AccessHeld, StillIs
  <2>4. Hold(w, "token.issue", h) /\ UNCHANGED accessTables
    BY <1>4, <2>1 DEF SignIn
  <2> QED
    BY <1>1, <2>3, <2>4, HoldMoves, AccessReads
<1>5. ASSUME IssueToken(w) PROVE AccessInv'
  <2>1. PICK u \in People, r \in RoleCodes, at \in Hours :
            loc[w] = [user |-> u, role |-> r, at |-> at]
    BY <1>1, <1>5 DEF IssueToken, At, AccessHeld
  <2>2. /\ at <= held[u][r] /\ clock <= at + 1 /\ at \in Int
        /\ Alone => Admitted(u) /\ people[u].role = r
    <3>1. PICK g : g = loc[w]
      OBVIOUS
    <3>2. g.user = u /\ g.role = r /\ g.at = at /\ pc[w] = "token.issue"
      BY <1>5, <2>1, <3>1 DEF IssueToken, At
    <3>3. AccessHeld("token.issue", g) /\ (Alone => StillIs("token.issue", g))
      BY <1>1, <3>1, <3>2
    <3>4. Alone => Admitted(u) /\ people[u].role = r
      BY <3>2, <3>3, Zenon DEF StillIs
    <3> QED
      BY <1>1, <3>2, <3>3, <3>4 DEF AccessHeld
  <2>3. clock \in Nat /\ held[u][r] \in Int /\ (Alone => held[u][r] = clock)
    BY <1>1, <2>2, AccessAssumption DEF AccessRows, Hours
  <2>4. PICK t : t = [user |-> u, role |-> r, exp |-> clock + AccessTTL]
    OBVIOUS
  <2>5. t \in Token /\ TokenEnds(t)
    BY <1>1, <2>2, <2>3, <2>4 DEF Token, TokenEnds
  <2>6. /\ tokens' = tokens \cup {t} /\ Finish(w)
        /\ clock' = clock /\ people' = people /\ links' = links
    BY <1>5, <2>1, <2>4 DEF IssueToken
  <2>7. /\ tokens' \subseteq Token /\ \A s \in tokens' \ tokens : TokenEnds(s)
        /\ people' \in [People -> Person]
        /\ links' \in [People \X People -> {"none", "active", "revoked"}]
    BY <1>1, <2>5, <2>6 DEF AccessRows
  <2> QED
    BY <1>1, <1>2, <2>6, <2>7, FinishMoves, AccessMoved
\* A write to the users rows, by a request that then is over.
<1>6. ASSUME people' \in [People -> Person], UNCHANGED <<clock, tokens, links>>,
             Shaped', Moved(w, "idle", Nothing)
      PROVE  AccessInv'
  BY <1>1, <1>2, <1>6, AccessMoved DEF AccessRows
<1>7. ASSUME NEW t \in tokens, NEW u \in People,
             NEW role \in RolesGiven \cup {people[u].role}, NEW on \in BOOLEAN,
             BeginManage(w, t, u, role, on)
      PROVE  AccessInv'
  <2>1. PICK h : h = [by |-> t.user, user |-> u, role |-> role, active |-> on]
    OBVIOUS
  <2>2. role \in RoleCodes
    BY <1>1 DEF AccessRows, Person
  <2>3. AccessHeld("user.update", h) /\ StillIs("user.update", h)
    BY <2>1, <2>2, TokensHold DEF AccessHeld, StillIs
  <2> QED
    BY <1>1, <1>7, <2>1, <2>3, HoldMoves, AccessReads DEF BeginManage
<1>8. ASSUME NEW t \in tokens, NEW u \in People, RemovePerson(w, t, u) PROVE AccessInv'
  <2>1. people' \in [People -> Person]
    BY <1>1, <1>8, PersonWritten DEF RemovePerson, AccessRows
  <2> QED
    BY <1>3, <1>6, <1>8, <2>1 DEF RemovePerson
<1>9. ASSUME NEW u \in People, NEW role \in RolesGiven, Promote(w, u, role) PROVE AccessInv'
  <2>1. people' \in [People -> Person]
    BY <1>1, <1>9, PersonWritten DEF Promote, AccessRows
  <2> QED
    BY <1>3, <1>6, <1>9, <2>1 DEF Promote
<1>10. ASSUME WritePerson(w) PROVE AccessInv'
  <2>1. PICK p \in People, u \in People, role \in RoleCodes, on \in BOOLEAN :
            loc[w] = [by |-> p, user |-> u, role |-> role, active |-> on]
    BY <1>1, <1>10 DEF WritePerson, At, AccessHeld
  <2>2. people' = IF Exists(u)
                  THEN [people EXCEPT ![u].role = role, ![u].active = on] ELSE people
    BY <1>10, <2>1 DEF WritePerson
  <2>3. people' \in [People -> Person]
    BY <1>1, <2>2, PersonWritten DEF AccessRows
  <2> QED
    BY <1>1, <1>6, <1>10, <2>3, FinishMoves DEF WritePerson
<1>11. ASSUME NEW t \in tokens, BeginProfile(w, t) PROVE AccessInv'
  <2>1. PICK h : h = [user |-> t.user]
    OBVIOUS
  <2>2. AccessHeld("user.profile", h) /\ StillIs("user.profile", h)
    BY <2>1, TokensHold DEF AccessHeld, StillIs
  <2> QED
    BY <1>1, <1>11, <2>1, <2>2, HoldMoves, AccessReads DEF BeginProfile
<1>12. ASSUME NEW t \in tokens, NEW u \in People, BeginLink(w, t, u) PROVE AccessInv'
  <2>1. PICK h : h = [parent |-> t.user, child |-> u]
    OBVIOUS
  <2>2. WasGuide(t.user)
    BY <1>1, <1>12, TokensHold DEF BeginLink, AccessRows, WasGuide
  <2>3. AccessHeld("link.student", h) /\ StillIs("link.student", h)
    BY <2>1, <2>2, TokensHold DEF AccessHeld, StillIs
  <2> QED
    BY <1>1, <1>12, <2>1, <2>3, HoldMoves, AccessReads DEF BeginLink
<1>13. ASSUME NEW t \in tokens, NEW u \in People, UnlinkChild(w, t, u) PROVE AccessInv'
  <2>1. \A pair \in People \X People : links'[pair] = "active" => links[pair] = "active"
    BY <1>1, <1>13 DEF UnlinkChild, AccessRows
  <2>2. links' \in [People \X People -> {"none", "active", "revoked"}]
    BY <1>1, <1>13 DEF UnlinkChild, AccessRows
  <2> QED
    BY <1>1, <1>2, <1>3, <1>13, <2>1, <2>2, AccessMoved DEF UnlinkChild, AccessRows
<1>14. ASSUME WriteProfile(w) \/ AbortAccess(w) PROVE AccessInv'
  BY <1>1, <1>2, <1>14, FinishMoves, AccessReads DEF WriteProfile, AbortAccess, Abort
<1>15. ASSUME ReadChild(w) PROVE AccessInv'
  <2>1. PICK h : h = loc[w]
    OBVIOUS
  <2>2. /\ h \in [parent : People, child : People] /\ WasGuide(h.parent)
        /\ UNCHANGED accessTables
    BY <1>1, <1>15, <2>1 DEF ReadChild, At, AccessHeld
  <2>3. CASE Exists(h.child) /\ people[h.child].role = "student" /\ h.child # h.parent
    <3>1. Goto(w, "link.create")
      BY <1>15, <2>1, <2>3 DEF ReadChild
    <3>2. AccessHeld("link.create", h) /\ StillIs("link.create", h)
      BY <1>1, <2>2, <2>3 DEF AccessRows, AccessHeld, StillIs
    <3> QED
      BY <1>1, <2>1, <2>2, <3>1, <3>2, GotoMoves, AccessReads
  <2>4. CASE ~(Exists(h.child) /\ people[h.child].role = "student" /\ h.child # h.parent)
    <3>1. Finish(w)
      BY <1>15, <2>1, <2>4 DEF ReadChild
    <3> QED
      BY <1>1, <1>2, <2>2, <3>1, FinishMoves, AccessReads
  <2> QED
    BY <2>3, <2>4
<1>16. ASSUME CreateLink(w) PROVE AccessInv'
  <2>1. PICK p \in People, c \in People : loc[w] = [parent |-> p, child |-> c]
    BY <1>1, <1>16 DEF CreateLink, At, AccessHeld
  <2>2. p # c /\ WasGuide(p) /\ "student" \in had[c]
    BY <1>1, <1>16, <2>1 DEF CreateLink, At, AccessHeld
  <2>3. /\ links' = [links EXCEPT ![<<p, c>>] = "active"] /\ Finish(w)
        /\ UNCHANGED <<clock, people, tokens>>
    BY <1>16, <2>1 DEF CreateLink
  <2>4. LinkMade(<<p, c>>)
    BY <2>2 DEF LinkMade
  <2>5. \A pair \in People \X People :
            links'[pair] = "active" => links[pair] = "active" \/ LinkMade(pair)
    BY <1>1, <2>3, <2>4 DEF AccessRows
  <2>6. links' \in [People \X People -> {"none", "active", "revoked"}]
    BY <1>1, <2>3 DEF AccessRows
  <2> QED
    BY <1>1, <1>2, <2>3, <2>5, <2>6, FinishMoves, AccessMoved DEF AccessRows
<1> QED
  BY <1>4, <1>5, <1>7, <1>8, <1>9, <1>10, <1>11, <1>12, <1>13, <1>14, <1>15, <1>16
  DEF SigningIn, Managing, Promoting, OwnProfile, Linking

LEMMA AccessNextInv ==
    ASSUME AccessInv, [AccessNext]_accessVars
    PROVE  AccessInv'
<1>1. CASE UNCHANGED accessVars
  <2>1. /\ Shaped' /\ setting' = setting /\ pc' = pc /\ loc' = loc
        /\ clock' = clock /\ people' = people /\ tokens' = tokens /\ links' = links
        /\ held' = held /\ had' = had
    BY <1>1, StayShaped DEF AccessInv, accessVars, accessTables
  <2>2. AccessRows'
    BY <2>1 DEF AccessInv, AccessRows, Admitted, Exists
  <2> QED
    BY <2>1, <2>2 DEF AccessInv, TokenEnds, LinkMade, WasGuide, AccessHeld, StillIs, Admitted,
                      Exists, Alone
<1>2. CASE AccessNext
  <2>1. AccessRemember
    BY <1>2 DEF AccessNext, AccessRemember
  <2> QED
    BY <1>2, <2>1, AccessWorker, HourPasses DEF AccessNext
<1> QED
  BY <1>1, <1>2

LEMMA AccessInvTypes == AccessInv => AccessTypeOK
<1>1. ASSUME AccessInv PROVE AccessTypeOK
  BY <1>1 DEF AccessInv, AccessRows, AccessHeld, AccessTypeOK
<1> QED
  BY <1>1

\* Users, tokens and links keep their columns' types, and a request reads from its
\* goroutine what its next statement needs, for any number of users and requests.
THEOREM AccessTypes == AccessSpec => []AccessTypeOK
BY AccessInvTypes, AccessInitInv, AccessNextInv, PTL DEF AccessSpec

\* A token outlives what its user was by no more than it lasts, or an hour longer when
\* requests race (token.go:47, rbac.go:25), and a link joins two users that once were
\* what it takes (discovery.go:83, :91), for any users, roles given and lifetimes.
THEOREM AccessTheorem == AccessSpec => []AccessEnds
<1>1. ASSUME AccessInv PROVE AccessEnds
  BY <1>1 DEF AccessInv, TokenEnds, LinkMade, WasGuide, AccessEnds
<1> QED
  BY <1>1, AccessInitInv, AccessNextInv, PTL DEF AccessSpec

-------------------------------------------------------------------------------
(* Live sessions: a status and a link that two writes keep apart           *)

\* The tables, and what a worker is about to write of them.
LiveRows ==
    /\ session \in LiveSession
    /\ attendance \in [Attendees -> Attendance]
    /\ active \subseteq Learners
    /\ taught \in {"published", "archived", "deleted"}
    /\ now \in 0..Horizon

LiveHeld(label, l) ==
    \/ label = "idle" /\ l = Nothing
    \/ /\ label \in {"live.update", "live.link", "live.status"}
       /\ l.row \in Details
       /\ label = "live.link" => l.status \in {"scheduled", "none"}
       /\ label = "live.status" => l.status \in {"scheduled", "completed", "cancelled"}
    \/ label = "live.attend" /\ l \in [user : Attendees, status : Marks, joined : BOOLEAN]
    \/ /\ label \in {"live.join", "live.joined", "live.calendar", "live.refused"}
       /\ l \in [user : Attendees]

\* A request that runs alone finds the session as it has read it: a draft it is about
\* to publish has its link, and none ends that has not been open.
StillReady(label, l) ==
    /\ label = "live.link" /\ l.status = "scheduled" => session.status = "draft" /\ l.row.link
    /\ label = "live.status" =>
        /\ l.status = "scheduled" => session.status = "draft" /\ session.row.link
        /\ l.status = "completed" => session.status = "scheduled"
        /\ l.status = "cancelled" => session.status # "completed"
    /\ label = "live.join" => session.status = "scheduled" /\ session.row.link

LiveInv ==
    /\ Shaped
    /\ LiveRows
    /\ \A w \in setting.workers : LiveHeld(pc[w], loc[w])
    /\ Alone => \A w \in setting.workers : StillReady(pc[w], loc[w])

LEMMA LiveInitInv == LiveSessionsInit => LiveInv
<1> SUFFICES ASSUME LiveSessionsInit PROVE LiveInv
  OBVIOUS
<1>1. Shaped /\ \A w \in setting.workers : pc[w] = "idle" /\ loc[w] = Nothing
  BY ShapedInit DEF LiveSessionsInit, RequestsInit
<1>2. session \in LiveSession
  <2>1. PICK s \in Starts :
            session = [status |-> "none",
                       row |-> [provider |-> "custom", link |-> FALSE, starts |-> s]]
    BY DEF LiveSessionsInit
  <2>2. [provider |-> "custom", link |-> FALSE, starts |-> s] \in Details
    BY LiveSessionsAssumption DEF Details
  <2> QED
    BY <2>1, <2>2 DEF LiveSession
<1>3. LiveRows
  BY <1>2, LiveSessionsAssumption DEF LiveSessionsInit, LiveRows, Attendance
<1> QED
  BY <1>1, <1>3 DEF LiveInv, LiveHeld, StillReady

\* One worker goes on.
LEMMA LiveMoved ==
    ASSUME LiveInv, NEW w \in setting.workers, NEW label, NEW l, Moved(w, label, l), Shaped',
           LiveRows', LiveHeld(label, l), Alone => StillReady(label, l)'
    PROVE  LiveInv'
<1>1. setting' = setting /\ Alone' = Alone
  BY DEF Moved, Alone
<1>2. ASSUME NEW v \in setting.workers PROVE LiveHeld(pc[v], loc[v])'
  <2>1. CASE v = w
    BY <2>1 DEF Moved, LiveHeld
  <2>2. CASE v # w
    BY <2>2 DEF Moved, LiveInv, LiveHeld
  <2> QED
    BY <2>1, <2>2
<1>3. ASSUME Alone, NEW v \in setting.workers PROVE StillReady(pc[v], loc[v])'
  <2>1. v = w
    BY <1>3, AloneOne DEF LiveInv
  <2> QED
    BY <1>3, <2>1 DEF Moved, StillReady
<1> QED
  BY <1>1, <1>2, <1>3 DEF LiveInv

LEMMA LiveReads ==
    ASSUME LiveInv, NEW w \in setting.workers, NEW label, NEW l, Moved(w, label, l), Shaped',
           UNCHANGED liveTables, LiveHeld(label, l), Alone => StillReady(label, l)
    PROVE  LiveInv'
<1>1. /\ session' = session /\ attendance' = attendance /\ active' = active
      /\ taught' = taught /\ now' = now
  BY DEF liveTables
<1>2. LiveRows' /\ (Alone => StillReady(label, l)')
  BY <1>1 DEF LiveInv, LiveRows, StillReady
<1> QED
  BY <1>2, LiveMoved

\* A patch of one column leaves a row.
LEMMA PatchedRow ==
    ASSUME NEW row \in Details
    PROVE  /\ \A p \in Providers : [row EXCEPT !["provider"] = p] \in Details
           /\ \A b \in BOOLEAN : [row EXCEPT !["link"] = b] \in Details
           /\ \A s \in Starts : [row EXCEPT !["starts"] = s] \in Details
           /\ [row EXCEPT !.link = TRUE] \in Details
           /\ [row EXCEPT !.link = TRUE].link
BY DEF Details

LEMMA LiveWorker ==
    ASSUME LiveInv, NEW w \in setting.workers, LiveSessionsStep(w)
    PROVE  LiveInv'
<1>1. /\ Shaped /\ LiveRows /\ LiveHeld(pc[w], loc[w])
      /\ Alone => StillReady(pc[w], loc[w])
      /\ session.row \in Details
  BY DEF LiveInv, LiveRows, LiveSession
<1>2. /\ LiveHeld("idle", Nothing) /\ StillReady("idle", Nothing)
      /\ StillReady("idle", Nothing)'
  BY DEF LiveHeld, StillReady
<1>3. ASSUME NEW row \in Details, CreateSession(w, row) PROVE LiveInv'
  <2>1. Shaped' /\ Moved(w, "idle", Nothing)
    BY <1>1, <1>3, AtOnceMoves DEF CreateSession, AtOnce, Idle, LiveHeld
  <2>2. LiveRows'
    BY <1>1, <1>3 DEF CreateSession, LiveRows, LiveSession
  <2> QED
    BY <1>2, <2>1, <2>2, LiveMoved
<1>4. ASSUME NEW column, NEW value, BeginUpdate(w, column, value),
             [session.row EXCEPT ![column] = value] \in Details
      PROVE  LiveInv'
  <2>1. PICK h : h = Plan([session.row EXCEPT ![column] = value], session.status)
    OBVIOUS
  <2>2. LiveHeld("live.update", h) /\ StillReady("live.update", h)
    BY <1>4, <2>1 DEF LiveHeld, StillReady, Plan
  <2> QED
    BY <1>1, <1>4, <2>1, <2>2, HoldMoves, LiveReads DEF BeginUpdate
<1>5. ASSUME BeginPublish(w) PROVE LiveInv'
  <2>1. PICK h : h = Plan([session.row EXCEPT !.link = TRUE], "scheduled")
    OBVIOUS
  <2>2. h.row \in Details /\ h.row.link /\ h.status = "scheduled"
    BY <1>1, <2>1, PatchedRow DEF Plan
  <2>3. session.status = "draft" /\ UNCHANGED liveTables
    BY <1>5 DEF BeginPublish
  <2>4. CASE ~session.row.link /\ session.row.provider # "custom"
    <3>1. Hold(w, "live.link", h)
      BY <1>5, <2>1, <2>4 DEF BeginPublish
    <3>2. LiveHeld("live.link", h) /\ StillReady("live.link", h)
      BY <2>2, <2>3 DEF LiveHeld, StillReady
    <3> QED
      BY <1>1, <2>3, <3>1, <3>2, HoldMoves, LiveReads
  <2>5. CASE ~(~session.row.link /\ session.row.provider # "custom")
    <3>1. Hold(w, "live.status", h) /\ session.row.link
      BY <1>5, <2>1, <2>5 DEF BeginPublish
    <3>2. LiveHeld("live.status", h) /\ StillReady("live.status", h)
      BY <2>2, <2>3, <3>1 DEF LiveHeld, StillReady
    <3> QED
      BY <1>1, <2>3, <3>1, <3>2, HoldMoves, LiveReads
  <2> QED
    BY <2>4, <2>5
\* A row is written whole, but for its status.
<1>6. ASSUME NEW row \in Details, session' = [session EXCEPT !.row = row],
             UNCHANGED <<attendance, active, taught, now>>
      PROVE  LiveRows' /\ session'.status = session.status /\ session'.row = row
  BY <1>1, <1>6 DEF LiveRows, LiveSession
<1>7. ASSUME WriteRow(w) PROVE LiveInv'
  <2>1. LiveRows'
    BY <1>1, <1>6, <1>7 DEF WriteRow, At, LiveHeld
  <2> QED
    BY <1>1, <1>2, <1>7, <2>1, FinishMoves, LiveMoved DEF WriteRow
<1>8. ASSUME WriteLink(w) PROVE LiveInv'
  <2>1. PICK h : h = loc[w]
    OBVIOUS
  <2>2. /\ h.row \in Details /\ h.status \in {"scheduled", "none"}
        /\ Alone /\ h.status = "scheduled" => session.status = "draft" /\ h.row.link
    BY <1>1, <1>8, <2>1 DEF WriteLink, At, LiveHeld, StillReady
  <2>3. LiveRows' /\ session'.status = session.status /\ session'.row = h.row
    BY <1>6, <1>8, <2>1, <2>2 DEF WriteLink
  <2>4. CASE h.status = "scheduled"
    <3>1. Goto(w, "live.status")
      BY <1>8, <2>1, <2>4 DEF WriteLink
    <3>2. LiveHeld("live.status", h) /\ (Alone => StillReady("live.status", h)')
      BY <2>2, <2>3, <2>4 DEF LiveHeld, StillReady
    <3> QED
      BY <1>1, <2>1, <2>3, <3>1, <3>2, GotoMoves, LiveMoved
  <2>5. CASE h.status = "none"
    <3>1. Goto(w, "live.update")
      BY <1>8, <2>1, <2>5 DEF WriteLink
    <3>2. LiveHeld("live.update", h) /\ StillReady("live.update", h)'
      BY <2>2 DEF LiveHeld, StillReady
    <3> QED
      BY <1>1, <2>1, <2>3, <3>1, <3>2, GotoMoves, LiveMoved
  <2> QED
    BY <2>2, <2>4, <2>5
<1>9. ASSUME SetStatus(w) PROVE LiveInv'
  <2>1. LiveRows'
    BY <1>1, <1>9 DEF SetStatus, At, LiveHeld, LiveRows, LiveSession
  <2> QED
    BY <1>1, <1>2, <1>9, <2>1, FinishMoves, LiveMoved DEF SetStatus
<1>10. ASSUME NEW final \in {"completed", "cancelled"}, BeginEnd(w, final) PROVE LiveInv'
  <2>1. PICK h : h = Plan(session.row, final)
    OBVIOUS
  <2>2. h.row \in Details /\ h.status = final
    BY <1>1, <2>1 DEF Plan
  <2>3. /\ final = "completed" => session.status = "scheduled"
        /\ final = "cancelled" => session.status # "completed"
    BY <1>10 DEF BeginEnd, Finals
  <2>4. LiveHeld("live.status", h) /\ StillReady("live.status", h)
    BY <2>2, <2>3 DEF LiveHeld, StillReady
  <2> QED
    BY <1>1, <1>10, <2>1, <2>4, HoldMoves, LiveReads DEF BeginEnd
<1>11. ASSUME BeginGenerate(w) PROVE LiveInv'
  <2>1. PICK h : h = Plan([session.row EXCEPT !.link = TRUE], "none")
    OBVIOUS
  <2>2. h.row \in Details /\ h.status = "none"
    BY <1>1, <2>1, PatchedRow DEF Plan
  <2>3. LiveHeld("live.link", h) /\ StillReady("live.link", h)
    BY <2>2 DEF LiveHeld, StillReady
  <2> QED
    BY <1>1, <1>11, <2>1, <2>3, HoldMoves, LiveReads DEF BeginGenerate
<1>12. ASSUME NEW u \in Attendees, NEW m \in Marks, BeginCheckIn(w, u) \/ BeginMark(w, u, m)
       PROVE  LiveInv'
  <2>1. PICK mark \in Marks, joined \in BOOLEAN :
            /\ Hold(w, "live.attend", [user |-> u, status |-> mark, joined |-> joined])
            /\ UNCHANGED liveTables
    <3>1. {"present", "late"} \subseteq Marks /\ Punctuality \in {"present", "late"}
      BY LiveSessionsAssumption DEF Punctuality
    <3>2. CASE BeginCheckIn(w, u)
      BY <3>1, <3>2 DEF BeginCheckIn
    <3>3. CASE BeginMark(w, u, m)
      <4>1. (m \in {"present", "late"}) \in BOOLEAN
        OBVIOUS
      <4> QED
        BY <3>3, <4>1, Zenon DEF BeginMark
    <3> QED
      BY <1>12, <3>2, <3>3
  <2>2. PICK h : h = [user |-> u, status |-> mark, joined |-> joined]
    OBVIOUS
  <2>3. LiveHeld("live.attend", h) /\ StillReady("live.attend", h)
    BY <2>2 DEF LiveHeld, StillReady
  <2> QED
    BY <1>1, <2>1, <2>2, <2>3, HoldMoves, LiveReads
<1>13. ASSUME UpsertAttendance(w) PROVE LiveInv'
  <2>1. PICK u \in Attendees, m \in Marks, j \in BOOLEAN :
            loc[w] = [user |-> u, status |-> m, joined |-> j]
    BY <1>1, <1>13 DEF UpsertAttendance, At, LiveHeld
  <2>2. attendance' = [attendance EXCEPT ![u] =
                          [status |-> m, joined |-> j \/ attendance[u].joined]]
    BY <1>13, <2>1 DEF UpsertAttendance
  <2>3. [status |-> m, joined |-> j \/ attendance[u].joined] \in Attendance
    BY DEF Attendance
  <2>4. LiveRows'
    <3>1. attendance' \in [Attendees -> Attendance]
      BY <1>1, <2>2, <2>3, Zenon DEF LiveRows
    <3> QED
      BY <1>1, <1>13, <3>1 DEF UpsertAttendance, LiveRows
  <2> QED
    BY <1>1, <1>2, <1>13, <2>4, FinishMoves, LiveMoved DEF UpsertAttendance
<1>14. ASSUME NEW u \in Attendees, BeginJoin(w, u) \/ BeginCalendar(w, u) PROVE LiveInv'
  <2>1. PICK h : h = [user |-> u]
    OBVIOUS
  <2>2. h \in [user : Attendees]
    BY <2>1
  <2>3. PICK label \in {"live.join", "live.joined", "live.calendar"} :
            /\ Hold(w, label, h) /\ UNCHANGED liveTables
            /\ label = "live.join" => session.status = "scheduled" /\ session.row.link
    BY <1>14, <2>1 DEF BeginJoin, BeginCalendar
  <2>4. LiveHeld(label, h) /\ StillReady(label, h)
    BY <2>2, <2>3 DEF LiveHeld, StillReady
  <2> QED
    BY <1>1, <2>3, <2>4, HoldMoves, LiveReads
<1>15. ASSUME ReadJoiner(w) \/ ReadCalendarCourse(w) PROVE LiveInv'
  <2>1. PICK h : h = loc[w]
    OBVIOUS
  <2>2. h \in [user : Attendees] /\ UNCHANGED liveTables
    BY <1>1, <1>15, <2>1 DEF ReadJoiner, ReadCalendarCourse, At, LiveHeld
  <2>3. \/ Goto(w, "live.joined") \/ Goto(w, "live.refused") \/ Finish(w)
    BY <1>15 DEF ReadJoiner, ReadCalendarCourse
  <2>4. /\ LiveHeld("live.joined", h) /\ StillReady("live.joined", h)
        /\ LiveHeld("live.refused", h) /\ StillReady("live.refused", h)
    BY <2>2 DEF LiveHeld, StillReady
  <2> QED
    BY <1>1, <1>2, <2>1, <2>2, <2>3, <2>4, GotoMoves, FinishMoves, LiveReads
<1>16. ASSUME AnswerReader(w) \/ AbortLive(w) PROVE LiveInv'
  BY <1>1, <1>2, <1>16, FinishMoves, LiveReads DEF AnswerReader, AbortLive, Abort
<1>17. (\E final \in DOMAIN Finals : BeginEnd(w, final)) => LiveInv'
  <2>1. DOMAIN Finals = {"completed", "cancelled"}
    BY DEF Finals
  <2> QED
    BY <1>10, <2>1
<1>18. ASSUME \/ \E p \in Providers : BeginUpdate(w, "provider", p)
              \/ \E l \in BOOLEAN : BeginUpdate(w, "link", l)
              \/ \E s \in Starts : BeginUpdate(w, "starts", s)
       PROVE  LiveInv'
  BY <1>1, <1>4, <1>18, PatchedRow
<1> QED
  BY <1>3, <1>5, <1>7, <1>8, <1>9, <1>11, <1>12, <1>13, <1>14, <1>15, <1>16, <1>17, <1>18,
     LiveSessionsAssumption
  DEF LiveSessionsStep

LEMMA LiveNextInv ==
    ASSUME LiveInv, [LiveSessionsNext]_liveVars
    PROVE  LiveInv'
<1>1. ASSUME UNCHANGED <<requests, session, attendance>>, active' \subseteq Learners,
             taught' \in {"published", "archived", "deleted"}, now' \in 0..Horizon
      PROVE  LiveInv'
  BY <1>1, StayShaped DEF LiveInv, LiveRows, LiveHeld, StillReady, Alone
<1>2. ASSUME NEW u \in Learners, ChangeEnrollment(u) PROVE LiveInv'
  BY <1>1, <1>2 DEF ChangeEnrollment, LiveInv, LiveRows
<1>3. ASSUME NEW final \in {"published", "archived", "deleted"}, ChangeTaught(final)
      PROVE  LiveInv'
  BY <1>1, <1>3 DEF ChangeTaught, LiveInv, LiveRows
<1>4. ASSUME Tick PROVE LiveInv'
  <2>1. now' \in 0..Horizon
    BY <1>4, LiveSessionsAssumption DEF Tick, LiveInv, LiveRows
  <2> QED
    BY <1>1, <1>4, <2>1 DEF Tick, LiveInv, LiveRows
<1>5. ASSUME UNCHANGED liveVars PROVE LiveInv'
  BY <1>1, <1>5 DEF liveVars, liveTables, LiveInv, LiveRows
<1> QED
  BY <1>2, <1>3, <1>4, <1>5, LiveWorker DEF LiveSessionsNext

\* What SessionStatusSound says of one step.
LiveStep ==
    /\ Alone =>
        /\ session.status \in {"completed", "cancelled"} => session'.status = session.status
        /\ session.status = "draft" /\ session'.status = "scheduled" => session.row.link
        /\ \A w \in setting.workers :
                pc'[w] = "live.joined" /\ pc[w] = "live.join"
                    => session.status = "scheduled" /\ session.row.link
    /\ ShownAlike'

LEMMA Alike == ShownAlike
BY DEF ShownAlike, MayRead, Listed, InCalendar, Standing, Open

LEMMA LiveSteps ==
    ASSUME LiveInv, [LiveSessionsNext]_liveVars
    PROVE  [LiveStep]_liveVars
<1>1. SUFFICES ASSUME LiveSessionsNext, Alone
               PROVE  /\ session.status \in {"completed", "cancelled"} =>
                            session'.status = session.status
                      /\ session.status = "draft" /\ session'.status = "scheduled" =>
                            session.row.link
                      /\ \A w \in setting.workers :
                            pc'[w] = "live.joined" /\ pc[w] = "live.join"
                                => session.status = "scheduled" /\ session.row.link
  <2>1. ShownAlike'
    BY Alike, PTL
  <2> QED
    BY <2>1 DEF LiveStep
<1>2. ASSUME NEW w \in setting.workers, pc[w] = "live.join"
      PROVE  session.status = "scheduled" /\ session.row.link
  BY <1>1, <1>2 DEF LiveInv, StillReady
<1>3. CASE session' = session
  BY <1>2, <1>3
<1>4. ASSUME NEW w \in setting.workers,
             \/ \E row \in Details : CreateSession(w, row)
             \/ WriteRow(w) \/ WriteLink(w) \/ SetStatus(w)
      PROVE  /\ session.status \in {"completed", "cancelled"} =>
                   session'.status = session.status
             /\ session.status = "draft" /\ session'.status = "scheduled" => session.row.link
  <2>1. session \in LiveSession /\ LiveHeld(pc[w], loc[w]) /\ StillReady(pc[w], loc[w])
    BY <1>1 DEF LiveInv, LiveRows
  <2>2. CASE \E row \in Details : CreateSession(w, row)
    BY <2>2 DEF CreateSession
  <2>3. CASE WriteRow(w) \/ WriteLink(w)
    BY <2>1, <2>3 DEF WriteRow, WriteLink, LiveSession
  <2>4. CASE SetStatus(w)
    <3>1. /\ session'.status = loc[w].status /\ pc[w] = "live.status"
          /\ loc[w].status \in {"scheduled", "completed", "cancelled"}
      BY <2>1, <2>4 DEF SetStatus, At, LiveHeld, LiveSession
    <3> QED
      BY <2>1, <3>1 DEF StillReady
  <2> QED
    BY <1>4, <2>2, <2>3, <2>4
<1>5. \/ session' = session
      \/ \E w \in setting.workers :
            \/ \E row \in Details : CreateSession(w, row)
            \/ WriteRow(w) \/ WriteLink(w) \/ SetStatus(w)
  BY <1>1 DEF LiveSessionsNext, LiveSessionsStep, BeginUpdate, BeginPublish, BeginEnd,
              BeginGenerate, BeginCheckIn, BeginMark, UpsertAttendance, BeginJoin,
              BeginCalendar, ReadJoiner, ReadCalendarCourse, AnswerReader, AbortLive,
              ChangeEnrollment, ChangeTaught, Tick, liveTables
<1> QED
  BY <1>2, <1>3, <1>4, <1>5

LEMMA LiveInvTypes == LiveInv => LiveSessionsTypeOK
<1>1. ASSUME LiveInv PROVE LiveSessionsTypeOK
  BY <1>1 DEF LiveInv, LiveRows, LiveHeld, LiveSessionsTypeOK
<1> QED
  BY <1>1

\* The session and its attendance keep their columns' types, and a request holds the
\* row, the status or the attendance it writes, for any learners, marks and hours.
THEOREM LiveTypes == LiveSessionsSpec => []LiveSessionsTypeOK
BY LiveInvTypes, LiveInitInv, LiveNextInv, PTL DEF LiveSessionsSpec

\* One request at a time, whatever fails, a session that ended stays as it ended and
\* none is published or joined without its link (live.go:204, :218, :232, :261); and
\* however requests race, the list, the calendar and the session itself are shown to
\* the same users (:87, :446), for any learners and workers.
THEOREM LiveTheorem == LiveSessionsSpec => SessionStatusSound
<1>1. LiveInv /\ [LiveSessionsNext]_liveVars => [LiveStep]_liveVars
  BY LiveSteps
<1> QED
  BY <1>1, LiveInitInv, LiveNextInv, PTL DEF LiveSessionsSpec, SessionStatusSound, LiveStep

-------------------------------------------------------------------------------
(* Webhooks: what tells a repetition, and what becomes of an order         *)

OrderStatuses == {"pending", "paid", "failed", "cancelled", "refunded"}
OutcomeStatuses == {"paid", "failed", "cancelled", "refunded"}

\* Some provider has reported outcome of the order.
Reported(order, outcome) == \E r \in reports : r.order = order /\ Outcome(r) = outcome

\* The reports that were sent, and the ids that they have left.
ReportRows ==
    /\ status \in [PaidOrders -> OrderStatuses] /\ due \in [PaidOrders -> OrderStatuses]
    /\ reports \subseteq Report /\ \A r \in reports : Parses(r)
    /\ events = {EventId(r) : r \in reports}
    /\ \A o \in PaidOrders : status[o] # "pending" => Reported(o, status[o])

\* A worker has read what was reported.
ReportHeld(label, l) ==
    \/ label = "idle" /\ l = Nothing
    \/ /\ label \in {"report.load", "report.write"}
       /\ l.order \in PaidOrders /\ l.outcome \in OutcomeStatuses
       /\ Reported(l.order, l.outcome)

\* A report other than a refund has been due, unless its id had told another outcome.
Spent(r) == Outcome(r) # "refunded" => due[r.order] # "pending" \/ Overheard(r)

\* Without races and failures, what is due is what is stored, but for the report that
\* is being applied.
DueMet(label, l) ==
    /\ label = "idle" => due = status
    /\ label = "report.load" =>
        due = [status EXCEPT ![l.order] = Due(status[l.order], l.outcome)]
    /\ label = "report.write" => due = [status EXCEPT ![l.order] = l.outcome]

WebhooksInv ==
    /\ Shaped
    /\ ReportRows
    /\ \A r \in reports : Spent(r)
    /\ \A w \in setting.workers : ReportHeld(pc[w], loc[w])
    /\ Calm => \A w \in setting.workers : DueMet(pc[w], loc[w])

LEMMA WebhooksInitInv == WebhooksInit => WebhooksInv
<1> SUFFICES ASSUME WebhooksInit PROVE WebhooksInv
  OBVIOUS
<1>1. Shaped /\ \A w \in setting.workers : pc[w] = "idle" /\ loc[w] = Nothing
  BY ShapedInit DEF WebhooksInit, RequestsInit
<1> QED
  BY <1>1 DEF WebhooksInit, WebhooksInv, ReportRows, ReportHeld, DueMet, OrderStatuses

-------------------------------------------------------------------------------
(* Ids                                                                     *)

\* What the adapters make of a report: one of four outcomes, and Chapa words a refund
\* one way.
LEMMA OutcomesOf ==
    ASSUME NEW r, Parses(r)
    PROVE  /\ Outcome(r) \in OutcomeStatuses
           /\ Adapter(r.to) = "chapa" /\ Outcome(r) = "refunded" => r.says = "refunded"
<1>1. CASE Adapter(r.to) = "stripe"
  <2>1. r.says \in {"completed_paid", "completed_unpaid", "succeeded", "charge_refunded"}
    BY <1>1 DEF Parses, Wording, StripeStatusOf
  <2>2. Outcome(r) = StripeStatusOf[r.says]
    BY <1>1 DEF Outcome, Wording
  <2> QED
    BY <1>1, <2>1, <2>2 DEF StripeStatusOf, OutcomeStatuses
<1>2. CASE Adapter(r.to) # "stripe"
  <2>1. r.says \in {"paid", "success", "completed", "failed", "refunded", "cancelled",
                    "canceled"}
    BY <1>2 DEF Parses, Wording, OrderStatusOf
  <2>2. Outcome(r) = OrderStatusOf[r.says]
    BY <1>2 DEF Outcome, Wording
  <2> QED
    BY <2>1, <2>2 DEF OrderStatusOf, OutcomeStatuses
<1> QED
  BY <1>1, <1>2

\* One id is one event of one adapter.
LEMMA SameId ==
    ASSUME NEW r, NEW s, EventId(r) = EventId(s)
    PROVE  /\ Adapter(r.to) = Adapter(s.to) /\ r.id = s.id
           /\ r.id = "" => r.order = s.order /\ r.says = s.says
<1>1. \A x, y, z : <<x>> # <<y, z>>
  <2> SUFFICES ASSUME NEW x, NEW y, NEW z, <<x>> = <<y, z>> PROVE FALSE
    OBVIOUS
  <2>1. Len(<<x>>) = 1 /\ Len(<<y, z>>) = 2
    OBVIOUS
  <2> QED
    BY <2>1
<1>2. \A x, y, z, v : (<<x>> = <<y>> => x = y) /\ (<<x, y>> = <<z, v>> => x = z /\ y = v)
  OBVIOUS
<1>3. PICK a, b : /\ a = (IF r.id = "" THEN <<r.order, r.says>> ELSE <<r.id>>)
                  /\ b = (IF s.id = "" THEN <<s.order, s.says>> ELSE <<s.id>>)
  OBVIOUS
<1>4. Adapter(r.to) = Adapter(s.to) /\ a = b
  BY <1>2, <1>3 DEF EventId
<1>5. CASE r.id = "" /\ s.id = ""
  <2>1. <<r.order, r.says>> = <<s.order, s.says>>
    BY <1>3, <1>4, <1>5
  <2> QED
    BY <1>4, <1>5, <2>1
<1>6. CASE r.id = "" /\ s.id # ""
  BY <1>1, <1>3, <1>4, <1>6
<1>7. CASE r.id # "" /\ s.id = ""
  BY <1>1, <1>3, <1>4, <1>7
<1>8. CASE r.id # "" /\ s.id # ""
  <2>1. <<r.id>> = <<s.id>>
    BY <1>3, <1>4, <1>8
  <2> QED
    BY <1>4, <1>8, <2>1
<1> QED
  BY <1>5, <1>6, <1>7, <1>8

\* A repetition, and what a reference is used for a second time, has its id recorded.
LEMMA KnownIds ==
    ASSUME ReportRows, NEW r, CameBefore(r) \/ Overheard(r)
    PROVE  EventId(r) \in events
<1>1. PICK s \in reports : Adapter(s.to) = Adapter(r.to) /\ s.id = r.id
                           /\ (r.id # "" \/ (s.order = r.order /\ s.says = r.says))
  BY DEF CameBefore, Overheard
<1>2. EventId(s) = EventId(r)
  BY <1>1 DEF EventId
<1> QED
  BY <1>1, <1>2 DEF ReportRows

\* A report whose id is recorded changes nothing that is due.
LEMMA KnownIsSpent ==
    ASSUME ReportRows, \A s \in reports : Spent(s), NEW r \in Report, Parses(r), MaySend(r),
           EventId(r) \in events, ~CameBefore(r), ~Overheard(r)
    PROVE  Due(due[r.order], Outcome(r)) = due[r.order] /\ Spent(r)
<1>1. PICK s \in reports : EventId(s) = EventId(r)
  BY DEF ReportRows
<1>2. /\ Adapter(s.to) = Adapter(r.to) /\ s.id = r.id
      /\ r.id = "" => s.order = r.order /\ s.says = r.says
  BY <1>1, SameId
<1>3. r.id # ""
  BY <1>1, <1>2 DEF CameBefore
<1>4. s.order = r.order /\ (Adapter(r.to) # "chapa" => s.says = r.says)
  BY <1>1, <1>2, <1>3 DEF MaySend
<1>5. Adapter(r.to) = "chapa" /\ s.says # r.says
  BY <1>1, <1>2, <1>4 DEF CameBefore
<1>6. Outcome(s) = Outcome(r)
  BY <1>1, <1>2, <1>3 DEF Overheard
<1>7. Outcome(r) # "refunded"
  BY <1>1, <1>2, <1>5, <1>6, OutcomesOf DEF ReportRows
<1>8. ~Overheard(s)
  BY <1>2, <1>3, <1>6 DEF Overheard
<1>9. due[r.order] # "pending"
  BY <1>1, <1>4, <1>6, <1>7, <1>8 DEF Spent
<1> QED
  BY <1>7, <1>9 DEF Due, Courses, Spent

-------------------------------------------------------------------------------
(* Every step keeps the invariant                                          *)

\* One worker goes on.
LEMMA WebhooksMoved ==
    ASSUME WebhooksInv, NEW w \in setting.workers, NEW label, NEW l, Moved(w, label, l), Shaped',
           ReportRows', \A r \in reports' : Spent(r)', reports \subseteq reports',
           ReportHeld(label, l)', Calm => DueMet(label, l)'
    PROVE  WebhooksInv'
<1>1. setting' = setting /\ Calm' = Calm /\ Alone' = Alone
  BY DEF Moved, Calm, Alone, Unfailing
<1>2. ASSUME NEW v \in setting.workers PROVE ReportHeld(pc[v], loc[v])'
  <2>1. CASE v = w
    BY <2>1 DEF Moved, ReportHeld, Reported
  <2>2. CASE v # w
    <3>1. PICK a, b : a = pc[v] /\ b = loc[v]
      OBVIOUS
    <3>2. pc'[v] = a /\ loc'[v] = b /\ ReportHeld(a, b)
      BY <2>2, <3>1 DEF Moved, WebhooksInv
    <3> QED
      BY <3>2 DEF ReportHeld, Reported, Outcome
  <2> QED
    BY <2>1, <2>2
<1>3. ASSUME Calm, NEW v \in setting.workers PROVE DueMet(pc[v], loc[v])'
  <2>1. v = w
    BY <1>3, AloneOne DEF WebhooksInv, Calm
  <2> QED
    BY <1>3, <2>1 DEF Moved, DueMet
<1> QED
  BY <1>1, <1>2, <1>3 DEF WebhooksInv

LEMMA WebhooksReads ==
    ASSUME WebhooksInv, NEW w \in setting.workers, NEW label, NEW l, Moved(w, label, l), Shaped',
           UNCHANGED <<webhookTables, webhookHistory>>,
           ReportHeld(label, l), Calm => DueMet(label, l)
    PROVE  WebhooksInv'
<1>1. status' = status /\ events' = events /\ reports' = reports /\ due' = due
  BY DEF webhookTables, webhookHistory
<1>2. /\ ReportRows' /\ (\A r \in reports' : Spent(r)')
      /\ ReportHeld(label, l)' /\ (Calm => DueMet(label, l)')
  BY <1>1 DEF WebhooksInv, ReportRows, Reported, Spent, Overheard, ReportHeld, DueMet
<1> QED
  BY <1>1, <1>2, WebhooksMoved

LEMMA RecordSteps ==
    ASSUME WebhooksInv, NEW w \in setting.workers, NEW r \in Report, RecordReport(w, r)
    PROVE  WebhooksInv'
<1> DEFINE o == r.order
<1>1. /\ Shaped /\ ReportRows /\ (\A s \in reports : Spent(s))
      /\ MaySend(r) /\ Parses(r) /\ reports' = reports \cup {r} /\ status' = status
      /\ pc[w] = "idle" /\ loc[w] = Nothing /\ (Calm => due = status)
      /\ o \in PaidOrders /\ Outcome(r) \in OutcomeStatuses
  BY OutcomesOf DEF WebhooksInv, RecordReport, Idle, ReportHeld, DueMet, Report
<1>2. PICK d : d = Due(due[o], Outcome(r))
  OBVIOUS
<1>3. /\ d \in OrderStatuses
      /\ due[o] # "pending" => d # "pending"
      /\ Outcome(r) # "refunded" => d # "pending"
  BY <1>1, <1>2 DEF ReportRows, Due, Courses, OrderStatuses, OutcomeStatuses
<1>4. due' = IF CameBefore(r) \/ Overheard(r) THEN due ELSE [due EXCEPT ![o] = d]
  BY <1>2 DEF RecordReport
<1>5. /\ due' \in [PaidOrders -> OrderStatuses]
      /\ \A p \in PaidOrders : due[p] # "pending" => due'[p] # "pending"
      /\ due' # due => due'[o] = d
  BY <1>1, <1>3, <1>4 DEF ReportRows
<1>6. \A s : Overheard(s) => Overheard(s)'
  BY <1>1 DEF Overheard
<1>7. Spent(r)'
  <2>1. CASE Overheard(r)
    BY <1>6, <2>1 DEF Spent
  <2>2. CASE CameBefore(r)
    <3>1. PICK s \in reports : Adapter(s.to) = Adapter(r.to) /\ s.id = r.id
                               /\ s.order = r.order /\ s.says = r.says
      BY <2>2 DEF CameBefore
    <3>2. Outcome(s) = Outcome(r)
      BY <3>1 DEF Outcome, Wording
    <3>3. Overheard(s) => Overheard(r)
      BY <3>1, <3>2 DEF Overheard
    <3>4. Outcome(r) # "refunded" => due[o] # "pending" \/ Overheard(r)
      BY <1>1, <3>1, <3>2, <3>3 DEF Spent
    <3> QED
      BY <1>1, <1>5, <1>6, <3>4 DEF Spent
  <2>3. CASE ~CameBefore(r) /\ ~Overheard(r)
    <3>1. due'[o] = d
      BY <1>1, <1>4, <2>3 DEF ReportRows
    <3> QED
      BY <1>3, <3>1 DEF Spent
  <2> QED
    BY <2>1, <2>2, <2>3
<1>8. ASSUME NEW s \in reports' PROVE Spent(s)'
  <2>1. CASE s \in reports
    <3>1. s.order \in PaidOrders /\ Spent(s)
      BY <1>1, <2>1 DEF ReportRows, Report
    <3> QED
      BY <1>5, <1>6, <3>1 DEF Spent
  <2> QED
    BY <1>1, <1>7, <1>8, <2>1
<1>9. \A x, y : Reported(x, y) => Reported(x, y)'
  BY <1>1 DEF Reported
<1>10. events' = {EventId(s) : s \in reports'}
  <2>1. events = {EventId(s) : s \in reports}
    BY <1>1 DEF ReportRows
  <2>2. events' = events \cup {EventId(r)}
    BY DEF RecordReport
  <2>3. PICK q : q = reports'
    OBVIOUS
  <2>4. q = reports \cup {r}
    BY <1>1, <2>3
  <2>5. events' = {EventId(s) : s \in q}
    BY <2>1, <2>2, <2>4
  <2> QED
    BY <2>3, <2>5
<1>11. ReportRows'
  BY <1>1, <1>5, <1>9, <1>10 DEF ReportRows
<1>12. CASE EventId(r) \in events
  <2>1. Shaped' /\ Moved(w, "idle", Nothing)
    BY <1>1, <1>12, StayShaped DEF RecordReport, Moved
  <2>2. due' = due
    <3>1. CASE CameBefore(r) \/ Overheard(r)
      BY <1>4, <3>1
    <3>2. CASE ~CameBefore(r) /\ ~Overheard(r)
      <4>1. d = due[o]
        BY <1>1, <1>2, <1>12, <3>2, KnownIsSpent
      <4> QED
        BY <1>1, <1>4, <3>2, <4>1 DEF ReportRows
    <3> QED
      BY <3>1, <3>2
  <2>3. ReportHeld("idle", Nothing)' /\ (Calm => DueMet("idle", Nothing)')
    BY <1>1, <2>2 DEF ReportHeld, DueMet
  <2> QED
    BY <1>1, <1>8, <1>11, <2>1, <2>3, WebhooksMoved
<1>13. CASE EventId(r) \notin events
  <2>1. PICK h : h = [order |-> o, outcome |-> Outcome(r)]
    OBVIOUS
  <2>2. h.order = o /\ h.outcome = Outcome(r)
    BY <2>1
  <2>3. Hold(w, "report.load", h)
    BY <1>13, <2>1 DEF RecordReport
  <2>4. due' = [due EXCEPT ![o] = d]
    BY <1>1, <1>4, <1>13, KnownIds
  <2>5. Reported(o, Outcome(r))'
    BY <1>1 DEF Reported
  <2>6. ReportHeld("report.load", h)' /\ (Calm => DueMet("report.load", h)')
    BY <1>1, <1>2, <2>2, <2>4, <2>5 DEF ReportHeld, DueMet
  <2> QED
    BY <1>1, <1>8, <1>11, <2>3, <2>6, HoldMoves, WebhooksMoved
<1> QED
  BY <1>12, <1>13

LEMMA WebhooksNextInv ==
    ASSUME WebhooksInv, [WebhooksNext]_webhookVars
    PROVE  WebhooksInv'
<1>1. Shaped /\ ReportRows /\ \A r \in reports : Spent(r)
  BY DEF WebhooksInv
<1>2. ASSUME NEW w \in setting.workers, LoadReported(w) PROVE WebhooksInv'
  <2>1. PICK h : h = loc[w]
    OBVIOUS
  <2>2. /\ ReportHeld("report.load", h) /\ (Calm => DueMet("report.load", h))
        /\ UNCHANGED <<webhookTables, webhookHistory>>
        /\ h.order \in PaidOrders /\ h.outcome \in OutcomeStatuses
        /\ status[h.order] \in OrderStatuses
    BY <1>1, <1>2, <2>1 DEF LoadReported, At, WebhooksInv, ReportHeld, ReportRows
  <2>3. CASE status[h.order] = (IF h.outcome = "refunded" THEN "paid" ELSE "pending")
    <3>1. Goto(w, "report.write")
      BY <1>2, <2>1, <2>3 DEF LoadReported
    <3>2. Due(status[h.order], h.outcome) = h.outcome
      BY <2>2, <2>3 DEF Due, Courses, OutcomeStatuses
    <3>3. ReportHeld("report.write", h) /\ (Calm => DueMet("report.write", h))
      BY <2>2, <3>2 DEF ReportHeld, DueMet
    <3> QED
      BY <1>1, <2>1, <2>2, <3>1, <3>3, GotoMoves, WebhooksReads
  <2>4. CASE status[h.order] # (IF h.outcome = "refunded" THEN "paid" ELSE "pending")
    <3>1. Finish(w)
      BY <1>2, <2>1, <2>4 DEF LoadReported
    <3>2. Due(status[h.order], h.outcome) = status[h.order]
      BY <2>2, <2>4 DEF Due, Courses, OutcomeStatuses
    <3>3. Calm => due = status
      BY <1>1, <2>2, <3>2 DEF DueMet, ReportRows
    <3>4. ReportHeld("idle", Nothing) /\ (Calm => DueMet("idle", Nothing))
      BY <3>3 DEF ReportHeld, DueMet
    <3> QED
      BY <1>1, <2>2, <3>1, <3>4, FinishMoves, WebhooksReads
  <2> QED
    BY <2>3, <2>4
<1>3. ASSUME NEW w \in setting.workers, WriteReported(w) PROVE WebhooksInv'
  <2>1. PICK h : h = loc[w]
    OBVIOUS
  <2>2. /\ h.order \in PaidOrders /\ h.outcome \in OutcomeStatuses
        /\ Reported(h.order, h.outcome)
        /\ Calm => due = [status EXCEPT ![h.order] = h.outcome]
    BY <1>3, <2>1 DEF WriteReported, At, WebhooksInv, ReportHeld, DueMet
  <2>3. /\ status' = [status EXCEPT ![h.order] = h.outcome] /\ Finish(w)
        /\ events' = events /\ reports' = reports /\ due' = due
    BY <1>3, <2>1 DEF WriteReported, webhookHistory
  <2>4. ReportRows'
    BY <1>1, <2>2, <2>3 DEF ReportRows, Reported, OrderStatuses, OutcomeStatuses
  <2>5. \A r \in reports' : Spent(r)'
    BY <1>1, <2>3 DEF Spent, Overheard
  <2>6. ReportHeld("idle", Nothing)' /\ (Calm => DueMet("idle", Nothing)')
    BY <2>2, <2>3 DEF ReportHeld, DueMet
  <2> QED
    BY <1>1, <2>3, <2>4, <2>5, <2>6, FinishMoves, WebhooksMoved
\* Where nothing fails, nothing is aborted.
<1>4. ASSUME NEW w \in setting.workers, AbortWebhook(w) PROVE WebhooksInv'
  <2>1. Finish(w) /\ ~Calm /\ UNCHANGED <<webhookTables, webhookHistory>>
    BY <1>4 DEF AbortWebhook, Abort, Calm, Unfailing
  <2>2. ReportHeld("idle", Nothing)
    BY DEF ReportHeld
  <2> QED
    BY <1>1, <2>1, <2>2, FinishMoves, WebhooksReads
<1>5. CASE UNCHANGED webhookVars
  <2>1. /\ Shaped' /\ setting' = setting /\ pc' = pc /\ loc' = loc
        /\ status' = status /\ events' = events /\ reports' = reports /\ due' = due
    BY <1>1, <1>5, StayShaped DEF webhookVars, webhookTables, webhookHistory
  <2> QED
    BY <2>1 DEF WebhooksInv, ReportRows, Reported, Spent, Overheard, ReportHeld, DueMet, Calm,
                Alone, Unfailing
<1> QED
  BY <1>2, <1>3, <1>4, <1>5, RecordSteps DEF WebhooksNext

LEMMA WebhooksInvTypes == WebhooksInv => WebhooksTypeOK
<1>1. ASSUME WebhooksInv PROVE WebhooksTypeOK
  BY <1>1 DEF WebhooksInv, ReportRows, ReportHeld, WebhooksTypeOK, OrderStatuses,
              OutcomeStatuses
<1> QED
  BY <1>1

\* Orders and reports keep their columns' types, and the stored ids are those of
\* reports, for any orders, routes, wordings and ids.
THEOREM WebhooksTypes == WebhooksSpec => []WebhooksTypeOK
BY WebhooksInvTypes, WebhooksInitInv, WebhooksNextInv, PTL DEF WebhooksSpec

LEMMA ReportsInv == WebhooksInv => ReportsApplied
<1>1. ASSUME WebhooksInv, Calm, Quiet PROVE status = due
  <2>1. PICK w \in setting.workers : pc[w] = "idle" /\ DueMet(pc[w], loc[w])
    BY <1>1 DEF WebhooksInv, Shaped, Quiet
  <2> QED
    BY <2>1 DEF DueMet
<1>2. ASSUME WebhooksInv PROVE ReportsApplied
  BY <1>1, <1>2 DEF WebhooksInv, ReportRows, Reported, ReportsApplied
<1> QED
  BY <1>2

\* No order has a status that no provider has reported; and of reports that arrive one
\* at a time and do not fail, however often they are repeated, reworded or sent by
\* another route, an order is as if each had been applied when it first came
\* (payment.go:206, chapa.go:56), for any number of orders, ids and reports.
THEOREM ReportsTheorem == WebhooksSpec => []ReportsApplied
BY ReportsInv, WebhooksInitInv, WebhooksNextInv, PTL DEF WebhooksSpec

-------------------------------------------------------------------------------
(* Pricing: what integer division does to a price                          *)

\* What CreateCoupon's checks leave.
SoundOffer(c) ==
    c # Nothing => c.value > 0 /\ (c.kind = "percent" => c.value <= 100)

PricingRows ==
    /\ course \in [price : Nat, currency : Currencies]
    /\ offer \in Offer \cup {Nothing} /\ SoundOffer(offer)
    /\ quote \in Quote \cup {Nothing}

\* What is bought costs something, and its coupon was checked when it was made.
PricingHeld(label, l) ==
    \/ label = "idle" /\ l = Nothing
    \/ /\ label \in {"quote.coupon", "quote.order"}
       /\ l \in [course : [price : Nat, currency : Currencies],
                 coupon : Offer \cup {Nothing}]
       /\ l.course.price > 0 /\ SoundOffer(l.coupon)

PricingInv ==
    /\ Shaped
    /\ PricingRows
    /\ AmountsAddUp
    /\ \A w \in setting.workers : PricingHeld(pc[w], loc[w])

LEMMA PricingInitInv == PricingInit => PricingInv
<1> SUFFICES ASSUME PricingInit PROVE PricingInv
  OBVIOUS
<1>1. Shaped /\ \A w \in setting.workers : pc[w] = "idle" /\ loc[w] = Nothing
  BY ShapedInit DEF PricingInit, RequestsInit
<1> QED
  BY <1>1, PricingAssumption
  DEF PricingInit, PricingInv, PricingRows, SoundOffer, AmountsAddUp, PricingHeld

\* A hundredth of a number, rounded down.
LEMMA Hundredth ==
    ASSUME NEW x \in Nat
    PROVE  /\ x \div 100 \in Nat
           /\ 100 * (x \div 100) <= x /\ x < 100 * (x \div 100 + 1)
OBVIOUS

LEMMA ProductIsNat ==
    ASSUME NEW m \in Nat, NEW n \in Nat
    PROVE  m * n \in Nat
OBVIOUS

\* A product grows with its factor; it is as large as a hundred times the other
\* factor only when it is a hundred times it.
LEMMA ProductGrows ==
    ASSUME NEW a \in Nat, a > 0, NEW v \in Nat, v <= 100
    PROVE  a * v <= 100 * a /\ (100 * a <= a * v => v = 100)
<1>1. PICK d \in Nat : 100 = v + d
  <2>1. 100 - v \in Nat /\ 100 = v + (100 - v)
    OBVIOUS
  <2> QED
    BY <2>1
<1>2. a * (v + d) = a * v + a * d
  OBVIOUS
<1>3. a * d \in Nat /\ a * v \in Nat
  BY ProductIsNat
<1>4. d > 0 => a * d > 0
  OBVIOUS
<1>5. a * 100 = a * v + a * d
  BY <1>1, <1>2
<1> QED
  BY <1>1, <1>3, <1>4, <1>5

\* What AmountsAddUp says of a discount that computeDiscount returns.
LEMMA DiscountAddsUp ==
    ASSUME NEW c \in Offer, SoundOffer(c), c # Nothing, NEW a \in Nat, a > 0
    PROVE  /\ Discount(c, a) \in Nat /\ Discount(c, a) <= a
           /\ c.kind = "percent" =>
                 /\ 100 * Discount(c, a) <= a * c.value
                 /\ a * c.value < 100 * (Discount(c, a) + 1)
                 /\ Discount(c, a) = a => c.value = 100
           /\ c.kind # "percent" /\ Discount(c, a) = a => c.value >= a
<1>1. c.value \in Int /\ c.value > 0
  BY PricingAssumption DEF Offer, SoundOffer
<1>2. CASE c.kind = "percent"
  <2>1. PICK v \in Nat : v = c.value /\ v <= 100
    BY <1>1, <1>2 DEF SoundOffer
  <2>2. PICK x \in Nat : x = a * v
    BY ProductIsNat
  <2>3. PICK d : d = x \div 100
    OBVIOUS
  <2>4. d \in Nat /\ 100 * d <= x /\ x < 100 * (d + 1)
    BY <2>3, Hundredth
  <2>5. x <= 100 * a /\ (100 * a <= x => v = 100)
    BY <2>1, <2>2, ProductGrows
  <2>6. d <= a /\ (d = a => v = 100)
    BY <2>4, <2>5
  <2>7. Discount(c, a) = IF d > a THEN a ELSE d
    BY <1>2, <2>1, <2>2, <2>3 DEF Discount
  <2>8. Discount(c, a) = d
    BY <2>4, <2>6, <2>7
  <2> QED
    BY <1>2, <2>1, <2>2, <2>4, <2>6, <2>8
<1>3. CASE c.kind # "percent"
  <2>1. Discount(c, a) = IF c.value > a THEN a ELSE c.value
    BY <1>3 DEF Discount
  <2> QED
    BY <1>1, <1>3, <2>1
<1> QED
  BY <1>2, <1>3

\* One worker goes on.
LEMMA PricingMoved ==
    ASSUME PricingInv, NEW w \in setting.workers, NEW label, NEW l, Moved(w, label, l), Shaped',
           PricingRows', AmountsAddUp', PricingHeld(label, l)
    PROVE  PricingInv'
<1>1. setting' = setting
  BY DEF Moved
<1>2. ASSUME NEW v \in setting.workers PROVE PricingHeld(pc[v], loc[v])'
  <2>1. CASE v = w
    BY <2>1 DEF Moved, PricingHeld, SoundOffer
  <2>2. CASE v # w
    BY <2>2 DEF Moved, PricingInv, PricingHeld, SoundOffer
  <2> QED
    BY <2>1, <2>2
<1> QED
  BY <1>1, <1>2 DEF PricingInv

LEMMA PricingReads ==
    ASSUME PricingInv, NEW w \in setting.workers, NEW label, NEW l, Moved(w, label, l), Shaped',
           UNCHANGED pricingTables, PricingHeld(label, l)
    PROVE  PricingInv'
<1>1. PricingRows' /\ AmountsAddUp'
  BY DEF pricingTables, PricingInv, PricingRows, SoundOffer, AmountsAddUp
<1> QED
  BY <1>1, PricingMoved

LEMMA QuoteAddsUp ==
    ASSUME PricingInv, NEW w \in setting.workers, CreateQuote(w)
    PROVE  PricingInv'
<1>1. PICK l : l = loc[w]
  OBVIOUS
<1>2. /\ l \in [course : [price : Nat, currency : Currencies],
                coupon : Offer \cup {Nothing}]
      /\ l.course.price > 0 /\ SoundOffer(l.coupon)
  BY <1>1 DEF PricingInv, PricingHeld, CreateQuote, At
<1>3. PICK a \in Nat : a = l.course.price /\ a > 0
  BY <1>2
<1>4. PICK c \in Offer \cup {Nothing} : c = l.coupon /\ SoundOffer(c)
  BY <1>2
<1>5. PICK d : d = IF c = Nothing THEN 0 ELSE Discount(c, a)
  OBVIOUS
<1>6. /\ d \in Nat /\ d <= a
      /\ c = Nothing => d = 0
      /\ c # Nothing =>
            IF c.kind = "percent"
            THEN /\ 100 * d <= a * c.value /\ a * c.value < 100 * (d + 1)
                 /\ d = a => c.value = 100
            ELSE d = a => c.value >= a
  <2>1. CASE c = Nothing
    BY <1>5, <2>1
  <2>2. CASE c # Nothing
    BY <1>3, <1>4, <1>5, <2>2, DiscountAddsUp
  <2> QED
    BY <2>1, <2>2
<1>7. PICK q : q = [amount |-> a, discount |-> d, total |-> a - d, coupon |-> c]
  OBVIOUS
<1>8. /\ q \in Quote /\ q.amount = a /\ q.discount = d /\ q.total = a - d /\ q.coupon = c
      /\ q.total + q.discount = q.amount /\ (q.total = 0 => d = a)
  BY <1>6, <1>7 DEF Quote
<1>9. /\ quote' = q /\ Finish(w) /\ UNCHANGED <<course, offer>>
  <2>1. ~(a - d < 0)
    BY <1>6
  <2> QED
    BY <1>1, <1>3, <1>4, <1>5, <1>7, <2>1 DEF CreateQuote
<1>10. PricingRows'
  BY <1>8, <1>9 DEF PricingInv, PricingRows, SoundOffer
<1>11. AmountsAddUp'
  <2>1. q.coupon # Nothing =>
            IF q.coupon.kind = "percent"
            THEN /\ 100 * q.discount <= q.amount * q.coupon.value
                 /\ q.amount * q.coupon.value < 100 * (q.discount + 1)
                 /\ q.total = 0 => q.coupon.value = 100
            ELSE q.total = 0 => q.coupon.value >= q.amount
    BY <1>6, <1>8
  <2>2. q.coupon = Nothing => q.discount = 0
    BY <1>6, <1>8
  <2> QED
    BY <1>8, <1>9, <2>1, <2>2 DEF AmountsAddUp
<1> QED
  BY <1>9, <1>10, <1>11, FinishMoves, PricingMoved DEF PricingInv, PricingHeld

LEMMA PricingNextInv ==
    ASSUME PricingInv, [PricingNext]_pricingVars
    PROVE  PricingInv'
<1>1. Shaped /\ PricingRows /\ AmountsAddUp /\ PricingHeld("idle", Nothing)
  BY DEF PricingInv, PricingHeld
<1>2. ASSUME NEW w \in setting.workers, AtOnce(w) PROVE Shaped' /\ Moved(w, "idle", Nothing)
  <2>1. loc[w] = Nothing
    BY <1>2 DEF PricingInv, PricingHeld, AtOnce, Idle
  <2> QED
    BY <1>1, <1>2, <2>1, AtOnceMoves
<1>3. ASSUME NEW w \in setting.workers, NEW p \in Prices, NEW c \in Currencies, SetPrice(w, p, c)
      PROVE  PricingInv'
  <2>1. PricingRows' /\ AmountsAddUp'
    BY <1>1, <1>3, PricingAssumption DEF SetPrice, PricingRows, SoundOffer, AmountsAddUp
  <2> QED
    BY <1>1, <1>2, <1>3, <2>1, PricingMoved DEF SetPrice
<1>4. ASSUME NEW w \in setting.workers, NEW k \in {"percent", "fixed"},
             NEW v \in Percents \cup Fixed, NEW c \in Currencies, NEW e \in BOOLEAN,
             CreateOffer(w, k, v, c, e)
      PROVE  PricingInv'
  <2>1. PICK o : o = [kind |-> k, value |-> v, currency |-> c, elsewhere |-> e]
    OBVIOUS
  <2>2. o \in Offer /\ o.kind = k /\ o.value = v
    BY <2>1 DEF Offer
  <2>3. offer' = o /\ v > 0 /\ (k = "percent" => v <= 100) /\ UNCHANGED <<course, quote>>
    BY <1>4, <2>1 DEF CreateOffer
  <2>4. PricingRows' /\ AmountsAddUp'
    BY <1>1, <2>2, <2>3 DEF PricingRows, SoundOffer, AmountsAddUp
  <2> QED
    BY <1>1, <1>2, <1>4, <2>4, PricingMoved DEF CreateOffer
<1>5. ASSUME NEW w \in setting.workers, NEW coded \in BOOLEAN, BeginQuote(w, coded)
      PROVE  PricingInv'
  <2>1. PICK h : h = [course |-> course, coupon |-> Nothing]
    OBVIOUS
  <2>2. PICK label \in {"quote.coupon", "quote.order"} :
            Hold(w, label, h) /\ UNCHANGED pricingTables /\ course.price > 0
    BY <1>5, <2>1 DEF BeginQuote
  <2>3. PricingHeld(label, h)
    BY <1>1, <2>1, <2>2 DEF PricingHeld, PricingRows, SoundOffer
  <2> QED
    BY <1>1, <2>2, <2>3, HoldMoves, PricingReads
<1>6. ASSUME NEW w \in setting.workers, QuoteCoupon(w) PROVE PricingInv'
  <2>1. PICK p \in [price : Nat, currency : Currencies], c \in Offer \cup {Nothing} :
            loc[w] = [course |-> p, coupon |-> c] /\ p.price > 0
    BY <1>6 DEF QuoteCoupon, At, PricingInv, PricingHeld
  <2>2. PICK h : h = [course |-> p, coupon |-> offer]
    OBVIOUS
  <2>3. PricingHeld("quote.order", h)
    BY <1>1, <2>1, <2>2 DEF PricingHeld, PricingRows
  <2>4. Hold(w, "quote.order", h) \/ Finish(w)
    BY <1>6, <2>1, <2>2 DEF QuoteCoupon
  <2> QED
    BY <1>1, <1>6, <2>3, <2>4, HoldMoves, FinishMoves, PricingReads DEF QuoteCoupon
<1>7. ASSUME NEW w \in setting.workers, AbortPricing(w) PROVE PricingInv'
  BY <1>1, <1>7, FinishMoves, PricingReads DEF AbortPricing, Abort
<1>8. CASE UNCHANGED pricingVars
  BY <1>1, <1>8, StayShaped
  DEF pricingVars, pricingTables, PricingInv, PricingRows, SoundOffer, AmountsAddUp, PricingHeld
<1> QED
  BY <1>3, <1>4, <1>5, <1>6, <1>7, <1>8, QuoteAddsUp DEF PricingNext, PricingStep

LEMMA PricingInvTypes == PricingInv => PricingTypeOK
<1>1. ASSUME PricingInv PROVE PricingTypeOK
  BY <1>1 DEF PricingInv, PricingRows, PricingHeld, PricingTypeOK
<1> QED
  BY <1>1

\* A price, a coupon and an order's amounts keep their columns' types and CHECKs, for
\* any prices, percentages and workers.
THEOREM PricingTypes == PricingSpec => []PricingTypeOK
BY PricingInvTypes, PricingInitInv, PricingNextInv, PTL DEF PricingSpec

\* Whatever the price and the coupon, and however they change between the statements
\* of a checkout (payment.go:73, :454), the amounts add up to the cent, a percentage is
\* rounded down, and only a full discount makes a course free.
THEOREM AmountsTheorem == PricingSpec => []AmountsAddUp
<1>1. PricingInv => AmountsAddUp
  BY DEF PricingInv
<1> QED
  BY <1>1, PricingInitInv, PricingNextInv, PTL DEF PricingSpec

-------------------------------------------------------------------------------
(* The inbox: one conversation of two users, a notice for every message,   *)
(* and pages                                                               *)

Message == [from : Users, read : BOOLEAN]

InboxRows ==
    /\ conversations \subseteq Pairs
    /\ \A c \in conversations : c[1] < c[2]
    /\ messages \in [Pairs -> Seq(Message)]
    /\ \A c \in Pairs : Len(messages[c]) <= MessagesBound
    /\ noticed \in [Users -> NoticeCount]
    /\ \A u \in Users : noticed[u].unread <= noticed[u].all

\* A sender takes part in the conversation.
MessageHeld(label, l) ==
    \/ label = "idle" /\ l = Nothing
    \/ /\ label \in {"message.create", "message.notify"}
       /\ l \in [conversation : Pairs, from : Users]
       /\ Takes(l.conversation, l.from)

\* The requests about to tell u of a message, and the messages u was sent.
Telling(label, l, u) ==
    label = "message.notify" /\ Takes(l.conversation, u) /\ l.from # u

Tellers(u) == {w \in setting.workers : Telling(pc[w], loc[w], u)}

Received(u) == {m \in Pairs \X (1..MessagesBound) :
                   /\ Takes(m[1], u)
                   /\ m[2] \in DOMAIN messages[m[1]] /\ messages[m[1]][m[2]].from # u}

\* What the notices of u, the tellers and the messages come to, k for each.
Balanced(notices, tellers, sent) ==
    notices + tellers <= sent /\ (Unfailing => notices + tellers = sent)

NoticesBalanced ==
    \A u \in Users :
        Balanced(noticed[u].all, Cardinality(Tellers(u)), Cardinality(Received(u)))

InboxInv ==
    /\ Shaped
    /\ InboxRows
    /\ \A w \in setting.workers : MessageHeld(pc[w], loc[w])
    /\ NoticesBalanced

-------------------------------------------------------------------------------
(* Pages                                                                   *)

\* What lies on an earlier page ends before a later one begins.
LEMMA PagesApart ==
    ASSUME NEW size \in Nat, NEW p \in Nat, NEW q \in Nat, p < q
    PROVE  p * size <= (q - 1) * size
<1>1. PICK d \in Nat : q - 1 = p + d
  <2>1. (q - 1) - p \in Nat /\ q - 1 = p + ((q - 1) - p)
    OBVIOUS
  <2> QED
    BY <2>1
<1>2. (p + d) * size = p * size + d * size
  OBVIOUS
<1>3. d * size \in Nat /\ p * size \in Nat
  OBVIOUS
<1> QED
  BY <1>1, <1>2, <1>3

\* Every message is on one page.
LEMMA OnePage ==
    ASSUME NEW size \in Nat, size > 0, NEW most \in Nat, NEW k \in 1..most
    PROVE  \E p \in 1..most : \A q \in 1..most :
              ((q - 1) * size < k /\ k <= (q - 1) * size + size) <=> q = p
<1> DEFINE T == {p \in Nat : k <= p * size}
<1>1. k \in Nat /\ k > 0 /\ k <= most
  OBVIOUS
<1>2. k \in T
  <2>1. PICK e \in Nat : size = 1 + e
    <3>1. size - 1 \in Nat /\ size = 1 + (size - 1)
      OBVIOUS
    <3> QED
      BY <3>1
  <2>2. k * (1 + e) = k + k * e /\ k * e \in Nat
    BY <1>1
  <2> QED
    BY <1>1, <2>1, <2>2
<1>3. PICK p \in T : \A q \in T : p <= q
  <2>1. T \in SUBSET Nat /\ T # {}
    BY <1>2
  <2> QED
    BY <2>1, LeastNumber
<1>4. p \in Nat /\ k <= p * size /\ p <= k
  BY <1>2, <1>3
<1>5. p # 0
  BY <1>1, <1>4
<1>6. p \in 1..most /\ p - 1 \in Nat
  BY <1>1, <1>4, <1>5
<1>7. (p - 1) * size < k
  <2>1. p - 1 \notin T
    BY <1>3, <1>4, <1>6
  <2>2. ~(k <= (p - 1) * size)
    BY <1>6, <2>1
  <2>3. (p - 1) * size \in Int
    BY <1>6
  <2> QED
    BY <1>1, <2>2, <2>3
<1>8. \A q \in Nat \ {0} : (q - 1) * size + size = q * size /\ (q - 1) * size \in Int
  OBVIOUS
<1>9. ASSUME NEW q \in 1..most, (q - 1) * size < k, k <= (q - 1) * size + size PROVE q = p
  <2>1. q \in Nat /\ q # 0 /\ (q - 1) * size \in Int /\ k <= q * size
    BY <1>8, <1>9
  <2>2. CASE q < p
    <3>1. q \in T
      BY <2>1
    <3> QED
      BY <1>3, <1>4, <2>1, <2>2, <3>1
  <2>3. CASE p < q
    <3>1. p * size <= (q - 1) * size /\ p * size \in Int
      BY <1>4, <2>1, <2>3, PagesApart
    <3> QED
      BY <1>1, <1>4, <1>9, <2>1, <3>1
  <2> QED
    BY <1>4, <2>1, <2>2, <2>3
<1>10. (p - 1) * size < k /\ k <= (p - 1) * size + size
  BY <1>4, <1>5, <1>7, <1>8
<1> QED
  BY <1>6, <1>9, <1>10

\* What ConversationsSound says of pages.
LEMMA PagedOnce ==
    ASSUME NEW total \in Nat, total <= MessagesBound, NEW perPage \in 1..PageMost,
           NEW k \in 1..total
    PROVE  Cardinality({page \in 1..MessagesBound :
                           k \in ListMessages(total, page, perPage)}) = 1
<1>1. perPage \in Nat /\ perPage > 0 /\ ~(perPage <= 0) /\ ~(perPage > PageMost)
      /\ MessagesBound \in Nat /\ k \in 1..MessagesBound
  BY InboxAssumption
<1>2. \A page \in 1..MessagesBound :
        k \in ListMessages(total, page, perPage)
          <=> (page - 1) * perPage < k /\ k <= (page - 1) * perPage + perPage
  BY <1>1 DEF ListMessages
<1>3. PICK p \in 1..MessagesBound : \A q \in 1..MessagesBound :
          ((q - 1) * perPage < k /\ k <= (q - 1) * perPage + perPage) <=> q = p
  BY <1>1, OnePage
<1>4. {page \in 1..MessagesBound : k \in ListMessages(total, page, perPage)} = {p}
  BY <1>2, <1>3
<1> QED
  BY <1>4, FS_Singleton

-------------------------------------------------------------------------------
(* Every step keeps the invariant                                          *)

LEMMA ReceivedFinite == \A u : IsFiniteSet(Received(u)) /\ Cardinality(Received(u)) \in Nat
<1>1. IsFiniteSet(Users \X Users)
  BY InboxAssumption, FS_Product
<1>2. IsFiniteSet(Pairs)
  BY <1>1, FS_Subset DEF Pairs
<1>3. IsFiniteSet(1..MessagesBound)
  BY InboxAssumption, FS_Interval
<1>4. IsFiniteSet(Pairs \X (1..MessagesBound))
  BY <1>2, <1>3, FS_Product
<1>5. ASSUME NEW u PROVE IsFiniteSet(Received(u))
  BY <1>4, FS_Subset DEF Received
<1> QED
  BY <1>5, FS_CardinalityType

LEMMA InboxInitInv == InboxInit => InboxInv
<1> SUFFICES ASSUME InboxInit PROVE InboxInv
  OBVIOUS
<1>1. Shaped /\ \A w \in setting.workers : pc[w] = "idle" /\ loc[w] = Nothing
  BY ShapedInit DEF InboxInit, RequestsInit
<1>2. InboxRows
  BY InboxAssumption DEF InboxInit, InboxRows, NoticeCount
<1>3. \A u \in Users : Tellers(u) = {} /\ Received(u) = {} /\ noticed[u].all = 0
  BY <1>1 DEF InboxInit, Tellers, Telling, Received
<1>4. ASSUME NEW u \in Users
      PROVE  Balanced(noticed[u].all, Cardinality(Tellers(u)), Cardinality(Received(u)))
  <2>1. noticed[u].all = 0 /\ Cardinality(Tellers(u)) = 0 /\ Cardinality(Received(u)) = 0
    BY <1>3, FS_EmptySet
  <2> QED
    BY <2>1 DEF Balanced
<1> QED
  BY <1>1, <1>2, <1>4 DEF InboxInv, MessageHeld, NoticesBalanced

\* The other one is who is told.
LEMMA ToldOther ==
    ASSUME NEW c \in Pairs, NEW u \in Users, Takes(c, u)
    PROVE  /\ Other(c, u) \in Users
           /\ \A v : Takes(c, v) /\ u # v <=> v = Other(c, u)
BY DEF Takes, Other, Pairs

\* One worker goes on.
LEMMA TellersMove ==
    ASSUME Shaped, NEW w \in setting.workers, NEW label, NEW l, Moved(w, label, l), NEW u
    PROVE  Tellers(u)' = IF Telling(label, l, u) THEN Tellers(u) \cup {w} ELSE Tellers(u) \ {w}
BY DEF Tellers, Telling, Moved

LEMMA InboxMoved ==
    ASSUME InboxInv, NEW w \in setting.workers, NEW label, NEW l, Moved(w, label, l), Shaped',
           InboxRows', MessageHeld(label, l),
           \A u \in Users :
              Balanced(noticed'[u].all, Cardinality(Tellers(u)'), Cardinality(Received(u)'))
    PROVE  InboxInv'
<1>1. setting' = setting /\ Unfailing' = Unfailing
  BY DEF Moved, Unfailing
<1>2. ASSUME NEW v \in setting.workers PROVE MessageHeld(pc[v], loc[v])'
  <2>1. CASE v = w
    BY <2>1 DEF Moved, MessageHeld
  <2>2. CASE v # w
    BY <2>2 DEF Moved, InboxInv, MessageHeld
  <2> QED
    BY <2>1, <2>2
<1> QED
  BY <1>1, <1>2 DEF InboxInv, NoticesBalanced, Balanced

\* A request that neither was telling anybody nor is, and sends nothing.
LEMMA InboxQuiet ==
    ASSUME InboxInv, NEW w \in setting.workers, NEW label, NEW l, Moved(w, label, l), Shaped',
           InboxRows', MessageHeld(label, l), pc[w] # "message.notify",
           label # "message.notify",
           \A u \in Users : noticed'[u].all = noticed[u].all /\ Received(u)' = Received(u)
    PROVE  InboxInv'
<1>1. ASSUME NEW u \in Users PROVE Tellers(u)' = Tellers(u)
  <2>1. ~Telling(label, l, u) /\ w \notin Tellers(u)
    BY DEF Telling, Tellers
  <2>2. Tellers(u)' = Tellers(u) \ {w}
    BY <2>1, TellersMove DEF InboxInv
  <2> QED
    BY <2>1, <2>2
<1> QED
  BY <1>1, InboxMoved DEF InboxInv, NoticesBalanced

LEMMA InboxReads ==
    ASSUME InboxInv, NEW w \in setting.workers, NEW label, NEW l, Moved(w, label, l), Shaped',
           UNCHANGED inboxTables, MessageHeld(label, l), pc[w] # "message.notify",
           label # "message.notify"
    PROVE  InboxInv'
<1>1. /\ conversations' = conversations /\ messages' = messages /\ noticed' = noticed
  BY DEF inboxTables
<1>2. InboxRows' /\ \A u \in Users : Received(u)' = Received(u)
  BY <1>1 DEF InboxInv, InboxRows, Received
<1> QED
  BY <1>1, <1>2, InboxQuiet

LEMMA MessageCreated ==
    ASSUME InboxInv, NEW w \in setting.workers, CreateMessage(w)
    PROVE  InboxInv'
<1>1. PICK h : h = loc[w]
  OBVIOUS
<1>2. PICK c \in Pairs, u \in Users : h = [conversation |-> c, from |-> u] /\ Takes(c, u)
  BY <1>1 DEF InboxInv, MessageHeld, CreateMessage, At
<1>3. PICK m : m = [from |-> u, read |-> FALSE]
  OBVIOUS
<1>4. m \in Message /\ m.from = u /\ h.conversation = c /\ h.from = u
  BY <1>2, <1>3 DEF Message
<1>5. PICK s \in Seq(Message) : s = messages[c]
  BY DEF InboxInv, InboxRows
<1>6. PICK n \in Nat : n = Len(s) /\ n < MessagesBound /\ n + 1 \in 1..MessagesBound
  BY <1>1, <1>4, <1>5, InboxAssumption DEF CreateMessage
<1>7. /\ messages' = [messages EXCEPT ![c] = Append(s, m)]
      /\ Goto(w, "message.notify") /\ conversations' = conversations /\ noticed' = noticed
      /\ pc[w] = "message.create"
  BY <1>1, <1>3, <1>4, <1>5 DEF CreateMessage, At
<1>8. /\ Append(s, m) \in Seq(Message) /\ Len(Append(s, m)) = n + 1
      /\ DOMAIN Append(s, m) = 1..(n + 1) /\ DOMAIN s = 1..n
      /\ \A k \in 1..n : Append(s, m)[k] = s[k]
      /\ Append(s, m)[n + 1] = m
  BY <1>4, <1>6
<1>9. /\ messages \in [Pairs -> Seq(Message)]
      /\ messages'[c] = Append(s, m) /\ \A d \in Pairs \ {c} : messages'[d] = messages[d]
  BY <1>7 DEF InboxInv, InboxRows
<1>10. InboxRows'
  BY <1>6, <1>7, <1>8, <1>9 DEF InboxInv, InboxRows
<1>11. Shaped /\ Shaped' /\ Moved(w, "message.notify", h)
  BY <1>1, <1>7, GotoMoves DEF InboxInv
<1>12. MessageHeld("message.notify", h)
  BY <1>2, <1>4 DEF MessageHeld
<1>13. ASSUME NEW v \in Users
       PROVE  Balanced(noticed'[v].all, Cardinality(Tellers(v)'), Cardinality(Received(v)'))
  <2>1. /\ Balanced(noticed[v].all, Cardinality(Tellers(v)), Cardinality(Received(v)))
        /\ noticed[v].all \in Nat
    BY DEF InboxInv, NoticesBalanced, InboxRows, NoticeCount
  <2>2. Tellers(v) \in SUBSET setting.workers /\ w \in setting.workers \ Tellers(v)
    BY <1>7 DEF Tellers, Telling
  <2>3. /\ Cardinality(Tellers(v)) \in Nat
        /\ Cardinality(Tellers(v) \cup {w}) = Cardinality(Tellers(v)) + 1
    BY <1>11, <2>2, WorkersCount
  <2>4. IsFiniteSet(Received(v)) /\ Cardinality(Received(v)) \in Nat
    BY ReceivedFinite
  <2>5. <<c, n + 1>> \notin Received(v)
    BY <1>5, <1>6, <1>8 DEF Received
  <2>6. Telling("message.notify", h, v) <=> v = Other(c, u)
    BY <1>2, <1>4, ToldOther DEF Telling
  <2>7. CASE v = Other(c, u)
    <3>1. Takes(c, v) /\ u # v
      BY <1>2, <2>7, ToldOther
    <3>2. Received(v)' = Received(v) \cup {<<c, n + 1>>}
      <4>1. ASSUME NEW x \in Pairs \X (1..MessagesBound)
            PROVE  x \in Received(v)' <=> x \in Received(v) \cup {<<c, n + 1>>}
        <5>1. PICK d \in Pairs, k \in 1..MessagesBound : x = <<d, k>>
          OBVIOUS
        <5>2. CASE d # c
          BY <1>9, <5>1, <5>2 DEF Received
        <5>3. CASE d = c /\ k # n + 1
          BY <1>5, <1>6, <1>8, <1>9, <5>1, <5>3 DEF Received
        <5>4. CASE d = c /\ k = n + 1
          BY <1>4, <1>6, <1>8, <1>9, <3>1, <5>1, <5>4 DEF Received
        <5> QED
          BY <5>2, <5>3, <5>4
      <4>2. <<c, n + 1>> \in Pairs \X (1..MessagesBound)
        BY <1>6
      <4> QED
        BY <4>1, <4>2 DEF Received
    <3>3. Cardinality(Received(v)') = Cardinality(Received(v)) + 1
      BY <2>4, <2>5, <3>2, FS_AddElement
    <3>4. Cardinality(Tellers(v)') = Cardinality(Tellers(v)) + 1
      BY <1>11, <2>3, <2>6, <2>7, TellersMove
    <3> QED
      BY <1>7, <2>1, <2>3, <2>4, <3>3, <3>4 DEF Balanced
  <2>8. CASE v # Other(c, u)
    <3>1. ~(Takes(c, v) /\ u # v)
      BY <1>2, <2>8, ToldOther
    <3>2. Received(v)' = Received(v)
      <4>1. ASSUME NEW x \in Pairs \X (1..MessagesBound)
            PROVE  x \in Received(v)' <=> x \in Received(v)
        <5>1. PICK d \in Pairs, k \in 1..MessagesBound : x = <<d, k>>
          OBVIOUS
        <5>2. CASE d # c
          BY <1>9, <5>1, <5>2 DEF Received
        <5>3. CASE d = c /\ k # n + 1
          BY <1>5, <1>6, <1>8, <1>9, <5>1, <5>3 DEF Received
        <5>4. CASE d = c /\ k = n + 1
          BY <1>4, <1>5, <1>6, <1>8, <1>9, <3>1, <5>1, <5>4 DEF Received
        <5> QED
          BY <5>2, <5>3, <5>4
      <4> QED
        BY <4>1 DEF Received
    <3>3. Tellers(v)' = Tellers(v)
      <4>1. Tellers(v)' = Tellers(v) \ {w}
        BY <1>11, <2>6, <2>8, TellersMove
      <4> QED
        BY <2>2, <4>1
    <3> QED
      BY <1>7, <2>1, <3>2, <3>3
  <2> QED
    BY <2>7, <2>8
<1> QED
  BY <1>10, <1>11, <1>12, <1>13, InboxMoved

\* A notice is stored, or lost, or the request that was to make it is.
LEMMA RecipientNotified ==
    ASSUME InboxInv, NEW w \in setting.workers, NotifyRecipient(w) \/ AbortInbox(w)
    PROVE  InboxInv'
<1>1. PICK h : h = loc[w]
  OBVIOUS
<1>2. /\ Shaped /\ Shaped' /\ Moved(w, "idle", Nothing) /\ InboxRows
      /\ MessageHeld(pc[w], h) /\ pc[w] # "idle" /\ MessageHeld("idle", Nothing)
      /\ conversations' = conversations /\ messages' = messages
  BY <1>1, FinishMoves
  DEF InboxInv, NotifyRecipient, AbortInbox, Abort, At, MessageHeld, inboxTables
<1>3. \A u : Tellers(u)' = Tellers(u) \ {w} /\ Received(u)' = Received(u)
  BY <1>2, TellersMove DEF Telling, Received
<1>4. ASSUME NEW v \in Users
      PROVE  /\ noticed[v].all \in Nat /\ IsFiniteSet(Tellers(v))
             /\ Cardinality(Tellers(v)) \in Nat /\ Cardinality(Received(v)) \in Nat
             /\ Balanced(noticed[v].all, Cardinality(Tellers(v)), Cardinality(Received(v)))
             /\ Cardinality(Tellers(v)') =
                   IF w \in Tellers(v) THEN Cardinality(Tellers(v)) - 1
                   ELSE Cardinality(Tellers(v))
  <2>1. Tellers(v) \in SUBSET setting.workers
    BY DEF Tellers
  <2>2. IsFiniteSet(Tellers(v)) /\ Cardinality(Tellers(v)) \in Nat
    BY <1>2, <2>1, WorkersCount
  <2>3. noticed[v].all \in Nat
    BY <1>2 DEF InboxRows, NoticeCount
  <2>4. Balanced(noticed[v].all, Cardinality(Tellers(v)), Cardinality(Received(v)))
    BY DEF InboxInv, NoticesBalanced
  <2> QED
    BY <1>3, <2>2, <2>3, <2>4, ReceivedFinite, FS_RemoveElement
<1>5. CASE UNCHANGED noticed /\ ~Unfailing
  <2>1. InboxRows'
    BY <1>2, <1>5 DEF InboxRows
  <2>2. ASSUME NEW v \in Users
        PROVE  Balanced(noticed'[v].all, Cardinality(Tellers(v)'), Cardinality(Received(v)'))
    BY <1>3, <1>4, <1>5 DEF Balanced
  <2> QED
    BY <1>2, <2>1, <2>2, InboxMoved
<1>6. CASE ~(UNCHANGED noticed /\ ~Unfailing)
  <2>1. NotifyRecipient(w) /\ pc[w] = "message.notify"
    BY <1>6 DEF NotifyRecipient, AbortInbox, Abort, At, Unfailing, inboxTables
  <2>2. PICK c \in Pairs, u \in Users : h = [conversation |-> c, from |-> u] /\ Takes(c, u)
    BY <1>2, <2>1 DEF MessageHeld
  <2>3. PICK o \in Users : o = Other(c, u)
    BY <2>2, ToldOther
  <2>4. noticed' = [noticed EXCEPT ![o].all = @ + 1, ![o].unread = @ + 1]
    BY <1>1, <1>6, <2>1, <2>2, <2>3 DEF NotifyRecipient, Unfailing
  <2>5. PICK a \in Nat, b \in Nat : noticed[o] = [all |-> a, unread |-> b] /\ b <= a
    BY <1>2 DEF InboxRows, NoticeCount
  <2>6. /\ noticed' \in [Users -> NoticeCount]
        /\ noticed'[o].all = a + 1 /\ noticed'[o].unread = b + 1
        /\ \A v \in Users \ {o} : noticed'[v] = noticed[v]
    BY <1>2, <2>4, <2>5 DEF InboxRows, NoticeCount
  <2>7. InboxRows'
    BY <1>2, <2>5, <2>6 DEF InboxRows
  <2>8. ASSUME NEW v \in Users PROVE w \in Tellers(v) <=> v = o
    <3>1. h.conversation = c /\ h.from = u
      BY <2>2
    <3>2. w \in Tellers(v) <=> Takes(c, v) /\ u # v
      BY <1>1, <2>1, <3>1 DEF Tellers, Telling
    <3> QED
      BY <2>2, <2>3, <3>2, ToldOther
  <2>9. ASSUME NEW v \in Users
        PROVE  Balanced(noticed'[v].all, Cardinality(Tellers(v)'), Cardinality(Received(v)'))
    <3>1. CASE v = o
      BY <1>3, <1>4, <2>5, <2>6, <2>8, <3>1 DEF Balanced
    <3>2. CASE v # o
      BY <1>3, <1>4, <2>6, <2>8, <3>2
    <3> QED
      BY <3>1, <3>2
  <2> QED
    BY <1>2, <2>7, <2>9, InboxMoved
<1> QED
  BY <1>5, <1>6

LEMMA InboxNextInv ==
    ASSUME InboxInv, [InboxNext]_inboxVars
    PROVE  InboxInv'
<1>1. Shaped /\ InboxRows /\ MessageHeld("idle", Nothing)
  BY DEF InboxInv, MessageHeld
<1>2. ASSUME NEW w \in setting.workers, AtOnce(w)
      PROVE  Shaped' /\ Moved(w, "idle", Nothing) /\ pc[w] = "idle"
  <2>1. loc[w] = Nothing
    BY <1>2 DEF InboxInv, MessageHeld, AtOnce, Idle
  <2> QED
    BY <1>1, <1>2, <2>1, AtOnceMoves
<1>3. ASSUME NEW w \in setting.workers, NEW u \in Users, NEW v \in Users,
             StartConversation(w, u, v)
      PROVE  InboxInv'
  <2>1. OrderPair(u, v) \in Pairs /\ OrderPair(u, v)[1] < OrderPair(u, v)[2]
    <3>1. u \in Nat /\ v \in Nat /\ u # v
      BY <1>3, InboxAssumption DEF StartConversation
    <3>2. CASE u < v
      BY <3>1, <3>2 DEF OrderPair, Pairs
    <3>3. CASE ~(u < v)
      BY <3>1, <3>3 DEF OrderPair, Pairs
    <3> QED
      BY <3>2, <3>3
  <2>2. InboxRows'
    BY <1>1, <1>3, <2>1 DEF StartConversation, InboxRows
  <2>3. \A x \in Users : noticed'[x].all = noticed[x].all /\ Received(x)' = Received(x)
    BY <1>3 DEF StartConversation, Received
  <2> QED
    BY <1>1, <1>2, <1>3, <2>2, <2>3, InboxQuiet DEF StartConversation
<1>4. ASSUME NEW w \in setting.workers, NEW u \in Users, NEW c \in Pairs, BeginMessage(w, c, u)
      PROVE  InboxInv'
  <2>1. PICK h : h = [conversation |-> c, from |-> u]
    OBVIOUS
  <2>2. MessageHeld("message.create", h)
    BY <1>4, <2>1 DEF BeginMessage, MessageHeld
  <2> QED
    BY <1>1, <1>4, <2>1, <2>2, HoldMoves, InboxReads DEF BeginMessage, Idle
<1>5. ASSUME NEW w \in setting.workers, NEW u \in Users, NEW c \in Pairs,
             MarkConversationRead(w, c, u)
      PROVE  InboxInv'
  <2>1. PICK s \in Seq(Message) : s = messages[c]
    BY <1>1 DEF InboxRows
  <2>2. PICK t : t = [k \in DOMAIN s |-> IF s[k].from # u THEN [s[k] EXCEPT !.read = TRUE]
                                         ELSE s[k]]
    OBVIOUS
  <2>3. \A k \in DOMAIN s : s[k] \in Message
    OBVIOUS
  <2>4. /\ DOMAIN t = DOMAIN s
        /\ \A k \in DOMAIN s : t[k] \in Message /\ t[k].from = s[k].from
    BY <2>2, <2>3 DEF Message
  <2>5. t \in [1..Len(s) -> Message]
    BY <2>2, <2>4
  <2>6. t \in Seq(Message) /\ Len(t) = Len(s)
    BY <2>5
  <2>7. messages' = [messages EXCEPT ![c] = t] /\ UNCHANGED <<conversations, noticed>>
    BY <1>5, <2>1, <2>2 DEF MarkConversationRead
  <2>8. /\ messages'[c] = t /\ \A d \in Pairs \ {c} : messages'[d] = messages[d]
        /\ messages' \in [Pairs -> Seq(Message)]
    BY <1>1, <2>6, <2>7 DEF InboxRows
  <2>9. InboxRows'
    BY <1>1, <2>1, <2>6, <2>7, <2>8 DEF InboxRows
  <2>10. \A d \in Pairs : /\ DOMAIN messages'[d] = DOMAIN messages[d]
                          /\ \A k \in DOMAIN messages[d] :
                                messages'[d][k].from = messages[d][k].from
    BY <2>1, <2>4, <2>8
  <2>11. \A x \in Users : Received(x)' = Received(x)
    BY <2>10 DEF Received
  <2> QED
    BY <1>1, <1>2, <1>5, <2>7, <2>9, <2>11, InboxQuiet DEF MarkConversationRead
<1>6. ASSUME NEW w \in setting.workers, NEW u \in Users,
             MarkNotificationRead(w, u) \/ MarkAllNotificationsRead(w, u)
      PROVE  InboxInv'
  <2>1. PICK a \in Nat, b \in Nat : noticed[u] = [all |-> a, unread |-> b] /\ b <= a
    BY <1>1 DEF InboxRows, NoticeCount
  <2>2. PICK n \in Nat : n <= a /\ noticed' = [noticed EXCEPT ![u].unread = n]
    <3>1. CASE MarkNotificationRead(w, u)
      <4>1. noticed[u].unread = b
        BY <2>1
      <4>2. b > 0 /\ noticed' = [noticed EXCEPT ![u].unread = b - 1]
        BY <3>1, <4>1 DEF MarkNotificationRead
      <4>3. b - 1 \in Nat /\ b - 1 <= a
        BY <2>1, <4>2
      <4> QED
        BY <4>2, <4>3
    <3>2. CASE MarkAllNotificationsRead(w, u)
      <4>1. noticed' = [noticed EXCEPT ![u].unread = 0] /\ 0 \in Nat /\ 0 <= a
        BY <2>1, <3>2 DEF MarkAllNotificationsRead
      <4> QED
        BY <4>1
    <3> QED
      BY <1>6, <3>1, <3>2
  <2>3. AtOnce(w) /\ UNCHANGED <<conversations, messages>>
    BY <1>6 DEF MarkNotificationRead, MarkAllNotificationsRead
  <2>4. /\ noticed' \in [Users -> NoticeCount]
        /\ noticed'[u].all = a /\ noticed'[u].unread = n
        /\ \A v \in Users \ {u} : noticed'[v] = noticed[v]
    BY <1>1, <2>1, <2>2 DEF InboxRows, NoticeCount
  <2>5. InboxRows'
    BY <1>1, <2>2, <2>3, <2>4 DEF InboxRows
  <2>6. \A x \in Users : noticed'[x].all = noticed[x].all /\ Received(x)' = Received(x)
    BY <2>1, <2>3, <2>4 DEF Received
  <2> QED
    BY <1>1, <1>2, <2>3, <2>5, <2>6, InboxQuiet
<1>7. CASE UNCHANGED inboxVars
  <2>1. /\ Shaped' /\ setting' = setting /\ pc' = pc /\ loc' = loc
        /\ conversations' = conversations /\ messages' = messages /\ noticed' = noticed
    BY <1>1, <1>7, StayShaped DEF inboxVars, inboxTables
  <2> QED
    BY <2>1 DEF InboxInv, InboxRows, MessageHeld, NoticesBalanced, Balanced, Tellers, Telling,
                Received, Unfailing
<1> QED
  BY <1>3, <1>4, <1>5, <1>6, <1>7, MessageCreated, RecipientNotified
  DEF InboxNext, BeginInbox, InboxStep

LEMMA InboxInvTypes == InboxInv => InboxTypeOK
<1>1. ASSUME InboxInv PROVE InboxTypeOK
  <2>1. ASSUME NEW c \in Pairs, NEW k \in DOMAIN messages[c]
        PROVE  messages[c][k] \in [from : Users, read : BOOLEAN]
    <3>1. messages[c] \in Seq(Message)
      BY <1>1 DEF InboxInv, InboxRows
    <3>2. messages[c][k] \in Message
      BY <3>1
    <3> QED
      BY <3>2 DEF Message
  <2>2. ASSUME NEW w \in setting.workers
        PROVE  \/ pc[w] = "idle" /\ loc[w] = Nothing
               \/ /\ pc[w] \in {"message.create", "message.notify"}
                  /\ loc[w] \in [conversation : Pairs, from : Users]
    BY <1>1 DEF InboxInv, MessageHeld
  <2> QED
    BY <1>1, <2>1, <2>2 DEF InboxInv, InboxRows, InboxTypeOK
<1> QED
  BY <1>1

\* Conversations, messages and notices keep their columns' types, and a notice is
\* unread or not, for any number of users, messages and requests.
THEOREM InboxTypes == InboxSpec => []InboxTypeOK
BY InboxInvTypes, InboxInitInv, InboxNextInv, PTL DEF InboxSpec

\* However users open, write and read at once (communication.go:301, :325, :332): two
\* users have one conversation, every notice answers a message of the other one, and
\* without failures every message has its notice or a request about to make it; and a
\* message is on one page (postgres/communication.go), for any number of users,
\* messages and workers.
THEOREM ConversationsTheorem == InboxSpec => []ConversationsSound
<1>1. ASSUME InboxInv PROVE ConversationsSound
  <2>1. \A c \in conversations : <<c[2], c[1]>> \notin conversations
    <3>1. ASSUME NEW c \in conversations, <<c[2], c[1]>> \in conversations PROVE FALSE
      <4>1. c[1] < c[2] /\ c[2] < c[1] /\ c[1] \in Nat /\ c[2] \in Nat
        BY <1>1, <3>1, InboxAssumption DEF InboxInv, InboxRows, Pairs
      <4> QED
        BY <4>1
    <3> QED
      BY <3>1
  <2>2. ASSUME NEW u \in Users
        PROVE  /\ noticed[u].all + OnTheWayTo(u) <= SentTo(u)
               /\ Unfailing => noticed[u].all + OnTheWayTo(u) = SentTo(u)
    <3>1. SentTo(u) = Cardinality(Received(u)) /\ OnTheWayTo(u) = Cardinality(Tellers(u))
      BY DEF SentTo, Received, OnTheWayTo, Tellers, Telling
    <3> QED
      BY <1>1, <3>1 DEF InboxInv, NoticesBalanced, Balanced
  <2>3. ASSUME NEW c \in conversations, NEW perPage \in 1..PageMost,
               NEW k \in DOMAIN messages[c]
        PROVE  Cardinality({page \in 1..MessagesBound :
                  k \in ListMessages(Len(messages[c]), page, perPage)}) = 1
    <3>1. /\ Len(messages[c]) \in Nat /\ Len(messages[c]) <= MessagesBound
          /\ k \in 1..Len(messages[c])
      BY <1>1 DEF InboxInv, InboxRows
    <3> QED
      BY <3>1, PagedOnce
  <2> QED
    BY <2>1, <2>2, <2>3 DEF ConversationsSound
<1> QED
  BY <1>1, InboxInitInv, InboxNextInv, PTL DEF InboxSpec

-------------------------------------------------------------------------------
(* Lifecycle: the histogram                                                *)

BucketsMade == Len(Bounds) + 1

\* The answered requests of s that fall into bucket i, and into those up to i.
FallInto(s, i) == {k \in DOMAIN s : BucketOf(s[k]) = i}
FallUpTo(s, i) == {k \in DOMAIN s : BucketOf(s[k]) <= i}

LEMMA BoundsShape ==
    /\ Len(Bounds) \in Nat /\ DOMAIN Bounds = 1..Len(Bounds)
    /\ \A i \in DOMAIN Bounds : Bounds[i] \in Nat
    /\ BucketIndices = 1..BucketsMade /\ BucketsMade \in Nat
<1>1. Bounds \in Seq(Nat)
  BY LifecycleAssumption
<1> QED
  BY <1>1 DEF BucketIndices, BucketsMade

\* observe puts a duration into the first bucket that holds it: because the bounds
\* ascend, every later bucket would hold it as well.
LEMMA BucketHolds ==
    ASSUME NEW v \in Nat
    PROVE  /\ BucketOf(v) \in BucketIndices
           /\ \A i \in DOMAIN Bounds : BucketOf(v) <= i <=> v <= Bounds[i]
<1> DEFINE fits == {i \in DOMAIN Bounds : v <= Bounds[i]}
<1>1. CASE fits = {}
  <2>1. BucketOf(v) = Len(Bounds) + 1
    BY <1>1 DEF BucketOf
  <2> QED
    BY <1>1, <2>1, BoundsShape DEF BucketsMade
<1>2. CASE fits # {}
  <2>1. fits \in SUBSET Nat
    BY BoundsShape
  <2>2. \E i \in fits : \A j \in fits : i <= j
    BY <1>2, <2>1, LeastNumber
  <2> DEFINE first == CHOOSE i \in fits : \A j \in fits : i <= j
  <2>3. first \in fits /\ \A j \in fits : first <= j
    BY <2>2
  <2>4. BucketOf(v) = first
    BY <1>2 DEF BucketOf
  <2> HIDE DEF first
  <2>5. ASSUME NEW i \in DOMAIN Bounds PROVE first <= i <=> v <= Bounds[i]
    <3>1. v <= Bounds[i] => first <= i
      BY <2>3
    <3>2. ASSUME first <= i PROVE v <= Bounds[i]
      <4>1. first = i \/ first < i
        BY <2>3, <3>2, BoundsShape
      <4>2. first < i => Bounds[first] < Bounds[i]
        BY <2>3, LifecycleAssumption
      <4>3. v <= Bounds[first] /\ Bounds[first] \in Nat /\ Bounds[i] \in Nat
        BY <2>3, BoundsShape
      <4> QED
        BY <4>1, <4>2, <4>3
    <3> QED
      BY <3>1, <3>2
  <2>6. first \in BucketIndices
    BY <2>3, BoundsShape DEF BucketsMade
  <2> QED
    BY <2>4, <2>5, <2>6
<1> QED
  BY <1>1, <1>2

\* writeHistogram adds the counts up, one bucket after the other.
LEMMA CumulativeAdds ==
    ASSUME NEW counts \in [BucketIndices -> Nat]
    PROVE  /\ Cumulative(counts) \in [0..BucketsMade -> Nat]
           /\ Cumulative(counts)[0] = 0
           /\ \A i \in BucketIndices :
                Cumulative(counts)[i] = Cumulative(counts)[i - 1] + counts[i]
<1> DEFINE N == BucketsMade
           Adds(f, n) == /\ f \in [0..n -> Nat] /\ f[0] = 0
                         /\ \A i \in 1..n : f[i] = f[i - 1] + counts[i]
           Missing == {n \in 0..N : ~\E f : Adds(f, n)}
<1>0. N \in Nat /\ BucketIndices = 1..N
  BY BoundsShape
<1>1. \A n \in 0..N : \E f : Adds(f, n)
  <2> SUFFICES ASSUME Missing # {} PROVE FALSE
    OBVIOUS
  <2>1. Missing \in SUBSET Nat
    BY <1>0
  <2>2. PICK n \in Missing : \A m \in Missing : n <= m
    BY <2>1, LeastNumber
  <2>3. n \in 0..N /\ ~\E f : Adds(f, n)
    OBVIOUS
  <2>4. CASE n = 0
    <3> DEFINE f == [i \in 0..0 |-> 0]
    <3>1. f \in [0..0 -> Nat] /\ f[0] = 0
      OBVIOUS
    <3>2. Adds(f, 0)
      BY <3>1
    <3> QED
      BY <2>3, <2>4, <3>2
  <2>5. CASE n # 0
    <3>1. n - 1 \in 0..N /\ n \in Nat /\ n \in BucketIndices
      BY <1>0, <2>3, <2>5
    <3>2. n - 1 \notin Missing
      BY <2>2, <3>1
    <3>3. PICK f : Adds(f, n - 1)
      BY <3>1, <3>2
    <3> DEFINE g == [i \in 0..n |-> IF i = n THEN f[n - 1] + counts[n] ELSE f[i]]
    <3>4. f[n - 1] \in Nat /\ counts[n] \in Nat
      BY <3>1, <3>3
    <3>5. g \in [0..n -> Nat]
      <4> SUFFICES ASSUME NEW i \in 0..n PROVE g[i] \in Nat
        OBVIOUS
      <4>1. i # n => i \in 0..(n - 1)
        BY <3>1
      <4> QED
        BY <3>3, <3>4, <4>1
    <3>6. g[0] = 0
      BY <2>5, <3>1, <3>3
    <3>7. ASSUME NEW i \in 1..n PROVE g[i] = g[i - 1] + counts[i]
      <4>1. i - 1 \in 0..n /\ i - 1 # n /\ i \in 0..n
        BY <3>1
      <4>2. g[i - 1] = f[i - 1]
        BY <4>1
      <4>3. CASE i = n
        BY <4>1, <4>2, <4>3
      <4>4. CASE i # n
        <5>1. i \in 1..(n - 1)
          BY <3>1, <4>4
        <5> QED
          BY <3>3, <4>1, <4>2, <4>4, <5>1
      <4> QED
        BY <4>3, <4>4
    <3>8. Adds(g, n)
      BY <3>5, <3>6, <3>7
    <3> QED
      BY <2>3, <3>8
  <2> QED
    BY <2>4, <2>5
<1>2. PICK f : Adds(f, N)
  <2>1. N \in 0..N
    BY <1>0
  <2> HIDE DEF Adds
  <2> QED
    BY <1>1, <2>1, Zenon
<1> DEFINE Solves(h) == h = [i \in 0..Len(Bounds) + 1 |->
                               IF i = 0 THEN 0 ELSE h[i - 1] + counts[i]]
<1>3. Solves(f)
  <2>1. f \in [0..Len(Bounds) + 1 -> Nat]
    BY <1>2 DEF BucketsMade
  <2>2. ASSUME NEW i \in 0..Len(Bounds) + 1
        PROVE  f[i] = IF i = 0 THEN 0 ELSE f[i - 1] + counts[i]
    <3>1. i = 0 \/ i \in 1..N
      BY <1>0 DEF BucketsMade
    <3> QED
      BY <1>0, <1>2, <3>1
  <2> QED
    BY <2>1, <2>2
<1>4. Cumulative(counts) = CHOOSE h : Solves(h)
  BY Zenon DEF Cumulative
<1>5. Solves(Cumulative(counts))
  BY <1>3, <1>4, Zenon
<1> DEFINE c == Cumulative(counts)
<1>6. c = [i \in 0..Len(Bounds) + 1 |-> IF i = 0 THEN 0 ELSE c[i - 1] + counts[i]]
  BY <1>5
<1> HIDE DEF c
<1>7. c[0] = 0 /\ \A i \in BucketIndices : c[i] = c[i - 1] + counts[i]
  BY <1>0, <1>6 DEF BucketsMade
<1>8. ASSUME NEW i \in 0..N PROVE c[i] \in Nat
  <2> DEFINE Odd == {n \in 0..N : c[n] \notin Nat}
  <2> SUFFICES ASSUME Odd # {} PROVE FALSE
    OBVIOUS
  <2>1. Odd \in SUBSET Nat
    BY <1>0
  <2>2. PICK n \in Odd : \A m \in Odd : n <= m
    BY <2>1, LeastNumber
  <2>3. n # 0 /\ n \in 0..N
    BY <1>7
  <2>4. n \in BucketIndices /\ n - 1 \in 0..N /\ n - 1 < n
    BY <1>0, <2>3
  <2>5. c[n - 1] \in Nat
    BY <2>2, <2>4
  <2> QED
    BY <1>7, <2>4, <2>5
<1>9. DOMAIN c = 0..N
  BY <1>6 DEF BucketsMade
<1>10. c \in [0..N -> Nat]
  BY <1>6, <1>8, <1>9
<1> QED
  BY <1>7, <1>10 DEF c

\* Groups of answered requests can be counted.
LEMMA AnsweredCount ==
    ASSUME NEW s \in Seq(Latencies), NEW S \in SUBSET DOMAIN s
    PROVE  IsFiniteSet(S) /\ Cardinality(S) \in Nat
<1>1. Len(s) \in Nat /\ DOMAIN s = 1..Len(s)
  OBVIOUS
<1>2. IsFiniteSet(1..Len(s))
  BY <1>1, FS_Interval
<1> QED
  BY <1>1, <1>2, FS_Subset, FS_CardinalityType

LEMMA LatencyBucket ==
    ASSUME NEW s \in Seq(Latencies), NEW k \in DOMAIN s
    PROVE  s[k] \in Nat /\ BucketOf(s[k]) \in BucketIndices /\ BucketOf(s[k]) \in Nat
<1>0. s[k] \in Latencies
  OBVIOUS
<1>1. s[k] \in Nat
  BY <1>0, LifecycleAssumption
<1> QED
  BY <1>1, BucketHolds, BoundsShape

\* When a bucket counts what falls into it, its cumulative count is that of the
\* requests that took no longer than its bound.
LEMMA CumulativeTrue ==
    ASSUME NEW s \in Seq(Latencies), NEW counts \in [BucketIndices -> Nat],
           \A i \in BucketIndices : counts[i] = Cardinality(FallInto(s, i))
    PROVE  \A i \in DOMAIN Bounds :
             Cumulative(counts)[i] = Cardinality({k \in DOMAIN s : s[k] <= Bounds[i]})
<1> DEFINE c == Cumulative(counts)
           Wrong == {n \in 0..BucketsMade : c[n] # Cardinality(FallUpTo(s, n))}
<1>0. BucketsMade \in Nat /\ BucketIndices = 1..BucketsMade
  BY BoundsShape
<1>1. c[0] = 0 /\ \A i \in BucketIndices : c[i] = c[i - 1] + counts[i]
  BY CumulativeAdds
<1> HIDE DEF c
<1>2. Wrong = {}
  <2> SUFFICES ASSUME Wrong # {} PROVE FALSE
    OBVIOUS
  <2>1. Wrong \in SUBSET Nat
    BY <1>0
  <2>2. PICK n \in Wrong : \A m \in Wrong : n <= m
    BY <2>1, LeastNumber
  <2>3. CASE n = 0
    <3>1. FallUpTo(s, 0) = {}
      BY <1>0, LatencyBucket DEF FallUpTo
    <3> QED
      BY <1>1, <2>3, <3>1, FS_EmptySet
  <2>4. CASE n # 0
    <3>1. n \in BucketIndices /\ n - 1 \in 0..BucketsMade /\ n - 1 < n /\ n \in Nat
      BY <1>0, <2>4
    <3>2. c[n - 1] = Cardinality(FallUpTo(s, n - 1))
      BY <2>2, <3>1
    <3> DEFINE A == FallUpTo(s, n - 1)
               B == FallInto(s, n)
    <3>3. A \in SUBSET DOMAIN s /\ B \in SUBSET DOMAIN s
      BY DEF FallUpTo, FallInto
    <3>4. FallUpTo(s, n) = A \cup B
      <4>1. ASSUME NEW k \in DOMAIN s
            PROVE  BucketOf(s[k]) <= n <=> (BucketOf(s[k]) <= n - 1 \/ BucketOf(s[k]) = n)
        BY <3>1, LatencyBucket
      <4> QED
        BY <4>1 DEF FallUpTo, FallInto
    <3>5. A \cap B = {}
      <4>1. ASSUME NEW k \in DOMAIN s PROVE ~(BucketOf(s[k]) <= n - 1 /\ BucketOf(s[k]) = n)
        BY <3>1, LatencyBucket
      <4> QED
        BY <4>1 DEF FallUpTo, FallInto
    <3>6. /\ IsFiniteSet(A) /\ IsFiniteSet(B)
          /\ Cardinality(A) \in Nat /\ Cardinality(B) \in Nat
      BY <3>3, AnsweredCount
    <3> HIDE DEF A, B
    <3>7. Cardinality(A \cup B) = Cardinality(A) + Cardinality(B) - Cardinality(A \cap B)
      BY <3>6, FS_Union
    <3>8. Cardinality(A \cap B) = 0
      BY <3>5, FS_EmptySet
    <3>9. Cardinality(FallUpTo(s, n)) = Cardinality(A) + Cardinality(B)
      BY <3>4, <3>6, <3>7, <3>8
    <3>10. c[n] = c[n - 1] + counts[n] /\ counts[n] = Cardinality(B)
      BY <1>1, <3>1 DEF B
    <3>11. c[n - 1] = Cardinality(A)
      BY <3>2 DEF A
    <3> QED
      BY <2>2, <3>9, <3>10, <3>11
  <2> QED
    BY <2>3, <2>4
<1>3. ASSUME NEW i \in DOMAIN Bounds
      PROVE  c[i] = Cardinality({k \in DOMAIN s : s[k] <= Bounds[i]})
  <2>1. i \in 0..BucketsMade
    BY BoundsShape DEF BucketsMade
  <2>2. c[i] = Cardinality(FallUpTo(s, i))
    BY <1>2, <2>1
  <2>3. ASSUME NEW k \in DOMAIN s PROVE BucketOf(s[k]) <= i <=> s[k] <= Bounds[i]
    BY LatencyBucket, BucketHolds
  <2>4. FallUpTo(s, i) = {k \in DOMAIN s : s[k] <= Bounds[i]}
    BY <2>3 DEF FallUpTo
  <2> QED
    BY <2>2, <2>4
<1> QED
  BY <1>3 DEF c

\* One more answer falls into its bucket and into no other.
LEMMA OneMoreFalls ==
    ASSUME NEW s \in Seq(Latencies), NEW v \in Latencies
    PROVE  /\ Append(s, v) \in Seq(Latencies)
           /\ BucketOf(v) \in BucketIndices
           /\ \A i \in BucketIndices :
                Cardinality(FallInto(Append(s, v), i)) =
                    IF i = BucketOf(v) THEN Cardinality(FallInto(s, i)) + 1
                    ELSE Cardinality(FallInto(s, i))
<1> DEFINE t == Append(s, v)
           k == Len(s) + 1
<1>1. /\ t \in Seq(Latencies) /\ Len(s) \in Nat
      /\ DOMAIN s = 1..Len(s) /\ DOMAIN t = 1..(Len(s) + 1)
      /\ \A j \in DOMAIN s : t[j] = s[j]
      /\ t[Len(s) + 1] = v
  OBVIOUS
<1>2. v \in Nat /\ BucketOf(v) \in BucketIndices
  BY BucketHolds, LifecycleAssumption
<1>3. DOMAIN t = DOMAIN s \cup {k} /\ k \notin DOMAIN s /\ t[k] = v
  BY <1>1
<1> HIDE DEF t, k
<1>4. ASSUME NEW i \in BucketIndices
      PROVE  Cardinality(FallInto(t, i)) =
                IF i = BucketOf(v) THEN Cardinality(FallInto(s, i)) + 1
                ELSE Cardinality(FallInto(s, i))
  <2>1. FallInto(s, i) \in SUBSET DOMAIN s /\ k \notin FallInto(s, i)
    BY <1>3 DEF FallInto
  <2>2. IsFiniteSet(FallInto(s, i))
    BY <2>1, AnsweredCount
  <2>3. CASE i = BucketOf(v)
    <3>1. FallInto(t, i) = FallInto(s, i) \cup {k}
      BY <1>1, <1>3, <2>3 DEF FallInto
    <3>2. Cardinality(FallInto(s, i) \cup {k}) = Cardinality(FallInto(s, i)) + 1
      BY <2>1, <2>2, FS_AddElement
    <3> QED
      BY <2>3, <3>1, <3>2
  <2>4. CASE i # BucketOf(v)
    <3>1. FallInto(t, i) = FallInto(s, i)
      BY <1>1, <1>3, <2>4 DEF FallInto
    <3> QED
      BY <2>4, <3>1
  <2> QED
    BY <2>3, <2>4
<1> QED
  BY <1>1, <1>2, <1>4 DEF t

-------------------------------------------------------------------------------
(* Lifecycle: the process                                                  *)

\* The rows of the registry and the history, and what a bucket counts.
CountsAll(r, s) ==
    /\ r \in [Outcomes -> [BucketIndices -> Nat]]
    /\ s \in [Outcomes -> Seq(Latencies)]
    /\ \A o \in Outcomes, i \in BucketIndices : r[o][i] = Cardinality(FallInto(s[o], i))

RegistryRows == CountsAll(registry, seen)

ProcessRows ==
    /\ phase \in Phases /\ config \in Config /\ down \subseteq Dependencies
    /\ pool \in {"none", "open", "closed"}
    /\ listener \in {"off", "on", "failed"}
    /\ cut \in BOOLEAN

Serves(label, l) ==
    \/ label = "idle" /\ l = Nothing
    \/ /\ label \in {"probe", "handler", "observe"}
       /\ l \in [left : SUBSET Dependencies, outcome : Outcomes]

\* The pool is the one the configuration asks for.
Configured ==
    /\ ValidConfig(config)
    /\ pool = "open" <=> "postgres" \in config.configured

\* What each phase of the process guarantees.
PhaseSound ==
    /\ phase \in Ends \cup {"connecting", "closing"} => Quiet /\ listener = "off"
    /\ phase = "connecting" => ValidConfig(config)
    /\ phase \in {"starting", "running", "draining"} => Configured
    /\ phase = "draining" => listener = "off"
    /\ pool = "closed" => phase \in {"closing"} \cup Ends
    /\ phase \in {"closing", "clean"} => pool # "open"
    /\ phase = "clean" => ~cut

LifecycleInv ==
    /\ Shaped /\ ProcessRows /\ RegistryRows /\ PhaseSound
    /\ \A w \in setting.workers : Serves(pc[w], loc[w])

\* A fresh registry counts nothing.
LEMMA RegistryFresh == CountsAll(NoneCounted, NoneSeen)
<1>1. NoneCounted \in [Outcomes -> [BucketIndices -> Nat]]
  BY DEF NoneCounted
<1>2. ASSUME NEW o \in Outcomes PROVE NoneSeen[o] = <<>> /\ <<>> \in Seq(Latencies)
  BY DEF NoneSeen
<1>3. NoneSeen \in [Outcomes -> Seq(Latencies)]
  BY <1>2 DEF NoneSeen
<1>4. ASSUME NEW o \in Outcomes, NEW i \in BucketIndices
      PROVE  NoneCounted[o][i] = Cardinality(FallInto(NoneSeen[o], i))
  <2>1. FallInto(<<>>, i) = {}
    BY DEF FallInto
  <2>2. NoneCounted[o][i] = 0
    BY DEF NoneCounted
  <2> QED
    BY <1>2, <2>1, <2>2, FS_EmptySet
<1> QED
  BY <1>1, <1>3, <1>4 DEF CountsAll

LEMMA LifecycleInitInv == LifecycleInit => LifecycleInv
<1> SUFFICES ASSUME LifecycleInit PROVE LifecycleInv
  OBVIOUS
<1>1. Shaped
  BY ShapedInit DEF LifecycleInit
<1>2. RegistryRows
  BY RegistryFresh DEF LifecycleInit, RegistryRows
<1>3. ProcessRows
  BY DEF LifecycleInit, ProcessRows, Phases, Ends, Config
<1>4. Quiet /\ \A w \in setting.workers : Serves(pc[w], loc[w])
  BY DEF LifecycleInit, RequestsInit, Quiet, Serves
<1>5. PhaseSound
  BY <1>4 DEF LifecycleInit, PhaseSound, Ends
<1> QED
  BY <1>1, <1>2, <1>3, <1>4, <1>5 DEF LifecycleInv

\* Steps that leave requests and registry alone.
LEMMA WorkersStay ==
    ASSUME LifecycleInv, UNCHANGED requests
    PROVE  /\ Shaped' /\ (Quiet' <=> Quiet)
           /\ \A w \in setting'.workers : Serves(pc[w], loc[w])'
<1>1. Shaped' /\ setting' = setting /\ pc' = pc /\ loc' = loc
  BY StayShaped DEF LifecycleInv
<1>2. Quiet' <=> Quiet
  BY <1>1 DEF Quiet
<1>3. \A w \in setting'.workers : Serves(pc[w], loc[w])'
  BY <1>1 DEF LifecycleInv, Serves
<1> QED
  BY <1>1, <1>2, <1>3

LEMMA RegistryStays ==
    ASSUME RegistryRows, UNCHANGED <<registry, seen>>
    PROVE  RegistryRows'
BY DEF RegistryRows

LEMMA StartingInv ==
    ASSUME LifecycleInv, Starting
    PROVE  LifecycleInv'
<1>0. ProcessRows /\ RegistryRows /\ PhaseSound
  BY DEF LifecycleInv
<1>1. UNCHANGED requests
  BY DEF Starting, Start, Connect, Listen, Notify
<1>2. /\ Shaped' /\ (Quiet' <=> Quiet)
      /\ \A w \in setting'.workers : Serves(pc[w], loc[w])'
  BY <1>1, WorkersStay
<1>3. ASSUME NEW c \in Config, Start(c) PROVE LifecycleInv'
  <2>1. RegistryRows'
    <3>1. registry' = NoneCounted /\ seen' = NoneSeen
      BY <1>3 DEF Start
    <3> QED
      BY <3>1, RegistryFresh DEF RegistryRows
  <2>2. ProcessRows'
    BY <1>0, <1>3 DEF Start, ProcessRows, Phases, Ends
  <2>3. PhaseSound'
    BY <1>0, <1>2, <1>3 DEF Start, PhaseSound, ValidConfig, Ends
  <2> QED
    BY <1>2, <2>1, <2>2, <2>3 DEF LifecycleInv
<1>4. CASE Connect
  <2>1. RegistryRows'
    BY <1>0, <1>4, RegistryStays DEF Connect
  <2>2. ProcessRows'
    BY <1>0, <1>4 DEF Connect, ProcessRows, Phases, Ends
  <2>3. PhaseSound'
    BY <1>0, <1>2, <1>4 DEF Connect, PhaseSound, ValidConfig, Configured, Ends
  <2> QED
    BY <1>2, <2>1, <2>2, <2>3 DEF LifecycleInv
<1>5. CASE Listen
  <2>1. RegistryRows'
    BY <1>0, <1>5, RegistryStays DEF Listen
  <2>2. ProcessRows'
    BY <1>0, <1>5 DEF Listen, ProcessRows, Phases, Ends
  <2>3. PhaseSound'
    BY <1>0, <1>2, <1>5 DEF Listen, PhaseSound, ValidConfig, Configured, Ends
  <2> QED
    BY <1>2, <2>1, <2>2, <2>3 DEF LifecycleInv
<1>6. CASE Notify
  <2>1. RegistryRows'
    BY <1>0, <1>6, RegistryStays DEF Notify
  <2>2. ProcessRows'
    BY <1>0, <1>6 DEF Notify, ProcessRows, Phases, Ends
  <2>3. PhaseSound'
    BY <1>0, <1>2, <1>6 DEF Notify, PhaseSound, ValidConfig, Configured, Ends
  <2> QED
    BY <1>2, <2>1, <2>2, <2>3 DEF LifecycleInv
<1> QED
  BY <1>3, <1>4, <1>5, <1>6 DEF Starting

\* A request that goes on, or ends, in a process that serves.
LEMMA ServesOn ==
    ASSUME LifecycleInv, NEW w \in setting.workers, NEW label, NEW l,
           Hold(w, label, l), Serves(label, l),
           UNCHANGED <<phase, config, down, pool, listener, cut>>,
           pc[w] # "idle" \/ listener = "on"
    PROVE  /\ Shaped' /\ ProcessRows' /\ PhaseSound'
           /\ \A v \in setting'.workers : Serves(pc[v], loc[v])'
<1>1. Shaped' /\ Moved(w, label, l)
  BY HoldMoves DEF LifecycleInv
<1>2. \A v \in setting'.workers : Serves(pc[v], loc[v])'
  <2> SUFFICES ASSUME NEW v \in setting.workers PROVE Serves(pc'[v], loc'[v])
    BY <1>1 DEF Moved, Serves
  <2> QED
    BY <1>1 DEF Moved, LifecycleInv
<1>3. phase \notin Ends \cup {"connecting", "closing"}
  BY DEF LifecycleInv, PhaseSound, Quiet
<1>4. ProcessRows'
  BY DEF LifecycleInv, ProcessRows
<1>5. PhaseSound'
  <2>1. PhaseSound
    BY DEF LifecycleInv
  <2>2. (Configured' <=> Configured) /\ (ValidConfig(config)' <=> ValidConfig(config))
    BY DEF Configured, ValidConfig
  <2> QED
    BY <1>3, <2>1, <2>2 DEF PhaseSound, Ends
<1> QED
  BY <1>1, <1>2, <1>4, <1>5

LEMMA ServingInv ==
    ASSUME LifecycleInv, Serving
    PROVE  LifecycleInv'
<1>0. ProcessRows /\ RegistryRows /\ PhaseSound /\ Shaped
  BY DEF LifecycleInv
<1> PICK w \in setting.workers :
         \/ \E route \in {"ready", "api"} : Accept(w, route)
         \/ Probe(w) \/ Handle(w)
         \/ \E v \in Latencies : Observe(w, v)
  BY DEF Serving
<1>1. Serves(pc[w], loc[w])
  BY DEF LifecycleInv
<1>2. ASSUME NEW label, NEW l, Hold(w, label, l), Serves(label, l),
             UNCHANGED lifecycleTables, pc[w] # "idle" \/ listener = "on"
      PROVE  LifecycleInv'
  <2>1. UNCHANGED <<phase, config, down, pool, listener, cut>>
    BY <1>2 DEF lifecycleTables
  <2>2. RegistryRows'
    BY <1>0, <1>2, RegistryStays DEF lifecycleTables
  <2> QED
    BY <1>2, <2>1, <2>2, ServesOn DEF LifecycleInv
<1>3. ASSUME NEW route \in {"ready", "api"}, Accept(w, route) PROVE LifecycleInv'
  <2>1. PICK label \in {"probe", "handler"} :
           Hold(w, label, [left |-> config.configured, outcome |-> "ok"])
    BY <1>3 DEF Accept
  <2>2. config.configured \in SUBSET Dependencies
    BY <1>0 DEF ProcessRows, Config
  <2>3. Serves(label, [left |-> config.configured, outcome |-> "ok"])
    BY <2>2 DEF Serves, Outcomes
  <2> QED
    BY <1>2, <1>3, <2>1, <2>3 DEF Accept
<1>4. CASE Probe(w)
  <2>1. /\ pc[w] = "probe" /\ loc[w] \in [left : SUBSET Dependencies, outcome : Outcomes]
        /\ UNCHANGED lifecycleTables
    BY <1>1, <1>4 DEF Probe, At, Serves
  <2>2. CASE Hold(w, "observe", loc[w])
    <3>1. Serves("observe", loc[w])
      BY <2>1 DEF Serves
    <3> QED
      BY <1>2, <2>1, <2>2, <3>1
  <2>3. ASSUME NEW d \in loc[w].left,
               Hold(w, "probe", [left    |-> loc[w].left \ {d},
                                 outcome |-> IF d \in down THEN "error" ELSE loc[w].outcome])
        PROVE  LifecycleInv'
    <3>1. Serves("probe", [left    |-> loc[w].left \ {d},
                           outcome |-> IF d \in down THEN "error" ELSE loc[w].outcome])
      BY <2>1 DEF Serves, Outcomes
    <3> QED
      BY <1>2, <2>1, <2>3, <3>1
  <2> QED
    BY <1>4, <2>2, <2>3 DEF Probe, Goto
<1>5. CASE Handle(w)
  <2>1. pc[w] = "handler" /\ UNCHANGED lifecycleTables
    BY <1>5 DEF Handle, At
  <2>2. CASE Finish(w)
    <3>1. Serves("idle", Nothing)
      BY DEF Serves
    <3> QED
      BY <1>2, <2>1, <2>2, <3>1 DEF Finish
  <2>3. ASSUME NEW o \in Outcomes, Hold(w, "observe", [left |-> {}, outcome |-> o])
        PROVE  LifecycleInv'
    <3>1. Serves("observe", [left |-> {}, outcome |-> o])
      BY DEF Serves
    <3> QED
      BY <1>2, <2>1, <2>3, <3>1
  <2> QED
    BY <1>5, <2>2, <2>3 DEF Handle
<1>6. ASSUME NEW v \in Latencies, Observe(w, v) PROVE LifecycleInv'
  <2>1. /\ pc[w] = "observe" /\ loc[w].outcome \in Outcomes
        /\ UNCHANGED <<phase, config, down, pool, listener, cut>>
    BY <1>1, <1>6 DEF Observe, At, Serves
  <2>2. Hold(w, "idle", Nothing) /\ Serves("idle", Nothing)
    BY <1>6 DEF Observe, Finish, Serves
  <2> DEFINE o == loc[w].outcome
             b == BucketOf(v)
  <2>3. /\ registry' = [registry EXCEPT ![o][b] = registry[o][b] + 1]
        /\ seen' = [seen EXCEPT ![o] = Append(seen[o], v)]
    BY <1>6 DEF Observe
  <2> HIDE DEF o, b
  <2>4. o \in Outcomes /\ seen[o] \in Seq(Latencies) /\ registry[o] \in [BucketIndices -> Nat]
    BY <1>0, <2>1 DEF RegistryRows, CountsAll, o
  <2>5. /\ Append(seen[o], v) \in Seq(Latencies) /\ b \in BucketIndices
        /\ \A i \in BucketIndices :
             Cardinality(FallInto(Append(seen[o], v), i)) =
                 IF i = b THEN Cardinality(FallInto(seen[o], i)) + 1
                 ELSE Cardinality(FallInto(seen[o], i))
    BY <2>4, OneMoreFalls DEF b
  <2>6. /\ registry' \in [Outcomes -> [BucketIndices -> Nat]]
        /\ seen' \in [Outcomes -> Seq(Latencies)]
    BY <1>0, <2>3, <2>4, <2>5 DEF RegistryRows, CountsAll
  <2>7. ASSUME NEW p \in Outcomes, NEW i \in BucketIndices
        PROVE  registry'[p][i] = Cardinality(FallInto(seen'[p], i))
    <3>1. registry[p][i] = Cardinality(FallInto(seen[p], i))
      BY <1>0 DEF RegistryRows, CountsAll
    <3>2. CASE p # o
      <4>1. registry'[p] = registry[p] /\ seen'[p] = seen[p]
        BY <1>0, <2>3, <3>2 DEF RegistryRows, CountsAll
      <4> QED
        BY <3>1, <4>1
    <3>3. CASE p = o
      <4>1. seen'[p] = Append(seen[o], v)
        BY <1>0, <2>3, <2>4, <3>3 DEF RegistryRows, CountsAll
      <4>2. registry'[p][i] = IF i = b THEN registry[o][i] + 1 ELSE registry[o][i]
        BY <1>0, <2>3, <2>4, <2>5, <3>3 DEF RegistryRows, CountsAll
      <4> QED
        BY <2>5, <3>1, <3>3, <4>1, <4>2
    <3> QED
      BY <3>2, <3>3
  <2>8. RegistryRows'
    BY <2>6, <2>7 DEF RegistryRows, CountsAll
  <2> QED
    BY <2>1, <2>2, <2>8, ServesOn DEF LifecycleInv
<1> QED
  BY <1>3, <1>4, <1>5, <1>6

\* The process ends, and its requests with it.
LEMMA ExitInv ==
    ASSUME LifecycleInv, NEW how \in Ends, Exit(how), UNCHANGED pool,
           how = "clean" => Quiet /\ pool # "open"
    PROVE  LifecycleInv'
<1>0. ProcessRows /\ RegistryRows /\ PhaseSound /\ Shaped
  BY DEF LifecycleInv
<1>1. /\ setting' = setting
      /\ pc' = [w \in setting.workers |-> "idle"]
      /\ loc' = [w \in setting.workers |-> Nothing]
  BY DEF Exit
<1>2. Shaped'
  BY <1>0, <1>1 DEF Shaped
<1>3. Quiet' /\ \A w \in setting'.workers : Serves(pc[w], loc[w])'
  BY <1>1 DEF Quiet, Serves
<1>4. RegistryRows'
  BY <1>0, RegistryStays DEF Exit
<1>5. cut' = ~Quiet
  BY DEF Exit
<1>6. cut' \in BOOLEAN
  BY <1>5, Zenon
<1>7. ProcessRows'
  BY <1>0, <1>6 DEF Exit, ProcessRows, Phases
<1>8. PhaseSound'
  BY <1>0, <1>3, <1>5 DEF Exit, PhaseSound, Ends
<1> QED
  BY <1>2, <1>3, <1>4, <1>7, <1>8 DEF LifecycleInv

LEMMA StoppingInv ==
    ASSUME LifecycleInv, Stopping
    PROVE  LifecycleInv'
<1>0. ProcessRows /\ RegistryRows /\ PhaseSound /\ Shaped
  BY DEF LifecycleInv
<1>1. CASE /\ phase = "running" /\ phase' = "draining" /\ listener' = "off"
           /\ UNCHANGED <<requests, config, down, pool, registry, seen, cut>>
  <2>1. /\ Shaped' /\ (Quiet' <=> Quiet)
        /\ \A w \in setting'.workers : Serves(pc[w], loc[w])'
    BY <1>1, WorkersStay
  <2>2. RegistryRows'
    BY <1>0, <1>1, RegistryStays
  <2>3. ProcessRows'
    BY <1>0, <1>1 DEF ProcessRows, Phases
  <2>4. PhaseSound'
    BY <1>0, <1>1, <2>1 DEF PhaseSound, Configured, ValidConfig, Ends
  <2> QED
    BY <2>1, <2>2, <2>3, <2>4 DEF LifecycleInv
<1>2. CASE Exit("killed") /\ UNCHANGED pool
  BY <1>2, ExitInv DEF Ends
<1>3. CASE ListenFailed \/ ShutdownTimeout
  BY <1>3, ExitInv DEF Ends, ListenFailed, ShutdownTimeout
<1>4. CASE Stop
  <2>1. Quiet /\ pool # "open"
    BY <1>0, <1>4 DEF Stop, PhaseSound
  <2> QED
    BY <1>4, <2>1, ExitInv DEF Ends, Stop
<1>5. CASE Drained
  <2>1. /\ Shaped' /\ (Quiet' <=> Quiet)
        /\ \A w \in setting'.workers : Serves(pc[w], loc[w])'
    BY <1>5, WorkersStay DEF Drained
  <2>2. RegistryRows'
    BY <1>0, <1>5, RegistryStays DEF Drained
  <2>3. ProcessRows'
    BY <1>0, <1>5 DEF ProcessRows, Phases, Drained
  <2>4. PhaseSound'
    BY <1>0, <1>5, <2>1 DEF PhaseSound, Drained, Ends
  <2> QED
    BY <2>1, <2>2, <2>3, <2>4 DEF LifecycleInv
<1> QED
  BY <1>1, <1>2, <1>3, <1>4, <1>5 DEF Stopping, Signal

LEMMA LifecycleNextInv == LifecycleInv /\ [LifecycleNext]_lifecycleVars => LifecycleInv'
<1> SUFFICES ASSUME LifecycleInv, [LifecycleNext]_lifecycleVars PROVE LifecycleInv'
  OBVIOUS
<1>0. ProcessRows /\ RegistryRows /\ PhaseSound
  BY DEF LifecycleInv
<1>1. ASSUME NEW d \in Dependencies, Dependency(d) PROVE LifecycleInv'
  <2>1. /\ Shaped' /\ (Quiet' <=> Quiet)
        /\ \A w \in setting'.workers : Serves(pc[w], loc[w])'
    BY <1>1, WorkersStay DEF Dependency
  <2>2. RegistryRows'
    BY <1>0, <1>1, RegistryStays DEF Dependency
  <2>3. ProcessRows'
    BY <1>0, <1>1 DEF ProcessRows, Dependency
  <2>4. PhaseSound'
    BY <1>0, <1>1, <2>1 DEF PhaseSound, Dependency, Configured, ValidConfig
  <2> QED
    BY <2>1, <2>2, <2>3, <2>4 DEF LifecycleInv
<1>2. CASE UNCHANGED lifecycleVars
  <2>1. /\ Shaped' /\ (Quiet' <=> Quiet)
        /\ \A w \in setting'.workers : Serves(pc[w], loc[w])'
    BY <1>2, WorkersStay DEF lifecycleVars
  <2>2. RegistryRows'
    BY <1>0, <1>2, RegistryStays DEF lifecycleVars, lifecycleTables
  <2>3. ProcessRows' /\ PhaseSound'
    BY <1>0, <1>2, <2>1
    DEF ProcessRows, lifecycleVars, lifecycleTables, PhaseSound, Configured, ValidConfig
  <2> QED
    BY <2>1, <2>2, <2>3 DEF LifecycleInv
<1> QED
  BY <1>1, <1>2, StartingInv, ServingInv, StoppingInv DEF LifecycleNext

LEMMA LifecycleAlways == LifecycleSpec => []LifecycleInv
BY LifecycleInitInv, LifecycleNextInv, PTL DEF LifecycleSpec

LEMMA LifecycleInvTypes == LifecycleInv => LifecycleTypeOK
BY DEF LifecycleInv, ProcessRows, RegistryRows, CountsAll, Serves, LifecycleTypeOK

\* Every variable of the process holds one of its values, and a request the
\* dependencies it has still to ask, for any bounds, latencies and dependencies.
THEOREM LifecycleTypes == LifecycleSpec => []LifecycleTypeOK
BY LifecycleAlways, LifecycleInvTypes, PTL

LEMMA ShutdownInv == LifecycleInv => ShutdownClean
<1> SUFFICES ASSUME LifecycleInv PROVE ShutdownClean
  OBVIOUS
<1>0. ProcessRows /\ RegistryRows /\ PhaseSound
  BY DEF LifecycleInv
<1>1. /\ pool = "closed" => Quiet
      /\ phase = "clean" => ~cut /\ pool # "open"
  BY <1>0 DEF PhaseSound, Ends
<1>2. ASSUME listener = "on" \/ ~Quiet
      PROVE  /\ ValidConfig(config)
             /\ pool = "open" <=> "postgres" \in config.configured
  <2>1. phase \in {"starting", "running", "draining"}
    BY <1>0, <1>2 DEF PhaseSound, ProcessRows, Phases
  <2> QED
    BY <1>0, <2>1 DEF PhaseSound, Configured
<1>3. ASSUME NEW o \in Outcomes, NEW i \in DOMAIN Bounds
      PROVE  Cumulative(registry[o])[i] = Cardinality(Within(o, Bounds[i]))
  <2>1. /\ seen[o] \in Seq(Latencies) /\ registry[o] \in [BucketIndices -> Nat]
        /\ \A j \in BucketIndices : registry[o][j] = Cardinality(FallInto(seen[o], j))
    BY <1>0 DEF RegistryRows, CountsAll
  <2> QED
    BY <2>1, CumulativeTrue DEF Within
<1> QED
  BY <1>1, <1>2, <1>3 DEF ShutdownClean

\* Run closes the pool after Shutdown, and returns early when the listener fails or
\* the five seconds are over (server.go:615-637): whatever comes when, the pool is
\* never closed under a request, a clean end has answered every request, nothing is
\* served under an invalid configuration, and the histogram of registry.go:87 shows
\* for every ascending list of bounds how many requests took no longer than each.
THEOREM ShutdownTheorem == LifecycleSpec => []ShutdownClean
BY LifecycleAlways, ShutdownInv, PTL

-------------------------------------------------------------------------------
(* The services together                                                   *)

\* The component that gets requests keeps its invariant.
ServiceInv ==
    /\ service = "accounts"      => RotationInv
    /\ service = "organizations" => OrganizationsInv
    /\ service = "live"          => LiveInv
    /\ service = "media"         => MediaInv
    /\ service = "limiter"       => LimiterInv
    /\ service = "pricing"       => PricingInv
    /\ service = "webhooks"      => WebhooksInv
    /\ service = "inbox"         => InboxInv
    /\ service = "access"        => AccessInv
    /\ service = "process"       => LifecycleInv

\* The orders of the others are as they were.
OthersUntouched ==
    /\ service # "pricing" => quote = Nothing
    /\ service # "webhooks" =>
         status = [o \in PaidOrders |-> "pending"] /\ due = [o \in PaidOrders |-> "pending"]

servicesVars == <<service, requests, accountTables, organizationTables, liveTables,
                  mediaTables, limiterTables, pricingTables, webhookTables,
                  webhookHistory, inboxTables, accessTables, held, had, lifecycleTables>>

LEMMA ServicesInitInv == ServicesInit => ServiceInv /\ OthersUntouched
<1> SUFFICES ASSUME ServicesInit PROVE ServiceInv /\ OthersUntouched
  OBVIOUS
<1>1. /\ RotationInv /\ OrganizationsInv /\ LiveInv /\ MediaInv /\ LimiterInv
      /\ PricingInv /\ WebhooksInv /\ InboxInv /\ AccessInv /\ LifecycleInv
  BY RotationInitInv, OrganizationsInitInv, LiveInitInv, MediaInitInv, LimiterInit,
     PricingInitInv, WebhooksInitInv, InboxInitInv, AccessInitInv, LifecycleInitInv
  DEF ServicesInit
<1>2. OthersUntouched
  BY DEF ServicesInit, PricingInit, WebhooksInit, OthersUntouched
<1> QED
  BY <1>1, <1>2 DEF ServiceInv

LEMMA ServicesNextInv ==
    ASSUME ServiceInv, OthersUntouched, [ServicesNext]_servicesVars
    PROVE  ServiceInv' /\ OthersUntouched'
<1>1. service' = service
  BY DEF ServicesNext, servicesVars
<1>2. ASSUME service = "accounts" PROVE RotationInv'
  <2>1. RotationInv /\ [AccountsNext]_accountVars
    BY <1>2 DEF ServiceInv, ServicesNext, servicesVars, accountVars
  <2> QED
    BY <2>1, RotationNext
<1>3. ASSUME service = "organizations" PROVE OrganizationsInv'
  <2>1. OrganizationsInv /\ [OrganizationsNext]_organizationVars
    BY <1>3 DEF ServiceInv, ServicesNext, servicesVars, organizationVars
  <2> QED
    BY <2>1, OrganizationsInvNext
<1>4. ASSUME service = "live" PROVE LiveInv'
  <2>1. LiveInv /\ [LiveSessionsNext]_liveVars
    BY <1>4 DEF ServiceInv, ServicesNext, servicesVars, liveVars
  <2> QED
    BY <2>1, LiveNextInv
<1>5. ASSUME service = "media" PROVE MediaInv'
  <2>1. MediaInv /\ [MediaNext]_mediaVars
    BY <1>5 DEF ServiceInv, ServicesNext, servicesVars, mediaVars
  <2> QED
    BY <2>1, MediaInvNext
<1>6. ASSUME service = "limiter" PROVE LimiterInv'
  <2>1. LimiterInv /\ [RateLimiterNext]_limiterVars
    BY <1>6 DEF ServiceInv, ServicesNext, servicesVars, limiterVars
  <2> QED
    BY <2>1, LimiterNext
<1>7. ASSUME service = "pricing" PROVE PricingInv'
  <2>1. PricingInv /\ [PricingNext]_pricingVars
    BY <1>7 DEF ServiceInv, ServicesNext, servicesVars, pricingVars
  <2> QED
    BY <2>1, PricingNextInv
<1>8. ASSUME service = "webhooks" PROVE WebhooksInv'
  <2>1. WebhooksInv /\ [WebhooksNext]_webhookVars
    BY <1>8 DEF ServiceInv, ServicesNext, servicesVars, webhookVars
  <2> QED
    BY <2>1, WebhooksNextInv
<1>9. ASSUME service = "inbox" PROVE InboxInv'
  <2>1. InboxInv /\ [InboxNext]_inboxVars
    BY <1>9 DEF ServiceInv, ServicesNext, servicesVars, inboxVars
  <2> QED
    BY <2>1, InboxNextInv
<1>10. ASSUME service = "access" PROVE AccessInv'
  <2>1. AccessInv /\ [AccessNext]_accessVars
    BY <1>10 DEF ServiceInv, ServicesNext, servicesVars, accessVars
  <2> QED
    BY <2>1, AccessNextInv
<1>11. ASSUME service = "process" PROVE LifecycleInv'
  <2>1. LifecycleInv /\ [LifecycleNext]_lifecycleVars
    BY <1>11 DEF ServiceInv, ServicesNext, servicesVars, lifecycleVars
  <2> QED
    BY <2>1, LifecycleNextInv
<1>12. ServiceInv'
  BY <1>1, <1>2, <1>3, <1>4, <1>5, <1>6, <1>7, <1>8, <1>9, <1>10, <1>11 DEF ServiceInv
<1>13. ASSUME service # "pricing" PROVE UNCHANGED pricingTables
  BY <1>13 DEF ServicesNext, servicesVars
<1>14. ASSUME service # "webhooks" PROVE UNCHANGED <<webhookTables, webhookHistory>>
  BY <1>14 DEF ServicesNext, servicesVars
<1>15. OthersUntouched'
  BY <1>1, <1>13, <1>14 DEF OthersUntouched, pricingTables, webhookTables, webhookHistory
<1> QED
  BY <1>12, <1>15

LEMMA ServicesAlways == ServicesSpec => [](ServiceInv /\ OthersUntouched)
BY ServicesInitInv, ServicesNextInv, PTL DEF ServicesSpec, servicesVars

\* Whichever component gets requests, however many at a time and whether they fail or
\* not, every row keeps its columns' types and every goroutine holds what its next
\* statement needs.
THEOREM ServicesTypes == ServicesSpec => []ServicesTypeOK
<1>1. /\ RotationInv => AccountsTypeOK
      /\ OrganizationsInv => OrganizationsTypeOK
      /\ MediaInv => MediaTypeOK
      /\ LimiterInv => RateLimiterTypeOK
  BY DEF RotationInv, OrganizationsInv, MediaInv, LimiterInv
<1>2. ServiceInv => ServicesTypeOK
  BY <1>1, LiveInvTypes, PricingInvTypes, WebhooksInvTypes, InboxInvTypes, AccessInvTypes,
     LifecycleInvTypes DEF ServiceInv, ServicesTypeOK
<1> QED
  BY <1>2, ServicesAlways, PTL

\* What an order costs adds up (payment.go:454), and what becomes of it is what its
\* providers have reported (payment.go:206), for any prices, coupons, orders and
\* reports.
THEOREM BillingTheorem == ServicesSpec => []BillingSound
<1>1. ASSUME ServiceInv, OthersUntouched PROVE AmountsAddUp
  BY <1>1 DEF ServiceInv, OthersUntouched, PricingInv, AmountsAddUp
<1>2. ASSUME ServiceInv, OthersUntouched PROVE ReportsApplied
  <2>1. CASE service = "webhooks"
    BY <1>2, <2>1, ReportsInv DEF ServiceInv
  <2>2. CASE service # "webhooks"
    BY <1>2, <2>2 DEF OthersUntouched, ReportsApplied
  <2> QED
    BY <2>1, <2>2
<1>3. ServiceInv /\ OthersUntouched => BillingSound
  BY <1>1, <1>2 DEF BillingSound
<1> QED
  BY <1>3, ServicesAlways, PTL
===============================================================================
