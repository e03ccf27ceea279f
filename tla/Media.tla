--------------------------------- MODULE Media ---------------------------------
(***************************************************************************)
(* One uploaded file: MediaService (internal/service/media.go) over the    *)
(* media_assets row and the object in the store, which the client writes   *)
(* itself through a presigned URL.                                         *)
(*                                                                         *)
(* media.Update writes every column from the copy a request read, and only *)
(* of a row that is not deleted.  The store and the row change apart, and  *)
(* errors of store.Delete are ignored.  Types, purposes and dimensions     *)
(* decide nothing later; the owner and an admin do the same here.          *)
(***************************************************************************)
EXTENDS Requests

CONSTANT ScanResults  \* what the scanner hook may answer at completion

ASSUME MediaAssumption == ScanResults \subseteq {"pending", "clean", "infected", "skipped"}

VARIABLES
    asset,  \* the media_assets row: status and scan_status
    object  \* what the store has under storage_key

mediaTables == <<asset, object>>
mediaVars == <<requests, mediaTables>>

MediaStatus == {"none", "pending", "uploaded", "ready", "rejected", "deleted"}
MediaScan   == {"pending", "clean", "infected", "skipped"}

\* deleted_at is set together with the status "deleted".
MediaAsset == [status : MediaStatus, scan : MediaScan]

MediaInit ==
    /\ RequestsInit
    /\ asset = [status |-> "none", scan |-> "pending"]
    /\ object = "absent"

\* media.GetByID: WHERE deleted_at IS NULL
Present == asset.status \notin {"none", "deleted"}

\* Complete and the scan: the status that goes with a scan result.
Scanned(result) ==
    CASE result = "infected"            -> "rejected"
      [] result \in {"clean", "skipped"} -> "ready"
      [] OTHER                          -> "uploaded"

-------------------------------------------------------------------------------
(* CreateUpload, and the client's PUT                                      *)

\* media.Create; presigning the URL changes nothing.
CreateUpload(w) ==
    /\ AtOnce(w)
    /\ asset.status = "none"
    /\ asset' = [status |-> "pending", scan |-> "pending"]
    /\ UNCHANGED object

\* The URL stays good for a while, whatever happens to the row.
PutObject ==
    /\ asset.status # "none"
    /\ object' \in {"fits", "oversize"}
    /\ UNCHANGED <<requests, asset>>

-------------------------------------------------------------------------------
(* Complete                                                                *)

\* requireOwner's GetByID: the status allows completion.
BeginComplete(w) ==
    /\ Idle(w)
    /\ asset.status \in {"pending", "uploaded"}
    /\ Hold(w, "media.head", asset)
    /\ UNCHANGED mediaTables

\* store.Head, then the size limit or the scanner
HeadObject(w) ==
    /\ At(w, "media.head")
    /\ \/ object = "absent" /\ Finish(w)
       \/ object = "oversize" /\ Hold(w, "media.purge", [loc[w] EXCEPT !.status = "rejected"])
       \/ /\ object = "fits"
          /\ \E result \in ScanResults :
                Hold(w, "media.update", [status |-> Scanned(result), scan |-> result])
    /\ UNCHANGED mediaTables

\* store.Delete of an object that is refused; an error does not stop the request.
PurgeObject(w) ==
    /\ At(w, "media.purge")
    /\ object' = "absent" \/ (setting.failures /\ UNCHANGED object)
    /\ Goto(w, "media.update")
    /\ UNCHANGED asset

\* As if the UPDATE had no WHERE deleted_at IS NULL.
WriteAssetBlindly(w) ==
    /\ At(w, "media.update")
    /\ asset' = loc[w]
    /\ Finish(w)
    /\ UNCHANGED object

\* media.Update: WHERE deleted_at IS NULL
WriteAsset(w) ==
    /\ At(w, "media.update")
    /\ asset' = IF Present THEN loc[w] ELSE asset
    /\ Finish(w)
    /\ UNCHANGED object

-------------------------------------------------------------------------------
(* ApplyScanResult and Delete                                              *)

\* As if GetByID also found assets that are deleted.
BeginApplyScanOfAny(w, result) ==
    /\ Idle(w)
    /\ Hold(w, "media.update",
            [status |-> IF asset.status \in {"uploaded", "pending"}
                        THEN Scanned(result) ELSE asset.status,
             scan |-> result])
    /\ UNCHANGED mediaTables

\* ApplyScanResult, by an admin or the scanner's webhook
BeginApplyScan(w, result) ==
    LET accept == /\ result \in {"clean", "skipped"}
                  /\ asset.status \in {"uploaded", "pending"}
        status == IF result = "infected" THEN "rejected"
                  ELSE IF accept THEN "ready" ELSE asset.status
    IN
    /\ Idle(w)
    /\ Present
    /\ Hold(w, IF result = "infected" THEN "media.purge" ELSE "media.update",
            [status |-> status, scan |-> result])
    /\ UNCHANGED mediaTables

BeginDeleteAsset(w) ==
    /\ Idle(w)
    /\ Present
    /\ Hold(w, "media.drop", asset)
    /\ UNCHANGED mediaTables

\* store.Delete in Delete
DropObject(w) ==
    /\ At(w, "media.drop")
    /\ object' = "absent" \/ (setting.failures /\ UNCHANGED object)
    /\ Goto(w, "media.forget")
    /\ UNCHANGED asset

\* media.SoftDelete
SoftDeleteAsset(w) ==
    /\ At(w, "media.forget")
    /\ asset' = [asset EXCEPT !.status = "deleted"]
    /\ Finish(w)
    /\ UNCHANGED object

AbortMedia(w) == Abort(w) /\ UNCHANGED mediaTables

-------------------------------------------------------------------------------
MediaStep(w) ==
    \/ CreateUpload(w) \/ BeginComplete(w) \/ HeadObject(w) \/ PurgeObject(w)
    \/ WriteAsset(w)
    \/ \E result \in MediaScan : BeginApplyScan(w, result)
    \/ BeginDeleteAsset(w) \/ DropObject(w) \/ SoftDeleteAsset(w)
    \/ AbortMedia(w)

MediaNext ==
    \/ \E w \in setting.workers : MediaStep(w)
    \/ PutObject

MediaSpec == MediaInit /\ [][MediaNext]_mediaVars

-------------------------------------------------------------------------------
(* Properties                                                              *)

MediaLabels == {"media.head", "media.purge", "media.update", "media.drop", "media.forget"}

\* The rows have their columns' types, and a worker under way holds the two
\* columns it read or will write, of a row that was there.
MediaTypeOK ==
    /\ asset \in MediaAsset
    /\ object \in {"absent", "fits", "oversize"}
    /\ \A w \in setting.workers :
        \/ pc[w] = "idle" /\ loc[w] = Nothing
        \/ /\ pc[w] \in MediaLabels
           /\ loc[w] \in [status : MediaStatus \ {"none", "deleted"}, scan : MediaScan]

\* A completion and a scan result race (media.go:174, :232), each writing the
\* whole row from its copy: whatever interleaves or fails, no asset whose scan
\* found it infected is pending, uploaded or ready.  (A part of EndedStays.)
InfectedRejected ==
    asset.scan = "infected" => asset.status \in {"rejected", "deleted"}

\* Delete races with a completion or a scan that read the row before it
\* (media.go:204): whatever interleaves or fails, a deleted asset never comes back.
\* One request at a time, nor is a rejected one ever accepted; two at a time, a
\* completion that read it pending makes it ready.  What a scan found infected is
\* neither pending, uploaded nor ready after any step.
EndedStays ==
    [][/\ asset.status = "deleted" => asset'.status = "deleted"
       /\ Alone /\ asset.status = "rejected"
            => asset'.status \in {"rejected", "deleted"}
       /\ InfectedRejected']_mediaVars
===============================================================================
