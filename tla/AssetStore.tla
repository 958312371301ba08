------------------------------ MODULE AssetStore ------------------------------
(***************************************************************************)
(* One Asset: its row in the Supabase table `assets` and its objects in    *)
(* the private bucket (src/langalpha/assets/store.py), under concurrent    *)
(* publications by Agent hosts, upload completions by the browser and      *)
(* deletions.                                                              *)
(*                                                                         *)
(* An object path is {owner}/{project}/{asset}/{sha256}/{filename}.  For   *)
(* one Asset everything but the checksum is fixed, so a content stands for *)
(* its checksum and for its path.  Each step is one call to Postgres or to *)
(* Storage; any call may raise.                                            *)
(***************************************************************************)
CONSTANTS Contents, NoContent,
          Publishers,   \* calls of publish_artifact that may overlap
          Persistent,   \* those of them the fairness is about
          Completers,   \* calls of complete_upload that may overlap
          Deleters      \* calls of delete_asset that may overlap

ASSUME NoContentAssumption == NoContent \notin Contents

ASSUME PersistentAssumption == Persistent \subseteq Publishers

VARIABLES
    role,      \* "input" (uploaded by the browser) or "artifact"; never changes
    asset,     \* the row: status, and the content its path and sha256 name
    stored,    \* stored[c]: the object at c's path
    publish,   \* publish[p]: the locals of publish_artifact
    complete,  \* complete[u]: the step of complete_upload
    delete,    \* delete[d]: the locals of delete_asset
    ticket,    \* create_upload: the signed upload URL
    doomed,    \* history: contents a deletion has ever set out to remove
    contested  \* history: contents a publication was about to remove while
               \* another publication ran

history == <<doomed, contested>>

uploads == <<ticket, complete>>

vars == <<role, asset, stored, publish, uploads, delete, history>>

MaybeContent == Contents \cup {NoContent}

Rows == [status : {"absent", "uploading", "ready", "failed", "deleted"},
         content : MaybeContent]

Objects == {"none", "intact", "damaged"}

(* content: the bytes to publish; fresh: `existing is None`; old:          *)
(* old_object_path.                                                        *)
Publications ==
    [step : {"idle", "inserting", "uploading", "marking", "failing", "removing"},
     content : MaybeContent, fresh : BOOLEAN, old : MaybeContent]

NoPublication ==
    [step |-> "idle", content |-> NoContent, fresh |-> FALSE, old |-> NoContent]

Deletions == [step : {"idle", "removing", "marking"}, content : MaybeContent]

NoDeletion == [step |-> "idle", content |-> NoContent]

Init ==
    /\ role \in {"input", "artifact"}
    /\ asset = [status |-> "absent", content |-> NoContent]
    /\ stored = [c \in Contents |-> "none"]
    /\ publish = [p \in Publishers |-> NoPublication]
    /\ complete = [u \in Completers |-> "idle"]
    /\ delete = [d \in Deleters |-> NoDeletion]
    /\ ticket = "none"
    /\ doomed = {}
    /\ contested = {}

SetStatus(status) == asset' = [asset EXCEPT !.status = status]

(* get_asset: `.neq("status", "deleted")`.                                 *)
Readable == asset.status \notin {"absent", "deleted"}

----------------------------------------------------------------------------
(* publish_artifact.                                                       *)

PublishGoTo(p, step) == publish' = [publish EXCEPT ![p].step = step]

PublishEnd(p) == publish' = [publish EXCEPT ![p] = NoPublication]

Removing == {q \in Publishers : publish[q].step = "removing"}

(* _by_logical_key finds the row whatever its status.  A ready row of the  *)
(* same content is returned at once.                                       *)
ReadExisting(p, c) ==
    /\ role = "artifact"
    /\ publish[p].step = "idle"
    /\ ~(asset.status = "ready" /\ asset.content = c)
    /\ publish' = [publish EXCEPT ![p] =
          [step |-> IF asset.status = "absent" THEN "inserting" ELSE "uploading",
           content |-> c,
           fresh |-> asset.status = "absent",
           old |-> IF asset.status = "ready" THEN asset.content ELSE NoContent]]
    /\ contested' = contested \cup {publish[q].old : q \in Removing}
    /\ UNCHANGED <<role, asset, stored, uploads, delete, doomed>>

(* The unique (project_id, logical_key) makes a second insert raise, and   *)
(* it is outside the `try`.                                                *)
InsertArtifact(p) ==
    /\ publish[p].step = "inserting"
    /\ IF asset.status = "absent"
       THEN /\ asset' = [status |-> "uploading", content |-> publish[p].content]
            /\ PublishGoTo(p, "uploading") \/ PublishEnd(p)
       ELSE /\ asset' = asset
            /\ PublishEnd(p)
    /\ UNCHANGED <<role, stored, uploads, delete, history>>

(* _upload_immutable never overwrites; an object already there is success. *)
UploadOnce(p) ==
    /\ publish[p].step = "uploading"
    /\ stored[publish[p].content] = "none"
    /\ stored' = [stored EXCEPT ![publish[p].content] = "intact"]
    /\ \/ PublishGoTo(p, "marking")
       \/ PublishGoTo(p, "failing")
    /\ UNCHANGED <<role, asset, uploads, delete, history>>

UploadImmutable(p) ==
    /\ publish[p].step = "uploading"
    /\ stored' = [stored EXCEPT ![publish[p].content] =
                     IF @ = "none" THEN "intact" ELSE @]
    /\ \/ PublishGoTo(p, "marking")
       \/ PublishGoTo(p, "failing")
    /\ UNCHANGED <<role, asset, uploads, delete, history>>

(* _update to "ready" with the new path and checksum: by id only.  A lost  *)
(* reply raises.                                                           *)
MarkReadyWithOld(p) ==
    /\ publish[p].step = "marking"
    /\ asset' = [status |-> "ready", content |-> publish[p].old]
    /\ PublishEnd(p)
    /\ UNCHANGED <<role, stored, uploads, delete, history>>

MarkReady(p) ==
    /\ publish[p].step = "marking"
    /\ asset' = [status |-> "ready", content |-> publish[p].content]
    /\ \/ /\ publish[p].old \in Contents \ {publish[p].content}
          /\ PublishGoTo(p, "removing")
          /\ contested' = IF \E q \in Publishers \ {p} : publish[q].step # "idle"
                          THEN contested \cup {publish[p].old} ELSE contested
       \/ /\ publish[p].old \in {publish[p].content, NoContent}
          /\ PublishEnd(p)
          /\ contested' = contested
       \/ /\ PublishGoTo(p, "failing")
          /\ contested' = contested
    /\ UNCHANGED <<role, stored, uploads, delete, doomed>>

(* The object the row named when it was read is removed, best effort.      *)
RemoveNew(p) ==
    /\ publish[p].step = "removing"
    /\ stored' = [stored EXCEPT ![publish[p].content] = "none"]
    /\ PublishEnd(p)
    /\ UNCHANGED <<role, asset, uploads, delete, history>>

RemoveOld(p) ==
    /\ publish[p].step = "removing"
    /\ stored' = [stored EXCEPT ![publish[p].old] = "none"]
    /\ PublishEnd(p)
    /\ UNCHANGED <<role, asset, uploads, delete, history>>

(* A call raises.  Inside the `try` the handler runs next; a failed        *)
(* removal is swallowed.                                                   *)
PublishRaise(p) ==
    /\ publish[p].step # "idle"
    /\ IF publish[p].step \in {"uploading", "marking"}
       THEN PublishGoTo(p, "failing")
       ELSE PublishEnd(p)
    /\ UNCHANGED <<role, asset, stored, uploads, delete, history>>

(* `except Exception`: only the publisher that inserted the row marks it.  *)
FailAnyRow(p) ==
    /\ publish[p].step = "failing"
    /\ SetStatus("failed")
    /\ PublishEnd(p)
    /\ UNCHANGED <<role, stored, uploads, delete, history>>

MarkFailed(p) ==
    /\ publish[p].step = "failing"
    /\ IF publish[p].fresh THEN SetStatus("failed") ELSE asset' = asset
    /\ PublishEnd(p)
    /\ UNCHANGED <<role, stored, uploads, delete, history>>

Publish(p) ==
    \/ \E c \in Contents : ReadExisting(p, c)
    \/ InsertArtifact(p) \/ UploadImmutable(p) \/ MarkReady(p) \/ RemoveOld(p)
    \/ PublishRaise(p) \/ MarkFailed(p)

----------------------------------------------------------------------------
(* create_upload, the browser's upload, and complete_upload.               *)

CreateUpload ==
    /\ role = "input"
    /\ asset.status = "absent"
    /\ \E c \in Contents : asset' = [status |-> "uploading", content |-> c]
    /\ ticket' = "pending"
    /\ UNCHANGED <<role, stored, publish, complete, delete, history>>

(* A failure to sign marks the row, when the database still answers.       *)
SignUpload ==
    /\ ticket = "pending"
    /\ \/ ticket' = "issued" /\ asset' = asset
       \/ ticket' = "refused" /\ (SetStatus("failed") \/ asset' = asset)
    /\ UNCHANGED <<role, stored, publish, complete, delete, history>>

(* The browser writes the object, through a signed URL that knows nothing  *)
(* of the row's status.  What arrives may not be what was announced.       *)
BrowserUpload ==
    /\ ticket = "issued"
    /\ stored[asset.content] = "none"
    /\ \E object \in {"intact", "damaged"} :
          stored' = [stored EXCEPT ![asset.content] = object]
    /\ UNCHANGED <<role, asset, publish, uploads, delete, history>>

CompleteGoTo(u, step) == complete' = [complete EXCEPT ![u] = step]

ReadUpload(u) ==
    /\ role = "input"
    /\ complete[u] = "idle"
    /\ asset.status = "uploading"
    /\ CompleteGoTo(u, "verifying")
    /\ UNCHANGED <<role, asset, stored, publish, ticket, delete, history>>

(* The object is downloaded and its checksum and size compared.            *)
VerifyUpload(u) ==
    /\ complete[u] = "verifying"
    /\ stored[asset.content] # "none"
    /\ CompleteGoTo(u, IF stored[asset.content] = "intact"
                       THEN "accepting" ELSE "rejecting")
    /\ UNCHANGED <<role, asset, stored, publish, ticket, delete, history>>

(* The verdict is written by id, whatever the row says by then.            *)
RecordVerdict(u) ==
    /\ complete[u] \in {"accepting", "rejecting"}
    /\ SetStatus(IF complete[u] = "accepting" THEN "ready" ELSE "failed")
    /\ CompleteGoTo(u, "idle")
    /\ UNCHANGED <<role, stored, publish, ticket, delete, history>>

CompleteRaise(u) ==
    /\ complete[u] # "idle"
    /\ CompleteGoTo(u, "idle")
    /\ UNCHANGED <<role, asset, stored, publish, ticket, delete, history>>

Complete(u) ==
    ReadUpload(u) \/ VerifyUpload(u) \/ RecordVerdict(u) \/ CompleteRaise(u)

----------------------------------------------------------------------------
(* delete_asset.                                                           *)

DeleteGoTo(d, step) == delete' = [delete EXCEPT ![d].step = step]

ReadForDelete(d) ==
    /\ delete[d].step = "idle"
    /\ Readable
    /\ delete' = [delete EXCEPT ![d] =
                     [step |-> "removing", content |-> asset.content]]
    /\ doomed' = doomed \cup {asset.content}
    /\ UNCHANGED <<role, asset, stored, publish, uploads, contested>>

RemoveObject(d) ==
    /\ delete[d].step = "removing"
    /\ stored' = [stored EXCEPT ![delete[d].content] = "none"]
    /\ DeleteGoTo(d, "marking")
    /\ UNCHANGED <<role, asset, publish, uploads, history>>

MarkDeleted(d) ==
    /\ delete[d].step = "marking"
    /\ SetStatus("deleted")
    /\ DeleteGoTo(d, "idle")
    /\ UNCHANGED <<role, stored, publish, uploads, history>>

DeleteRaise(d) ==
    /\ delete[d].step # "idle"
    /\ DeleteGoTo(d, "idle")
    /\ UNCHANGED <<role, asset, stored, publish, uploads, history>>

Delete(d) ==
    ReadForDelete(d) \/ RemoveObject(d) \/ MarkDeleted(d) \/ DeleteRaise(d)

----------------------------------------------------------------------------
Next ==
    \/ \E p \in Publishers : Publish(p)
    \/ CreateUpload \/ SignUpload \/ BrowserUpload
    \/ \E u \in Completers : Complete(u)
    \/ \E d \in Deleters : Delete(d)

(* Persistent publishers keep publishing, and a call that is made again    *)
(* and again is eventually answered.                                       *)
Fairness ==
    \A p \in Persistent :
        /\ WF_vars(\E c \in Contents : ReadExisting(p, c))
        /\ SF_vars(InsertArtifact(p))
        /\ SF_vars(UploadImmutable(p) /\ PublishGoTo(p, "marking"))
        /\ SF_vars(MarkReady(p))
        /\ WF_vars(RemoveOld(p) \/ MarkFailed(p))

Spec == Init /\ [][Next]_vars

FairSpec == Spec /\ Fairness

----------------------------------------------------------------------------
(* Properties.                                                             *)

TypeOK ==
    /\ role \in {"input", "artifact"}
    /\ asset \in Rows
    /\ asset.status # "absent" => asset.content \in Contents
    /\ stored \in [Contents -> Objects]
    /\ publish \in [Publishers -> Publications]
    /\ complete \in [Completers -> {"idle", "verifying", "accepting", "rejecting"}]
    /\ delete \in [Deleters -> Deletions]
    /\ ticket \in {"none", "pending", "issued", "refused"}
    /\ doomed \subseteq Contents
    /\ contested \subseteq Contents

(* A ready Asset can be read back: the object its row names is in Storage  *)
(* with the announced bytes.  Excepted are a content some deletion set out *)
(* to remove, and one that a publication was removing as superseded while  *)
(* another publication ran.  (publish_artifact uploads before it marks,    *)
(* complete_upload verifies before it marks, and only an object the row no *)
(* longer names is removed.)                                               *)
ReadyMeansStored ==
    asset.status = "ready"
        => \/ stored[asset.content] = "intact"
           \/ asset.content \in doomed \cup contested

(* A failed publication or verification never takes back an Asset that is  *)
(* ready, once the publication that inserted its row has ended: only that  *)
(* one may write "failed" (the handler at the end of publish_artifact).    *)
ReadyIsNotWithdrawn ==
    [][(asset.status = "ready" /\ asset.content \notin doomed
          /\ \A p \in Publishers : ~publish[p].fresh)
         => asset'.status # "failed"]_vars

(* Publishing can always be retried to success: no failure between upload  *)
(* and row update leaves objects or rows behind that make every later      *)
(* attempt fail (_upload_immutable, store.py:282-283).                     *)
PublishingSucceeds == role = "artifact" => []<>(asset.status = "ready")

(* The same promise without the exception for overlapping publications, as *)
(* restoring a sandbox needs it: _restore_project_assets downloads every   *)
(* ready Asset and gives up on the first it cannot read.                   *)
ReadyCanBeRestored ==
    asset.status = "ready"
        => stored[asset.content] = "intact" \/ asset.content \in doomed
=============================================================================
