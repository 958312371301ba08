--------------------------- MODULE AssetStoreProofs ---------------------------
(***************************************************************************)
(* What AssetStore guarantees for every number of contents, publications,  *)
(* completions and deletions.                                              *)
(***************************************************************************)
EXTENDS AssetStore, TLAPS

(* The object of c is there, unless c is one of the exceptions.            *)
Kept(c) == stored[c] = "intact" \/ c \in doomed \cup contested

(* Whoever is past its first step works on a row that exists.              *)
RowExists ==
    /\ \A p \in Publishers :
          /\ publish[p].step # "idle" => publish[p].content \in Contents
          /\ publish[p].step \notin {"idle", "inserting"} => asset.status # "absent"
          /\ publish[p].step = "removing" => publish[p].old \in Contents
    /\ \A u \in Completers : complete[u] # "idle" => asset.status # "absent"
    /\ \A d \in Deleters :
          delete[d].step # "idle" =>
              /\ asset.status # "absent"
              /\ delete[d].content \in Contents \cap doomed
    /\ ticket # "none" => asset.status # "absent"

(* An Asset is uploaded by the browser or published by hosts, never both.  *)
RolesApart ==
    /\ role = "artifact" =>
          /\ ticket = "none"
          /\ \A u \in Completers : complete[u] = "idle"
          /\ \A c \in Contents : stored[c] # "damaged"
    /\ role = "input" =>
          /\ \A p \in Publishers : publish[p].step = "idle"
          /\ contested = {}
          /\ ticket \in {"none", "pending"} => \A c \in Contents : stored[c] = "none"

(* A content about to be removed as superseded is not the row's, and is    *)
(* not wanted by a publication under way, unless it counts as contested.   *)
RemovalsOK ==
    /\ \A p, q \in Publishers :
          p # q /\ publish[p].step = "removing" /\ publish[q].step # "idle"
              => publish[p].old \in contested
    /\ \A p \in Publishers :
          publish[p].step = "removing"
              => asset.content # publish[p].old \/ publish[p].old \in contested

(* Only a content whose object is there is about to be marked ready, and   *)
(* only one whose object is damaged is about to be marked failed.          *)
VerdictsOK ==
    /\ \A p \in Publishers :
          publish[p].step = "marking" => Kept(publish[p].content)
    /\ \A u \in Completers :
          /\ complete[u] = "accepting" => Kept(asset.content)
          /\ complete[u] = "rejecting" =>
                stored[asset.content] = "damaged" \/ asset.content \in doomed

StoreInv ==
    /\ TypeOK
    /\ RowExists
    /\ RolesApart
    /\ RemovalsOK
    /\ VerdictsOK
    /\ ReadyMeansStored

USE NoContentAssumption

----------------------------------------------------------------------------
LEMMA InitStoreInv == Init => StoreInv
  BY DEF Init, StoreInv, TypeOK, RowExists, RolesApart, RemovalsOK, VerdictsOK,
         ReadyMeansStored, Rows, Objects, Publications, NoPublication,
         Deletions, NoDeletion, MaybeContent

(* The ways a step changes the locals of its publication keep them typed.  *)
LEMMA PublishGoToTyped ==
  ASSUME publish \in [Publishers -> Publications], NEW p \in Publishers,
         NEW step \in {"uploading", "marking", "failing", "removing"},
         PublishGoTo(p, step)
  PROVE  publish' \in [Publishers -> Publications]
  BY DEF PublishGoTo, Publications

LEMMA PublishEndTyped ==
  ASSUME publish \in [Publishers -> Publications], NEW p \in Publishers,
         PublishEnd(p)
  PROVE  publish' \in [Publishers -> Publications]
  BY DEF PublishEnd, NoPublication, Publications, MaybeContent

LEMMA TypePreserved ==
  ASSUME TypeOK, RowExists, [Next]_vars
  PROVE  TypeOK'
  <1> USE DEF TypeOK, Rows, Objects, MaybeContent
  <1>1. ASSUME NEW p \in Publishers, Publish(p)
        PROVE  TypeOK'
    <2> USE <1>1 DEF uploads, history
    <2>0. publish[p] \in Publications
      OBVIOUS
    <2>1. CASE \E c \in Contents : ReadExisting(p, c)
      <3>1. PICK c \in Contents : ReadExisting(p, c)
        BY <2>1
      <3> DEFINE old == IF asset.status = "ready" THEN asset.content ELSE NoContent
      <3>2. old \in MaybeContent
        OBVIOUS
      <3>3. publish' \in [Publishers -> Publications]
        BY <3>1, <3>2 DEF ReadExisting, Publications
      <3>4. contested' \subseteq Contents
        BY <3>1, <2>0 DEF ReadExisting, Removing, RowExists
      <3>5. UNCHANGED <<role, asset, stored, complete, delete, ticket, doomed>>
        BY <3>1 DEF ReadExisting
      <3>6. QED
        BY <3>3, <3>4, <3>5
    <2>2. CASE InsertArtifact(p)
      BY <2>0, <2>2, PublishGoToTyped, PublishEndTyped DEF InsertArtifact, RowExists
    <2>3. CASE UploadImmutable(p)
      BY <2>3, PublishGoToTyped DEF UploadImmutable
    <2>4. CASE MarkReady(p)
      <3>1. publish' \in [Publishers -> Publications]
        BY <2>4, PublishGoToTyped, PublishEndTyped DEF MarkReady
      <3>2. asset' \in Rows /\ asset'.content \in Contents
        BY <2>4 DEF MarkReady, RowExists
      <3>3. contested' \subseteq Contents
        BY <2>4 DEF MarkReady
      <3>4. UNCHANGED <<role, stored, complete, delete, ticket, doomed>>
        BY <2>4 DEF MarkReady
      <3>5. QED
        BY <3>1, <3>2, <3>3, <3>4
    <2>5. CASE RemoveOld(p)
      BY <2>5, PublishEndTyped DEF RemoveOld
    <2>6. CASE PublishRaise(p)
      BY <2>6, PublishGoToTyped, PublishEndTyped DEF PublishRaise
    <2>7. CASE MarkFailed(p)
      BY <2>7, PublishEndTyped DEF MarkFailed, SetStatus, RowExists
    <2>8. QED
      BY <2>1, <2>2, <2>3, <2>4, <2>5, <2>6, <2>7 DEF Publish
  <1>2. CASE CreateUpload \/ SignUpload
    BY <1>2 DEF CreateUpload, SignUpload, SetStatus, history, RowExists
  <1>3. CASE BrowserUpload
    BY <1>3 DEF BrowserUpload, uploads, history, RowExists
  <1>4. ASSUME NEW u \in Completers, Complete(u)
        PROVE  TypeOK'
    BY <1>4 DEF Complete, ReadUpload, VerifyUpload, RecordVerdict, CompleteRaise,
                CompleteGoTo, SetStatus, history, RowExists
  <1>5. ASSUME NEW d \in Deleters, Delete(d)
        PROVE  TypeOK'
    BY <1>5 DEF Delete, ReadForDelete, RemoveObject, MarkDeleted, DeleteRaise,
                DeleteGoTo, SetStatus, Readable, Deletions, uploads, history,
                RowExists
  <1>6. CASE UNCHANGED vars
    BY <1>6 DEF vars, uploads, history
  <1>7. QED
    BY <1>1, <1>2, <1>3, <1>4, <1>5, <1>6 DEF Next

----------------------------------------------------------------------------
LEMMA RowExistsPreserved ==
  ASSUME TypeOK, RowExists, [Next]_vars
  PROVE  RowExists'
  <1> USE DEF RowExists, TypeOK, Rows, MaybeContent
  <1>1. ASSUME NEW p \in Publishers, Publish(p)
        PROVE  RowExists'
    <2> USE <1>1 DEF uploads, history, PublishGoTo, PublishEnd, NoPublication,
                     Publications
    <2>0. publish[p] \in Publications
      OBVIOUS
    <2>1. CASE \E c \in Contents : ReadExisting(p, c)
      BY <2>1 DEF ReadExisting
    <2>2. CASE InsertArtifact(p)
      BY <2>2 DEF InsertArtifact
    <2>3. CASE UploadImmutable(p)
      BY <2>3 DEF UploadImmutable
    <2>4. CASE MarkReady(p)
      BY <2>0, <2>4 DEF MarkReady, Publications, MaybeContent
    <2>5. CASE RemoveOld(p)
      BY <2>5 DEF RemoveOld
    <2>6. CASE PublishRaise(p)
      BY <2>6 DEF PublishRaise
    <2>7. CASE MarkFailed(p)
      BY <2>7 DEF MarkFailed, SetStatus
    <2>8. QED
      BY <2>1, <2>2, <2>3, <2>4, <2>5, <2>6, <2>7 DEF Publish
  <1>2. CASE CreateUpload \/ SignUpload \/ BrowserUpload
    BY <1>2 DEF CreateUpload, SignUpload, BrowserUpload, SetStatus, uploads, history
  <1>3. ASSUME NEW u \in Completers, Complete(u)
        PROVE  RowExists'
    BY <1>3 DEF Complete, ReadUpload, VerifyUpload, RecordVerdict, CompleteRaise,
                CompleteGoTo, SetStatus, history
  <1>4. ASSUME NEW d \in Deleters, Delete(d)
        PROVE  RowExists'
    BY <1>4 DEF Delete, ReadForDelete, RemoveObject, MarkDeleted, DeleteRaise,
                DeleteGoTo, SetStatus, Readable, uploads, history, Deletions
  <1>5. CASE UNCHANGED vars
    BY <1>5 DEF vars, uploads, history
  <1>6. QED
    BY <1>1, <1>2, <1>3, <1>4, <1>5 DEF Next

LEMMA RolesApartPreserved ==
  ASSUME TypeOK, RowExists, RolesApart, [Next]_vars
  PROVE  RolesApart'
  <1> USE DEF RolesApart, TypeOK
  <1>1. ASSUME NEW p \in Publishers, Publish(p)
        PROVE  RolesApart'
    <2>1. role = "artifact" /\ role' = role
      BY <1>1 DEF Publish, ReadExisting, InsertArtifact, UploadImmutable, MarkReady,
                  RemoveOld, PublishRaise, MarkFailed
    <2>2. UNCHANGED uploads
      BY <1>1 DEF Publish, ReadExisting, InsertArtifact, UploadImmutable, MarkReady,
                  RemoveOld, PublishRaise, MarkFailed
    <2>3. \A c \in Contents : stored'[c] # "damaged"
      BY <1>1, <2>1
         DEF Publish, ReadExisting, InsertArtifact, UploadImmutable, MarkReady,
             RemoveOld, PublishRaise, MarkFailed, history
    <2>4. QED
      BY <2>1, <2>2, <2>3 DEF uploads
  <1>2. CASE CreateUpload \/ SignUpload \/ BrowserUpload
    BY <1>2 DEF CreateUpload, SignUpload, BrowserUpload, uploads, history, RowExists
  <1>3. ASSUME NEW u \in Completers, Complete(u)
        PROVE  RolesApart'
    BY <1>3 DEF Complete, ReadUpload, VerifyUpload, RecordVerdict, CompleteRaise,
                CompleteGoTo, history
  <1>4. ASSUME NEW d \in Deleters, Delete(d)
        PROVE  RolesApart'
    BY <1>4 DEF Delete, ReadForDelete, RemoveObject, MarkDeleted, DeleteRaise,
                uploads, history
  <1>5. CASE UNCHANGED vars
    BY <1>5 DEF vars, uploads, history
  <1>6. QED
    BY <1>1, <1>2, <1>3, <1>4, <1>5 DEF Next

LEMMA RemovalsPreserved ==
  ASSUME TypeOK, RowExists, RolesApart, RemovalsOK, [Next]_vars
  PROVE  RemovalsOK'
  <1> USE DEF RemovalsOK, TypeOK, Rows, MaybeContent
  <1>1. ASSUME NEW p \in Publishers, Publish(p)
        PROVE  RemovalsOK'
    <2> USE <1>1 DEF uploads, history, PublishGoTo, PublishEnd, NoPublication,
                     Publications
    <2>0. publish[p] \in Publications
      OBVIOUS
    <2>1. CASE \E c \in Contents : ReadExisting(p, c)
      BY <2>1 DEF ReadExisting, Removing
    <2>2. CASE InsertArtifact(p)
      BY <2>2 DEF InsertArtifact, RowExists
    <2>3. CASE UploadImmutable(p)
      BY <2>3 DEF UploadImmutable
    <2>4. CASE MarkReady(p)
      BY <2>0, <2>4 DEF MarkReady, Publications
    <2>5. CASE RemoveOld(p)
      BY <2>5 DEF RemoveOld
    <2>6. CASE PublishRaise(p)
      BY <2>6 DEF PublishRaise
    <2>7. CASE MarkFailed(p)
      BY <2>7 DEF MarkFailed, SetStatus, Rows
    <2>8. QED
      BY <2>1, <2>2, <2>3, <2>4, <2>5, <2>6, <2>7 DEF Publish
  <1>2. CASE CreateUpload \/ SignUpload \/ BrowserUpload
    BY <1>2 DEF CreateUpload, SignUpload, BrowserUpload, uploads, history, SetStatus,
                Rows, RolesApart
  <1>3. ASSUME NEW u \in Completers, Complete(u)
        PROVE  RemovalsOK'
    BY <1>3 DEF Complete, ReadUpload, VerifyUpload, RecordVerdict, CompleteRaise,
                CompleteGoTo, SetStatus, Rows, history
  <1>4. ASSUME NEW d \in Deleters, Delete(d)
        PROVE  RemovalsOK'
    BY <1>4 DEF Delete, ReadForDelete, RemoveObject, MarkDeleted, DeleteRaise,
                SetStatus, Rows, uploads, history
  <1>5. CASE UNCHANGED vars
    BY <1>5 DEF vars, uploads, history
  <1>6. QED
    BY <1>1, <1>2, <1>3, <1>4, <1>5 DEF Next

----------------------------------------------------------------------------
(* An object disappears only when its content is one of the exceptions, or *)
(* a publication removes it as superseded.                                 *)
LEMMA KeptStaysKept ==
  ASSUME TypeOK, RowExists, [Next]_vars, NEW c \in Contents, Kept(c),
         \A p \in Publishers :
             publish[p].step = "removing" /\ publish[p].old = c => c \in contested
  PROVE  Kept(c)'
  <1> USE DEF Kept, TypeOK
  <1>1. doomed \subseteq doomed' /\ contested \subseteq contested'
    BY DEF Next, vars, uploads, history, Publish, ReadExisting, InsertArtifact,
           UploadImmutable, MarkReady, RemoveOld, PublishRaise, MarkFailed,
           CreateUpload, SignUpload, BrowserUpload, Complete, ReadUpload,
           VerifyUpload, RecordVerdict, CompleteRaise, Delete, ReadForDelete,
           RemoveObject, MarkDeleted, DeleteRaise
  <1>2. CASE stored'[c] = stored[c]
    BY <1>1, <1>2
  <1>3. ASSUME NEW p \in Publishers, UploadImmutable(p) \/ RemoveOld(p)
        PROVE  Kept(c)'
    BY <1>1, <1>3 DEF UploadImmutable, RemoveOld, Objects
  <1>4. CASE BrowserUpload
    BY <1>1, <1>4 DEF BrowserUpload
  <1>5. ASSUME NEW d \in Deleters, RemoveObject(d)
        PROVE  Kept(c)'
    BY <1>1, <1>5 DEF RemoveObject, RowExists
  <1>6. QED
    BY <1>2, <1>3, <1>4, <1>5
       DEF Next, vars, uploads, history, Publish, ReadExisting, InsertArtifact,
           MarkReady, PublishRaise, MarkFailed, CreateUpload, SignUpload,
           Complete, ReadUpload, VerifyUpload, RecordVerdict, CompleteRaise,
           Delete, ReadForDelete, MarkDeleted, DeleteRaise

(* A publication goes on to "marking" only from the upload of its content. *)
LEMMA MarkingHasUploaded ==
  ASSUME TypeOK, RowExists, RolesApart, [Next]_vars, NEW p \in Publishers,
         publish'[p].step = "marking", publish'[p] # publish[p]
  PROVE  /\ publish'[p].content = publish[p].content
         /\ stored'[publish[p].content] = "intact"
  <1>1. PICK q \in Publishers : Publish(q)
    BY DEF Next, vars, uploads, CreateUpload, SignUpload, BrowserUpload, Complete,
           ReadUpload, VerifyUpload, RecordVerdict, CompleteRaise, Delete,
           ReadForDelete, RemoveObject, MarkDeleted, DeleteRaise
  <1>2. q = p
    BY <1>1 DEF TypeOK, Publish, ReadExisting, InsertArtifact, UploadImmutable,
                MarkReady, RemoveOld, PublishRaise, MarkFailed, PublishGoTo,
                PublishEnd
  <1>3. UploadImmutable(p)
    BY <1>1, <1>2
       DEF TypeOK, Publications, Publish, ReadExisting, InsertArtifact, MarkReady,
           RemoveOld, PublishRaise, MarkFailed, PublishGoTo, PublishEnd,
           NoPublication
  <1>4. publish'[p].content = publish[p].content /\ publish[p].content \in Contents
    BY <1>3 DEF TypeOK, Publications, UploadImmutable, PublishGoTo, RowExists
  <1>5. role = "artifact"
    BY <1>3 DEF RolesApart, UploadImmutable, TypeOK
  <1>6. stored'[publish[p].content] = "intact"
    BY <1>3, <1>4, <1>5 DEF UploadImmutable, RolesApart, TypeOK, Objects
  <1>7. QED
    BY <1>4, <1>6

(* The row changes its content only when it is inserted or marked ready.   *)
LEMMA RowMoves ==
  ASSUME TypeOK, RowExists, [Next]_vars
  PROVE  \/ asset'.content = asset.content /\ (asset'.status = "ready" => asset.status = "ready")
         \/ asset'.status = "uploading" /\ asset.status = "absent"
         \/ \E p \in Publishers :
               /\ publish[p].step = "marking"
               /\ asset' = [status |-> "ready", content |-> publish[p].content]
         \/ \E u \in Completers :
               /\ complete[u] = "accepting" /\ asset'.content = asset.content
  BY DEF TypeOK, RowExists, Rows, SetStatus, Next, vars, uploads, history, Publish,
         ReadExisting, InsertArtifact, UploadImmutable, MarkReady, RemoveOld,
         PublishRaise, MarkFailed, CreateUpload, SignUpload, BrowserUpload, Complete,
         ReadUpload, VerifyUpload, RecordVerdict, CompleteRaise, Delete,
         ReadForDelete, RemoveObject, MarkDeleted, DeleteRaise

(* The content of a publication about to be marked stays kept.             *)
LEMMA MarkedStaysKept ==
  ASSUME StoreInv, [Next]_vars, NEW p \in Publishers, publish[p].step = "marking"
  PROVE  Kept(publish[p].content) /\ publish[p].content \in Contents
         /\ \A c \in Contents : c = publish[p].content => Kept(c)'
  <1>1. Kept(publish[p].content) /\ publish[p].content \in Contents
    BY DEF StoreInv, VerdictsOK, RowExists
  <1>2. ASSUME NEW q \in Publishers, publish[q].step = "removing",
               publish[q].old = publish[p].content
        PROVE  publish[p].content \in contested
    BY <1>2 DEF StoreInv, RemovalsOK
  <1>3. QED
    BY <1>1, <1>2, KeptStaysKept DEF StoreInv

(* The content of a row that is ready, or being verified, stays kept.      *)
LEMMA RowStaysKept ==
  ASSUME StoreInv, [Next]_vars, asset.status # "absent", Kept(asset.content)
  PROVE  \A c \in Contents : c = asset.content => Kept(c)'
  <1>1. asset.content \in Contents
    BY DEF StoreInv, TypeOK
  <1>2. ASSUME NEW q \in Publishers, publish[q].step = "removing",
               publish[q].old = asset.content
        PROVE  asset.content \in contested
    BY <1>2 DEF StoreInv, RemovalsOK
  <1>3. QED
    BY <1>1, <1>2, KeptStaysKept DEF StoreInv

(* While an upload is being completed, its row keeps its content.          *)
LEMMA CompletionHasContent ==
  ASSUME StoreInv, [Next]_vars, NEW u \in Completers, complete[u] # "idle"
  PROVE  /\ role = "input" /\ asset.status # "absent"
         /\ asset'.content = asset.content /\ asset.content \in Contents
  <1>1. role = "input" /\ asset.status # "absent" /\ asset.content \in Contents
    BY DEF StoreInv, RolesApart, RowExists, TypeOK
  <1>2. \A p \in Publishers : publish[p].step = "idle"
    BY <1>1 DEF StoreInv, RolesApart
  <1>3. QED
    BY <1>1, <1>2, RowMoves DEF StoreInv

LEMMA VerdictsPreserved ==
  ASSUME StoreInv, [Next]_vars
  PROVE  VerdictsOK'
  <1>0. TypeOK /\ RowExists /\ RolesApart /\ VerdictsOK
    BY DEF StoreInv
  <1>1. ASSUME NEW p \in Publishers, publish'[p].step = "marking"
        PROVE  Kept(publish[p].content)'
    <2>1. CASE publish'[p] = publish[p]
      BY <1>1, <2>1, MarkedStaysKept DEF Kept
    <2>2. CASE publish'[p] # publish[p]
      BY <1>0, <1>1, <2>2, MarkingHasUploaded DEF Kept
    <2>3. QED
      BY <2>1, <2>2
  <1>2. ASSUME NEW u \in Completers, complete'[u] # complete[u]
        PROVE  /\ complete'[u] = "accepting" => Kept(asset.content)'
               /\ complete'[u] = "rejecting" =>
                     stored'[asset'.content] = "damaged" \/ asset'.content \in doomed'
    <2>1. PICK v \in Completers : Complete(v)
      BY <1>2 DEF Next, vars, uploads, Publish, ReadExisting, InsertArtifact,
                  UploadImmutable, MarkReady, RemoveOld, PublishRaise, MarkFailed,
                  CreateUpload, SignUpload, BrowserUpload, Delete, ReadForDelete,
                  RemoveObject, MarkDeleted, DeleteRaise
    <2>2. v = u
      BY <1>0, <1>2, <2>1
         DEF TypeOK, Complete, ReadUpload, VerifyUpload, RecordVerdict,
             CompleteRaise, CompleteGoTo
    <2>3. CASE VerifyUpload(u)
      <3>1. asset.content \in Contents
        BY <1>0, <2>3 DEF VerifyUpload, RowExists, TypeOK
      <3>2. QED
        BY <1>0, <2>3, <3>1
           DEF VerifyUpload, CompleteGoTo, TypeOK, Objects, Kept, history
    <2>4. CASE ~VerifyUpload(u)
      BY <1>0, <1>2, <2>1, <2>2, <2>4
         DEF TypeOK, Complete, ReadUpload, RecordVerdict, CompleteRaise, CompleteGoTo
    <2>5. QED
      BY <2>3, <2>4
  <1>3. ASSUME NEW u \in Completers, complete'[u] = complete[u]
        PROVE  /\ complete'[u] = "accepting" => Kept(asset.content)'
               /\ complete'[u] = "rejecting" =>
                     stored'[asset'.content] = "damaged" \/ asset'.content \in doomed'
    <2>1. ASSUME complete[u] = "accepting"
          PROVE  Kept(asset.content)'
      BY <1>0, <2>1, CompletionHasContent, RowStaysKept DEF VerdictsOK, Kept
    <2>2. ASSUME complete[u] = "rejecting"
          PROVE  stored'[asset'.content] = "damaged" \/ asset'.content \in doomed'
      <3>1. /\ role = "input" /\ asset'.content = asset.content
            /\ asset.content \in Contents
        BY <2>2, CompletionHasContent
      <3>2. \A p \in Publishers : publish[p].step = "idle"
        BY <1>0, <3>1 DEF RolesApart
      <3>3. stored[asset.content] = "damaged" \/ asset.content \in doomed
        BY <1>0, <2>2 DEF VerdictsOK
      <3>4. \/ stored'[asset.content] = stored[asset.content]
            \/ stored[asset.content] = "none" \/ asset.content \in doomed
        BY <1>0, <3>1, <3>2
           DEF TypeOK, RowExists, Next, vars, uploads, history, Publish,
               ReadExisting, InsertArtifact, UploadImmutable, MarkReady, RemoveOld,
               PublishRaise, MarkFailed, CreateUpload, SignUpload, BrowserUpload,
               Complete, ReadUpload, VerifyUpload, RecordVerdict, CompleteRaise,
               Delete, ReadForDelete, RemoveObject, MarkDeleted, DeleteRaise
      <3>5. doomed \subseteq doomed'
        BY DEF Next, vars, uploads, history, Publish, ReadExisting, InsertArtifact,
               UploadImmutable, MarkReady, RemoveOld, PublishRaise, MarkFailed,
               CreateUpload, SignUpload, BrowserUpload, Complete, ReadUpload,
               VerifyUpload, RecordVerdict, CompleteRaise, Delete, ReadForDelete,
               RemoveObject, MarkDeleted, DeleteRaise
      <3>6. QED
        BY <3>1, <3>3, <3>4, <3>5
    <2>3. QED
      BY <1>3, <2>1, <2>2
  <1>4. QED
    BY <1>1, <1>2, <1>3 DEF VerdictsOK

LEMMA ReadyPreserved ==
  ASSUME StoreInv, [Next]_vars
  PROVE  ReadyMeansStored'
  <1> SUFFICES ASSUME asset'.status = "ready"
               PROVE  Kept(asset.content)'
    BY DEF ReadyMeansStored, Kept
  <1>1. CASE asset'.content = asset.content /\ asset.status = "ready"
    <2>1. Kept(asset.content) /\ asset.content \in Contents
      BY <1>1 DEF StoreInv, ReadyMeansStored, Kept, TypeOK
    <2>2. QED
      BY <1>1, <2>1, RowStaysKept DEF Kept
  <1>2. ASSUME NEW p \in Publishers, publish[p].step = "marking",
               asset'.content = publish[p].content
        PROVE  Kept(asset.content)'
    BY <1>2, MarkedStaysKept DEF Kept
  <1>3. ASSUME NEW u \in Completers, complete[u] = "accepting"
        PROVE  Kept(asset.content)'
    BY <1>3, CompletionHasContent, RowStaysKept DEF StoreInv, VerdictsOK, Kept
  <1>4. QED
    BY <1>1, <1>2, <1>3, RowMoves DEF StoreInv

----------------------------------------------------------------------------
(* The invariant is inductive.                                             *)
LEMMA StorePreserved == StoreInv /\ [Next]_vars => StoreInv'
  BY TypePreserved, RowExistsPreserved, RolesApartPreserved, RemovalsPreserved,
     VerdictsPreserved, ReadyPreserved DEF StoreInv

LEMMA SpecStoreInv == Spec => []StoreInv
  BY InitStoreInv, StorePreserved, PTL DEF Spec

(* Types, for every number of contents, publications, completions and      *)
(* deletions (the handlers of assets/store.py only use what they hold).    *)
THEOREM TypeCorrect == Spec => []TypeOK
  BY SpecStoreInv, PTL DEF StoreInv

(* A ready Asset can be read back, except for contents that a deletion or  *)
(* an overlapping publication removes (publish_artifact uploads before it  *)
(* marks, complete_upload verifies before it marks).                       *)
THEOREM ReadyIsStored == Spec => []ReadyMeansStored
  <1>1. StoreInv => ReadyMeansStored
    BY DEF StoreInv
  <1>2. QED
    BY <1>1, SpecStoreInv, PTL

(* No failure takes back a ready Asset once the publication that inserted  *)
(* its row has ended: a verdict against an upload is only ever written     *)
(* over an object that is damaged (complete_upload), and publish_artifact  *)
(* marks only rows of its own.                                             *)
THEOREM ReadyStays == Spec => ReadyIsNotWithdrawn
  <1>1. ASSUME StoreInv, [Next]_vars, asset.status = "ready",
               asset.content \notin doomed, \A p \in Publishers : ~publish[p].fresh
        PROVE  asset'.status # "failed"
    <2>1. role = "input" => stored[asset.content] = "intact"
      BY <1>1 DEF StoreInv, RolesApart, ReadyMeansStored
    <2>2. asset.content \in Contents
      BY <1>1 DEF StoreInv, TypeOK
    <2>3. ASSUME NEW u \in Completers, RecordVerdict(u)
          PROVE  asset'.status # "failed"
      <3>1. role = "input"
        BY <1>1, <2>3 DEF StoreInv, RolesApart, RecordVerdict, TypeOK
      <3>2. complete[u] = "accepting"
        BY <1>1, <2>1, <2>3, <3>1 DEF StoreInv, VerdictsOK, RecordVerdict
      <3>3. QED
        BY <1>1, <2>3, <3>2 DEF RecordVerdict, SetStatus, StoreInv, TypeOK, Rows
    <2>4. ~SignUpload
      BY <1>1, <2>1, <2>2 DEF SignUpload, StoreInv, RolesApart, TypeOK
    <2>5. ASSUME NEW p \in Publishers, Publish(p)
          PROVE  asset'.status # "failed"
      BY <1>1, <2>5
         DEF Publish, ReadExisting, InsertArtifact, UploadImmutable, MarkReady,
             RemoveOld, PublishRaise, MarkFailed
    <2>6. ASSUME NEW d \in Deleters, Delete(d)
          PROVE  asset'.status # "failed"
      BY <1>1, <2>6
         DEF Delete, ReadForDelete, RemoveObject, MarkDeleted, DeleteRaise, SetStatus,
             StoreInv, TypeOK, Rows
    <2>7. QED
      BY <1>1, <2>3, <2>4, <2>5, <2>6
         DEF Next, vars, CreateUpload, BrowserUpload, Complete, ReadUpload,
             VerifyUpload, CompleteRaise
  <1>2. QED
    BY <1>1, SpecStoreInv, PTL DEF Spec, ReadyIsNotWithdrawn
=============================================================================
