---------------------- MODULE PolicyPublicationProofs ----------------------
(***************************************************************************)
(* One version of a policy set is active, what a task was bound to stays   *)
(* retrievable, and a file shown as published is in its version: for any   *)
(* number of requests, files and versions, and whenever a process ends.    *)
(*                                                                         *)
(* The argument: the lock makes publishers exclude each other, the version *)
(* of a file never changes, and a publisher only writes an index and       *)
(* activates a version while the index was not published before, when no   *)
(* task can be bound to it.  A file whose revision is still the one the    *)
(* manifest was read with has the content of the manifest, since a review  *)
(* adds a revision to the row it has locked and nothing else changes the   *)
(* clauses.                                                                *)
(***************************************************************************)
EXTENDS PolicyPublication, TLAPS

Exists(f) == files[f].status # "ABSENT"

\* The files a request has read exist, as the one it is about does unless the
\* request uploads it; a review keeps the version.
ReadsExist(c) ==
  /\ \A g \in DOMAIN clients[c].seen : Exists(g)
  /\ clients[c].pc # "idle" => clients[c].file \in Files
  /\ clients[c].pc \in Publishers => Exists(clients[c].file)
  /\ clients[c].pc = "reviewing" =>
       /\ Exists(clients[c].file)
       /\ clients[c].row.version = files[clients[c].file].version
       /\ clients[c].file \notin DOMAIN clients[c].seen
  /\ clients[c].pc = "uploading" => ~Exists(clients[c].file)

ReadFilesExist == \A c \in Clients : ReadsExist(c)

OneUploader ==
  \A c, d \in Clients :
    /\ clients[c].pc = "uploading" /\ clients[d].pc = "uploading"
    /\ clients[c].file = clients[d].file
    => c = d

OnePublisher ==
  \A c, d \in Clients :
    clients[c].pc \in Publishers /\ clients[d].pc \in Publishers => c = d

\* A version is only built and activated while it cannot be retrieved.
BuiltBeforeIndexed ==
  \A c \in Clients :
    clients[c].pc \in {"embedding", "replacing", "activating"} =>
      indexes[VersionOf(c)] # "PUBLISHED"

PreviousKnown ==
  \A c \in Clients : clients[c].pc = "activating" =>
    /\ VersionOf(c) \notin clients[c].previous
    /\ \A v \in Versions \ {VersionOf(c)} :
         sets[v].status = "PUBLISHED" => v \in clients[c].previous

PublicationInv == /\ TypeOK
                  /\ ReadFilesExist
                  /\ OneUploader
                  /\ OnePublisher
                  /\ BuiltBeforeIndexed
                  /\ PreviousKnown
                  /\ OneActiveVersion
                  /\ BoundIsRetrievable

-----------------------------------------------------------------------------
(* What the operations on rows keep.                                       *)

LEMMA AnalysisKeeps ==
  ASSUME NEW S \in SUBSET Files, NEW rows \in [S -> FileRows]
  PROVE  /\ Reanalyzed(rows) \in [S -> FileRows]
         /\ \A f \in S : /\ Reanalyzed(rows)[f].version = rows[f].version
                         /\ Reanalyzed(rows)[f].status # "ABSENT"
  <1>1. \A f \in S : InConflict(rows, f) \in BOOLEAN
    BY DEF InConflict, FileRows
  <1>2. ASSUME NEW f \in S
        PROVE  /\ Reanalyzed(rows)[f] \in FileRows
               /\ Reanalyzed(rows)[f].version = rows[f].version
               /\ Reanalyzed(rows)[f].status # "ABSENT"
    BY <1>1 DEF Reanalyzed, FileRows, FileStatuses
  <1> QED BY <1>2 DEF Reanalyzed

LEMMA UpdateKeeps ==
  ASSUME NEW row \in FileRows, NEW before \in FileRows, NEW after \in FileRows,
         row.status # "ABSENT", after.status # "ABSENT"
  PROVE  /\ Updated(row, before, after) \in FileRows
         /\ Updated(row, before, after).version = row.version
         /\ Updated(row, before, after).status # "ABSENT"
  BY DEF Updated, FileRows

\* A status or a revision is written into a row that exists.
LEMMA RowKeeps ==
  ASSUME NEW row \in FileRows, NEW status \in FileStatuses, status # "ABSENT"
  PROVE  /\ [row EXCEPT !.status = status] \in FileRows
         /\ [row EXCEPT !.status = status].version = row.version
         /\ [row EXCEPT !.status = status].status # "ABSENT"
         /\ [row EXCEPT !.status = status, !.revision = @ + 1] \in FileRows
         /\ [row EXCEPT !.status = status, !.revision = @ + 1].version = row.version
         /\ [row EXCEPT !.status = status, !.revision = @ + 1].status # "ABSENT"
  <1>1. row.revision + 1 \in Nat
    BY DEF FileRows
  <1> QED BY <1>1 DEF FileRows

LEMMA NoRowType == NoRow \in FileRows
  BY ConstantsAssumption DEF NoRow, FileRows, FileStatuses

LEMMA IdleType == IsRequest(Idle)
  BY NoRowType DEF IsRequest, Idle

\* What an edit commits.
LEMMA EditWrites ==
  ASSUME TypeOK, ReadFilesExist, NEW c \in Clients, clients[c].pc \in Editors
  PROVE  /\ clients[c].file \in Files
         /\ Analysis(c)[clients[c].file] \in FileRows
         /\ Analysis(c)[clients[c].file].status # "ABSENT"
         /\ Analysis(c)[clients[c].file].version = clients[c].row.version
         /\ \A g \in Writes(c) :
              /\ g \in Files /\ Exists(g)
              /\ Updated(files[g], clients[c].seen[g], Analysis(c)[g]) \in FileRows
              /\ Updated(files[g], clients[c].seen[g], Analysis(c)[g]).version
                   = files[g].version
              /\ Updated(files[g], clients[c].seen[g], Analysis(c)[g]).status # "ABSENT"
  <1> DEFINE S == DOMAIN clients[c].seen \cup {clients[c].file}
             rows == [g \in S |-> IF g = clients[c].file THEN clients[c].row
                                  ELSE clients[c].seen[g]]
  <1>1. IsRequest(clients[c]) /\ clients[c].file \in Files
    BY DEF TypeOK, ReadFilesExist, ReadsExist, Editors
  <1>2. S \in SUBSET Files /\ rows \in [S -> FileRows]
    BY <1>1 DEF IsRequest
  <1>3. Analysis(c) = Reanalyzed(rows)
    BY DEF Analysis
  <1>4. /\ Analysis(c) \in [S -> FileRows]
        /\ \A f \in S : /\ Analysis(c)[f].version = rows[f].version
                        /\ Analysis(c)[f].status # "ABSENT"
    <2> HIDE DEF S, rows
    <2> QED BY <1>2, <1>3, AnalysisKeeps
  <1>5. \A g \in Writes(c) : g \in S /\ g \in Files /\ Exists(g)
    BY <1>1 DEF Writes, IsRequest, ReadFilesExist, ReadsExist
  <1>6. \A g \in Writes(c) :
          files[g] \in FileRows /\ clients[c].seen[g] \in FileRows
    BY <1>1, <1>5 DEF TypeOK, Writes, IsRequest
  <1>7. ASSUME NEW g \in Writes(c)
        PROVE  /\ Updated(files[g], clients[c].seen[g], Analysis(c)[g]) \in FileRows
               /\ Updated(files[g], clients[c].seen[g], Analysis(c)[g]).version
                    = files[g].version
               /\ Updated(files[g], clients[c].seen[g], Analysis(c)[g]).status # "ABSENT"
    <2>1. Analysis(c)[g] \in FileRows /\ Analysis(c)[g].status # "ABSENT"
      BY <1>4, <1>5
    <2>2. files[g].status # "ABSENT"
      BY <1>5 DEF Exists
    <2> QED BY <2>1, <2>2, <1>6, UpdateKeeps
  <1>8. clients[c].file \in S
    OBVIOUS
  <1>9. rows[clients[c].file] = clients[c].row
    OBVIOUS
  <1> HIDE DEF S, rows
  <1> QED BY <1>1, <1>4, <1>5, <1>7, <1>8, <1>9

-----------------------------------------------------------------------------
(* Types.                                                                  *)

LEMMA BeginUploadType ==
  ASSUME TypeOK, NEW c \in Clients, NEW f \in Files, BeginUpload(c, f)
  PROVE  TypeOK'
  <1>1. PICK v \in Versions, content \in Contents, accepted \in BOOLEAN :
          clients' = [clients EXCEPT ![c] = [Idle EXCEPT
            !.pc = "uploading", !.file = f,
            !.row = [version |-> v, content |-> content, accepted |-> accepted,
                     conflict |-> FALSE, revision |-> 1,
                     status |-> IF accepted THEN "READY_TO_PUBLISH"
                                ELSE "REVIEW_REQUIRED"],
            !.seen = [g \in Group(v) |-> files[g]]]]
    BY DEF BeginUpload
  <1>2. IsRequest(clients'[c])
    BY <1>1 DEF TypeOK, IsRequest, Idle, Group, FileRows, FileStatuses, Editors
  <1> QED BY <1>1, <1>2 DEF TypeOK, BeginUpload

LEMMA BeginReviewType ==
  ASSUME TypeOK, NEW c \in Clients, NEW f \in Files, BeginReview(c, f)
  PROVE  TypeOK'
  <1>1. PICK content \in Contents, accepted \in BOOLEAN :
          clients' = [clients EXCEPT ![c] = [Idle EXCEPT
            !.pc = "reviewing", !.file = f,
            !.row = [files[f] EXCEPT !.content = content, !.accepted = accepted,
                                     !.revision = @ + 1],
            !.seen = [g \in Group(files[f].version) \ {f} |-> files[g]]]]
    <2>1. \A content, accepted :
            [files[f] EXCEPT !.content = content, !.accepted = accepted,
                             !.revision = @ + 1].version = files[f].version
      BY DEF TypeOK, FileRows
    <2> QED BY <2>1 DEF BeginReview
  <1>2. [files[f] EXCEPT !.content = content, !.accepted = accepted,
                         !.revision = @ + 1] \in FileRows
    <2>1. files[f] \in FileRows /\ files[f].revision + 1 \in Nat
      BY DEF TypeOK, FileRows
    <2> QED BY <2>1 DEF FileRows
  <1>3. IsRequest(clients'[c])
    BY <1>1, <1>2 DEF TypeOK, IsRequest, Idle, Group, Editors
  <1> QED BY <1>1, <1>3 DEF TypeOK, BeginReview

LEMMA CommitEditType ==
  ASSUME TypeOK, ReadFilesExist, NEW c \in Clients, CommitEdit(c)
  PROVE  TypeOK'
  <1>1. clients' = [clients EXCEPT ![c] = Idle] /\ UNCHANGED <<sets, indexes, bound>>
    BY DEF CommitEdit
  <1>2. files' \in [Files -> FileRows]
    BY EditWrites DEF TypeOK, CommitEdit
  <1> QED BY <1>1, <1>2, IdleType DEF TypeOK

LEMMA PublishType ==
  ASSUME TypeOK, NEW c \in Clients, NEW f \in Files, Publish(c, f)
  PROVE  TypeOK'
  <1>1. IsRequest(clients'[c])
    BY IdleType DEF TypeOK, IsRequest, Idle, Publish, Publishers
  <1> QED BY <1>1 DEF TypeOK, Publish

LEMMA PublisherStepType ==
  ASSUME TypeOK, ReadFilesExist, NEW c \in Clients, PublisherStep(c)
  PROVE  TypeOK'
  <1> IsRequest(clients[c])
    BY DEF TypeOK
  <1>a. clients[c].pc \in Publishers => VersionOf(c) \in Versions
    BY DEF TypeOK, FileRows, VersionOf, ReadFilesExist, ReadsExist, Publishers
  <1>1. CASE StartPublish(c)
    <2>1. files' \in [Files -> FileRows]
      <3>1. \A g \in Files : [files[g] EXCEPT !.status = "PUBLISHING"] \in FileRows
        BY RowKeeps DEF TypeOK, FileStatuses
      <3> QED BY <1>1, <3>1 DEF StartPublish, TypeOK
    <2>2. IsRequest(clients'[c])
      BY <1>1, IdleType DEF StartPublish, TypeOK, IsRequest, Group, Publishers
    <2> QED BY <1>1, <2>1, <2>2 DEF StartPublish, TypeOK
  <1>2. CASE CheckContent(c)
    <2>2. IsRequest(clients'[c])
      BY <1>2 DEF CheckContent, TypeOK, IsRequest, Publishers
    <2> QED BY <1>2, <2>2 DEF CheckContent, TypeOK
  <1>3. CASE Prepare(c)
    <2>1. Manifest(c) \subseteq Files \X Contents
      BY DEF Manifest, IsRequest, FileRows
    <2>2. IsRequest(clients'[c])
      BY <1>3 DEF Prepare, TypeOK, IsRequest, Publishers
    <2>3. sets' \in [Versions -> [status : SetStatuses, content : SUBSET (Files \X Contents)]]
      BY <1>3, <2>1 DEF Prepare, TypeOK, SetStatuses
    <2>4. indexes' \in [Versions -> IndexStatuses]
      BY <1>3 DEF Prepare, TypeOK, IndexStatuses
    <2> QED BY <1>3, <2>2, <2>3, <2>4 DEF Prepare, TypeOK
  <1>4. CASE Embed(c)
    <2>2. IsRequest(clients'[c])
      BY <1>4 DEF Embed, TypeOK, IsRequest, Publishers
    <2>4. indexes' \in [Versions -> IndexStatuses]
      BY <1>4 DEF Embed, TypeOK, IndexStatuses
    <2> QED BY <1>4, <2>2, <2>4 DEF Embed, TypeOK
  <1>5. CASE ReadPrevious(c)
    <2>2. IsRequest(clients'[c])
      BY <1>5 DEF ReadPrevious, TypeOK, IsRequest, Publishers
    <2> QED BY <1>5, <2>2 DEF ReadPrevious, TypeOK
  <1>6. CASE Activate(c)
    <2>2. IsRequest(clients'[c])
      BY <1>6 DEF Activate, TypeOK, IsRequest, Publishers
    <2>3. sets' \in [Versions -> [status : SetStatuses, content : SUBSET (Files \X Contents)]]
      BY <1>6 DEF Activate, TypeOK, SetStatuses
    <2>4. indexes' \in [Versions -> IndexStatuses]
      BY <1>6 DEF Activate, TypeOK, IndexStatuses
    <2> QED BY <1>6, <2>2, <2>3, <2>4 DEF Activate, TypeOK
  <1>7. CASE Finalize(c)
    <2>1. files' \in [Files -> FileRows]
      <3>1. \A g \in Files :
              [files[g] EXCEPT !.status = "PUBLISHED", !.revision = @ + 1] \in FileRows
        BY RowKeeps DEF TypeOK, FileStatuses
      <3> QED BY <1>7, <3>1 DEF Finalize, TypeOK
    <2> QED BY <1>7, <2>1, IdleType DEF Finalize, TypeOK
  <1>8. CASE Restore(c)
    <2>1. files' \in [Files -> FileRows]
      <3>1. \A g \in Files : [files[g] EXCEPT !.status = "READY_TO_PUBLISH"] \in FileRows
        BY RowKeeps DEF TypeOK, FileStatuses
      <3> DEFINE Unchanged(g) ==
            g \in DOMAIN clients[c].seen /\ files[g].revision = clients[c].seen[g].revision
      <3>2. files' = [g \in Files |->
              IF Unchanged(g) THEN [files[g] EXCEPT !.status = "READY_TO_PUBLISH"]
              ELSE files[g]]
        BY <1>8 DEF Restore
      <3>3. files \in [Files -> FileRows]
        BY DEF TypeOK
      <3> HIDE DEF Unchanged
      <3>4. ASSUME NEW g \in Files
            PROVE  files'[g] \in FileRows
        <4>1. CASE Unchanged(g)
          BY <3>1, <3>2, <4>1
        <4>2. CASE ~Unchanged(g)
          BY <3>2, <3>3, <4>2
        <4> QED BY <4>1, <4>2
      <3> QED BY <3>2, <3>4
    <2> QED BY <1>8, <2>1, IdleType DEF Restore, TypeOK
  <1> QED BY <1>1, <1>2, <1>3, <1>4, <1>5, <1>6, <1>7, <1>8 DEF PublisherStep

LEMMA TypeStep ==
  ASSUME TypeOK, ReadFilesExist, [Next]_vars
  PROVE  TypeOK'
  <1>1. CASE \E c \in Clients : Crash(c)
    BY <1>1, IdleType DEF Crash, TypeOK
  <1>2. CASE \E v \in Versions : Deactivate(v)
    BY <1>2 DEF Deactivate, TypeOK, SetStatuses
  <1>3. CASE \E v \in Versions : Bind(v)
    BY <1>3 DEF Bind, TypeOK
  <1>4. CASE UNCHANGED vars
    BY <1>4 DEF vars, TypeOK
  <1> QED BY <1>1, <1>2, <1>3, <1>4, BeginUploadType, BeginReviewType, CommitEditType,
             PublishType, PublisherStepType DEF Next

-----------------------------------------------------------------------------
(* Files.                                                                  *)

\* A file that exists stays and keeps its version.
FilesKept ==
  \A f \in Files : Exists(f) => Exists(f)' /\ files'[f].version = files[f].version

\* Only the end of an upload creates a file.
CreatedByUpload ==
  \A f \in Files : Exists(f)' /\ ~Exists(f) =>
    \E c \in Clients : /\ clients[c].pc = "uploading" /\ clients[c].file = f
                       /\ clients' = [clients EXCEPT ![c] = Idle]

LEMMA FilesStep ==
  ASSUME TypeOK, ReadFilesExist, [Next]_vars
  PROVE  FilesKept /\ CreatedByUpload
  <1>1. CASE UNCHANGED files
    BY <1>1 DEF FilesKept, CreatedByUpload, Exists
  <1>2. ASSUME NEW c \in Clients, CommitEdit(c), ~ UNCHANGED files
        PROVE  FilesKept /\ CreatedByUpload
    <2>1. files' = [f \in Files |->
             CASE f = clients[c].file -> Analysis(c)[f]
               [] f \in Writes(c) -> Updated(files[f], clients[c].seen[f], Analysis(c)[f])
               [] OTHER -> files[f]]
      BY <1>2 DEF CommitEdit
    <2>2. clients[c].pc \in Editors /\ clients' = [clients EXCEPT ![c] = Idle]
      BY <1>2 DEF CommitEdit
    <2>3. ASSUME NEW f \in Files
          PROVE  /\ Exists(f) => Exists(f)' /\ files'[f].version = files[f].version
                 /\ Exists(f)' /\ ~Exists(f) =>
                      clients[c].pc = "uploading" /\ clients[c].file = f
      <3>1. CASE f = clients[c].file
        <4>0. f \notin Writes(c)
          BY <2>2, <3>1 DEF Writes, ReadFilesExist, ReadsExist, Editors
        <4>1. files'[f] = Analysis(c)[f] /\ Exists(f)'
          BY <2>1, <2>2, <3>1, <4>0, EditWrites DEF Exists
        <4>2. Analysis(c)[f].version = clients[c].row.version
          BY <2>2, <3>1, EditWrites
        <4> QED BY <4>1, <4>2, <2>2, <3>1 DEF ReadFilesExist, ReadsExist, Editors
      <3>2. CASE f # clients[c].file /\ f \in Writes(c)
        BY <2>1, <2>2, <3>2, EditWrites DEF Exists
      <3>3. CASE f # clients[c].file /\ f \notin Writes(c)
        BY <2>1, <3>3 DEF Exists
      <3> QED BY <3>1, <3>2, <3>3
    <2> QED BY <2>2, <2>3 DEF FilesKept, CreatedByUpload
  <1>3. ASSUME NEW c \in Clients, StartPublish(c) \/ Finalize(c) \/ Restore(c)
        PROVE  FilesKept /\ CreatedByUpload
    <2>1. ASSUME NEW f \in Files
          PROVE  /\ Exists(f) => Exists(f)'
                 /\ files'[f].version = files[f].version
      <3>1. files[f] \in FileRows
        BY DEF TypeOK
      <3>2. \/ files'[f] = files[f]
            \/ \E s \in FileStatuses \ {"ABSENT"} :
                 \/ files'[f] = [files[f] EXCEPT !.status = s]
                 \/ files'[f] = [files[f] EXCEPT !.status = s, !.revision = @ + 1]
        BY <1>3 DEF StartPublish, Finalize, Restore, FileStatuses
      <3>3. ASSUME NEW st \in FileStatuses \ {"ABSENT"},
                   \/ files'[f] = [files[f] EXCEPT !.status = st]
                   \/ files'[f] = [files[f] EXCEPT !.status = st, !.revision = @ + 1]
            PROVE  Exists(f)' /\ files'[f].version = files[f].version
        <4>1. st \in FileStatuses /\ st # "ABSENT"
          OBVIOUS
        <4>2. CASE files'[f] = [files[f] EXCEPT !.status = st]
          <5>1. files'[f].version = files[f].version /\ files'[f].status # "ABSENT"
            BY <3>1, <4>1, <4>2 DEF FileRows
          <5> QED BY <5>1 DEF Exists
        <4>3. CASE files'[f] = [files[f] EXCEPT !.status = st, !.revision = @ + 1]
          <5>1. files'[f].version = files[f].version /\ files'[f].status # "ABSENT"
            BY <3>1, <4>1, <4>3 DEF FileRows
          <5> QED BY <5>1 DEF Exists
        <4> QED BY <3>3, <4>2, <4>3
      <3> QED BY <3>2, <3>3 DEF Exists
    <2>2. \A f \in Files : Exists(f)' => Exists(f)
      BY <1>3 DEF StartPublish, Finalize, Restore, Exists, Group, ReadFilesExist, ReadsExist
    <2> QED BY <2>1, <2>2 DEF FilesKept, CreatedByUpload
  <1> QED BY <1>1, <1>2, <1>3
    DEF Next, BeginUpload, BeginReview, Publish, PublisherStep, CheckContent, Prepare,
        Embed, ReadPrevious, Activate, Crash, Deactivate, Bind, vars

-----------------------------------------------------------------------------
(* Requests.                                                               *)

\* The transactions of a publication that goes on with the same files.
Advances(c) ==
  CheckContent(c) \/ Prepare(c) \/ Embed(c) \/ ReadPrevious(c) \/ Activate(c)

LEMMA AdvanceKeeps ==
  ASSUME TypeOK, NEW c \in Clients, Advances(c)
  PROVE  /\ clients[c].pc \in Publishers /\ clients'[c].pc \in Publishers
         /\ clients'[c].file = clients[c].file
         /\ clients'[c].seen = clients[c].seen
         /\ clients'[c].pc # clients[c].pc
         /\ \A d \in Clients \ {c} : clients'[d] = clients[d]
  <1>1. IsRequest(clients[c]) /\ clients = [d \in Clients |-> clients[d]]
    BY DEF TypeOK
  <1> QED BY <1>1 DEF Advances, CheckContent, Prepare, Embed, ReadPrevious, Activate,
                      Publishers, IsRequest

LEMMA BeginMoves ==
  ASSUME TypeOK, NEW c \in Clients, NEW f \in Files
  PROVE  /\ BeginUpload(c, f) =>
              clients'[c].pc = "uploading" /\ clients'[c].file = f
         /\ BeginReview(c, f) =>
              clients'[c].pc = "reviewing" /\ clients'[c].file = f
         /\ Publish(c, f) =>
              clients'[c].pc = "locked" /\ clients'[c].file = f
         /\ BeginUpload(c, f) \/ BeginReview(c, f) \/ Publish(c, f) =>
              \A d \in Clients \ {c} : clients'[d] = clients[d]
  <1>1. clients = [d \in Clients |-> clients[d]]
    BY DEF TypeOK
  <1>2. ASSUME NEW pc, NEW row, NEW seen,
               clients' = [clients EXCEPT ![c] = [Idle EXCEPT
                             !.pc = pc, !.file = f, !.row = row, !.seen = seen]]
        PROVE  /\ clients'[c].pc = pc /\ clients'[c].file = f
               /\ \A d \in Clients \ {c} : clients'[d] = clients[d]
    BY <1>1, <1>2 DEF Idle
  <1>3. ASSUME BeginUpload(c, f)
        PROVE  \E row, seen :
                 clients' = [clients EXCEPT ![c] = [Idle EXCEPT
                   !.pc = "uploading", !.file = f, !.row = row, !.seen = seen]]
    <2>1. PICK v \in Versions, content \in Contents, accepted \in BOOLEAN :
            clients' = [clients EXCEPT ![c] = [Idle EXCEPT
              !.pc = "uploading", !.file = f,
              !.row = [version |-> v, content |-> content, accepted |-> accepted,
                       conflict |-> FALSE, revision |-> 1,
                       status |-> IF accepted THEN "READY_TO_PUBLISH"
                                  ELSE "REVIEW_REQUIRED"],
              !.seen = [g \in Group(v) |-> files[g]]]]
      BY <1>3 DEF BeginUpload
    <2> QED BY <2>1
  <1>4. ASSUME BeginReview(c, f)
        PROVE  \E row, seen :
                 clients' = [clients EXCEPT ![c] = [Idle EXCEPT
                   !.pc = "reviewing", !.file = f, !.row = row, !.seen = seen]]
    BY <1>4 DEF BeginReview
  <1>5. Publish(c, f) => /\ clients'[c].pc = "locked" /\ clients'[c].file = f
                         /\ \A d \in Clients \ {c} : clients'[d] = clients[d]
    BY <1>1 DEF Publish, Idle
  <1>6. BeginUpload(c, f) => /\ clients'[c].pc = "uploading" /\ clients'[c].file = f
                             /\ \A d \in Clients \ {c} : clients'[d] = clients[d]
    BY <1>2, <1>3
  <1>7. BeginReview(c, f) => /\ clients'[c].pc = "reviewing" /\ clients'[c].file = f
                             /\ \A d \in Clients \ {c} : clients'[d] = clients[d]
    BY <1>2, <1>4
  <1> QED BY <1>5, <1>6, <1>7

LEMMA StartPublishMoves ==
  ASSUME TypeOK, NEW c \in Clients, StartPublish(c)
  PROVE  /\ clients[c].pc = "locked" /\ clients'[c].pc \in {"checking", "idle"}
         /\ \A d \in Clients \ {c} : clients'[d] = clients[d]
  <1>1. IsRequest(clients[c]) /\ clients = [d \in Clients |-> clients[d]]
    BY DEF TypeOK
  <1>2. CASE clients' = [clients EXCEPT ![c] = Idle]
    BY <1>1, <1>2 DEF StartPublish, Idle
  <1>3. CASE clients' = [clients EXCEPT ![c].pc = "checking",
               ![c].seen = [g \in Group(files[clients[c].file].version) |-> files[g]]]
    BY <1>1, <1>3 DEF StartPublish, IsRequest
  <1> QED BY <1>2, <1>3 DEF StartPublish

\* What a step does to one request.
RequestSteps(c) ==
  \/ clients'[c] = clients[c]
  \/ clients'[c] = Idle
  \/ \E f \in Files : BeginUpload(c, f) \/ BeginReview(c, f) \/ Publish(c, f)
  \/ StartPublish(c)
  \/ Advances(c)

LEMMA RequestStep ==
  ASSUME TypeOK, [Next]_vars, NEW c \in Clients
  PROVE  RequestSteps(c)
  <1>1. clients = [d \in Clients |-> clients[d]]
    BY DEF TypeOK
  <1>2. CASE \E d \in Clients, f \in Files :
               BeginUpload(d, f) \/ BeginReview(d, f) \/ Publish(d, f)
    <2>1. PICK d \in Clients, f \in Files :
            BeginUpload(d, f) \/ BeginReview(d, f) \/ Publish(d, f)
      BY <1>2
    <2>2. CASE d = c
      BY <2>1, <2>2 DEF RequestSteps
    <2>3. CASE d # c
      <3>1. clients'[c] = clients[c]
        BY <2>1, <2>3, BeginMoves
      <3> QED BY <3>1 DEF RequestSteps
    <2> QED BY <2>2, <2>3
  <1>3. CASE \E d \in Clients : CommitEdit(d) \/ Crash(d)
    BY <1>1, <1>3 DEF RequestSteps, CommitEdit, Crash
  <1>4. CASE \E d \in Clients : PublisherStep(d)
    <2>1. PICK d \in Clients : PublisherStep(d)
      BY <1>4
    <2>2. CASE d = c /\ (Finalize(c) \/ Restore(c))
      BY <1>1, <2>2 DEF RequestSteps, Finalize, Restore
    <2>3. CASE d = c /\ (StartPublish(c) \/ Advances(c))
      BY <2>3 DEF RequestSteps
    <2>4. CASE d # c
      BY <1>1, <2>1, <2>4 DEF RequestSteps, PublisherStep, StartPublish, CheckContent,
        Prepare, Embed, ReadPrevious, Activate, Finalize, Restore
    <2> QED BY <2>1, <2>2, <2>3, <2>4 DEF PublisherStep, Advances
  <1>5. CASE UNCHANGED clients
    BY <1>5 DEF RequestSteps
  <1> QED BY <1>2, <1>3, <1>4, <1>5 DEF Next, Deactivate, Bind, vars

LEMMA ReadsStep ==
  ASSUME TypeOK, ReadFilesExist, OneUploader, [Next]_vars
  PROVE  ReadFilesExist'
  <1> SUFFICES ASSUME NEW c \in Clients
               PROVE  ReadsExist(c)'
    BY DEF ReadFilesExist
  <1>0. IsRequest(clients[c]) /\ clients = [d \in Clients |-> clients[d]]
    BY DEF TypeOK
  <1>a. FilesKept /\ CreatedByUpload
    BY FilesStep
  <1>b. ReadsExist(c)
    BY DEF ReadFilesExist
  <1>1. CASE clients'[c] = clients[c]
    <2>1. clients[c].pc = "uploading" => ~Exists(clients[c].file)'
      <3>1. SUFFICES ASSUME clients[c].pc = "uploading", Exists(clients[c].file)'
                     PROVE  FALSE
        OBVIOUS
      <3>2. clients[c].file \in Files /\ ~Exists(clients[c].file)
        BY <1>b, <3>1 DEF ReadsExist
      <3>3. files'[clients[c].file].status # "ABSENT"
        BY <1>1, <3>1 DEF Exists
      <3>4. PICK d \in Clients :
              /\ clients[d].pc = "uploading" /\ clients[d].file = clients[c].file
              /\ clients' = [clients EXCEPT ![d] = Idle]
        BY <1>a, <3>2, <3>3 DEF CreatedByUpload, Exists
      <3>5. clients'[c] = Idle
        BY <1>0, <3>1, <3>4 DEF OneUploader
      <3> QED BY <1>1, <3>1, <3>5 DEF Idle
    <2> QED BY <1>0, <1>1, <1>a, <1>b, <2>1
      DEF ReadsExist, FilesKept, Exists, IsRequest, Publishers
  <1>2. CASE clients'[c] = Idle
    BY <1>2 DEF ReadsExist, Idle, Publishers
  <1>3. ASSUME NEW f \in Files, BeginUpload(c, f)
        PROVE  ReadsExist(c)'
    <2>1. PICK v \in Versions : /\ clients'[c].pc = "uploading" /\ clients'[c].file = f
                                /\ clients'[c].seen = [g \in Group(v) |-> files[g]]
      <3>1. PICK v \in Versions, content \in Contents, accepted \in BOOLEAN :
              clients' = [clients EXCEPT ![c] = [Idle EXCEPT
                !.pc = "uploading", !.file = f,
                !.row = [version |-> v, content |-> content, accepted |-> accepted,
                         conflict |-> FALSE, revision |-> 1,
                         status |-> IF accepted THEN "READY_TO_PUBLISH"
                                    ELSE "REVIEW_REQUIRED"],
                !.seen = [g \in Group(v) |-> files[g]]]]
        BY <1>3 DEF BeginUpload
      <3>2. /\ clients'[c].pc = "uploading" /\ clients'[c].file = f
            /\ clients'[c].seen = [g \in Group(v) |-> files[g]]
        BY <1>0, <3>1 DEF Idle
      <3> QED BY <3>2
    <2>2. files' = files /\ files[f].status = "ABSENT"
      BY <1>3 DEF BeginUpload
    <2> QED BY <2>1, <2>2 DEF ReadsExist, Exists, Group, Publishers
  <1>4. ASSUME NEW f \in Files, BeginReview(c, f)
        PROVE  ReadsExist(c)'
    <2>1. PICK content \in Contents, accepted \in BOOLEAN :
            clients' = [clients EXCEPT ![c] = [Idle EXCEPT
              !.pc = "reviewing", !.file = f,
              !.row = [files[f] EXCEPT !.content = content, !.accepted = accepted,
                                       !.revision = @ + 1],
              !.seen = [g \in Group(files[f].version) \ {f} |-> files[g]]]]
      <3>1. \A content, accepted :
              [files[f] EXCEPT !.content = content, !.accepted = accepted,
                               !.revision = @ + 1].version = files[f].version
        BY DEF TypeOK, FileRows
      <3> QED BY <1>4, <3>1 DEF BeginReview
    <2>2. [files[f] EXCEPT !.content = content, !.accepted = accepted,
                           !.revision = @ + 1].version = files[f].version
      BY DEF TypeOK, FileRows
    <2>3. /\ clients'[c].pc = "reviewing" /\ clients'[c].file = f
          /\ clients'[c].row.version = files[f].version
          /\ clients'[c].seen = [g \in Group(files[f].version) \ {f} |-> files[g]]
      BY <1>0, <2>1, <2>2 DEF Idle
    <2>4. files' = files /\ files[f].status # "ABSENT"
      BY <1>4 DEF BeginReview
    <2> QED BY <2>3, <2>4 DEF ReadsExist, Exists, Group, Publishers
  <1>5. ASSUME NEW f \in Files, Publish(c, f)
        PROVE  ReadsExist(c)'
    <2>1. /\ clients'[c].pc = "locked" /\ clients'[c].file = f
          /\ clients'[c].seen = [g \in {} |-> NoRow]
      BY <1>0, <1>5 DEF Publish, Idle
    <2> QED BY <1>5, <2>1 DEF ReadsExist, Exists, Publish, Publishers
  <1>6. CASE StartPublish(c)
    <2>1. clients[c].file \in Files /\ Exists(clients[c].file)
      BY <1>6, <1>b DEF StartPublish, ReadsExist, Publishers
    <2>2. CASE clients'[c] # Idle
      <3>1. /\ clients'[c].pc = "checking" /\ clients'[c].file = clients[c].file
            /\ clients'[c].seen =
                 [g \in Group(files[clients[c].file].version) |-> files[g]]
        <4>1. ~ (clients' = [clients EXCEPT ![c] = Idle])
          BY <1>0, <2>2
        <4>2. clients' = [clients EXCEPT ![c].pc = "checking",
                ![c].seen = [g \in Group(files[clients[c].file].version) |-> files[g]]]
          BY <1>6, <4>1 DEF StartPublish
        <4> QED BY <1>0, <4>2 DEF IsRequest
      <3> QED BY <1>a, <2>1, <3>1 DEF ReadsExist, Exists, FilesKept, Group, Publishers
    <2> QED BY <1>2, <2>2
  <1>7. CASE Advances(c)
    <2>1. /\ clients[c].pc \in Publishers /\ clients'[c].pc \in Publishers
          /\ clients'[c].file = clients[c].file /\ clients'[c].seen = clients[c].seen
      BY <1>7, AdvanceKeeps
    <2> QED BY <1>0, <1>a, <1>b, <2>1
      DEF ReadsExist, Exists, FilesKept, Publishers, IsRequest
  <1> QED BY RequestStep, <1>1, <1>2, <1>3, <1>4, <1>5, <1>6, <1>7 DEF RequestSteps

LEMMA ExclusionStep ==
  ASSUME TypeOK, OneUploader, OnePublisher, [Next]_vars
  PROVE  OneUploader' /\ OnePublisher'
  <1>0. clients = [d \in Clients |-> clients[d]]
    BY DEF TypeOK
  <1>1. ASSUME NEW c \in Clients, clients'[c].pc = "uploading"
        PROVE  \/ clients'[c] = clients[c]
               \/ \E f \in Files : BeginUpload(c, f)
    <2>1. CASE \E f \in Files : BeginReview(c, f) \/ Publish(c, f)
      BY <1>1, <2>1, BeginMoves
    <2>2. CASE StartPublish(c)
      BY <1>0, <1>1, <2>2, StartPublishMoves
    <2>3. CASE Advances(c)
      BY <1>1, <2>3, AdvanceKeeps DEF Publishers
    <2> QED BY <1>1, <2>1, <2>2, <2>3, RequestStep DEF RequestSteps, Idle
  <1>2. ASSUME NEW c \in Clients, clients'[c].pc \in Publishers
        PROVE  clients[c].pc \in Publishers \/ \E f \in Files : Publish(c, f)
    <2>1. ASSUME NEW f \in Files, BeginUpload(c, f) \/ BeginReview(c, f)
          PROVE  clients'[c].pc \notin Publishers
      <3>1. clients'[c].pc \in {"uploading", "reviewing"}
        BY <2>1, BeginMoves
      <3> QED BY <3>1 DEF Publishers
    <2>2. CASE StartPublish(c)
      BY <2>2 DEF StartPublish, Publishers
    <2>3. CASE Advances(c)
      BY <2>3, AdvanceKeeps
    <2> QED BY <1>2, <2>1, <2>2, <2>3, RequestStep DEF RequestSteps, Idle, Publishers
  <1>3. OneUploader'
    <2>1. SUFFICES ASSUME NEW c \in Clients, NEW d \in Clients, c # d,
                          clients'[c].pc = "uploading", clients'[d].pc = "uploading",
                          clients'[c].file = clients'[d].file
                   PROVE  FALSE
      BY DEF OneUploader
    <2>2. ASSUME NEW f \in Files, NEW a \in Clients, NEW b \in Clients, a # b,
                 BeginUpload(a, f), clients'[b].pc = "uploading"
          PROVE  clients'[a].file # clients'[b].file
      <3>1. clients'[a].file = f /\ clients'[b] = clients[b]
        BY <2>2, BeginMoves
      <3> QED BY <2>2, <3>1 DEF BeginUpload
    <2> QED BY <1>1, <2>1, <2>2 DEF OneUploader
  <1>4. OnePublisher'
    <2>1. SUFFICES ASSUME NEW c \in Clients, NEW d \in Clients, c # d,
                          clients'[c].pc \in Publishers, clients'[d].pc \in Publishers
                   PROVE  FALSE
      BY DEF OnePublisher
    <2>2. ASSUME NEW f \in Files, NEW a \in Clients, NEW b \in Clients, a # b,
                 Publish(a, f)
          PROVE  clients'[b].pc \notin Publishers
      <3>1. clients'[b] = clients[b]
        BY <2>2, BeginMoves
      <3> QED BY <2>2, <3>1 DEF Publish, LockKey
    <2> QED BY <1>2, <2>1, <2>2 DEF OnePublisher
  <1> QED BY <1>3, <1>4

-----------------------------------------------------------------------------
(* Versions.                                                               *)

LEMMA VersionStays ==
  ASSUME TypeOK, ReadFilesExist, FilesKept,
         NEW c \in Clients, clients[c].pc \in Publishers,
         clients'[c].file = clients[c].file
  PROVE  VersionOf(c) \in Versions /\ VersionOf(c)' = VersionOf(c)
  <1>1. clients[c].file \in Files /\ Exists(clients[c].file)
    BY DEF ReadFilesExist, ReadsExist, Publishers
  <1> QED BY <1>1 DEF TypeOK, FileRows, FilesKept, VersionOf

VersionsInv == /\ BuiltBeforeIndexed
               /\ PreviousKnown
               /\ OneActiveVersion
               /\ BoundIsRetrievable

\* A publisher is the only request that is about to activate a version.
LEMMA OthersDoNotBuild ==
  ASSUME OnePublisher, NEW c \in Clients, clients[c].pc \in Publishers,
         NEW d \in Clients, d # c
  PROVE  clients[d].pc \notin {"embedding", "replacing", "activating"}
  BY DEF OnePublisher, Publishers

LEMMA VersionsStep ==
  ASSUME PublicationInv, [Next]_vars
  PROVE  VersionsInv'
  <1> TypeOK /\ ReadFilesExist /\ OnePublisher /\ VersionsInv
    BY DEF PublicationInv, VersionsInv
  <1>0. clients = [d \in Clients |-> clients[d]] /\ \A d \in Clients : IsRequest(clients[d])
    BY DEF TypeOK
  <1>a. FilesKept
    BY FilesStep
  \* Who builds a version built it before, or one of three steps led there.
  <1>b. ASSUME NEW c \in Clients,
               clients'[c].pc \in {"embedding", "replacing", "activating"}
        PROVE  \/ clients'[c] = clients[c]
               \/ Prepare(c) \/ Embed(c) \/ ReadPrevious(c)
    <2>1. ASSUME NEW f \in Files, BeginUpload(c, f) \/ BeginReview(c, f) \/ Publish(c, f)
          PROVE  clients'[c].pc \in {"uploading", "reviewing", "locked"}
      BY <2>1, BeginMoves
    <2>2. CASE StartPublish(c)
      BY <1>b, <2>2, StartPublishMoves
    <2>3. CASE CheckContent(c) \/ Activate(c)
      BY <1>0, <1>b, <2>3 DEF CheckContent, Activate, IsRequest
    <2> QED BY <1>b, <2>1, <2>2, <2>3, RequestStep DEF RequestSteps, Advances, Idle
  \* A builder that does nothing keeps its version and what it has read.
  <1>c. ASSUME NEW c \in Clients, clients'[c] = clients[c],
               clients'[c].pc \in {"embedding", "replacing", "activating"}
        PROVE  VersionOf(c) \in Versions /\ VersionOf(c)' = VersionOf(c)
    BY <1>a, <1>c, VersionStays DEF Publishers
  <1>1. CASE \E c \in Clients : Prepare(c)
    <2>1. PICK c \in Clients : Prepare(c)
      BY <1>1
    <2>2. /\ clients[c].pc = "preparing" /\ clients[c].pc \in Publishers
          /\ clients'[c].pc = IF IsReplayed(VersionOf(c)) THEN "finalizing" ELSE "embedding"
          /\ clients'[c].file = clients[c].file
      BY <1>0, <2>1 DEF Prepare, IsRequest, Publishers
    <2>3. VersionOf(c) \in Versions /\ VersionOf(c)' = VersionOf(c)
      BY <1>a, <2>2, VersionStays
    <2>4. \A d \in Clients \ {c} :
            clients'[d] = clients[d] /\
            clients'[d].pc \notin {"embedding", "replacing", "activating"}
      BY <1>0, <2>1, <2>2, OthersDoNotBuild DEF Prepare
    <2>5. BuiltBeforeIndexed'
      <3>1. indexes'[VersionOf(c)] # "PUBLISHED" \/ IsReplayed(VersionOf(c))
        BY <2>1, <2>3 DEF Prepare, TypeOK, IsReplayed
      <3> QED BY <2>2, <2>3, <2>4, <3>1 DEF BuiltBeforeIndexed
    <2>6. PreviousKnown'
      BY <2>2, <2>4 DEF PreviousKnown
    <2>7. \A v \in Versions :
            /\ sets'[v].status = "PUBLISHED" => sets[v].status = "PUBLISHED"
            /\ sets[v].status # "ABSENT" => sets'[v] = sets[v]
            /\ indexes[v] = "PUBLISHED" => indexes'[v] = "PUBLISHED"
      BY <2>1, <2>3 DEF Prepare, TypeOK, IsReplayed
    <2>8. OneActiveVersion'
      BY <2>7 DEF VersionsInv, OneActiveVersion
    <2>9. BoundIsRetrievable'
      BY <2>1, <2>7 DEF VersionsInv, BoundIsRetrievable, IsRetrievable, Prepare
    <2> QED BY <2>5, <2>6, <2>8, <2>9 DEF VersionsInv
  <1>2. CASE \E c \in Clients : Embed(c)
    <2>1. PICK c \in Clients : Embed(c)
      BY <1>2
    <2>2. /\ clients[c].pc = "embedding" /\ clients[c].pc \in Publishers
          /\ clients'[c].pc \in {"replacing", "restoring"}
          /\ clients'[c].file = clients[c].file
      BY <1>0, <2>1 DEF Embed, IsRequest, Publishers
    <2>3. VersionOf(c) \in Versions /\ VersionOf(c)' = VersionOf(c)
      BY <1>a, <2>2, VersionStays
    <2>4. \A d \in Clients \ {c} :
            clients'[d].pc \notin {"embedding", "replacing", "activating"}
      BY <1>0, <2>1, <2>2, OthersDoNotBuild DEF Embed
    <2>5. /\ sets' = sets /\ bound' = bound
          /\ indexes' = indexes \/ indexes' = [indexes EXCEPT ![VersionOf(c)] = "FAILED"]
      BY <2>1 DEF Embed
    <2>6. indexes[VersionOf(c)] # "PUBLISHED" /\ indexes'[VersionOf(c)] # "PUBLISHED"
      BY <2>2, <2>3, <2>5 DEF VersionsInv, BuiltBeforeIndexed, TypeOK
    <2>7. BuiltBeforeIndexed' /\ PreviousKnown'
      BY <2>2, <2>3, <2>4, <2>6 DEF BuiltBeforeIndexed, PreviousKnown
    <2>8. BoundIsRetrievable'
      BY <2>5, <2>6 DEF VersionsInv, BoundIsRetrievable, IsRetrievable, TypeOK
    <2> QED BY <2>5, <2>7, <2>8 DEF VersionsInv, OneActiveVersion
  <1>3. CASE \E c \in Clients : Activate(c)
    <2>1. PICK c \in Clients : Activate(c)
      BY <1>3
    <2>2. /\ clients[c].pc = "activating" /\ clients[c].pc \in Publishers
          /\ clients'[c].pc = "finalizing"
          /\ clients'[c].file = clients[c].file
      BY <1>0, <2>1 DEF Activate, IsRequest, Publishers
    <2>3. VersionOf(c) \in Versions
      BY <1>a, <2>2, VersionStays
    <2>4. \A d \in Clients :
            clients'[d].pc \notin {"embedding", "replacing", "activating"}
      BY <1>0, <2>1, <2>2, OthersDoNotBuild DEF Activate
    <2>5. ASSUME NEW v \in Versions
          PROVE  /\ sets'[v].content = sets[v].content
                 /\ v = VersionOf(c) => /\ sets'[v].status = "PUBLISHED"
                                        /\ indexes'[v] = "PUBLISHED"
                 /\ v # VersionOf(c) =>
                      /\ indexes'[v] = indexes[v]
                      /\ sets'[v].status # "PUBLISHED"
                      /\ sets'[v].status \in {sets[v].status, "INACTIVE"}
      <3>1. CASE v = VersionOf(c)
        <4>1. v \notin clients[c].previous
          BY <2>2, <3>1 DEF VersionsInv, PreviousKnown
        <4> QED BY <2>1, <3>1, <4>1 DEF Activate, TypeOK
      <3>2. CASE v # VersionOf(c) /\ v \in clients[c].previous
        BY <2>1, <3>2 DEF Activate, TypeOK
      <3>3. CASE v # VersionOf(c) /\ v \notin clients[c].previous
        <4>1. sets[v].status # "PUBLISHED"
          BY <2>2, <3>3 DEF VersionsInv, PreviousKnown
        <4> QED BY <2>1, <3>3, <4>1 DEF Activate, TypeOK
      <3> QED BY <3>1, <3>2, <3>3
    <2>6. indexes[VersionOf(c)] # "PUBLISHED"
      BY <2>2 DEF VersionsInv, BuiltBeforeIndexed
    <2>7. BoundIsRetrievable'
      <3>1. bound' = bound
        BY <2>1 DEF Activate
      <3> QED BY <2>5, <2>6, <3>1 DEF VersionsInv, BoundIsRetrievable, IsRetrievable
    <2>8. OneActiveVersion'
      BY <2>5 DEF OneActiveVersion
    <2> QED BY <2>4, <2>7, <2>8 DEF VersionsInv, BuiltBeforeIndexed, PreviousKnown
  <1>4. ASSUME sets' = sets, indexes' = indexes
        PROVE  BuiltBeforeIndexed' /\ PreviousKnown' /\ OneActiveVersion'
    <2>1. ASSUME NEW c \in Clients, ReadPrevious(c)
          PROVE  /\ VersionOf(c)' = VersionOf(c) /\ clients[c].pc = "replacing"
                 /\ clients'[c].previous =
                      {v \in Versions \ {VersionOf(c)} : sets[v].status = "PUBLISHED"}
      <3>1. /\ clients[c].pc = "replacing" /\ clients[c].pc \in Publishers
            /\ clients'[c].file = clients[c].file
            /\ clients'[c].previous =
                 {v \in Versions \ {VersionOf(c)} : sets[v].status = "PUBLISHED"}
        <4>1. clients[c].pc = "replacing"
          BY <2>1 DEF ReadPrevious
        <4> DEFINE Seen == {v \in Versions \ {VersionOf(c)} : sets[v].status = "PUBLISHED"}
        <4>2. clients' = [clients EXCEPT ![c].pc = "activating", ![c].previous = Seen]
          BY <2>1 DEF ReadPrevious
        <4> HIDE DEF Seen
        <4>3. clients'[c].file = clients[c].file /\ clients'[c].previous = Seen
          <5>1. /\ clients'[c] = [clients[c] EXCEPT !.pc = "activating", !.previous = Seen]
                /\ clients[c] = [pc |-> clients[c].pc, file |-> clients[c].file,
                                 row |-> clients[c].row, seen |-> clients[c].seen,
                                 previous |-> clients[c].previous]
            BY <1>0, <4>2 DEF IsRequest
          <5> QED BY <5>1
        <4> QED BY <4>1, <4>3 DEF Seen, Publishers
      <3> QED BY <1>a, <3>1, VersionStays
    <2>2. ASSUME NEW c \in Clients, Prepare(c) \/ Embed(c),
                 clients'[c].pc \in {"embedding", "replacing", "activating"}
          PROVE  /\ clients'[c].pc # "activating"
                 /\ VersionOf(c)' = VersionOf(c) /\ indexes[VersionOf(c)] # "PUBLISHED"
      <3>1. CASE Prepare(c)
        <4>1. /\ clients[c].pc \in Publishers /\ clients'[c].file = clients[c].file
              /\ clients'[c].pc = "embedding" /\ ~IsReplayed(VersionOf(c))
          BY <1>0, <2>2, <3>1 DEF Prepare, IsRequest, Publishers
        <4> QED BY <1>a, <4>1, VersionStays DEF IsReplayed
      <3>2. CASE Embed(c)
        <4>1. /\ clients[c].pc \in Publishers /\ clients'[c].file = clients[c].file
              /\ clients[c].pc = "embedding" /\ clients'[c].pc # "activating"
          BY <1>0, <2>2, <3>2 DEF Embed, IsRequest, Publishers
        <4> QED BY <1>a, <4>1, VersionStays DEF VersionsInv, BuiltBeforeIndexed
      <3> QED BY <2>2, <3>1, <3>2
    <2>3. BuiltBeforeIndexed'
      BY <1>4, <1>b, <1>c, <2>1, <2>2 DEF VersionsInv, BuiltBeforeIndexed
    <2>4. PreviousKnown'
      BY <1>4, <1>b, <1>c, <2>1, <2>2 DEF VersionsInv, PreviousKnown
    <2> QED BY <1>4, <2>3, <2>4 DEF VersionsInv, OneActiveVersion
  <1>5. CASE \E v \in Versions : Deactivate(v)
    <2>1. PICK v \in Versions : Deactivate(v)
      BY <1>5
    <2>2. \A w \in Versions : /\ sets'[w].content = sets[w].content
                              /\ sets'[w].status \in {sets[w].status, "INACTIVE"}
      BY <2>1 DEF Deactivate, TypeOK
    <2>3. UNCHANGED <<files, indexes, bound, clients>>
      BY <2>1 DEF Deactivate
    <2>4. \A c \in Clients : VersionOf(c)' = VersionOf(c)
      BY <2>3 DEF VersionOf
    <2>5. BuiltBeforeIndexed' /\ PreviousKnown'
      BY <2>2, <2>3, <2>4 DEF VersionsInv, BuiltBeforeIndexed, PreviousKnown
    <2>6. OneActiveVersion' /\ BoundIsRetrievable'
      BY <2>2, <2>3
        DEF VersionsInv, OneActiveVersion, BoundIsRetrievable, IsRetrievable
    <2> QED BY <2>5, <2>6 DEF VersionsInv
  <1>6. CASE \E v \in Versions : Bind(v)
    <2>1. BoundIsRetrievable'
      BY <1>6 DEF Bind, VersionsInv, BoundIsRetrievable, IsRetrievable, TypeOK
    <2> QED BY <1>4, <1>6, <2>1 DEF Bind, VersionsInv
  <1>7. CASE UNCHANGED <<sets, indexes, bound>>
    <2>1. BoundIsRetrievable'
      BY <1>7 DEF VersionsInv, BoundIsRetrievable, IsRetrievable
    <2> QED BY <1>4, <1>7, <2>1 DEF VersionsInv
  <1> QED BY <1>1, <1>2, <1>3, <1>5, <1>6, <1>7
    DEF Next, BeginUpload, BeginReview, Publish, CommitEdit, PublisherStep, StartPublish,
        CheckContent, ReadPrevious, Finalize, Restore, Crash, vars

-----------------------------------------------------------------------------
(* Published files.                                                        *)

\* A review adds a revision to the row it has locked.
ReviewsAhead ==
  \A c \in Clients : clients[c].pc = "reviewing" =>
    clients[c].row.revision > files[clients[c].file].revision

OneReviewer ==
  \A c, d \in Clients :
    /\ clients[c].pc = "reviewing" /\ clients[d].pc = "reviewing"
    /\ clients[c].file = clients[d].file
    => c = d

\* The files of a manifest are of one version; one whose revision is still
\* the one that was read has the content that was read.
SameRevisionSameContent(row, read) ==
  /\ read.revision <= row.revision
  /\ read.revision = row.revision => read.content = row.content
ManifestRead ==
  \A c \in Clients : clients[c].pc \in Publishers =>
    \A g \in DOMAIN clients[c].seen :
      /\ files[g].version = VersionOf(c)
      /\ SameRevisionSameContent(files[g], clients[c].seen[g])

\* What is built, activated and finalized is the manifest of the request.
Built == {"embedding", "replacing", "activating", "finalizing"}
Holds(v, manifest) == sets[v].status # "ABSENT" /\ sets[v].content = manifest
ManifestBuilt ==
  \A c \in Clients :
    /\ clients[c].pc = "preparing" =>
         sets[VersionOf(c)].status = "ABSENT" \/ Holds(VersionOf(c), Manifest(c))
    /\ clients[c].pc \in Built => Holds(VersionOf(c), Manifest(c))
    /\ clients[c].pc = "finalizing" => IsRetrievable(VersionOf(c))

IndexedIsRetrievable ==
  \A v \in Versions : indexes[v] = "PUBLISHED" => IsRetrievable(v)

FilesInv == /\ ReviewsAhead
            /\ OneReviewer
            /\ ManifestRead
            /\ ManifestBuilt
            /\ IndexedIsRetrievable
            /\ PublishedFileIsIndexed

\* The analysis only writes its verdict, which is never that a file is
\* published.
LEMMA AnalysisJudges ==
  ASSUME NEW S \in SUBSET Files, NEW rows \in [S -> FileRows]
  PROVE  \A f \in S : /\ Reanalyzed(rows)[f].content = rows[f].content
                      /\ Reanalyzed(rows)[f].revision = rows[f].revision
                      /\ Reanalyzed(rows)[f].status # "PUBLISHED"
  <1>1. \A f \in S : InConflict(rows, f) \in BOOLEAN
    BY DEF InConflict, FileRows
  <1>2. ASSUME NEW f \in S
        PROVE  /\ Reanalyzed(rows)[f].content = rows[f].content
               /\ Reanalyzed(rows)[f].revision = rows[f].revision
               /\ Reanalyzed(rows)[f].status # "PUBLISHED"
    BY <1>1 DEF Reanalyzed, FileRows, FileStatuses
  <1> QED BY <1>2

LEMMA UpdateJudges ==
  ASSUME NEW row \in FileRows, NEW before \in FileRows, NEW after \in FileRows
  PROVE  /\ Updated(row, before, after).content = row.content
         /\ Updated(row, before, after).revision = row.revision
         /\ Updated(row, before, after).status \in {row.status, after.status}
  BY DEF Updated, FileRows

\* An edit changes the clauses of its own file only, and publishes none.
LEMMA EditJudges ==
  ASSUME TypeOK, ReadFilesExist, NEW c \in Clients, clients[c].pc \in Editors
  PROVE  /\ Analysis(c)[clients[c].file].content = clients[c].row.content
         /\ Analysis(c)[clients[c].file].revision = clients[c].row.revision
         /\ Analysis(c)[clients[c].file].status # "PUBLISHED"
         /\ \A g \in Writes(c) :
              LET row == Updated(files[g], clients[c].seen[g], Analysis(c)[g]) IN
              /\ row.content = files[g].content /\ row.revision = files[g].revision
              /\ row.status = "PUBLISHED" => files[g].status = "PUBLISHED"
  <1> DEFINE S == DOMAIN clients[c].seen \cup {clients[c].file}
             rows == [g \in S |-> IF g = clients[c].file THEN clients[c].row
                                  ELSE clients[c].seen[g]]
  <1>1. IsRequest(clients[c]) /\ clients[c].file \in Files
    BY DEF TypeOK, ReadFilesExist, ReadsExist, Editors
  <1>2. S \in SUBSET Files /\ rows \in [S -> FileRows]
    BY <1>1 DEF IsRequest
  <1>3. Analysis(c) = Reanalyzed(rows)
    BY DEF Analysis
  <1>4. /\ Analysis(c) \in [S -> FileRows]
        /\ \A f \in S : /\ Analysis(c)[f].content = rows[f].content
                        /\ Analysis(c)[f].revision = rows[f].revision
                        /\ Analysis(c)[f].status # "PUBLISHED"
    <2> HIDE DEF S, rows
    <2> QED BY <1>2, <1>3, AnalysisKeeps, AnalysisJudges
  <1>5. \A g \in Writes(c) : /\ g \in S /\ files[g] \in FileRows
                             /\ clients[c].seen[g] \in FileRows
    BY <1>1 DEF Writes, IsRequest, TypeOK
  <1>6. ASSUME NEW g \in Writes(c)
        PROVE  LET row == Updated(files[g], clients[c].seen[g], Analysis(c)[g]) IN
               /\ row.content = files[g].content /\ row.revision = files[g].revision
               /\ row.status = "PUBLISHED" => files[g].status = "PUBLISHED"
    <2>1. Analysis(c)[g] \in FileRows /\ Analysis(c)[g].status # "PUBLISHED"
      BY <1>4, <1>5
    <2> QED BY <2>1, <1>5, UpdateJudges
  <1>7. clients[c].file \in S /\ rows[clients[c].file] = clients[c].row
    OBVIOUS
  <1> HIDE DEF S, rows
  <1> QED BY <1>4, <1>6, <1>7

\* What a step does to a row: only a review changes its clauses, with a
\* revision added, and a row another request has locked keeps its revision.
RowsGrow ==
  \A f \in Files : Exists(f) => SameRevisionSameContent(files'[f], files[f])
LockedRowsKeep ==
  \A c \in Clients :
    clients[c].pc = "reviewing" /\ clients'[c] = clients[c] =>
      files'[clients[c].file].revision = files[clients[c].file].revision

\* Only the end of a publication shows a file as published.
Finalizes(c, f) ==
  /\ Finalize(c) /\ f \in DOMAIN clients[c].seen /\ IsUnchanged(c)
PublishedByFinalize ==
  \A f \in Files : files'[f].status = "PUBLISHED" =>
    /\ Exists(f) /\ files'[f].content = files[f].content
    /\ files[f].status = "PUBLISHED" \/ \E c \in Clients : Finalizes(c, f)

RowsStepped == RowsGrow /\ LockedRowsKeep /\ PublishedByFinalize

LEMMA EditRows ==
  ASSUME TypeOK, ReadFilesExist, ReviewsAhead, OneReviewer,
         NEW c \in Clients, CommitEdit(c)
  PROVE  RowsStepped
  <1>0. /\ clients[c].pc \in Editors /\ IsRequest(clients[c])
        /\ clients'[c] = Idle /\ clients[c].file \in Files
    BY DEF CommitEdit, TypeOK, ReadFilesExist, ReadsExist, Editors
  <1>t. \A f \in Files : files[f].revision \in Nat
    BY DEF TypeOK, FileRows
  <1>1. CASE UNCHANGED files
    BY <1>1, <1>t DEF RowsStepped, RowsGrow, LockedRowsKeep, PublishedByFinalize,
                      SameRevisionSameContent, Exists
  <1>2. CASE ~ UNCHANGED files
    <2>1. /\ \A g \in Writes(c) : ~LockedRow(g)
          /\ files' = [f \in Files |->
               CASE f = clients[c].file -> Analysis(c)[f]
                 [] f \in Writes(c) ->
                      Updated(files[f], clients[c].seen[f], Analysis(c)[f])
                 [] OTHER -> files[f]]
      BY <1>2 DEF CommitEdit
    <2>2. clients[c].file \notin Writes(c)
      BY <1>0 DEF Writes, ReadFilesExist, ReadsExist, Editors
    <2>3. \A f \in Files : f # clients[c].file =>
            /\ files'[f].content = files[f].content
            /\ files'[f].revision = files[f].revision
            /\ files'[f].status = "PUBLISHED" => files[f].status = "PUBLISHED"
      <3> SUFFICES ASSUME NEW f \in Files, f # clients[c].file
                   PROVE  /\ files'[f].content = files[f].content
                          /\ files'[f].revision = files[f].revision
                          /\ files'[f].status = "PUBLISHED" => files[f].status = "PUBLISHED"
        OBVIOUS
      <3>1. CASE f \in Writes(c)
        <4>1. files'[f] = Updated(files[f], clients[c].seen[f], Analysis(c)[f])
          BY <2>1, <3>1
        <4> QED BY <1>0, <3>1, <4>1, EditJudges
      <3>2. CASE f \notin Writes(c)
        <4>1. files'[f] = files[f]
          BY <2>1, <3>2
        <4> QED BY <4>1
      <3> QED BY <3>1, <3>2
    <2>4. /\ files'[clients[c].file].revision = clients[c].row.revision
          /\ files'[clients[c].file].status # "PUBLISHED"
      <3>1. files'[clients[c].file] = Analysis(c)[clients[c].file]
        BY <1>0, <2>1, <2>2
      <3> QED BY <1>0, <3>1, EditJudges
    <2>5. RowsGrow
      <3>1. Exists(clients[c].file) => clients[c].pc = "reviewing"
        BY <1>0 DEF Editors, ReadFilesExist, ReadsExist
      <3>2. Exists(clients[c].file) =>
              clients[c].row.revision > files[clients[c].file].revision
        BY <3>1 DEF ReviewsAhead
      <3>3. clients[c].row.revision \in Nat
        BY <1>0 DEF IsRequest, FileRows
      <3> QED BY <1>0, <1>t, <2>3, <2>4, <3>2, <3>3 DEF RowsGrow, SameRevisionSameContent
    <2>6. LockedRowsKeep
      <3> SUFFICES ASSUME NEW d \in Clients, clients[d].pc = "reviewing",
                          clients'[d] = clients[d]
                   PROVE  files'[clients[d].file].revision = files[clients[d].file].revision
        BY DEF LockedRowsKeep
      <3>1. clients[d].file # clients[c].file
        <4>1. c # d
          BY <1>0 DEF Idle
        <4>2. clients[c].pc = "uploading" => ~Exists(clients[c].file)
          BY DEF ReadFilesExist, ReadsExist
        <4>3. Exists(clients[d].file)
          BY DEF ReadFilesExist, ReadsExist
        <4> QED BY <1>0, <4>1, <4>2, <4>3 DEF OneReviewer, Editors
      <3>2. clients[d].file \in Files
        BY DEF ReadFilesExist, ReadsExist
      <3> QED BY <2>3, <3>1, <3>2
    <2>7. PublishedByFinalize
      BY <2>3, <2>4 DEF PublishedByFinalize, Exists
    <2> QED BY <2>5, <2>6, <2>7 DEF RowsStepped
  <1> QED BY <1>1, <1>2

LEMMA PublisherRows ==
  ASSUME TypeOK, ReadFilesExist, NEW c \in Clients,
         StartPublish(c) \/ Finalize(c) \/ Restore(c)
  PROVE  RowsStepped
  <1>t. \A f \in Files : files[f] \in FileRows /\ files[f].revision \in Nat
    BY DEF TypeOK, FileRows
  <1>r. \A d \in Clients : clients[d].pc = "reviewing" =>
          clients[d].file \in Files /\ Exists(clients[d].file)
    BY DEF ReadFilesExist, ReadsExist
  <1>1. CASE StartPublish(c) \/ Restore(c)
    <2>1. ASSUME NEW f \in Files
          PROVE  /\ files'[f].content = files[f].content
                 /\ files'[f].revision = files[f].revision
                 /\ files'[f].status = "PUBLISHED" => files[f].status = "PUBLISHED"
      <3>1. \/ files'[f] = files[f]
            \/ files'[f] = [files[f] EXCEPT !.status = "PUBLISHING"]
            \/ files'[f] = [files[f] EXCEPT !.status = "READY_TO_PUBLISH"]
        BY <1>1 DEF StartPublish, Restore
      <3> QED BY <1>t, <3>1 DEF FileRows
    <2> QED BY <1>t, <1>r, <2>1 DEF RowsStepped, RowsGrow, LockedRowsKeep,
      PublishedByFinalize, SameRevisionSameContent, Exists
  <1>2. CASE Finalize(c)
    <2>1. ASSUME NEW f \in Files
          PROVE  \/ files'[f] = files[f]
                 \/ /\ Finalizes(c, f) /\ ~LockedRow(f)
                    /\ files'[f].content = files[f].content
                    /\ files'[f].revision = files[f].revision + 1
      <3>1. \/ files'[f] = files[f]
            \/ /\ Finalizes(c, f) /\ ~LockedRow(f)
               /\ files'[f] = [files[f] EXCEPT !.status = "PUBLISHED", !.revision = @ + 1]
        BY <1>2 DEF Finalize, Finalizes
      <3> QED BY <1>t, <3>1 DEF FileRows
    <2>2. \A f \in Files : Finalizes(c, f) => Exists(f)
      BY DEF Finalizes, ReadFilesExist, ReadsExist
    <2>3. RowsGrow
      BY <1>t, <2>1 DEF RowsGrow, SameRevisionSameContent
    <2>4. LockedRowsKeep
      BY <1>r, <2>1 DEF LockedRowsKeep, LockedRow
    <2>5. PublishedByFinalize
      BY <2>1, <2>2 DEF PublishedByFinalize, Exists
    <2> QED BY <2>3, <2>4, <2>5 DEF RowsStepped
  <1> QED BY <1>1, <1>2

LEMMA RowsStep ==
  ASSUME TypeOK, ReadFilesExist, ReviewsAhead, OneReviewer, [Next]_vars
  PROVE  RowsStepped
  <1>1. CASE UNCHANGED files
    <2>1. \A f \in Files : files[f].revision \in Nat
      BY DEF TypeOK, FileRows
    <2> QED BY <1>1, <2>1 DEF RowsStepped, RowsGrow, LockedRowsKeep, PublishedByFinalize,
                              SameRevisionSameContent, Exists
  <1> QED BY <1>1, EditRows, PublisherRows
    DEF Next, BeginUpload, BeginReview, Publish, PublisherStep, CheckContent, Prepare,
        Embed, ReadPrevious, Activate, Crash, Deactivate, Bind, vars

\* The content of a version never changes, and a version that can be
\* retrieved stays so.
SetsKept ==
  \A v \in Versions :
    /\ sets[v].status # "ABSENT" =>
         sets'[v].status # "ABSENT" /\ sets'[v].content = sets[v].content
    /\ IsRetrievable(v) => IsRetrievable(v)'
AddedByPublisher ==
  \A v \in Versions : sets[v].status = "ABSENT" /\ sets'[v].status # "ABSENT" =>
    \E c \in Clients : Prepare(c) \/ Activate(c)

LEMMA SetsStep ==
  ASSUME TypeOK, ReadFilesExist, BuiltBeforeIndexed, PreviousKnown,
         IndexedIsRetrievable, [Next]_vars
  PROVE  SetsKept /\ AddedByPublisher /\ IndexedIsRetrievable'
  <1>1. CASE UNCHANGED <<sets, indexes>>
    BY <1>1 DEF SetsKept, AddedByPublisher, IndexedIsRetrievable, IsRetrievable
  <1>2. ASSUME NEW c \in Clients, Prepare(c)
        PROVE  SetsKept /\ AddedByPublisher /\ IndexedIsRetrievable'
    BY <1>2 DEF Prepare, IsReplayed, TypeOK, SetsKept, AddedByPublisher,
                IndexedIsRetrievable, IsRetrievable
  <1>3. ASSUME NEW c \in Clients, Embed(c)
        PROVE  SetsKept /\ AddedByPublisher /\ IndexedIsRetrievable'
    <2>1. indexes[VersionOf(c)] # "PUBLISHED"
      BY <1>3 DEF Embed, BuiltBeforeIndexed
    <2> QED BY <1>3, <2>1 DEF Embed, TypeOK, SetsKept, AddedByPublisher,
                              IndexedIsRetrievable, IsRetrievable
  <1>4. ASSUME NEW c \in Clients, Activate(c)
        PROVE  SetsKept /\ AddedByPublisher /\ IndexedIsRetrievable'
    <2>1. VersionOf(c) \in Versions
      BY <1>4 DEF Activate, TypeOK, FileRows, VersionOf, ReadFilesExist, ReadsExist,
                  Publishers
    <2>2. ASSUME NEW v \in Versions
          PROVE  /\ sets'[v].content = sets[v].content
                 /\ sets'[v].status \in {sets[v].status, "PUBLISHED", "INACTIVE"}
                 /\ v = VersionOf(c) => /\ sets'[v].status = "PUBLISHED"
                                        /\ indexes'[v] = "PUBLISHED"
                 /\ v # VersionOf(c) => indexes'[v] = indexes[v]
      <3>1. CASE v = VersionOf(c)
        <4>0. v \notin clients[c].previous
          BY <1>4, <3>1 DEF Activate, PreviousKnown
        <4>1. sets'[v] = [sets[v] EXCEPT !.status = "PUBLISHED"] /\ indexes'[v] = "PUBLISHED"
          BY <1>4, <3>1, <4>0 DEF Activate, TypeOK
        <4> QED BY <3>1, <4>1 DEF TypeOK
      <3>2. CASE v # VersionOf(c)
        <4>1. /\ sets'[v] \in {sets[v], [sets[v] EXCEPT !.status = "INACTIVE"]}
              /\ indexes'[v] = indexes[v]
          BY <1>4, <3>2 DEF Activate, TypeOK
        <4> QED BY <3>2, <4>1 DEF TypeOK
      <3> QED BY <3>1, <3>2
    <2> QED BY <1>4, <2>1, <2>2 DEF SetsKept, AddedByPublisher, IndexedIsRetrievable,
                                    IsRetrievable
  <1>5. ASSUME NEW v \in Versions, Deactivate(v)
        PROVE  SetsKept /\ AddedByPublisher /\ IndexedIsRetrievable'
    BY <1>5 DEF Deactivate, TypeOK, SetsKept, AddedByPublisher, IndexedIsRetrievable,
                IsRetrievable
  <1> QED BY <1>1, <1>2, <1>3, <1>4, <1>5
    DEF Next, BeginUpload, BeginReview, Publish, CommitEdit, PublisherStep, StartPublish,
        CheckContent, ReadPrevious, Finalize, Restore, Crash, Bind, vars

LEMMA ReviewsStep ==
  ASSUME TypeOK, ReadFilesExist, ReviewsAhead, OneReviewer, [Next]_vars
  PROVE  ReviewsAhead' /\ OneReviewer'
  <1>0. clients = [d \in Clients |-> clients[d]]
    BY DEF TypeOK
  <1>a. LockedRowsKeep
    BY RowsStep DEF RowsStepped
  <1>1. ASSUME NEW c \in Clients, clients'[c].pc = "reviewing"
        PROVE  \/ clients'[c] = clients[c]
               \/ \E f \in Files : BeginReview(c, f)
    <2>1. ASSUME NEW f \in Files, BeginUpload(c, f) \/ Publish(c, f)
          PROVE  clients'[c].pc \in {"uploading", "locked"}
      BY <2>1, BeginMoves
    <2>2. CASE StartPublish(c)
      BY <1>1, <2>2, StartPublishMoves
    <2>3. CASE Advances(c)
      BY <1>1, <2>3, AdvanceKeeps DEF Publishers
    <2> QED BY <1>1, <2>1, <2>2, <2>3, RequestStep DEF RequestSteps, Idle
  <1>2. ReviewsAhead'
    <2> SUFFICES ASSUME NEW c \in Clients, clients'[c].pc = "reviewing"
                 PROVE  clients'[c].row.revision > files'[clients'[c].file].revision
      BY DEF ReviewsAhead
    <2>1. CASE clients'[c] = clients[c]
      BY <1>a, <2>1 DEF ReviewsAhead, LockedRowsKeep
    <2>2. ASSUME NEW f \in Files, BeginReview(c, f)
          PROVE  clients'[c].row.revision > files'[clients'[c].file].revision
      <3>1. PICK content \in Contents, accepted \in BOOLEAN :
              clients' = [clients EXCEPT ![c] = [Idle EXCEPT
                !.pc = "reviewing", !.file = f,
                !.row = [files[f] EXCEPT !.content = content, !.accepted = accepted,
                                         !.revision = @ + 1],
                !.seen = [g \in Group([files[f] EXCEPT !.content = content,
                            !.accepted = accepted, !.revision = @ + 1].version) \ {f}
                            |-> files[g]]]]
        BY <2>2 DEF BeginReview
      <3>2. /\ clients'[c].file = f
            /\ clients'[c].row = [files[f] EXCEPT !.content = content,
                                    !.accepted = accepted, !.revision = @ + 1]
        BY <1>0, <3>1 DEF Idle
      <3>3. files[f] \in FileRows /\ files[f].revision \in Nat /\ files' = files
        BY <2>2 DEF BeginReview, TypeOK, FileRows
      <3>4. clients'[c].row.revision = files[f].revision + 1
        BY <3>2, <3>3 DEF FileRows
      <3> QED BY <3>2, <3>3, <3>4
    <2> QED BY <1>1, <2>1, <2>2
  <1>3. OneReviewer'
    <2>1. SUFFICES ASSUME NEW c \in Clients, NEW d \in Clients, c # d,
                          clients'[c].pc = "reviewing", clients'[d].pc = "reviewing",
                          clients'[c].file = clients'[d].file
                   PROVE  FALSE
      BY DEF OneReviewer
    <2>2. ASSUME NEW f \in Files, NEW a \in Clients, NEW b \in Clients, a # b,
                 BeginReview(a, f), clients'[b].pc = "reviewing"
          PROVE  clients'[a].file # clients'[b].file
      <3>1. clients'[a].file = f /\ clients'[b] = clients[b]
        BY <2>2, BeginMoves
      <3> QED BY <2>2, <3>1 DEF BeginReview, LockedRow
    <2> QED BY <1>1, <2>1, <2>2 DEF OneReviewer
  <1> QED BY <1>2, <1>3

\* A publisher read its manifest at the start, or begins with none.
LEMMA ManifestReadStep ==
  ASSUME TypeOK, ReadFilesExist, ReviewsAhead, OneReviewer, ManifestRead, [Next]_vars
  PROVE  ManifestRead'
  <1> SUFFICES ASSUME NEW c \in Clients, clients'[c].pc \in Publishers,
                      NEW g \in DOMAIN clients'[c].seen
               PROVE  /\ files'[g].version = VersionOf(c)'
                      /\ SameRevisionSameContent(files'[g], clients'[c].seen[g])
    BY DEF ManifestRead
  <1>0. IsRequest(clients[c]) /\ clients = [d \in Clients |-> clients[d]]
    BY DEF TypeOK
  <1>a. RowsGrow /\ FilesKept
    BY RowsStep, FilesStep DEF RowsStepped
  <1>1. ASSUME clients[c].pc \in Publishers, clients'[c].file = clients[c].file,
               clients'[c].seen = clients[c].seen
        PROVE  /\ files'[g].version = VersionOf(c)'
               /\ SameRevisionSameContent(files'[g], clients'[c].seen[g])
    <2>1. /\ files[g].version = VersionOf(c)
          /\ SameRevisionSameContent(files[g], clients[c].seen[g])
      BY <1>1 DEF ManifestRead
    <2>2. g \in Files /\ Exists(g)
      BY <1>0, <1>1 DEF IsRequest, ReadFilesExist, ReadsExist
    <2>3. files'[g].version = files[g].version /\ SameRevisionSameContent(files'[g], files[g])
      BY <1>a, <2>2 DEF FilesKept, RowsGrow
    <2>4. VersionOf(c)' = VersionOf(c)
      BY <1>1, <1>a, VersionStays
    <2>5. /\ files[g].revision \in Int /\ clients[c].seen[g].revision \in Int
          /\ files'[g].revision \in Int
      <3>1. TypeOK'
        BY TypeStep
      <3> QED BY <1>0, <1>1, <2>2, <3>1 DEF TypeOK, IsRequest, FileRows
    <2>6. SameRevisionSameContent(files'[g], clients[c].seen[g])
      BY <2>1, <2>3, <2>5 DEF SameRevisionSameContent
    <2> QED BY <1>1, <2>1, <2>3, <2>4, <2>6
  <1>2. ASSUME NEW f \in Files, BeginUpload(c, f) \/ BeginReview(c, f)
        PROVE  FALSE
    <2>1. clients'[c].pc \in {"uploading", "reviewing"}
      BY <1>2, BeginMoves
    <2> QED BY <2>1 DEF Publishers
  <1>3. ASSUME NEW f \in Files, Publish(c, f)
        PROVE  FALSE
    BY <1>0, <1>3 DEF Publish, Idle
  <1>4. CASE StartPublish(c)
    <2>1. /\ clients'[c].file = clients[c].file
          /\ clients'[c].seen = [h \in Group(VersionOf(c)) |-> files[h]]
      <3>1. ~ (clients' = [clients EXCEPT ![c] = Idle])
        BY <1>0 DEF Idle, Publishers
      <3>2. clients' = [clients EXCEPT ![c].pc = "checking",
              ![c].seen = [h \in Group(VersionOf(c)) |-> files[h]]]
        BY <1>4, <3>1 DEF StartPublish, VersionOf
      <3> QED BY <1>0, <3>2 DEF IsRequest
    <2>2. clients[c].pc \in Publishers
      BY <1>4 DEF StartPublish, Publishers
    <2>3. VersionOf(c)' = VersionOf(c)
      BY <1>a, <2>1, <2>2, VersionStays
    <2>4. g \in Group(VersionOf(c)) /\ clients'[c].seen[g] = files[g]
      BY <2>1
    <2>5. g \in Files /\ Exists(g) /\ files[g].version = VersionOf(c)
      BY <2>4 DEF Group, Exists
    <2> QED BY <1>a, <2>3, <2>4, <2>5 DEF FilesKept, RowsGrow
  <1>5. CASE Advances(c)
    BY <1>1, <1>5, AdvanceKeeps
  <1>6. CASE clients'[c] = clients[c]
    BY <1>1, <1>6
  <1> QED BY <1>2, <1>3, <1>4, <1>5, <1>6, RequestStep DEF RequestSteps, Idle, Publishers

LEMMA ManifestBuiltStep ==
  ASSUME PublicationInv, ManifestBuilt, IndexedIsRetrievable, [Next]_vars
  PROVE  ManifestBuilt'
  <1> TypeOK /\ ReadFilesExist /\ OnePublisher /\ BuiltBeforeIndexed /\ PreviousKnown
    BY DEF PublicationInv
  <1>s. SetsKept /\ AddedByPublisher /\ FilesKept
    BY SetsStep, FilesStep
  <1> SUFFICES ASSUME NEW c \in Clients
               PROVE  /\ clients'[c].pc = "preparing" =>
                           \/ sets'[VersionOf(c)'].status = "ABSENT"
                           \/ Holds(VersionOf(c), Manifest(c))'
                      /\ clients'[c].pc \in Built => Holds(VersionOf(c), Manifest(c))'
                      /\ clients'[c].pc = "finalizing" => IsRetrievable(VersionOf(c))'
    BY DEF ManifestBuilt
  <1> DEFINE Goal ==
        /\ clients'[c].pc = "preparing" =>
             \/ sets'[VersionOf(c)'].status = "ABSENT"
             \/ Holds(VersionOf(c), Manifest(c))'
        /\ clients'[c].pc \in Built => Holds(VersionOf(c), Manifest(c))'
        /\ clients'[c].pc = "finalizing" => IsRetrievable(VersionOf(c))'
  <1>0. IsRequest(clients[c]) /\ clients = [d \in Clients |-> clients[d]]
    BY DEF TypeOK
  \* What is read of the files is the same while the request goes on.
  <1>1. ASSUME clients[c].pc \in Publishers, clients'[c].file = clients[c].file,
               clients'[c].seen = clients[c].seen
        PROVE  /\ VersionOf(c) \in Versions /\ VersionOf(c)' = VersionOf(c)
               /\ Manifest(c)' = Manifest(c)
               /\ Holds(VersionOf(c), Manifest(c)) => Holds(VersionOf(c), Manifest(c))'
               /\ IsRetrievable(VersionOf(c)) => IsRetrievable(VersionOf(c))'
    <2>1. VersionOf(c) \in Versions /\ VersionOf(c)' = VersionOf(c)
      BY <1>s, <1>1, VersionStays
    <2>2. Manifest(c)' = Manifest(c)
      BY <1>1 DEF Manifest
    <2>3. Holds(VersionOf(c), Manifest(c)) => Holds(VersionOf(c), Manifest(c))'
      BY <1>s, <2>1, <2>2 DEF Holds, SetsKept
    <2>4. IsRetrievable(VersionOf(c)) => IsRetrievable(VersionOf(c))'
      BY <1>s, <2>1 DEF SetsKept, IsRetrievable
    <2> QED BY <2>1, <2>2, <2>3, <2>4
  <1>2. CASE clients'[c] = clients[c]
    <2>1. CASE clients[c].pc \in Built
      <3>1. clients[c].pc \in Publishers /\ clients[c].pc # "preparing"
        BY <2>1 DEF Built, Publishers
      <3> QED BY <1>1, <1>2, <2>1, <3>1 DEF ManifestBuilt
    <2>2. CASE clients[c].pc = "preparing"
      <3>1. clients[c].pc \in Publishers
        BY <2>2 DEF Publishers
      <3>2. ~ \E d \in Clients : Prepare(d) \/ Activate(d)
        <4> SUFFICES ASSUME NEW d \in Clients, Prepare(d) \/ Activate(d)
                     PROVE  FALSE
          OBVIOUS
        <4>1. clients[d].pc \in Publishers /\ clients'[d].pc # clients[d].pc
          BY AdvanceKeeps DEF Advances
        <4> QED BY <1>2, <3>1, <4>1 DEF OnePublisher
      <3>3. sets[VersionOf(c)].status = "ABSENT" => sets'[VersionOf(c)].status = "ABSENT"
        BY <1>1, <1>2, <1>s, <3>1, <3>2 DEF AddedByPublisher
      <3> QED BY <1>1, <1>2, <2>2, <3>1, <3>3 DEF ManifestBuilt, Built
    <2>3. CASE clients[c].pc \notin Built /\ clients[c].pc # "preparing"
      BY <1>2, <2>3 DEF Built
    <2> QED BY <2>1, <2>2, <2>3
  <1>3. CASE clients'[c] = Idle
    BY <1>3 DEF Idle, Built
  <1>4. ASSUME NEW f \in Files, BeginUpload(c, f) \/ BeginReview(c, f) \/ Publish(c, f)
        PROVE  Goal
    <2>1. clients'[c].pc \in {"uploading", "reviewing", "locked"}
      BY <1>4, BeginMoves
    <2> QED BY <2>1 DEF Built
  <1>5. CASE StartPublish(c)
    BY <1>5, StartPublishMoves DEF Built
  <1>6. CASE Advances(c)
    <2>1. /\ clients[c].pc \in Publishers /\ clients'[c].file = clients[c].file
          /\ clients'[c].seen = clients[c].seen
      BY <1>6, AdvanceKeeps
    <2>2. /\ VersionOf(c) \in Versions /\ VersionOf(c)' = VersionOf(c)
          /\ Manifest(c)' = Manifest(c)
          /\ Holds(VersionOf(c), Manifest(c)) => Holds(VersionOf(c), Manifest(c))'
          /\ IsRetrievable(VersionOf(c)) => IsRetrievable(VersionOf(c))'
      BY <1>1, <2>1
    <2>3. CASE CheckContent(c)
      <3>1. /\ clients'[c].pc \in {"restoring", "preparing"} /\ sets' = sets
            /\ clients'[c].pc = "preparing" =>
                 sets[VersionOf(c)].status = "ABSENT" \/ Holds(VersionOf(c), Manifest(c))
        BY <1>0, <2>3 DEF CheckContent, IsRequest, Holds
      <3> QED BY <2>2, <3>1 DEF Built
    <2>4. CASE Prepare(c)
      <3>1. /\ clients[c].pc = "preparing" /\ clients'[c].pc \in {"finalizing", "embedding"}
            /\ clients'[c].pc = "finalizing" => indexes[VersionOf(c)] = "PUBLISHED"
        BY <1>0, <2>4 DEF Prepare, IsRequest, IsReplayed
      <3>2. Holds(VersionOf(c), Manifest(c))'
        <4>1. CASE sets[VersionOf(c)].status = "ABSENT"
          <5>1. sets'[VersionOf(c)] = [status |-> "DRAFT", content |-> Manifest(c)]
            BY <2>2, <2>4, <4>1 DEF Prepare, TypeOK
          <5> QED BY <2>2, <5>1 DEF Holds
        <4>2. CASE sets[VersionOf(c)].status # "ABSENT"
          BY <2>2, <3>1, <4>2 DEF ManifestBuilt
        <4> QED BY <4>1, <4>2
      <3>3. clients'[c].pc = "finalizing" => IsRetrievable(VersionOf(c))'
        BY <2>2, <3>1 DEF IndexedIsRetrievable
      <3> QED BY <3>1, <3>2, <3>3 DEF Built
    <2>5. CASE Embed(c) \/ ReadPrevious(c)
      <3>1. /\ clients[c].pc \in Built
            /\ clients'[c].pc \in {"replacing", "activating", "restoring"}
        BY <1>0, <2>5 DEF Embed, ReadPrevious, IsRequest, Built
      <3> QED BY <2>2, <3>1 DEF ManifestBuilt, Built
    <2>6. CASE Activate(c)
      <3>1. clients[c].pc \in Built /\ clients'[c].pc = "finalizing"
        BY <1>0, <2>6 DEF Activate, IsRequest, Built
      <3>2. sets'[VersionOf(c)].status = "PUBLISHED" /\ indexes'[VersionOf(c)] = "PUBLISHED"
        <4>1. VersionOf(c) \notin clients[c].previous
          BY <2>6 DEF Activate, PreviousKnown
        <4> QED BY <2>2, <2>6, <4>1 DEF Activate, TypeOK
      <3> QED BY <2>2, <3>1, <3>2 DEF ManifestBuilt, IsRetrievable
    <2> QED BY <1>6, <2>3, <2>4, <2>5, <2>6 DEF Advances
  <1> QED BY <1>2, <1>3, <1>4, <1>5, <1>6, RequestStep DEF RequestSteps

LEMMA PublishedStep ==
  ASSUME PublicationInv, FilesInv, [Next]_vars
  PROVE  PublishedFileIsIndexed'
  <1> TypeOK /\ ReadFilesExist /\ BuiltBeforeIndexed /\ PreviousKnown /\ FilesInv
    BY DEF PublicationInv
  <1> SUFFICES ASSUME NEW f \in Files, files'[f].status = "PUBLISHED"
               PROVE  /\ <<f, files'[f].content>> \in sets'[files'[f].version].content
                      /\ IsRetrievable(files[f].version)'
    BY DEF PublishedFileIsIndexed
  <1>1. /\ Exists(f) /\ files'[f].content = files[f].content
        /\ files[f].status = "PUBLISHED" \/ \E c \in Clients : Finalizes(c, f)
    BY RowsStep DEF FilesInv, RowsStepped, PublishedByFinalize
  <1>2. files'[f].version = files[f].version /\ files[f].version \in Versions
    BY <1>1, FilesStep DEF FilesKept, TypeOK, FileRows
  <1>3. /\ IsRetrievable(files[f].version)
        /\ <<f, files[f].content>> \in sets[files[f].version].content
    <2>1. CASE files[f].status = "PUBLISHED"
      BY <2>1 DEF FilesInv, PublishedFileIsIndexed
    <2>2. ASSUME NEW c \in Clients, Finalizes(c, f)
          PROVE  /\ IsRetrievable(files[f].version)
                 /\ <<f, files[f].content>> \in sets[files[f].version].content
      <3>1. /\ clients[c].pc = "finalizing" /\ f \in DOMAIN clients[c].seen
            /\ files[f].revision = clients[c].seen[f].revision
        BY <2>2 DEF Finalizes, Finalize, IsUnchanged
      <3>2. /\ files[f].version = VersionOf(c)
            /\ files[f].content = clients[c].seen[f].content
        BY <3>1 DEF FilesInv, ManifestRead, SameRevisionSameContent, Publishers
      <3>3. <<f, clients[c].seen[f].content>> \in Manifest(c)
        BY <3>1 DEF Manifest
      <3>4. Holds(VersionOf(c), Manifest(c)) /\ IsRetrievable(VersionOf(c))
        BY <3>1 DEF FilesInv, ManifestBuilt, Built
      <3> QED BY <3>2, <3>3, <3>4 DEF Holds
    <2> QED BY <1>1, <2>1, <2>2
  <1>4. SetsKept
    BY SetsStep DEF FilesInv
  <1>5. /\ sets'[files[f].version].content = sets[files[f].version].content
        /\ IsRetrievable(files[f].version)'
    <2>1. sets[files[f].version].status # "ABSENT"
      BY <1>3 DEF IsRetrievable
    <2>2. sets'[files[f].version].content = sets[files[f].version].content
      BY <1>2, <1>4, <2>1 DEF SetsKept
    <2> DEFINE v == files[f].version
    <2>3. v \in Versions /\ IsRetrievable(v)
      BY <1>2, <1>3
    <2> HIDE DEF v
    <2>4. /\ sets'[v].status \in {"PUBLISHED", "INACTIVE"} /\ indexes'[v] = "PUBLISHED"
      BY <1>4, <2>3 DEF SetsKept, IsRetrievable
    <2> QED BY <1>2, <2>2, <2>4 DEF v, IsRetrievable
  <1> QED BY <1>1, <1>2, <1>3, <1>5

LEMMA FilesInvStep == PublicationInv /\ FilesInv /\ [Next]_vars => FilesInv'
  BY ReviewsStep, ManifestReadStep, ManifestBuiltStep, SetsStep, PublishedStep
    DEF FilesInv, PublicationInv

-----------------------------------------------------------------------------
(* The theorems.                                                           *)

LEMMA PublicationInit == Init => PublicationInv
  <1> SUFFICES ASSUME Init
               PROVE  PublicationInv
    OBVIOUS
  <1>1. TypeOK
    BY NoRowType, IdleType DEF Init, TypeOK, SetStatuses, IndexStatuses
  <1>2. ReadFilesExist /\ OneUploader /\ OnePublisher
    BY DEF Init, ReadFilesExist, ReadsExist, OneUploader, OnePublisher, Idle, Publishers
  <1>3. BuiltBeforeIndexed /\ PreviousKnown
    BY DEF Init, BuiltBeforeIndexed, PreviousKnown, Idle
  <1>4. OneActiveVersion /\ BoundIsRetrievable
    BY DEF Init, OneActiveVersion, BoundIsRetrievable
  <1> QED BY <1>1, <1>2, <1>3, <1>4 DEF PublicationInv

LEMMA PublicationStep == PublicationInv /\ [Next]_vars => PublicationInv'
  BY TypeStep, ReadsStep, ExclusionStep, VersionsStep DEF PublicationInv, VersionsInv

\* However many versions of a policy set are published at the same time, and
\* wherever a process ends, at most one is active (_publication_lock and the
\* last transaction of import_loaded).
THEOREM OneActive == Spec => []OneActiveVersion
  <1>1. PublicationInv => OneActiveVersion
    BY DEF PublicationInv
  <1> QED BY <1>1, PublicationInit, PublicationStep, PTL DEF Spec

\* What a task was bound to stays what the retrieval finds, whatever is
\* published again, deactivated or interrupted (require_active_binding,
\* import_loaded).
THEOREM BoundStays == Spec => []BoundIsRetrievable
  <1>1. PublicationInv => BoundIsRetrievable
    BY DEF PublicationInv
  <1> QED BY <1>1, PublicationInit, PublicationStep, PTL DEF Spec

\* Whatever edits, crashes and other publications come between the
\* transactions of a publication, a file shown as published is in its version,
\* with the clauses its last review left (_publish_locked and
\* _require_revision).
THEOREM PublishedIsIndexed == Spec => []PublishedFileIsIndexed
  <1>1. Init => FilesInv
    <2> SUFFICES ASSUME Init
                 PROVE  FilesInv
      OBVIOUS
    <2>1. /\ \A c \in Clients : clients[c].pc = "idle"
          /\ \A f \in Files : files[f].status = "ABSENT"
          /\ \A v \in Versions : indexes[v] = "ABSENT"
      BY DEF Init, Idle, NoRow
    <2> QED BY <2>1 DEF FilesInv, ReviewsAhead, OneReviewer, ManifestRead, ManifestBuilt,
                        IndexedIsRetrievable, PublishedFileIsIndexed, Built, Publishers
  <1>2. FilesInv => PublishedFileIsIndexed
    BY DEF FilesInv
  <1> QED BY <1>1, <1>2, PublicationInit, PublicationStep, FilesInvStep, PTL DEF Spec

-----------------------------------------------------------------------------
(* The library a policy set implements.                                    *)

Text == [v \in Retrievable |-> sets[v].content]

\* A step that neither publishes nor deactivates nor binds a version is not
\* seen by the tasks.
LEMMA Unseen ==
  ASSUME UNCHANGED <<Retrievable, Active, Used>>,
         \A v \in Retrievable : sets'[v].content = sets[v].content
  PROVE  [Library!Next]_(Library!shelf)
  <1>1. [v \in Retrievable |-> sets[v].content]' = [v \in Retrievable |-> sets[v].content]
    OBVIOUS
  <1> QED BY <1>1 DEF Library!shelf

\* The last transaction of an import publishes the version.
LEMMA ActivatePublishes ==
  ASSUME PublicationInv, IndexedIsRetrievable, SetsKept, NEW c \in Clients, Activate(c)
  PROVE  Library!Next
  <1> DEFINE v == VersionOf(c)
  <1>1. TypeOK /\ ReadFilesExist /\ BuiltBeforeIndexed /\ PreviousKnown
    BY DEF PublicationInv
  <1>2. v \in Versions /\ clients[c].pc = "activating"
    BY <1>1 DEF Activate, TypeOK, FileRows, VersionOf, ReadFilesExist, ReadsExist, Publishers
  <1>3. v \notin Retrievable
    BY <1>1, <1>2 DEF BuiltBeforeIndexed, Retrievable, IsRetrievable
  <1>4. ASSUME NEW w \in Versions
        PROVE  /\ w \in Retrievable' <=> w \in Retrievable \/ w = v
               /\ w \in Active' <=> w = v
    <2>1. CASE w = v
      <3>1. v \notin clients[c].previous
        BY <1>1, <1>2 DEF PreviousKnown
      <3>2. sets'[v].status = "PUBLISHED" /\ indexes'[v] = "PUBLISHED"
        BY <1>1, <1>2, <3>1 DEF Activate, TypeOK
      <3> QED BY <2>1, <3>2 DEF Retrievable, IsRetrievable, Active
    <2>2. CASE w # v
      <3>1. indexes'[w] = indexes[w]
        BY <1>1, <2>2 DEF Activate, TypeOK
      <3>2. sets'[w] \in {sets[w], [sets[w] EXCEPT !.status = "INACTIVE"]}
        BY <1>1, <2>2 DEF Activate, TypeOK
      <3>3. sets'[w].status # "PUBLISHED"
        <4>1. CASE w \in clients[c].previous
          BY <1>1, <2>2, <4>1 DEF Activate, TypeOK
        <4>2. CASE w \notin clients[c].previous
          <5>1. sets[w].status # "PUBLISHED"
            BY <1>1, <1>2, <2>2, <4>2 DEF PreviousKnown
          <5> QED BY <1>1, <2>2, <4>2, <5>1 DEF Activate, TypeOK
        <4> QED BY <4>1, <4>2
      <3>4. w \in Retrievable => w \in Retrievable'
        BY DEF SetsKept, Retrievable
      <3>5. w \in Retrievable' => w \in Retrievable
        BY <3>1 DEF IndexedIsRetrievable, Retrievable, IsRetrievable
      <3> QED BY <2>2, <3>3, <3>4, <3>5 DEF Active
    <2> QED BY <2>1, <2>2
  <1>5. Retrievable' = Retrievable \cup {v} /\ Active' = {v}
    BY <1>2, <1>4 DEF Retrievable, Active
  <1>6. Used' = Used
    BY DEF Activate, Used
  <1>7. \A w \in Retrievable : sets'[w].content = sets[w].content
    BY DEF SetsKept, Retrievable, IsRetrievable
  <1>8. /\ v \notin DOMAIN Text
        /\ DOMAIN Text' = DOMAIN Text \cup {v}
        /\ \A w \in DOMAIN Text : Text'[w] = Text[w]
    BY <1>3, <1>5, <1>7 DEF Text
  <1>9. PICK w \in Versions : w = v
    BY <1>2
  <1> HIDE DEF v
  <1>10. Library!Publish(w)
    BY <1>5, <1>6, <1>8, <1>9 DEF Library!Publish, Text
  <1> QED BY <1>10 DEF Library!Next

LEMMA LibraryStep ==
  ASSUME PublicationInv, IndexedIsRetrievable, [Next]_vars
  PROVE  [Library!Next]_(Library!shelf)
  <1>1. /\ TypeOK /\ ReadFilesExist /\ BuiltBeforeIndexed /\ PreviousKnown
        /\ OneActiveVersion
    BY DEF PublicationInv
  <1>2. SetsKept
    BY <1>1, SetsStep
  <1>3. \A v \in Retrievable : sets'[v].content = sets[v].content
    BY <1>2 DEF SetsKept, Retrievable, IsRetrievable
  <1>4. CASE UNCHANGED <<sets, indexes, bound>>
    <2>1. UNCHANGED <<Retrievable, Active, Used>>
      BY <1>4 DEF Retrievable, IsRetrievable, Active, Used
    <2> QED BY <1>3, <2>1, Unseen
  <1>5. ASSUME NEW c \in Clients, Prepare(c)
        PROVE  [Library!Next]_(Library!shelf)
    <2>1. ASSUME NEW v \in Versions
          PROVE  /\ IsRetrievable(v)' <=> IsRetrievable(v)
                 /\ sets'[v].status = "PUBLISHED" <=> sets[v].status = "PUBLISHED"
      BY <1>1, <1>5 DEF Prepare, IsReplayed, TypeOK, IsRetrievable
    <2>2. UNCHANGED <<Retrievable, Active, Used>>
      BY <1>5, <2>1 DEF Prepare, Retrievable, Active, Used
    <2> QED BY <1>3, <2>2, Unseen
  <1>6. ASSUME NEW c \in Clients, Embed(c)
        PROVE  [Library!Next]_(Library!shelf)
    <2>1. indexes[VersionOf(c)] # "PUBLISHED"
      BY <1>1, <1>6 DEF Embed, BuiltBeforeIndexed
    <2>2. \A v \in Versions : indexes'[v] = "PUBLISHED" <=> indexes[v] = "PUBLISHED"
      BY <1>1, <1>6, <2>1 DEF Embed, TypeOK
    <2>3. UNCHANGED <<Retrievable, Active, Used>>
      BY <1>6, <2>2 DEF Embed, Retrievable, IsRetrievable, Active, Used
    <2> QED BY <1>3, <2>3, Unseen
  <1>7. ASSUME NEW c \in Clients, Activate(c)
        PROVE  [Library!Next]_(Library!shelf)
    BY <1>2, <1>7, ActivatePublishes
  <1>8. ASSUME NEW v \in Versions, Deactivate(v)
        PROVE  [Library!Next]_(Library!shelf)
    <2>1. \A w \in Versions :
            /\ sets'[w] = IF w = v THEN [sets[w] EXCEPT !.status = "INACTIVE"] ELSE sets[w]
            /\ indexes'[w] = indexes[w] /\ bound'[w] = bound[w]
      BY <1>1, <1>8 DEF Deactivate, TypeOK
    <2>2. sets'[v].status = "INACTIVE"
      BY <1>1, <2>1 DEF TypeOK
    <2>3. Active' = Active \ {v} /\ Used' = Used
      BY <2>1, <2>2 DEF Active, Used
    <2>4. Retrievable' = Retrievable
      BY <1>8, <2>1, <2>2 DEF Deactivate, Retrievable, IsRetrievable
    <2>5. CASE v \notin Active
      BY <1>3, <2>3, <2>4, <2>5, Unseen
    <2>6. CASE v \in Active
      <3>1. Active = {v}
        BY <1>1, <2>6 DEF Active, OneActiveVersion
      <3>2. Text' = Text
        BY <1>3, <2>4 DEF Text
      <3>3. Library!Deactivate
        BY <2>3, <3>1, <3>2 DEF Library!Deactivate, Text
      <3> QED BY <3>3 DEF Library!Next
    <2> QED BY <2>5, <2>6
  <1>9. ASSUME NEW v \in Versions, Bind(v)
        PROVE  [Library!Next]_(Library!shelf)
    <2>1. UNCHANGED <<Retrievable, Active>>
      BY <1>9 DEF Bind, Retrievable, IsRetrievable, Active
    <2>2. Active = {v}
      BY <1>1, <1>9 DEF Bind, Active, OneActiveVersion
    <2>3. Used' \in {Used, Used \cup {v}}
      BY <1>1, <1>9 DEF Bind, Used, TypeOK
    <2>4. Text' = Text
      BY <1>3, <2>1 DEF Text
    <2>5. CASE Used' = Used
      BY <1>3, <2>1, <2>5, Unseen
    <2>6. CASE Used' = Used \cup {v}
      BY <2>1, <2>2, <2>4, <2>6 DEF Library!Bind, Library!Next, Text
    <2> QED BY <2>3, <2>5, <2>6
  <1> QED BY <1>4, <1>5, <1>6, <1>7, <1>8, <1>9
    DEF Next, BeginUpload, BeginReview, Publish, CommitEdit, PublisherStep, StartPublish,
        CheckContent, ReadPrevious, Finalize, Restore, Crash, vars

LEMMA LibraryInit == Init => IndexedIsRetrievable /\ Library!Init
  <1> SUFFICES ASSUME Init
               PROVE  IndexedIsRetrievable /\ Library!Init
    OBVIOUS
  <1>1. \A v \in Versions :
          sets[v].status = "ABSENT" /\ indexes[v] = "ABSENT" /\ bound[v] = {}
    BY DEF Init
  <1>2. Retrievable = {} /\ Active = {} /\ Used = {}
    BY <1>1 DEF Retrievable, IsRetrievable, Active, Used
  <1>3. [v \in Retrievable |-> sets[v].content] = [v \in {} |-> {}]
    BY <1>2
  <1> QED BY <1>1, <1>2, <1>3 DEF IndexedIsRetrievable, Library!Init

\* However the transactions of several publications, edits and crashes are
\* interleaved, the tasks see versions that are published in one step, one
\* after the other and each of them once (_publish_locked, import_loaded,
\* deactivate_policy_set, require_active_binding).
THEOREM LibraryImplemented == Spec => ImplementsLibrary
  <1> DEFINE Inv == PublicationInv /\ IndexedIsRetrievable
  <1>1. Init => Inv /\ Library!Init
    BY PublicationInit, LibraryInit
  <1>2. Inv /\ [Next]_vars => Inv' /\ [Library!Next]_(Library!shelf)
    BY PublicationStep, SetsStep, LibraryStep DEF PublicationInv
  <1> HIDE DEF Inv
  <1> QED BY <1>1, <1>2, PTL DEF Spec, ImplementsLibrary, Library!Spec

\* So the version a task was bound to, and the one a new task is bound to, can
\* always be retrieved, and there is one such version at most
\* (load_published_clauses).
THEOREM LibraryIsKept == Spec => []Library!IsKept
  <1>1. Library!Init => Library!IsKept
    BY DEF Library!Init, Library!IsKept
  <1>2. ASSUME Library!IsKept, [Library!Next]_(Library!shelf)
        PROVE  Library!IsKept'
    <2>1. CASE UNCHANGED Library!shelf
      BY <1>2, <2>1 DEF Library!IsKept, Library!shelf
    <2>2. CASE \E v \in Versions : Library!Publish(v)
      BY <1>2, <2>2 DEF Library!IsKept, Library!Publish
    <2>3. CASE \E v \in Versions : Library!Bind(v)
      BY <1>2, <2>3 DEF Library!IsKept, Library!Bind
    <2>4. CASE Library!Deactivate
      BY <1>2, <2>4 DEF Library!IsKept, Library!Deactivate
    <2> QED BY <1>2, <2>1, <2>2, <2>3, <2>4 DEF Library!Next
  <1>3. Library!Spec => []Library!IsKept
    BY <1>1, <1>2, PTL DEF Library!Spec
  <1> QED BY <1>3, LibraryImplemented, PTL DEF ImplementsLibrary
=============================================================================
