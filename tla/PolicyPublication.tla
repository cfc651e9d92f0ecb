------------------------- MODULE PolicyPublication -------------------------
(***************************************************************************)
(* The files of one policy set: uploaded, reviewed, published as a version *)
(* of the set and bound to tasks (rag/uploads.py, rag/importer.py).        *)
(*                                                                         *)
(* A file belongs to a version.  Its clauses are one content: files of one *)
(* version whose accepted contents differ state conflicting rules.  An     *)
(* upload or a review reads the group of unpublished files of the version  *)
(* without locking it, analyses it again and writes what changed.  A       *)
(* publication holds one lock for the whole set and runs through several   *)
(* transactions, between which editors, other requests and the end of the  *)
(* process may come.                                                       *)
(***************************************************************************)
EXTENDS Integers, FiniteSets

CONSTANTS
  Clients,       \* the requests that run at the same time
  Files,         \* numbers of policy_file_imports rows, from 1
  Versions,      \* policy_set_version values of the set
  Contents,      \* what the clauses of a file may say
  MaxRevision    \* bound: revisions of a file

ASSUME ConstantsAssumption ==
  /\ Clients # {} /\ Files \subseteq Nat \ {0}
  /\ Versions # {} /\ Contents # {}
  /\ MaxRevision \in Nat \ {0}

VARIABLES
  files,      \* policy_file_imports with their clauses
  sets,       \* policy_sets: the status and the content of each version
  indexes,    \* policy_indexes: the status of the index of each version
  bound,      \* the content each version had when a task was first bound to it
  clients     \* where each request is, and what it has read

vars == <<files, sets, indexes, bound, clients>>

FileStatuses  == {"ABSENT", "REVIEW_REQUIRED", "READY_TO_PUBLISH",
                  "PUBLISHING", "PUBLISHED"}
SetStatuses   == {"ABSENT", "DRAFT", "PUBLISHED", "INACTIVE"}
IndexStatuses == {"ABSENT", "BUILDING", "FAILED", "PUBLISHED"}

FileRows == [version : Versions, content : Contents, accepted : BOOLEAN,
             conflict : BOOLEAN, revision : Nat,
             status : FileStatuses]

Publishers == {"locked", "checking", "preparing", "embedding", "replacing",
               "activating", "restoring", "finalizing"}
Editors    == {"uploading", "reviewing"}

NoRow == [version |-> CHOOSE v \in Versions : TRUE,
          content |-> CHOOSE c \in Contents : TRUE,
          accepted |-> FALSE, conflict |-> FALSE, revision |-> 0,
          status |-> "ABSENT"]
Idle  == [pc |-> "idle", file |-> 0, row |-> NoRow,
          seen |-> [f \in {} |-> NoRow], previous |-> {}]

Init ==
  /\ files = [f \in Files |-> NoRow]
  /\ sets = [v \in Versions |-> [status |-> "ABSENT", content |-> {}]]
  /\ indexes = [v \in Versions |-> "ABSENT"]
  /\ bound = [v \in Versions |-> {}]
  /\ clients = [c \in Clients |-> Idle]

-----------------------------------------------------------------------------
(* The group of a version and its analysis.                                *)

\* The files a publication of the version would take.
Group(v) ==
  {f \in Files : files[f].version = v /\ files[f].status \notin {"ABSENT", "PUBLISHED"}}

\* CONFLICTING_RULE: two accepted clauses with one key and two meanings.
InConflict(rows, f) ==
  /\ rows[f].accepted
  /\ \E g \in DOMAIN rows : rows[g].accepted /\ rows[g].content # rows[f].content

\* _reanalyze_policy_group, on the rows a session has read.
Reanalyzed(rows) ==
  [f \in DOMAIN rows |->
     [rows[f] EXCEPT
        !.conflict = InConflict(rows, f),
        !.status = IF @ = "PUBLISHING" THEN @
                   ELSE IF rows[f].accepted /\ ~InConflict(rows, f)
                        THEN "READY_TO_PUBLISH" ELSE "REVIEW_REQUIRED"]]

\* A review holds the row of its file until it commits.
LockedRow(f) ==
  \E c \in Clients : clients[c].pc = "reviewing" /\ clients[c].file = f

\* What an edit writes to the other rows of the group: the session only
\* updates the columns that differ from what it read.
Touches(before, after) ==
  before.conflict # after.conflict \/ before.status # after.status
Updated(row, before, after) ==
  [row EXCEPT
     !.conflict = IF before.conflict # after.conflict THEN after.conflict ELSE @,
     !.status   = IF before.status # after.status THEN after.status ELSE @]

\* The clauses are deleted and inserted again by a review; a publication
\* increments the revision and leaves them.
ClausesOf(row) ==
  IF row.status = "PUBLISHED" THEN row.revision - 1 ELSE row.revision

-----------------------------------------------------------------------------
(* Uploads and reviews.                                                    *)

\* upload_stream up to the analysis of the group with the new file.
BeginUpload(c, f) ==
  /\ clients[c].pc = "idle" /\ files[f].status = "ABSENT"
  /\ \A d \in Clients : clients[d].pc = "uploading" => clients[d].file # f
  /\ \E v \in Versions, content \in Contents, accepted \in BOOLEAN :
       LET row == [version |-> v, content |-> content, accepted |-> accepted,
                   conflict |-> FALSE, revision |-> 1,
                   status |-> IF accepted THEN "READY_TO_PUBLISH" ELSE "REVIEW_REQUIRED"]
       IN clients' = [clients EXCEPT ![c] = [Idle EXCEPT
                        !.pc = "uploading", !.file = f, !.row = row,
                        !.seen = [g \in Group(v) |-> files[g]]]]
  /\ UNCHANGED <<files, sets, indexes, bound>>

\* replace_clauses up to the analysis; the row is locked and its revision
\* was compared.
BeginReview(c, f) ==
  /\ clients[c].pc = "idle"
  /\ files[f].status \in {"REVIEW_REQUIRED", "READY_TO_PUBLISH"}
  /\ files[f].revision < MaxRevision
  /\ ~LockedRow(f)
  /\ \E content \in Contents, accepted \in BOOLEAN :
       LET row == [files[f] EXCEPT !.content = content, !.accepted = accepted,
                                   !.revision = @ + 1]
       IN clients' = [clients EXCEPT ![c] = [Idle EXCEPT
                        !.pc = "reviewing", !.file = f, !.row = row,
                        !.seen = [g \in Group(row.version) \ {f} |-> files[g]]]]
  /\ UNCHANGED <<files, sets, indexes, bound>>

Analysis(c) ==
  Reanalyzed([g \in DOMAIN clients[c].seen \cup {clients[c].file} |->
                IF g = clients[c].file THEN clients[c].row ELSE clients[c].seen[g]])
Writes(c) ==
  {g \in DOMAIN clients[c].seen : Touches(clients[c].seen[g], Analysis(c)[g])}

\* A clause another review has replaced cannot be updated any more
\* (StaleDataError), and two reviews that write each other's file are a
\* deadlock, of which the database ends one: the request fails.
EditFails(c) ==
  \/ \E g \in Writes(c) :
       /\ clients[c].seen[g].conflict # Analysis(c)[g].conflict
       /\ ClausesOf(files[g]) # clients[c].seen[g].revision
  \/ \E d \in Clients \ {c} :
       /\ clients[c].pc = "reviewing" /\ clients[d].pc = "reviewing"
       /\ clients[d].file \in Writes(c) /\ clients[c].file \in Writes(d)

CommitEdit(c) ==
  /\ clients[c].pc \in Editors
  /\ clients' = [clients EXCEPT ![c] = Idle]
  /\ \/ EditFails(c) /\ UNCHANGED files
     \/ /\ ~EditFails(c)
        /\ \A g \in Writes(c) : ~LockedRow(g)
        /\ files' = [f \in Files |->
             CASE f = clients[c].file -> Analysis(c)[f]
               [] f \in Writes(c) -> Updated(files[f], clients[c].seen[f], Analysis(c)[f])
               [] OTHER -> files[f]]
  /\ UNCHANGED <<sets, indexes, bound>>

-----------------------------------------------------------------------------
(* Publication.                                                            *)

\* Mutant: the lock is taken for the file and not for its policy set.
BugPerImport(f) == f

\* _publication_lock: the key of the advisory lock, the policy_set_id, which
\* all the files here share.
LockKey(f) == 0

Publish(c, f) ==
  /\ clients[c].pc = "idle" /\ files[f].status # "ABSENT"
  /\ \A d \in Clients :
       clients[d].pc \in Publishers => LockKey(clients[d].file) # LockKey(f)
  /\ clients' = [clients EXCEPT ![c] =
                   [Idle EXCEPT !.pc = "locked", !.file = f, !.row = files[f]]]
  /\ UNCHANGED <<files, sets, indexes, bound>>

\* The first transaction of _publish_locked: the group is locked and every
\* file of it, and every clause of the manifest, is ready.
IsReady(v) ==
  \A g \in Group(v) :
    /\ files[g].status \in {"READY_TO_PUBLISH", "PUBLISHING"}
    /\ files[g].accepted /\ ~files[g].conflict

StartPublish(c) ==
  LET f == clients[c].file
      v == files[f].version
  IN /\ clients[c].pc = "locked"
     /\ \A g \in Group(v) : ~LockedRow(g)
     /\ \/ /\ files[f].revision = clients[c].row.revision
           /\ f \in Group(v) /\ IsReady(v)
           /\ files' = [g \in Files |->
                IF g \in Group(v) THEN [files[g] EXCEPT !.status = "PUBLISHING"]
                ELSE files[g]]
           /\ clients' = [clients EXCEPT ![c].pc = "checking",
                            ![c].seen = [g \in Group(v) |-> files[g]]]
        \/ /\ files[f].revision = clients[c].row.revision
              => f \notin Group(v) \/ ~IsReady(v)
           /\ clients' = [clients EXCEPT ![c] = Idle]
           /\ UNCHANGED files
     /\ UNCHANGED <<sets, indexes, bound>>

VersionOf(c) == files[clients[c].file].version
Manifest(c)  == {<<g, clients[c].seen[g].content>> : g \in DOMAIN clients[c].seen}

\* import_loaded: a version that exists keeps its content.
CheckContent(c) ==
  LET v == VersionOf(c) IN
  /\ clients[c].pc = "checking"
  /\ clients' = [clients EXCEPT ![c].pc =
       IF sets[v].status # "ABSENT" /\ sets[v].content # Manifest(c)
       THEN "restoring" ELSE "preparing"]
  /\ UNCHANGED <<files, sets, indexes, bound>>

\* Mutant: a version is built again whenever it is published again.
BugRebuilds(v) == FALSE

\* The index was published before, by a request that did not finish.
IsReplayed(v) == indexes[v] = "PUBLISHED"

Prepare(c) ==
  LET v == VersionOf(c) IN
  /\ clients[c].pc = "preparing"
  /\ sets' = IF sets[v].status # "ABSENT" THEN sets
             ELSE [sets EXCEPT ![v] = [status |-> "DRAFT", content |-> Manifest(c)]]
  /\ indexes' = IF IsReplayed(v) THEN indexes ELSE [indexes EXCEPT ![v] = "BUILDING"]
  /\ clients' = [clients EXCEPT ![c].pc =
       IF IsReplayed(v) THEN "finalizing" ELSE "embedding"]
  /\ UNCHANGED <<files, bound>>

\* The embedding service answers, or the import fails.
Embed(c) ==
  /\ clients[c].pc = "embedding"
  /\ \/ clients' = [clients EXCEPT ![c].pc = "replacing"] /\ UNCHANGED indexes
     \/ /\ indexes' = [indexes EXCEPT ![VersionOf(c)] = "FAILED"]
        /\ clients' = [clients EXCEPT ![c].pc = "restoring"]
  /\ UNCHANGED <<files, sets, bound>>

\* The last transaction of the import reads the versions it replaces, and
\* commits them with its own.
ReadPrevious(c) ==
  /\ clients[c].pc = "replacing"
  /\ clients' = [clients EXCEPT ![c].pc = "activating",
       ![c].previous = {v \in Versions \ {VersionOf(c)} : sets[v].status = "PUBLISHED"}]
  /\ UNCHANGED <<files, sets, indexes, bound>>

Activate(c) ==
  /\ clients[c].pc = "activating"
  /\ indexes' = [indexes EXCEPT ![VersionOf(c)] = "PUBLISHED"]
  /\ sets' = [v \in Versions |->
       CASE v = VersionOf(c) -> [sets[v] EXCEPT !.status = "PUBLISHED"]
         [] v \in clients[c].previous -> [sets[v] EXCEPT !.status = "INACTIVE"]
         [] OTHER -> sets[v]]
  /\ clients' = [clients EXCEPT ![c].pc = "finalizing"]
  /\ UNCHANGED <<files, bound>>

\* Mutant: the files are not compared with those of the manifest.
BugNotCompared(c) == TRUE

\* _require_revision of every file of the group, at the end.
IsUnchanged(c) ==
  \A g \in DOMAIN clients[c].seen : files[g].revision = clients[c].seen[g].revision

Finalize(c) ==
  /\ clients[c].pc = "finalizing"
  /\ \A g \in DOMAIN clients[c].seen : ~LockedRow(g)
  /\ \/ /\ IsUnchanged(c)
        /\ files' = [g \in Files |->
             IF g \in DOMAIN clients[c].seen
             THEN [files[g] EXCEPT !.status = "PUBLISHED", !.revision = @ + 1]
             ELSE files[g]]
     \/ ~IsUnchanged(c) /\ UNCHANGED files
  /\ clients' = [clients EXCEPT ![c] = Idle]
  /\ UNCHANGED <<sets, indexes, bound>>

\* The handler of a failed import, which leaves files that have changed.
Restore(c) ==
  /\ clients[c].pc = "restoring"
  /\ \A g \in DOMAIN clients[c].seen : ~LockedRow(g)
  /\ files' = [g \in Files |->
       IF g \in DOMAIN clients[c].seen /\ files[g].revision = clients[c].seen[g].revision
       THEN [files[g] EXCEPT !.status = "READY_TO_PUBLISH"] ELSE files[g]]
  /\ clients' = [clients EXCEPT ![c] = Idle]
  /\ UNCHANGED <<sets, indexes, bound>>

\* The process of a request ends: its transaction is rolled back and its lock
\* is released with the connection.  What it has committed stays.
Crash(c) ==
  /\ clients[c].pc # "idle"
  /\ clients' = [clients EXCEPT ![c] = Idle]
  /\ UNCHANGED <<files, sets, indexes, bound>>

-----------------------------------------------------------------------------
(* Versions in use.                                                        *)

\* deactivate_policy_set.
Deactivate(v) ==
  /\ sets[v].status \in {"PUBLISHED", "INACTIVE"} /\ indexes[v] = "PUBLISHED"
  /\ sets' = [sets EXCEPT ![v].status = "INACTIVE"]
  /\ UNCHANGED <<files, indexes, bound, clients>>

\* require_active_binding, and the task that keeps the version for good.
Bind(v) ==
  /\ sets[v].status = "PUBLISHED" /\ indexes[v] = "PUBLISHED"
  /\ bound[v] = {}
  /\ bound' = [bound EXCEPT ![v] = sets[v].content]
  /\ UNCHANGED <<files, sets, indexes, clients>>

\* load_published_clauses finds the version and its index.
IsRetrievable(v) ==
  sets[v].status \in {"PUBLISHED", "INACTIVE"} /\ indexes[v] = "PUBLISHED"

PublisherStep(c) ==
  \/ StartPublish(c) \/ CheckContent(c) \/ Prepare(c) \/ Embed(c)
  \/ ReadPrevious(c) \/ Activate(c) \/ Finalize(c) \/ Restore(c)

Next ==
  \/ \E c \in Clients, f \in Files :
       BeginUpload(c, f) \/ BeginReview(c, f) \/ Publish(c, f)
  \/ \E c \in Clients : CommitEdit(c) \/ PublisherStep(c) \/ Crash(c)
  \/ \E v \in Versions : Deactivate(v) \/ Bind(v)

Spec == Init /\ [][Next]_vars

-----------------------------------------------------------------------------
(* Properties.                                                             *)

\* A request has read rows of files.
IsRequest(k) ==
  /\ k = [pc |-> k.pc, file |-> k.file, row |-> k.row,
          seen |-> k.seen, previous |-> k.previous]
  /\ k.pc \in Publishers \cup Editors \cup {"idle"}
  /\ k.file \in Files \cup {0} /\ k.row \in FileRows
  /\ DOMAIN k.seen \subseteq Files /\ k.seen \in [DOMAIN k.seen -> FileRows]
  /\ k.previous \subseteq Versions

\* The columns hold what the schema allows.
TypeOK ==
  /\ files \in [Files -> FileRows]
  /\ sets \in [Versions -> [status : SetStatuses, content : SUBSET (Files \X Contents)]]
  /\ indexes \in [Versions -> IndexStatuses]
  /\ bound \in [Versions -> SUBSET (Files \X Contents)]
  /\ clients = [c \in Clients |-> clients[c]]
  /\ \A c \in Clients : IsRequest(clients[c])

\* uploads.py:694 "publishing two versions of one policy set must be
\* serialized so that only the latest completed publication remains active",
\* although the versions to replace are read before the new one is committed.
OneActiveVersion ==
  \A v, w \in Versions :
    sets[v].status = "PUBLISHED" /\ sets[w].status = "PUBLISHED" => v = w

\* A file shown as published is in the version, with the clauses its last
\* review left, although an edit that had read the group before may have taken
\* it out of PUBLISHING in between.
PublishedFileIsIndexed ==
  \A f \in Files :
    LET v == files[f].version IN
    files[f].status = "PUBLISHED" =>
      <<f, files[f].content>> \in sets[v].content /\ IsRetrievable(v)

\* What a task was bound to stays what the retrieval finds, whatever is
\* published, deactivated, interrupted or published again later.
BoundIsRetrievable ==
  \A v \in Versions :
    bound[v] # {} => IsRetrievable(v) /\ sets[v].content = bound[v]

\* The set as the tasks see it.
Retrievable == {v \in Versions : IsRetrievable(v)}
Active      == {v \in Versions : sets[v].status = "PUBLISHED"}
Used        == {v \in Versions : bound[v] # {}}

Library == INSTANCE PolicyLibrary WITH
             library <- [v \in Retrievable |-> sets[v].content],
             active  <- Active,
             used    <- Used

\* The transactions of publications, edits and crashes together do no more to
\* the set than the steps of PolicyLibrary: a version is published at once and
\* only once, and nothing takes it away again (importer.py import_loaded).
ImplementsLibrary == Library!Spec
=============================================================================
