------------------------------ MODULE StateDb ------------------------------
(***************************************************************************)
(* The statements of crates/syncer-core/src/state_db.rs, each as an        *)
(* operator from the table before to the table after.  SQLite runs one     *)
(* statement (or one transaction) at a time, so each operator is atomic    *)
(* and the modules that use it decide what may happen in between.          *)
(*                                                                         *)
(* The files table is a manifest (see Planning): upsert_file, forget_file  *)
(* and so on are functions of it.  The sync_operations table is a set of   *)
(* rows.  A row's id is fresh (UUID v7); here it is the number of the      *)
(* enqueue that inserted it and its path, which is unique because a plan   *)
(* has one entry per path.  created_at_unix is that number too: it orders  *)
(* plans that are enqueued at least a second apart.  Times are reduced to  *)
(* whether they are set, texts to whether they are there and to who chose  *)
(* them.                                                                   *)
(***************************************************************************)
EXTENDS Planning, FiniteSets

CONSTANT Device   \* device ids

ASSUME FolderAssumption == IsFiniteSet(Path)

TransferKind == {"UploadToRemote", "DownloadFromRemote"}

BlockedKind == {"ResolveConflict", "RepairLocalMissing", "RepairRemoteMissing", "ModeBlocked"}

SyncOperationKind == TransferKind \cup BlockedKind

SyncOperationStatus == {"pending", "blocked", "done", "failed"}

BlockedOperationResolution == {"DownloadFromRemote", "UploadToRemote"}

OperationId == Nat \X Path

SyncOperationRecord ==
  [id : OperationId,
   path : Path,
   kind : SyncOperationKind,
   status : SyncOperationStatus,
   reason : {"plan", "user"},       \* the planner's reason or the user's choice
   local_content_hash : Content \cup {NoHash},
   remote_content_hash : Content \cup {NoHash},
   remote_device_id : Device,
   last_error : BOOLEAN,            \* IS NOT NULL
   retry_count : Nat,
   started_at : BOOLEAN,            \* IS NOT NULL
   finished_at : BOOLEAN]           \* IS NOT NULL

-----------------------------------------------------------------------------
(* Table files *)

\* upsert_file: the row is inserted or overwritten, as available.
upsert_file(files, p, content) == [files EXCEPT ![p] = Available(content)]

\* forget_file: the row is deleted.
forget_file(files, p) == [files EXCEPT ![p] = NoRecord]

AsMissing(record) ==
  IF record = NoRecord THEN NoRecord
  ELSE [record EXCEPT !.state = "UnsynchronizedLocalMissing"]

mark_file_deleted_locally(files, p) == [files EXCEPT ![p] = AsMissing(@)]

\* record_skipped_folder_limit: table skipped_files has one row per path.
record_skipped_folder_limit(skipped, p) == skipped \cup {p}

\* folder_status.indexed_bytes: the sum goes over every row, the rows of
\* missing files included.  Contents have size 1.
indexed_bytes(files) == Cardinality({p \in Path : files[p] # NoRecord})

-----------------------------------------------------------------------------
(* Table sync_operations *)

\* operation_for_action for every action but InSync, which queues nothing.
operation_for_action(action) ==
  CASE action \in TransferAction -> [kind |-> action, status |-> "pending"]
    [] action = "Conflict" -> [kind |-> "ResolveConflict", status |-> "blocked"]
    [] action = "LocalMissingUnsynchronized" -> [kind |-> "RepairLocalMissing", status |-> "blocked"]
    [] action = "RemoteMissingUnsynchronized" -> [kind |-> "RepairRemoteMissing", status |-> "blocked"]
    [] action = "ModeBlocked" -> [kind |-> "ModeBlocked", status |-> "blocked"]

\* The row inserted for one plan entry, with the column defaults of the table.
NewOperation(e, remote, created_at) ==
  [id |-> <<created_at, e.path>>,
   path |-> e.path,
   kind |-> operation_for_action(e.action).kind,
   status |-> operation_for_action(e.action).status,
   reason |-> "plan",
   local_content_hash |-> e.local_content_hash,
   remote_content_hash |-> e.remote_content_hash,
   remote_device_id |-> remote,
   last_error |-> FALSE,
   retry_count |-> 0,
   started_at |-> FALSE,
   finished_at |-> FALSE]

\* Mutant of enqueue_sync_plan: only the pending rows are replaced.
BlockedRowsKept(ops, plan, remote, created_at) ==
  {o \in ops : ~(o.remote_device_id = remote /\ o.status = "pending")}
    \cup {NewOperation(e, remote, created_at) : e \in {f \in plan : f.action # "InSync"}}

\* Mutant of enqueue_sync_plan: forgets to restrict the DELETE to the peer.
OtherPeersDeleted(ops, plan, remote, created_at) ==
  {o \in ops : o.status \notin {"pending", "blocked"}}
    \cup {NewOperation(e, remote, created_at) : e \in {f \in plan : f.action # "InSync"}}

\* Mutant of enqueue_sync_plan: clears every row of the peer, history included.
HistoryDeleted(ops, plan, remote, created_at) ==
  {o \in ops : o.remote_device_id # remote}
    \cup {NewOperation(e, remote, created_at) : e \in {f \in plan : f.action # "InSync"}}

\* enqueue_sync_plan: one transaction that replaces what is queued for the peer.
enqueue_sync_plan(ops, plan, remote, created_at) ==
  {o \in ops : ~(o.remote_device_id = remote /\ o.status \in {"pending", "blocked"})}
    \cup {NewOperation(e, remote, created_at) : e \in {f \in plan : f.action # "InSync"}}

\* ORDER BY created_at_unix, path, on the ids of two rows.
Before(i, j) == \/ i[1] < j[1]
                \/ i[1] = j[1] /\ i[2] < j[2]

IsFirst(i, ids) == i \in ids /\ \A j \in ids \ {i} : Before(i, j)

\* LIMIT n.
FirstN(rows, n) == {o \in rows : Cardinality({q \in rows : Before(q.id, o.id)}) < n}

\* list_pending_operations.
list_pending_operations(ops, remote, kind, limit) ==
  FirstN({o \in ops : /\ o.remote_device_id = remote
                      /\ o.kind = kind
                      /\ o.status = "pending"}, limit)

\* Mutant of mark_sync_operation_started: a status that the table does not know.
StartedAsRunning(ops, id) ==
  {IF o.id = id
   THEN [o EXCEPT !.status = "running", !.last_error = FALSE, !.started_at = TRUE, !.finished_at = FALSE]
   ELSE o : o \in ops}

\* The single-row updates are UPDATE ... WHERE id = ?1, whatever the row holds.
mark_sync_operation_started(ops, id) ==
  {IF o.id = id
   THEN [o EXCEPT !.last_error = FALSE, !.started_at = TRUE, !.finished_at = FALSE]
   ELSE o : o \in ops}

update_sync_operation_status(ops, id, status, error) ==
  {IF o.id = id
   THEN [o EXCEPT !.status = status, !.last_error = error, !.finished_at = TRUE]
   ELSE o : o \in ops}

mark_sync_operation_done(ops, id) == update_sync_operation_status(ops, id, "done", FALSE)

\* Mutant of mark_sync_operation_failed: loses the reason of the failure.
FailedWithoutReason(ops, id) == update_sync_operation_status(ops, id, "failed", FALSE)

mark_sync_operation_failed(ops, id) == update_sync_operation_status(ops, id, "failed", TRUE)

Retried(o) == [o EXCEPT !.status = "pending",
                        !.last_error = FALSE,
                        !.retry_count = @ + 1,
                        !.started_at = FALSE,
                        !.finished_at = FALSE]

\* Mutant of retry_failed_sync_operations: whatever is not done is run again.
RetriesUnfinished(ops, remotes) ==
  {IF o.status # "done" /\ o.remote_device_id \in remotes THEN Retried(o) ELSE o : o \in ops}

\* retry_failed_sync_operations; without a peer argument remotes is Device.
retry_failed_sync_operations(ops, remotes) ==
  {IF /\ o.status = "failed"
      /\ o.kind \in TransferKind
      /\ o.remote_device_id \in remotes
   THEN Retried(o) ELSE o : o \in ops}

\* The first half of resolve_blocked_sync_operation: may this row be turned
\* into a transfer the way the user asked?
CanResolve(o, resolution) ==
  /\ o.status = "blocked"
  /\ \/ resolution = "DownloadFromRemote" /\ o.kind \in {"ResolveConflict", "RepairLocalMissing"}
     \/ resolution = "UploadToRemote" /\ o.kind \in {"ResolveConflict", "RepairRemoteMissing"}

\* Its second half: the UPDATE of the row with that id, whatever it holds by now.
resolve_update(ops, id, resolution) ==
  {IF o.id = id
   THEN [o EXCEPT !.kind = resolution,
                  !.status = "pending",
                  !.reason = "user",
                  !.last_error = FALSE,
                  !.started_at = FALSE,
                  !.finished_at = FALSE]
   ELSE o : o \in ops}
=============================================================================
