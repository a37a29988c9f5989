--------------------------- MODULE PlanningProofs ---------------------------
(***************************************************************************)
(* Lemmas about the planner's operators and the statements of the queue,   *)
(* for every set of paths and contents; PlanRoundProofs, SyncQueueProofs   *)
(* and SyncCycleProofs rest on them.                                       *)
(***************************************************************************)
EXTENDS StateDb, TLAPS

\* A transfer is only ever planned from a side that has the file to a side that
\* has no record of it (plan_path).
LEMMA TransferFillsGap ==
  ASSUME NEW p \in Path,
         NEW l \in FileRecord \cup {NoRecord}, NEW r \in FileRecord \cup {NoRecord},
         NEW m \in FolderMode
  PROVE  /\ entry(p, l, r, m).action = "DownloadFromRemote" =>
              l = NoRecord /\ r \in FileRecord /\ r.state = "LocalAvailable"
         /\ entry(p, l, r, m).action = "UploadToRemote" =>
              r = NoRecord /\ l \in FileRecord /\ l.state = "LocalAvailable"
  BY NoRecordAssumption
     DEF entry, apply_folder_mode, plan_path, plan_existing_path, FolderMode,
         FileRecord, FileSyncState, IsMissing

\* An entry of the planner has the type of SyncPlanEntry.
LEMMA EntryType ==
  ASSUME NEW p \in Path,
         NEW l \in FileRecord \cup {NoRecord}, NEW r \in FileRecord \cup {NoRecord},
         NEW m \in FolderMode
  PROVE  entry(p, l, r, m) \in SyncPlanEntry
<1>1. plan_path(l, r) \in SyncAction
  BY DEF plan_path, plan_existing_path, SyncAction, TransferAction, BlockedAction
<1>2. apply_folder_mode(plan_path(l, r), m) \in SyncAction
  BY <1>1 DEF apply_folder_mode, SyncAction, BlockedAction
<1>3. HashOf(l) \in Content \cup {NoHash} /\ HashOf(r) \in Content \cup {NoHash}
  BY DEF HashOf, FileRecord
<1> QED
  BY <1>2, <1>3 DEF entry, SyncPlanEntry

\* Where both sides have a record there is nothing to transfer.
LEMMA NothingToTransfer ==
  ASSUME NEW p \in Path, NEW m \in FolderMode,
         NEW l \in FileRecord, NEW r \in FileRecord
  PROVE  entry(p, l, r, m).action \notin TransferAction
  BY NoRecordAssumption
     DEF entry, apply_folder_mode, plan_path, plan_existing_path, TransferAction

\* What upsert_file writes is a record.
LEMMA AvailableIsRecord ==
  ASSUME NEW c \in Content
  PROVE  Available(c) \in FileRecord
  BY DEF Available, FileRecord, FileSyncState

-----------------------------------------------------------------------------
(* The rows of a new plan *)

\* Every row NewOperation builds from a plan entry is a row of the table.
LEMMA NewRows ==
  ASSUME NEW local \in Manifest, NEW remote \in Manifest, NEW mode \in FolderMode,
         NEW e \in plan_manifest_sync_for_mode(local, remote, mode), e.action # "InSync",
         NEW r \in Device, NEW n \in Nat
  PROVE  LET o == NewOperation(e, r, n)
         IN /\ o \in SyncOperationRecord
            /\ o.id = <<n, e.path>> /\ o.path = e.path /\ o.remote_device_id = r
            /\ o.status = "blocked" <=> o.kind \in BlockedKind
            /\ o.kind \in TransferKind =>
                 o.local_content_hash = NoHash \/ o.remote_content_hash = NoHash
            /\ o.kind = "DownloadFromRemote" => o.local_content_hash = NoHash
            /\ o.kind = "UploadToRemote" => o.remote_content_hash = NoHash
<1>1. PICK p \in Path : e = entry(p, local[p], remote[p], mode)
  BY DEF plan_manifest_sync_for_mode
<1>2. local[p] \in FileRecord \cup {NoRecord} /\ remote[p] \in FileRecord \cup {NoRecord}
  BY DEF Manifest
<1>3. e \in SyncPlanEntry
  BY <1>1, <1>2, EntryType
<1>4. /\ e.action = "DownloadFromRemote" => e.local_content_hash = NoHash
      /\ e.action = "UploadToRemote" => e.remote_content_hash = NoHash
  <2>1. /\ e.action = "DownloadFromRemote" => local[p] = NoRecord
        /\ e.action = "UploadToRemote" => remote[p] = NoRecord
    BY <1>1, <1>2, TransferFillsGap
  <2> QED
    BY <2>1, <1>1 DEF entry, HashOf
<1> DEFINE k == operation_for_action(e.action)
<1>5. /\ k.kind \in SyncOperationKind /\ k.status \in SyncOperationStatus
      /\ k.status = "blocked" <=> k.kind \in BlockedKind
      /\ k.kind \in TransferKind => e.action = k.kind
  <2>1. CASE e.action \in TransferAction
    <3>1. k = [kind |-> e.action, status |-> "pending"]
      BY <2>1 DEF operation_for_action, TransferAction
    <3> QED
      BY <2>1, <3>1 DEF SyncOperationKind, TransferKind, TransferAction, BlockedKind, SyncOperationStatus
  <2>2. CASE e.action = "Conflict"
    <3>1. k = [kind |-> "ResolveConflict", status |-> "blocked"]
      BY <2>2 DEF operation_for_action, TransferAction
    <3> QED
      BY <3>1 DEF SyncOperationKind, TransferKind, BlockedKind, SyncOperationStatus
  <2>3. CASE e.action = "LocalMissingUnsynchronized"
    <3>1. k = [kind |-> "RepairLocalMissing", status |-> "blocked"]
      BY <2>3 DEF operation_for_action, TransferAction
    <3> QED
      BY <3>1 DEF SyncOperationKind, TransferKind, BlockedKind, SyncOperationStatus
  <2>4. CASE e.action = "RemoteMissingUnsynchronized"
    <3>1. k = [kind |-> "RepairRemoteMissing", status |-> "blocked"]
      BY <2>4 DEF operation_for_action, TransferAction
    <3> QED
      BY <3>1 DEF SyncOperationKind, TransferKind, BlockedKind, SyncOperationStatus
  <2>5. CASE e.action = "ModeBlocked"
    <3>1. k = [kind |-> "ModeBlocked", status |-> "blocked"]
      BY <2>5 DEF operation_for_action, TransferAction
    <3> QED
      BY <3>1 DEF SyncOperationKind, TransferKind, BlockedKind, SyncOperationStatus
  <2> QED
    BY <1>3, <2>1, <2>2, <2>3, <2>4, <2>5 DEF SyncPlanEntry, SyncAction, BlockedAction
<1> HIDE DEF k
<1>6. NewOperation(e, r, n) =
        [id |-> <<n, e.path>>, path |-> e.path, kind |-> k.kind, status |-> k.status,
         reason |-> "plan", local_content_hash |-> e.local_content_hash,
         remote_content_hash |-> e.remote_content_hash, remote_device_id |-> r,
         last_error |-> FALSE, retry_count |-> 0, started_at |-> FALSE, finished_at |-> FALSE]
  BY DEF NewOperation, k
<1>7. /\ e.path \in Path /\ e.local_content_hash \in Content \cup {NoHash}
      /\ e.remote_content_hash \in Content \cup {NoHash}
  BY <1>3 DEF SyncPlanEntry
<1>8. NewOperation(e, r, n) \in SyncOperationRecord
  BY <1>5, <1>6, <1>7 DEF SyncOperationRecord, OperationId
<1> QED
  BY <1>4, <1>5, <1>6, <1>8 DEF TransferKind
-----------------------------------------------------------------------------
(* The row an UPDATE leaves *)

\* mark_sync_operation_started leaves a row a row.
LEMMA StartedRow ==
  ASSUME NEW o \in SyncOperationRecord
  PROVE  [o EXCEPT !.last_error = FALSE, !.started_at = TRUE, !.finished_at = FALSE]
           \in SyncOperationRecord
  BY DEF SyncOperationRecord

\* update_sync_operation_status leaves a row a row.
LEMMA FinishedRow ==
  ASSUME NEW o \in SyncOperationRecord, NEW s \in {"done", "failed"}, NEW e \in BOOLEAN
  PROVE  [o EXCEPT !.status = s, !.last_error = e, !.finished_at = TRUE] \in SyncOperationRecord
<1>1. s \in SyncOperationStatus
  BY DEF SyncOperationStatus
<1> QED
  BY <1>1 DEF SyncOperationRecord

\* retry_failed_sync_operations leaves a row a row.
LEMMA RetriedRow ==
  ASSUME NEW o \in SyncOperationRecord
  PROVE  /\ Retried(o) \in SyncOperationRecord
         /\ Retried(o).id = o.id /\ Retried(o).path = o.path
         /\ Retried(o).remote_device_id = o.remote_device_id
         /\ Retried(o).local_content_hash = o.local_content_hash
         /\ Retried(o).remote_content_hash = o.remote_content_hash
         /\ Retried(o).kind = o.kind /\ Retried(o).reason = o.reason
         /\ Retried(o).status = "pending"
<1> DEFINE n == o.retry_count + 1
<1>1. n \in Nat
  BY DEF SyncOperationRecord
<1>2. Retried(o) = [o EXCEPT !.status = "pending", !.last_error = FALSE, !.retry_count = n,
                             !.started_at = FALSE, !.finished_at = FALSE]
  BY DEF SyncOperationRecord, Retried
<1> HIDE DEF n
<1>3. "pending" \in SyncOperationStatus
  BY DEF SyncOperationStatus
<1>4. Retried(o) \in SyncOperationRecord
  BY <1>1, <1>2, <1>3 DEF SyncOperationRecord
<1> QED
  BY <1>2, <1>4 DEF SyncOperationRecord

\* The UPDATE of resolve_blocked_sync_operation leaves a row a row.
LEMMA ResolvedRow ==
  ASSUME NEW o \in SyncOperationRecord, NEW k \in TransferKind
  PROVE  [o EXCEPT !.kind = k, !.status = "pending", !.reason = "user",
                   !.last_error = FALSE, !.started_at = FALSE, !.finished_at = FALSE]
           \in SyncOperationRecord
<1>1. "pending" \in SyncOperationStatus /\ k \in SyncOperationKind
  BY DEF SyncOperationStatus, SyncOperationKind
<1> QED
  BY <1>1 DEF SyncOperationRecord

=============================================================================
