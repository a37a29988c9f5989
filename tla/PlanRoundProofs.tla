-------------------------- MODULE PlanRoundProofs --------------------------
(***************************************************************************)
(* Proofs about the planner, for every set of paths and contents: the two  *)
(* devices' plans mirror each other, a planned transfer never replaces a   *)
(* record, and one undisturbed cycle settles the folder.                   *)
(***************************************************************************)
EXTENDS PlanRound, PlanningProofs

EntryAt(p) == entry(p, local[p], remote[p], mode)

\* The transfers still planned are exactly the transfers the planner would
\* order now: nothing planned is stale and nothing needed was left out.
PlanIsCurrent ==
  /\ \A e \in Planned(plan, TransferAction) : e = EntryAt(e.path)
  /\ round >= 1 => \A p \in Path : EntryAt(p).action \in TransferAction => EntryAt(p) \in plan

IInv == TypeOK /\ PlanIsCurrent /\ SettledAfterOneCycle

\* Any two indexes satisfy the invariant before the first plan.
LEMMA InitIInv == Init => IInv
<1> SUFFICES ASSUME Init PROVE IInv
  OBVIOUS
<1>1. TypeOK
  BY DEF Init, TypeOK
<1>2. PlanIsCurrent
  BY DEF Init, PlanIsCurrent, Planned
<1>3. SettledAfterOneCycle
  BY DEF Init, SettledAfterOneCycle
<1> QED
  BY <1>1, <1>2, <1>3 DEF IInv

\* What a step of the planner changes: the plan holds exactly the entries of the paths known.
LEMMA PlanSyncIInv == IInv /\ PlanSync => IInv'
<1> SUFFICES ASSUME IInv, PlanSync PROVE IInv'
  OBVIOUS
<1> USE DEF IInv
<1>0. \A p \in Path : local[p] \in FileRecord \cup {NoRecord} /\ remote[p] \in FileRecord \cup {NoRecord}
  BY DEF TypeOK, Manifest
<1>1. \A e \in plan' : e.path \in Path /\ e = EntryAt(e.path)
  BY DEF PlanSync, plan_manifest_sync_for_mode, EntryAt, entry
<1>2. \A p \in Path : EntryAt(p)' = EntryAt(p)
  BY DEF PlanSync, EntryAt
<1>3. TypeOK'
  <2>1. plan' \subseteq SyncPlanEntry
    <3> SUFFICES ASSUME NEW e \in plan' PROVE e \in SyncPlanEntry
      OBVIOUS
    <3>1. mode \in FolderMode
      BY DEF TypeOK
    <3>2. PICK p \in Path : e = entry(p, local[p], remote[p], mode)
      BY DEF PlanSync, plan_manifest_sync_for_mode
    <3> QED
      BY <1>0, <3>1, <3>2, EntryType
  <2> QED
    BY <2>1 DEF PlanSync, TypeOK
<1>4. \A p \in Path : EntryAt(p).action \in TransferAction => EntryAt(p) \in plan'
  <2> SUFFICES ASSUME NEW p \in Path, EntryAt(p).action \in TransferAction
               PROVE  EntryAt(p) \in plan'
    OBVIOUS
  <2>1. local[p] # NoRecord \/ remote[p] # NoRecord
    BY <1>0, TransferFillsGap, NoRecordAssumption DEF EntryAt, TransferAction, TypeOK
  <2> QED
    BY <2>1 DEF PlanSync, plan_manifest_sync_for_mode, EntryAt
<1>5. PlanIsCurrent'
  BY <1>1, <1>2, <1>4 DEF PlanIsCurrent, Planned
<1>6. SettledAfterOneCycle'
  <2> SUFFICES ASSUME round' >= 2, NEW e \in Planned(plan', TransferAction) PROVE FALSE
    BY DEF SettledAfterOneCycle, Planned
  <2>1. round >= 1
    BY DEF PlanSync, TypeOK
  <2>2. EntryAt(e.path) \in plan /\ EntryAt(e.path) = e
    BY <2>1, <1>1 DEF PlanIsCurrent, Planned
  <2> QED
    BY <2>2 DEF PlanSync, Planned
<1> QED
  BY <1>3, <1>5, <1>6

\* A finished transfer leaves both sides with a record of its path, so the
\* planner does not order it again, and it does not touch any other path.
LEMMA DownloadIInv == ASSUME NEW e \in plan PROVE IInv /\ Download(e) => IInv'
<1> SUFFICES ASSUME IInv, Download(e) PROVE IInv'
  OBVIOUS
<1> USE DEF IInv
<1> DEFINE p == e.path
<1>0. \A q \in Path : local[q] \in FileRecord \cup {NoRecord} /\ remote[q] \in FileRecord \cup {NoRecord}
  BY DEF TypeOK, Manifest
<1>1. /\ p \in Path /\ e = EntryAt(p) /\ e \in plan
      /\ e.action = "DownloadFromRemote"
  BY DEF Download, Planned, PlanIsCurrent, TypeOK, SyncPlanEntry, TransferAction
<1>2. local[p] = NoRecord /\ remote[p] \in FileRecord
  BY <1>0, <1>1, TransferFillsGap DEF EntryAt, TypeOK
<1>3. e.remote_content_hash = remote[p].hash /\ remote[p].hash \in Content
  BY <1>1, <1>2, NoRecordAssumption DEF EntryAt, entry, HashOf, FileRecord
<1>4. local' = [local EXCEPT ![p] = Available(remote[p].hash)] /\ remote' = remote
      /\ mode' = mode /\ round' = round /\ plan' = plan \ {e}
  BY <1>3 DEF Download
<1>5. Available(remote[p].hash) \in FileRecord
  BY <1>3, AvailableIsRecord
<1>6. TypeOK'
  <2>1. local' \in Manifest
    BY <1>0, <1>1, <1>4, <1>5 DEF TypeOK, Manifest
  <2> QED
    BY <2>1, <1>4 DEF TypeOK
<1>7. \A q \in Path \ {p} : EntryAt(q)' = EntryAt(q)
  BY <1>4 DEF EntryAt, TypeOK, Manifest
<1>8. EntryAt(p)'.action \notin TransferAction
  <2>1. local'[p] = Available(remote[p].hash)
    BY <1>1, <1>4 DEF TypeOK, Manifest
  <2> QED
    BY <2>1, <1>1, <1>2, <1>4, <1>5, NothingToTransfer DEF EntryAt, TypeOK
<1>9. PlanIsCurrent'
  <2>1. \A q \in Path : EntryAt(q).path = q
    BY DEF EntryAt, entry
  <2>2. \A f \in Planned(plan', TransferAction) : f.path # p /\ f.path \in Path /\ f \in Planned(plan, TransferAction)
    BY <1>1, <1>4 DEF Planned, PlanIsCurrent, TypeOK, SyncPlanEntry
  <2>3. \A f \in Planned(plan', TransferAction) : f = EntryAt(f.path)'
    BY <2>2, <1>7 DEF PlanIsCurrent
  <2>4. ASSUME round' >= 1, NEW q \in Path, EntryAt(q)'.action \in TransferAction
        PROVE  EntryAt(q)' \in plan'
    BY <2>4, <1>8, <1>7, <1>4, <1>1, <2>1 DEF PlanIsCurrent
  <2> QED
    BY <2>3, <2>4 DEF PlanIsCurrent
<1>10. SettledAfterOneCycle'
  BY <1>4 DEF SettledAfterOneCycle, Planned
<1> QED
  BY <1>6, <1>9, <1>10

\* The same for an upload, seen from the other side.
LEMMA UploadIInv == ASSUME NEW e \in plan PROVE IInv /\ Upload(e) => IInv'
<1> SUFFICES ASSUME IInv, Upload(e) PROVE IInv'
  OBVIOUS
<1> USE DEF IInv
<1> DEFINE p == e.path
<1>0. \A q \in Path : local[q] \in FileRecord \cup {NoRecord} /\ remote[q] \in FileRecord \cup {NoRecord}
  BY DEF TypeOK, Manifest
<1>1. /\ p \in Path /\ e = EntryAt(p) /\ e \in plan
      /\ e.action = "UploadToRemote"
  BY DEF Upload, Planned, PlanIsCurrent, TypeOK, SyncPlanEntry, TransferAction
<1>2. remote[p] = NoRecord /\ local[p] \in FileRecord
  BY <1>0, <1>1, TransferFillsGap DEF EntryAt, TypeOK
<1>3. e.local_content_hash = local[p].hash /\ local[p].hash \in Content
  BY <1>1, <1>2, NoRecordAssumption DEF EntryAt, entry, HashOf, FileRecord
<1>4. remote' = [remote EXCEPT ![p] = Available(local[p].hash)] /\ local' = local
      /\ mode' = mode /\ round' = round /\ plan' = plan \ {e}
  BY <1>3 DEF Upload
<1>5. Available(local[p].hash) \in FileRecord
  BY <1>3, AvailableIsRecord
<1>6. TypeOK'
  <2>1. remote' \in Manifest
    BY <1>0, <1>1, <1>4, <1>5 DEF TypeOK, Manifest
  <2> QED
    BY <2>1, <1>4 DEF TypeOK
<1>7. \A q \in Path \ {p} : EntryAt(q)' = EntryAt(q)
  BY <1>4 DEF EntryAt, TypeOK, Manifest
<1>8. EntryAt(p)'.action \notin TransferAction
  <2>1. remote'[p] = Available(local[p].hash)
    BY <1>1, <1>4 DEF TypeOK, Manifest
  <2> QED
    BY <2>1, <1>1, <1>2, <1>4, <1>5, NothingToTransfer DEF EntryAt, TypeOK
<1>9. PlanIsCurrent'
  <2>1. \A q \in Path : EntryAt(q).path = q
    BY DEF EntryAt, entry
  <2>2. \A f \in Planned(plan', TransferAction) : f.path # p /\ f.path \in Path /\ f \in Planned(plan, TransferAction)
    BY <1>1, <1>4 DEF Planned, PlanIsCurrent, TypeOK, SyncPlanEntry
  <2>3. \A f \in Planned(plan', TransferAction) : f = EntryAt(f.path)'
    BY <2>2, <1>7 DEF PlanIsCurrent
  <2>4. ASSUME round' >= 1, NEW q \in Path, EntryAt(q)'.action \in TransferAction
        PROVE  EntryAt(q)' \in plan'
    BY <2>4, <1>8, <1>7, <1>4, <1>1, <2>1 DEF PlanIsCurrent
  <2> QED
    BY <2>3, <2>4 DEF PlanIsCurrent
<1>10. SettledAfterOneCycle'
  BY <1>4 DEF SettledAfterOneCycle, Planned
<1> QED
  BY <1>6, <1>9, <1>10

\* Every step of a cycle preserves the invariant.
LEMMA NextIInv == IInv /\ [Next]_vars => IInv'
<1> SUFFICES ASSUME IInv, [Next]_vars PROVE IInv'
  OBVIOUS
<1>1. CASE PlanSync
  BY <1>1, PlanSyncIInv
<1>2. ASSUME NEW e \in plan, Download(e) PROVE IInv'
  BY <1>2, DownloadIInv
<1>3. ASSUME NEW e \in plan, Upload(e) PROVE IInv'
  BY <1>3, UploadIInv
<1>4. CASE UNCHANGED vars
  BY <1>4 DEF IInv, TypeOK, PlanIsCurrent, SettledAfterOneCycle, EntryAt, vars
<1> QED
  BY <1>1, <1>2, <1>3, <1>4 DEF Next

\* The invariant holds in every reachable state.
LEMMA InductiveInvariant == Spec => []IInv
  BY InitIInv, NextIInv, PTL DEF Spec

\* The indexes keep their types: a transfer only ever upserts a hash that a
\* record of the other side held (download_operation, write_uploaded_file).
THEOREM TypeCorrect == Spec => []TypeOK
<1>1. IInv => TypeOK
  BY DEF IInv
<1> QED
  BY <1>1, InductiveInvariant, PTL

\* The plan of the second and of every later undisturbed cycle holds no
\* transfer, whatever run_sync_once found in the two indexes.
THEOREM Settles == Spec => []SettledAfterOneCycle
<1>1. IInv => SettledAfterOneCycle
  BY DEF IInv
<1> QED
  BY <1>1, InductiveInvariant, PTL

\* plan_path gives the two devices mirror images of one decision.
THEOREM PlansMirror == Spec => []MirrorPlans
<1>1. TypeOK => MirrorPlans
  <2> SUFFICES ASSUME TypeOK, NEW p \in Path
               PROVE LET mine == entry(p, local[p], remote[p], mode)
                         theirs == entry(p, remote[p], local[p], MirrorMode(mode))
                     IN IF MissingOnBoth(p)
                        THEN mine.action = "LocalMissingUnsynchronized" /\ theirs.action = mine.action
                        ELSE theirs.action = MirrorAction(mine.action)
    BY DEF MirrorPlans
  <2>1. /\ local[p] \in FileRecord \cup {NoRecord}
        /\ remote[p] \in FileRecord \cup {NoRecord}
        /\ mode \in FolderMode
    BY DEF TypeOK, Manifest
  <2> QED
    BY <2>1, NoRecordAssumption
       DEF entry, apply_folder_mode, plan_path, plan_existing_path, IsMissing,
           MirrorMode, MirrorAction, MissingOnBoth, FolderMode, FileRecord, FileSyncState
<1> QED
  BY <1>1, TypeCorrect, PTL

\* Without user decisions no transfer ever replaces a record of either index.
THEOREM NothingOverwritten == Spec => NoRecordOverwritten
<1> DEFINE Keeps == \A p \in Path : /\ local[p] # NoRecord => local'[p] = local[p]
                                    /\ remote[p] # NoRecord => remote'[p] = remote[p]
<1>1. IInv /\ [Next]_vars => [Keeps]_vars
  <2> SUFFICES ASSUME IInv, [Next]_vars PROVE Keeps
    OBVIOUS
  <2>0. \A q \in Path : local[q] \in FileRecord \cup {NoRecord} /\ remote[q] \in FileRecord \cup {NoRecord}
    BY DEF IInv, TypeOK, Manifest
  <2>1. ASSUME NEW e \in plan, Download(e) PROVE Keeps
    <3>1. e.path \in Path /\ e = EntryAt(e.path) /\ e.action = "DownloadFromRemote"
      BY <2>1 DEF Download, Planned, IInv, PlanIsCurrent, TypeOK, SyncPlanEntry, TransferAction
    <3>2. local[e.path] = NoRecord
      BY <2>0, <3>1, TransferFillsGap DEF EntryAt, IInv, TypeOK
    <3> QED
      BY <2>1, <3>2 DEF Download, IInv, TypeOK, Manifest
  <2>2. ASSUME NEW e \in plan, Upload(e) PROVE Keeps
    <3>1. e.path \in Path /\ e = EntryAt(e.path) /\ e.action = "UploadToRemote"
      BY <2>2 DEF Upload, Planned, IInv, PlanIsCurrent, TypeOK, SyncPlanEntry, TransferAction
    <3>2. remote[e.path] = NoRecord
      BY <2>0, <3>1, TransferFillsGap DEF EntryAt, IInv, TypeOK
    <3> QED
      BY <2>2, <3>2 DEF Upload, IInv, TypeOK, Manifest
  <2>3. CASE PlanSync
    BY <2>3 DEF PlanSync
  <2>4. CASE UNCHANGED vars
    BY <2>4 DEF vars
  <2> QED
    BY <2>1, <2>2, <2>3, <2>4 DEF Next
<1> QED
  BY <1>1, InductiveInvariant, PTL DEF Spec, NoRecordOverwritten
\* plan_existing_path and classify_file_presence, written apart from each other,
\* decide alike wherever both devices have a record, in every folder mode.
THEOREM ClassificationsAgree == Spec => []AgreesWithClassification
<1>1. TypeOK => AgreesWithClassification
  <2> SUFFICES ASSUME TypeOK, NEW p \in Path,
                      local[p] # NoRecord, remote[p] # NoRecord, ~MissingOnBoth(p)
               PROVE  LET class == classify_file_presence(local[p], remote[p], NoHash)
                      IN entry(p, local[p], remote[p], mode).action =
                           CASE class = "LocalOnlyDelete" -> "LocalMissingUnsynchronized"
                             [] class = "RemoteOnlyDelete" -> "RemoteMissingUnsynchronized"
                             [] OTHER -> class
    BY DEF AgreesWithClassification
  <2>1. local[p] \in FileRecord /\ remote[p] \in FileRecord
    BY DEF TypeOK, Manifest
  <2>2. entry(p, local[p], remote[p], mode).action = plan_existing_path(local[p], remote[p])
    BY DEF entry, apply_folder_mode, plan_path, plan_existing_path
  <2>3. Presence(local[p]) = IF IsMissing(local[p]) THEN "MissingKnown" ELSE "Present"
    BY DEF Presence
  <2>4. Presence(remote[p]) = IF IsMissing(remote[p]) THEN "MissingKnown" ELSE "Present"
    BY DEF Presence
  <2>5. CASE IsMissing(local[p])
    <3>1. classify_file_presence(local[p], remote[p], NoHash) = "LocalOnlyDelete"
      BY <2>3, <2>4, <2>5 DEF classify_file_presence, MissingOnBoth, IsMissing
    <3> QED
      BY <3>1, <2>2, <2>5 DEF plan_existing_path, IsMissing
  <2>6. CASE ~IsMissing(local[p]) /\ IsMissing(remote[p])
    <3>1. classify_file_presence(local[p], remote[p], NoHash) = "RemoteOnlyDelete"
      BY <2>3, <2>4, <2>6 DEF classify_file_presence, IsMissing
    <3> QED
      BY <3>1, <2>2, <2>6 DEF plan_existing_path, IsMissing
  <2>7. CASE ~IsMissing(local[p]) /\ ~IsMissing(remote[p])
    <3>1. classify_file_presence(local[p], remote[p], NoHash) =
            IF local[p].hash = remote[p].hash THEN "InSync" ELSE "Conflict"
      BY <2>3, <2>4, <2>7 DEF classify_file_presence, IsMissing
    <3> QED
      BY <3>1, <2>2, <2>7 DEF plan_existing_path, IsMissing
  <2> QED
    BY <2>5, <2>6, <2>7
<1> QED
  BY <1>1, TypeCorrect, PTL
=============================================================================
