----------------------------- MODULE PlanRound -----------------------------
(***************************************************************************)
(* Undisturbed sync cycles over two indexes: run_sync_once plans from the  *)
(* two manifests and then performs the planned transfers, each of which    *)
(* ends with an upsert_file of the transferred record in the receiving     *)
(* index.  Nothing else touches the indexes, so every transfer succeeds;   *)
(* SyncCycle models the cycle with failures, crashes and edits.            *)
(***************************************************************************)
EXTENDS Planning

CONSTANT MaxRounds   \* bound on the number of cycles

ASSUME MaxRoundsAssumption == MaxRounds \in Nat

VARIABLES
  local,    \* the manifest of the device that runs sync-once
  remote,   \* the manifest of its peer
  mode,     \* folder.mode of the device that runs sync-once
  plan,     \* the entries still to be handled in this cycle
  round     \* number of plans made so far

vars == <<local, remote, mode, plan, round>>

Init ==
  /\ local \in Manifest
  /\ remote \in Manifest
  /\ mode \in FolderMode
  /\ plan = {}
  /\ round = 0

\* build_sync_plan of the next cycle, once no planned transfer is left.
PlanSync ==
  /\ round < MaxRounds
  /\ Planned(plan, TransferAction) = {}
  /\ plan' = plan_manifest_sync_for_mode(local, remote, mode)
  /\ round' = round + 1
  /\ UNCHANGED <<local, remote, mode>>

\* Mutant of Download: upserts the hash the plan noted for the local side.
DownloadIndexesLocalHash(e) ==
  /\ e \in Planned(plan, {"DownloadFromRemote"})
  /\ local' = [local EXCEPT ![e.path] = Available(e.local_content_hash)]
  /\ plan' = plan \ {e}
  /\ UNCHANGED <<remote, mode, round>>

\* download_operation: the record of the peer is upserted in the local index.
Download(e) ==
  /\ e \in Planned(plan, {"DownloadFromRemote"})
  /\ local' = [local EXCEPT ![e.path] = Available(e.remote_content_hash)]
  /\ plan' = plan \ {e}
  /\ UNCHANGED <<remote, mode, round>>

\* Mutant of Upload: the peer publishes the file and does not index it.
UploadNotIndexed(e) ==
  /\ e \in Planned(plan, {"UploadToRemote"})
  /\ plan' = plan \ {e}
  /\ UNCHANGED <<local, remote, mode, round>>

\* upload_operation: write_uploaded_file upserts the record at the peer.
Upload(e) ==
  /\ e \in Planned(plan, {"UploadToRemote"})
  /\ remote' = [remote EXCEPT ![e.path] = Available(e.local_content_hash)]
  /\ plan' = plan \ {e}
  /\ UNCHANGED <<local, mode, round>>

Next ==
  \/ PlanSync
  \/ \E e \in plan : Download(e) \/ Upload(e)

Spec == Init /\ [][Next]_vars

-----------------------------------------------------------------------------
(* Properties *)

\* Both indexes hold records of known contents only, and so does the plan: no
\* transfer upserts a hash that the plan did not know (Option::None).
TypeOK ==
  /\ local \in Manifest
  /\ remote \in Manifest
  /\ mode \in FolderMode
  /\ plan \subseteq SyncPlanEntry
  /\ round \in Nat

\* The mode the peer would have to be in to see the same folder from its side.
MirrorMode(m) ==
  CASE m = "UploadOnly" -> "DownloadOnly"
    [] m = "DownloadOnly" -> "UploadOnly"
    [] OTHER -> m

MirrorAction(a) ==
  CASE a = "UploadToRemote" -> "DownloadFromRemote"
    [] a = "DownloadFromRemote" -> "UploadToRemote"
    [] a = "LocalMissingUnsynchronized" -> "RemoteMissingUnsynchronized"
    [] a = "RemoteMissingUnsynchronized" -> "LocalMissingUnsynchronized"
    [] OTHER -> a

MissingOnBoth(p) ==
  /\ local[p] # NoRecord /\ remote[p] # NoRecord
  /\ IsMissing(local[p]) /\ IsMissing(remote[p])

\* The two devices never plan at cross purposes: what one plans for a path is
\* the mirror image of what its peer plans for it from the same manifests
\* (plan_path and plan_existing_path test the two sides in a fixed order, so
\* a file that both know as missing is the one exception: each blames itself).
MirrorPlans ==
  \A p \in Path :
    LET mine == entry(p, local[p], remote[p], mode)
        theirs == entry(p, remote[p], local[p], MirrorMode(mode))
    IN IF MissingOnBoth(p)
       THEN mine.action = "LocalMissingUnsynchronized" /\ theirs.action = mine.action
       ELSE theirs.action = MirrorAction(mine.action)

\* One undisturbed cycle settles a folder: whatever the two indexes held, the
\* plan of the second and of every later cycle holds no transfer, so the
\* upserts of download_operation and write_uploaded_file leave nothing that
\* plan_path would transfer again.
SettledAfterOneCycle == round >= 2 => Planned(plan, TransferAction) = {}

\* A plan never lets a transfer replace anything: in a cycle without user
\* decisions every record of either index survives (plan_path orders a
\* transfer only towards the side without a record).
NoRecordOverwritten ==
  [][\A p \in Path : /\ local[p] # NoRecord => local'[p] = local[p]
                     /\ remote[p] # NoRecord => remote'[p] = remote[p]]_vars

\* Where both sides have a record, the planner agrees with the library's own
\* classify_file_presence without a common base, up to the file that both
\* know as missing.
AgreesWithClassification ==
  \A p \in Path :
    local[p] # NoRecord /\ remote[p] # NoRecord /\ ~MissingOnBoth(p) =>
      LET class == classify_file_presence(local[p], remote[p], NoHash)
      IN entry(p, local[p], remote[p], mode).action =
           CASE class = "LocalOnlyDelete" -> "LocalMissingUnsynchronized"
             [] class = "RemoteOnlyDelete" -> "RemoteMissingUnsynchronized"
             [] OTHER -> class
=============================================================================
