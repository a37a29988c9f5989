------------------------------ MODULE Planning ------------------------------
(***************************************************************************)
(* The sync planner of crates/syncer-core/src/planning.rs: what one device *)
(* decides to do about every path when it compares its own manifest with   *)
(* the manifest of a peer.                                                 *)
(*                                                                         *)
(* A manifest is a function from paths to records; NoRecord says that the  *)
(* index has no row for the path.  A Content stands for the pair (content  *)
(* hash, size): the planner only ever compares both together.  Scanner and *)
(* transfers index regular files only and always with a hash, so a record  *)
(* has no kind and its hash is never None.                                 *)
(***************************************************************************)
EXTENDS Naturals

CONSTANTS
  Path,       \* relative paths; numbers, so that ORDER BY path is <
  Content,    \* file contents (hash and size)
  NoRecord,   \* Option<&FileRecord>::None
  NoHash      \* Option<String>::None

ASSUME PathAssumption == Path \subseteq Nat
ASSUME NoHashAssumption == NoHash \notin Content

\* FileSyncState; the other three members of the enum are never written by
\* any statement of the program.
FileSyncState == {"LocalAvailable", "UnsynchronizedLocalMissing"}

FileRecord == [hash : Content, state : FileSyncState]

ASSUME NoRecordAssumption == NoRecord \notin FileRecord

\* FolderManifest.files seen through files_by_path.
Manifest == [Path -> FileRecord \cup {NoRecord}]

FolderMode == {"Bidirectional", "UploadOnly", "DownloadOnly"}

TransferAction == {"UploadToRemote", "DownloadFromRemote"}

BlockedAction == {"Conflict", "LocalMissingUnsynchronized",
                  "RemoteMissingUnsynchronized", "ModeBlocked"}

SyncAction == {"InSync"} \cup TransferAction \cup BlockedAction

SyncPlanEntry == [path : Path,
                  action : SyncAction,
                  local_content_hash : Content \cup {NoHash},
                  remote_content_hash : Content \cup {NoHash}]

-----------------------------------------------------------------------------
Available(hash) == [hash |-> hash, state |-> "LocalAvailable"]

IsMissing(record) == record.state = "UnsynchronizedLocalMissing"

HashOf(record) == IF record = NoRecord THEN NoHash ELSE record.hash

\* Mutant of plan_existing_path: the newer local version simply wins.
LocalVersionWins(local, remote) ==
  IF IsMissing(local) THEN "LocalMissingUnsynchronized"
  ELSE IF IsMissing(remote) THEN "RemoteMissingUnsynchronized"
  ELSE IF local.hash = remote.hash THEN "InSync" ELSE "UploadToRemote"

\* Mutant of plan_existing_path: the state of the peer's record is not read.
RemoteStateIgnored(local, remote) ==
  IF IsMissing(local) THEN "LocalMissingUnsynchronized"
  ELSE IF local.hash = remote.hash THEN "InSync" ELSE "Conflict"

\* plan_existing_path: both sides have a record of the path.
plan_existing_path(local, remote) ==
  IF IsMissing(local) THEN "LocalMissingUnsynchronized"
  ELSE IF IsMissing(remote) THEN "RemoteMissingUnsynchronized"
  ELSE IF local.hash = remote.hash THEN "InSync" ELSE "Conflict"

\* Mutant of plan_path: downloads whatever only the peer has a record of.
DownloadsMissing(local, remote) ==
  IF local # NoRecord /\ remote # NoRecord THEN plan_existing_path(local, remote)
  ELSE IF local # NoRecord
       THEN IF IsMissing(local) THEN "LocalMissingUnsynchronized" ELSE "UploadToRemote"
  ELSE IF remote # NoRecord THEN "DownloadFromRemote" ELSE "InSync"

\* plan_path: the action, from which side has a record and in which state.
plan_path(local, remote) ==
  IF local # NoRecord /\ remote # NoRecord THEN plan_existing_path(local, remote)
  ELSE IF local # NoRecord
       THEN IF IsMissing(local) THEN "LocalMissingUnsynchronized" ELSE "UploadToRemote"
  ELSE IF remote # NoRecord
       THEN IF IsMissing(remote) THEN "RemoteMissingUnsynchronized" ELSE "DownloadFromRemote"
  ELSE "InSync"

\* apply_folder_mode: a one-way folder blocks the transfers of the other way.
apply_folder_mode(action, mode) ==
  IF \/ mode = "UploadOnly" /\ action = "DownloadFromRemote"
     \/ mode = "DownloadOnly" /\ action = "UploadToRemote"
  THEN "ModeBlocked"
  ELSE action

\* entry: the plan entry of one path.
entry(path, local, remote, mode) ==
  [path |-> path,
   action |-> apply_folder_mode(plan_path(local, remote), mode),
   local_content_hash |-> HashOf(local),
   remote_content_hash |-> HashOf(remote)]

\* plan_manifest_sync_for_mode: one entry per path that either side knows.
plan_manifest_sync_for_mode(local, remote, mode) ==
  { entry(p, local[p], remote[p], mode) :
      p \in {q \in Path : local[q] # NoRecord \/ remote[q] # NoRecord} }

\* increment_summary over all entries: how many have the given action.  It is
\* stated as the set of the entries counted.
Planned(plan, actions) == {e \in plan : e.action \in actions}

-----------------------------------------------------------------------------
(* classify_file_presence, the three-way classification of the library.    *)

\* FilePresence of a record: Present(entry), MissingKnown or Unknown.
Presence(record) ==
  IF record = NoRecord THEN "Unknown"
  ELSE IF IsMissing(record) THEN "MissingKnown" ELSE "Present"

classify_file_presence(local, remote, base) ==
  LET here == Presence(local)
      there == Presence(remote)
      local_changed == local.hash # base
      remote_changed == remote.hash # base
  IN CASE here = "Unknown" \/ there = "Unknown" -> "Unknown"
       [] here = "MissingKnown" /\ there = "MissingKnown" -> "InSync"
       [] here = "MissingKnown" /\ there = "Present" -> "LocalOnlyDelete"
       [] here = "Present" /\ there = "MissingKnown" -> "RemoteOnlyDelete"
       [] OTHER ->
            IF local.hash = remote.hash THEN "InSync"
            ELSE IF base = NoHash THEN "Conflict"
            ELSE CASE local_changed /\ remote_changed -> "Conflict"
                   [] local_changed /\ ~remote_changed -> "RemoteNeedsUpload"
                   [] ~local_changed /\ remote_changed -> "LocalNeedsDownload"
                   [] OTHER -> "InSync"
=============================================================================
