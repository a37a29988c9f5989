----------------------------- MODULE SyncCycle -----------------------------
(***************************************************************************)
(* The sync cycle between two devices that share one folder: the disks the *)
(* user works on, the index and the queue of each device, the agent that   *)
(* runs sync-once (run_sync_once, run_sync_queue, download_operation,      *)
(* upload_operation) and the tasks of the peer server that carry out its   *)
(* requests (write_uploaded_file, delete_shared_file).                     *)
(*                                                                         *)
(* A step of the model ends where the code gives others a chance: at a     *)
(* request to the peer, at each change of the disk and at each write of    *)
(* the index.  Scans are atomic here; FolderScan models them step by step. *)
(* The server runs a task per connection and does not notice that a client *)
(* has given up on it (5 s read timeout), so a task may outlive its call.  *)
(***************************************************************************)
EXTENDS StateDb

CONSTANTS
  Client,       \* devices whose agent runs; every device serves
  Slot,         \* server tasks that may be under way at once
  NoFile,       \* the path is absent from the disk
  SizeLimits,   \* the pairs of size limits the two folders may have
  Limit,        \* --limit: operations per run of the queue
  BusyEdits,    \* may the user edit while an agent or a task is under way?
  MaxEdits,     \* bound on the number of edits by the user
  MaxPlans,     \* bound on the number of plans per device
  MaxRetries,   \* bound on retry_count
  MaxFaults     \* bound on the number of crashes and timeouts

ASSUME TwoDevices == /\ \E d, e \in Device : d # e /\ Device = {d, e}
                     /\ Client \subseteq Device
ASSUME LimitsAssumption == SizeLimits \subseteq [Device -> Nat]
ASSUME NoFileAssumption == NoFile \notin Content
ASSUME BoundAssumption == MaxEdits \in Nat /\ MaxPlans \in Nat /\ MaxFaults \in Nat

VARIABLES
  disk,      \* disk[d][p]: the user's files
  files,     \* files[d]: table files
  skipped,   \* skipped[d]: paths in table skipped_files
  ops,       \* ops[d]: table sync_operations
  plans,     \* plans[d]: number of plans enqueued
  agent,     \* agent[d]: the local state of the process that runs a command
  task,      \* task[s]: the server task in slot s
  approved,  \* history: <<d, p, c>> the user agreed to lose version c of p on d
  exposed,   \* history: <<d, p, c>> the user wrote c where a run or a task was about to act
  versions,  \* history: <<p, c>> c is or was a version of p that the user made
  edits,     \* number of edits by the user
  faults,    \* number of crashes and timeouts
  size_limit \* size_limit[d]: folder.size_limit.max_bytes, every file having size 1

user == <<approved, exposed, versions>>

vars == <<disk, files, skipped, ops, plans, agent, task, user, edits, faults, size_limit>>

Peer(d) == CHOOSE e \in Device : e # d

NoManifest == [p \in Path |-> NoRecord]

\* The agent between commands.
Idle == [pc |-> "idle", lman |-> NoManifest, rman |-> NoManifest,
         downloads |-> {}, uploads |-> {}, replace |-> FALSE, body |-> NoHash, slot |-> 0, erase |-> 0]

FreeSlot == [kind |-> "none", client |-> NoFile, server |-> NoFile, path |-> 0,
             hash |-> NoHash, stage |-> "free"]

Init ==
  /\ disk \in [Device -> [Path -> Content \cup {NoFile}]]
  /\ files = [d \in Device |-> NoManifest]
  /\ skipped = [d \in Device |-> {}]
  /\ ops = [d \in Device |-> {}]
  /\ plans = [d \in Device |-> 0]
  /\ agent = [d \in Device |-> Idle]
  /\ task = [s \in Slot |-> FreeSlot]
  /\ approved = {}
  /\ exposed = {}
  /\ versions = {v \in Path \X Content : \E d \in Device : disk[d][v[1]] = v[2]}
  /\ edits = 0
  /\ faults = 0
  /\ size_limit \in SizeLimits

-----------------------------------------------------------------------------
(* Shared steps *)

\* scan_into, completed and undisturbed: a file found is upserted, a row whose
\* file was not found becomes missing.
scan_into(manifest, folder) ==
  [p \in Path |-> IF folder[p] # NoFile THEN Available(folder[p]) ELSE AsMissing(manifest[p])]

Scanned(d) == [files EXCEPT ![d] = scan_into(@, disk[d])]

Goto(d, pc) == agent' = [agent EXCEPT ![d].pc = pc]

\* Option::or of the two hashes.
HashOr(hash, other) == IF hash # NoHash THEN hash ELSE other

Queued(d) == agent[d].downloads \cup agent[d].uploads

\* The operation the two for loops of run_sync_queue are at.
IsCurrent(d, o) ==
  LET rows == IF agent[d].downloads # {} THEN agent[d].downloads ELSE agent[d].uploads
  IN o \in rows /\ IsFirst(o.id, {q.id : q \in rows})

\* Mutant of Advanced: the loop goes on as if it still waited for its request.
ConnectionKept(d, o) ==
  [agent EXCEPT ![d] = [@ EXCEPT !.pc = "next", !.replace = FALSE, !.body = NoHash,
                                 !.downloads = agent[d].downloads \ {o},
                                 !.uploads = agent[d].uploads \ {o}]]

\* The operation is finished and the loop goes on.
Advanced(d, o) ==
  [agent EXCEPT ![d] = [@ EXCEPT !.pc = "next", !.replace = FALSE, !.body = NoHash, !.slot = 0,
                                 !.downloads = agent[d].downloads \ {o},
                                 !.uploads = agent[d].uploads \ {o}]]

\* Err(error): mark_sync_operation_failed and the next operation.
Fail(d, o) ==
  /\ ops' = [ops EXCEPT ![d] = mark_sync_operation_failed(@, o.id)]
  /\ agent' = Advanced(d, o)

\* Ok(result): mark_sync_operation_done and the next operation.
Finish(d, o) ==
  /\ ops' = [ops EXCEPT ![d] = mark_sync_operation_done(@, o.id)]
  /\ agent' = Advanced(d, o)

\* Mutant of FitsLimit: the last byte may not be used.
FitsBelowLimit(d) == indexed_bytes(files[d]) + 1 < size_limit[d]

\* Mutant of FitsLimit: compares what is there, not what would be there.
FitsUnlessFull(d) == indexed_bytes(files[d]) <= size_limit[d]

\* Has the folder room for one more file?  remaining_bytes saturates at zero.
FitsLimit(d) == indexed_bytes(files[d]) + 1 <= size_limit[d]

-----------------------------------------------------------------------------
(* sync-once: build_sync_plan, enqueue_sync_plan, run_sync_queue *)

\* build_sync_plan up to the request for the peer's manifest.
BeginPlan(d) ==
  /\ agent[d].pc = "idle"
  /\ plans[d] < MaxPlans
  /\ files' = Scanned(d)
  /\ agent' = [agent EXCEPT ![d].pc = "plan", ![d].lman = files'[d]]
  /\ UNCHANGED <<disk, skipped, ops, plans, task, user, edits, faults, size_limit>>

\* The peer scans and answers; the plan is made and enqueued.
MakePlan(d) ==
  /\ agent[d].pc = "plan"
  /\ files' = Scanned(Peer(d))
  /\ plans' = [plans EXCEPT ![d] = @ + 1]
  /\ ops' = [ops EXCEPT ![d] = enqueue_sync_plan(@,
       plan_manifest_sync_for_mode(agent[d].lman, files'[Peer(d)], "Bidirectional"),
       Peer(d), plans'[d])]
  /\ agent' = [agent EXCEPT ![d].pc = "queue", ![d].lman = NoManifest]
  /\ UNCHANGED <<disk, skipped, task, user, edits, faults, size_limit>>

\* run_sync_queue scans first.
BeginQueue(d) ==
  /\ agent[d].pc = "queue"
  /\ files' = Scanned(d)
  /\ Goto(d, "manifest")
  /\ UNCHANGED <<disk, skipped, ops, plans, task, user, edits, faults, size_limit>>

\* The peer scans and answers with its manifest; the batch is listed.
ListBatch(d) ==
  LET down == list_pending_operations(ops[d], Peer(d), "DownloadFromRemote", Limit)
      up == list_pending_operations(ops[d], Peer(d), "UploadToRemote", Limit - Cardinality(down))
  IN /\ agent[d].pc = "manifest"
     /\ files' = Scanned(Peer(d))
     /\ agent' = [agent EXCEPT ![d] = [@ EXCEPT !.pc = "next", !.rman = files'[Peer(d)],
                                                !.downloads = down, !.uploads = up]]
     /\ UNCHANGED <<disk, skipped, ops, plans, task, user, edits, faults, size_limit>>

\* mark_sync_operation_started.
StartNext(d, o) ==
  /\ agent[d].pc = "next"
  /\ IsCurrent(d, o)
  /\ ops' = [ops EXCEPT ![d] = mark_sync_operation_started(@, o.id)]
  /\ Goto(d, IF o \in agent[d].downloads THEN "download" ELSE "upload")
  /\ UNCHANGED <<disk, files, skipped, plans, task, user, edits, faults, size_limit>>

EndRun(d) ==
  /\ agent[d].pc = "next"
  /\ Queued(d) = {}
  /\ agent' = [agent EXCEPT ![d] = Idle]
  /\ UNCHANGED <<disk, files, skipped, ops, plans, task, user, edits, faults, size_limit>>

-----------------------------------------------------------------------------
(* download_operation *)

\* The peer's manifest has a record with the hash the plan noted (its state is
\* not looked at).
RemoteUnchanged(d, o) ==
  LET remote == agent[d].rman[o.path]
  IN remote # NoRecord /\ remote.hash = HashOr(o.remote_content_hash, remote.hash)

\* Mutant of MayReplace: any file at the target is replaced.
ReplacesAny(d, o) == files[d][o.path] # NoRecord

\* The index still has the version the plan noted for the local side.
MayReplace(d, o) ==
  /\ files[d][o.path] # NoRecord
  /\ o.local_content_hash = files[d][o.path].hash

\* The checks before anything is fetched.
CheckDownload(d, o) ==
  /\ agent[d].pc = "download"
  /\ IsCurrent(d, o)
  /\ LET exists == disk[d][o.path] # NoFile
     IN \/ /\ ~RemoteUnchanged(d, o)
           /\ Fail(d, o)
           /\ UNCHANGED skipped
        \/ /\ RemoteUnchanged(d, o) /\ ~FitsLimit(d)
           /\ skipped' = [skipped EXCEPT ![d] = record_skipped_folder_limit(@, o.path)]
           /\ Fail(d, o)
        \/ /\ RemoteUnchanged(d, o) /\ FitsLimit(d) /\ exists /\ ~MayReplace(d, o)
           /\ Fail(d, o)
           /\ UNCHANGED skipped
        \/ /\ RemoteUnchanged(d, o) /\ FitsLimit(d) /\ (exists => MayReplace(d, o))
           /\ agent' = [agent EXCEPT ![d].pc = "fetch", ![d].replace = exists]
           /\ UNCHANGED <<skipped, ops>>
  /\ UNCHANGED <<disk, files, plans, task, user, edits, faults, size_limit>>

\* shared_file scans (the caller does so) and serves what the index then shows as
\* available; otherwise it answers NotFound.
shared_file(manifest, p) ==
  IF manifest[p] # NoRecord /\ ~IsMissing(manifest[p]) THEN manifest[p].hash ELSE NoFile

\* fetch_file_to_path: size and hash of what arrived are compared with the
\* peer's manifest.
Fetch(d, o) ==
  LET e == Peer(d)
      arrived == shared_file(files'[e], o.path)
  IN /\ agent[d].pc = "fetch"
     /\ IsCurrent(d, o)
     /\ files' = Scanned(e)
     /\ \/ /\ arrived # agent[d].rman[o.path].hash      \* not found or not verified
           /\ Fail(d, o)
        \/ /\ arrived = agent[d].rman[o.path].hash
           /\ agent' = [agent EXCEPT ![d].pc = IF agent[d].replace THEN "remove" ELSE "publish",
                                     ![d].body = arrived]
           /\ UNCHANGED ops
     /\ UNCHANGED <<disk, skipped, plans, task, user, edits, faults, size_limit>>

\* remove_file(target) when a version is replaced.
RemoveReplaced(d, o) ==
  /\ agent[d].pc = "remove"
  /\ IsCurrent(d, o)
  /\ disk' = [disk EXCEPT ![d][o.path] = NoFile]
  /\ \/ disk[d][o.path] = NoFile /\ Fail(d, o)
     \/ disk[d][o.path] # NoFile /\ Goto(d, "publish") /\ UNCHANGED ops
  /\ UNCHANGED <<files, skipped, plans, task, user, edits, faults, size_limit>>

\* publish_download: a rename, which replaces whatever is at the target.
PublishDownload(d, o) ==
  /\ agent[d].pc = "publish"
  /\ IsCurrent(d, o)
  /\ disk' = [disk EXCEPT ![d][o.path] = agent[d].body]
  /\ Goto(d, "index")
  /\ UNCHANGED <<files, skipped, ops, plans, task, user, edits, faults, size_limit>>

\* upsert_file of what was transferred, then done.
IndexDownload(d, o) ==
  /\ agent[d].pc = "index"
  /\ IsCurrent(d, o)
  /\ files' = [files EXCEPT ![d] = upsert_file(@, o.path, agent[d].body)]
  /\ Finish(d, o)
  /\ UNCHANGED <<disk, skipped, plans, task, user, edits, faults, size_limit>>

-----------------------------------------------------------------------------
(* upload_operation *)

\* The file the peer's manifest shows at the path, if it has one.
RemoteTarget(d, o) ==
  LET remote == agent[d].rman[o.path]
  IN IF remote # NoRecord /\ ~IsMissing(remote) THEN remote.hash ELSE NoHash

LocalUnchanged(d, o) ==
  LET record == files[d][o.path]
  IN record # NoRecord /\ record.hash = HashOr(o.local_content_hash, record.hash)

\* The checks before anything is sent; the hash that the PUT is going to carry
\* is kept.
CheckUpload(d, o) ==
  LET target == RemoteTarget(d, o)
      refused == \/ ~LocalUnchanged(d, o)
                 \/ target # NoHash /\ o.remote_content_hash # target
  IN /\ agent[d].pc = "upload"
     /\ IsCurrent(d, o)
     /\ \/ refused /\ Fail(d, o)
        \/ /\ ~refused
           /\ agent' = [agent EXCEPT ![d].pc = IF target # NoHash THEN "delete" ELSE "put",
                                     ![d].body = files[d][o.path].hash]
           /\ UNCHANGED ops
     /\ UNCHANGED <<disk, files, skipped, plans, task, user, edits, faults, size_limit>>

\* A request reaches the peer's server, which starts a task for it.
Request(d, s, kind, path, hash) ==
  /\ task[s] = FreeSlot
  /\ task' = [task EXCEPT ![s] = [kind |-> kind, client |-> d, server |-> Peer(d),
                                  path |-> path, hash |-> hash, stage |-> "received"]]

\* peer_client::delete_file of the version that the upload replaces.
SendDelete(d, o, s) ==
  /\ agent[d].pc = "delete"
  /\ IsCurrent(d, o)
  /\ Request(d, s, "delete", o.path, RemoteTarget(d, o))
  /\ agent' = [agent EXCEPT ![d].pc = "delete_wait", ![d].slot = s]
  /\ UNCHANGED <<disk, files, skipped, ops, plans, user, edits, faults, size_limit>>

\* put_file_from_path reads the file again and compares its hash.
SendPut(d, o, s) ==
  LET expected == agent[d].body
  IN /\ agent[d].pc = "put"
     /\ IsCurrent(d, o)
     /\ \/ /\ disk[d][o.path] # expected
           /\ Fail(d, o)
           /\ UNCHANGED task
        \/ /\ disk[d][o.path] = expected
           /\ Request(d, s, "put", o.path, expected)
           /\ agent' = [agent EXCEPT ![d].pc = "put_wait", ![d].slot = s]
           /\ UNCHANGED ops
     /\ UNCHANGED <<disk, files, skipped, plans, user, edits, faults, size_limit>>

\* parse_json_response: only status 200 is an answer, any other an error.
Accepted(s) == task[s].stage = "accepted"

\* Mutant of Answer: response.accepted is not looked at.
AnswerNotChecked(d, o) ==
  LET s == agent[d].slot
  IN /\ agent[d].pc \in {"delete_wait", "put_wait"}
     /\ IsCurrent(d, o)
     /\ task[s].stage \in {"accepted", "refused"}
     /\ task' = [task EXCEPT ![s] = FreeSlot]
     /\ \/ /\ agent[d].pc = "delete_wait"
           /\ agent' = [agent EXCEPT ![d].pc = "put", ![d].slot = 0]
           /\ UNCHANGED ops
        \/ agent[d].pc = "put_wait" /\ Finish(d, o)
     /\ UNCHANGED <<disk, files, skipped, plans, user, edits, faults, size_limit>>

\* The answer arrives: on to the PUT, done, or failed.
Answer(d, o) ==
  LET s == agent[d].slot
      accepted == Accepted(s)
  IN /\ agent[d].pc \in {"delete_wait", "put_wait"}
     /\ IsCurrent(d, o)
     /\ task[s].stage \in {"accepted", "refused"}
     /\ task' = [task EXCEPT ![s] = FreeSlot]
     /\ \/ ~accepted /\ Fail(d, o)
        \/ /\ accepted /\ agent[d].pc = "delete_wait"
           /\ agent' = [agent EXCEPT ![d].pc = "put", ![d].slot = 0]
           /\ UNCHANGED ops
        \/ accepted /\ agent[d].pc = "put_wait" /\ Finish(d, o)
     /\ UNCHANGED <<disk, files, skipped, plans, user, edits, faults, size_limit>>

-----------------------------------------------------------------------------
(* The tasks of the peer server *)

\* The client that waits for the task, if it still does.
Awaited(s) == \E d \in Client : agent[d].slot = s

\* The answer is written; nobody reads it when the client has given up.
Reply(s, outcome) ==
  task' = [task EXCEPT ![s] = IF Awaited(s) THEN [@ EXCEPT !.stage = outcome] ELSE FreeSlot]

\* write_uploaded_file: enforce_folder_limit, then try_exists on the target.
CheckPut(s) ==
  LET e == task[s].server
      p == task[s].path
  IN /\ task[s].kind = "put" /\ task[s].stage = "received"
     /\ IF FitsLimit(e) /\ disk[e][p] = NoFile
        THEN task' = [task EXCEPT ![s].stage = "checked"]
        ELSE Reply(s, "refused")
     /\ UNCHANGED <<disk, files, skipped, ops, plans, agent, user, edits, faults, size_limit>>

\* publish_uploaded_file: a rename, which replaces whatever is at the target.
PublishPut(s) ==
  /\ task[s].kind = "put" /\ task[s].stage = "checked"
  /\ disk' = [disk EXCEPT ![task[s].server][task[s].path] = task[s].hash]
  /\ task' = [task EXCEPT ![s].stage = "published"]
  /\ UNCHANGED <<files, skipped, ops, plans, agent, user, edits, faults, size_limit>>

\* upsert_file of the received file, then the answer.
IndexPut(s) ==
  /\ task[s].kind = "put" /\ task[s].stage = "published"
  /\ files' = [files EXCEPT ![task[s].server] = upsert_file(@, task[s].path, task[s].hash)]
  /\ Reply(s, "accepted")
  /\ UNCHANGED <<disk, skipped, ops, plans, agent, user, edits, faults, size_limit>>

\* Mutant of CheckDelete: removes whatever version is there by now.
DeletesAnyVersion(s) ==
  LET e == task[s].server
  IN /\ task[s].kind = "delete" /\ task[s].stage = "received"
     /\ files' = Scanned(e)
     /\ IF disk[e][task[s].path] # NoFile
        THEN task' = [task EXCEPT ![s].stage = "checked"]
        ELSE Reply(s, "refused")
     /\ UNCHANGED <<disk, skipped, ops, plans, agent, user, edits, faults, size_limit>>

\* delete_shared_file: scan, then compare the record with the request.
CheckDelete(s) ==
  LET e == task[s].server
  IN /\ task[s].kind = "delete" /\ task[s].stage = "received"
     /\ files' = Scanned(e)
     /\ IF files'[e][task[s].path] = Available(task[s].hash)
        THEN task' = [task EXCEPT ![s].stage = "checked"]
        ELSE Reply(s, "refused")
     /\ UNCHANGED <<disk, skipped, ops, plans, agent, user, edits, faults, size_limit>>

\* remove_file, which fails when the file is gone.
RemoveDelete(s) ==
  LET e == task[s].server
      p == task[s].path
  IN /\ task[s].kind = "delete" /\ task[s].stage = "checked"
     /\ disk' = [disk EXCEPT ![e][p] = NoFile]
     /\ IF disk[e][p] # NoFile
        THEN task' = [task EXCEPT ![s].stage = "removed"]
        ELSE Reply(s, "refused")
     /\ UNCHANGED <<files, skipped, ops, plans, agent, user, edits, faults, size_limit>>

\* forget_file, then the answer.
ForgetDelete(s) ==
  /\ task[s].kind = "delete" /\ task[s].stage = "removed"
  /\ files' = [files EXCEPT ![task[s].server] = forget_file(@, task[s].path)]
  /\ Reply(s, "accepted")
  /\ UNCHANGED <<disk, skipped, ops, plans, agent, user, edits, faults, size_limit>>

-----------------------------------------------------------------------------
(* Faults *)

\* The client stops waiting; its task goes on.
Abandon(d) ==
  LET s == agent[d].slot
  IN task' = IF s # 0 /\ task[s].stage \in {"accepted", "refused"}
             THEN [task EXCEPT ![s] = FreeSlot] ELSE task

\* A request for a file, a PUT or a DELETE does not reach the peer or is not
\* answered in time: the operation failed.
TransferTimesOut(d, o) ==
  /\ faults < MaxFaults
  /\ agent[d].pc \in {"fetch", "delete", "delete_wait", "put", "put_wait"}
  /\ IsCurrent(d, o)
  /\ Fail(d, o)
  /\ Abandon(d)
  /\ faults' = faults + 1
  /\ UNCHANGED <<disk, files, skipped, plans, user, edits, size_limit>>

\* The process of a command dies, or leaves it on an error of the database, of
\* a scan or of the request for a manifest.
AgentStops(d) ==
  /\ faults < MaxFaults
  /\ agent[d].pc # "idle"
  /\ agent' = [agent EXCEPT ![d] = Idle]
  /\ Abandon(d)
  /\ faults' = faults + 1
  /\ UNCHANGED <<disk, files, skipped, ops, plans, user, edits, size_limit>>

\* The server process dies with its tasks; the clients see the connection close.
ServerStops(e) ==
  /\ faults < MaxFaults
  /\ \E s \in Slot : task[s].server = e /\ task[s].stage \notin {"accepted", "refused"}
  /\ task' = [s \in Slot |-> IF task[s].server # e \/ task[s].stage \in {"accepted", "refused"}
                             THEN task[s]
                             ELSE IF Awaited(s) THEN [task[s] EXCEPT !.stage = "refused"]
                             ELSE FreeSlot]
  /\ faults' = faults + 1
  /\ UNCHANGED <<disk, files, skipped, ops, plans, agent, user, edits, size_limit>>

-----------------------------------------------------------------------------
(* The user *)

Busy == \/ \E d \in Client : agent[d].pc # "idle"
        \/ \E s \in Slot : task[s] # FreeSlot

\* What is at the path on d may have been looked at already: by the scan that
\* began a run which may still download it, or by a task that is past its check.
InFlight(d, p) ==
  \/ agent[d].pc = "manifest"
  \/ \E o \in agent[d].downloads : o.path = p
  \/ \E s \in Slot : task[s].server = d /\ task[s].path = p /\ task[s].stage = "checked"

\* The user writes or removes a file with any other program.
Edit(d, p, version) ==
  /\ edits < MaxEdits
  /\ BusyEdits \/ ~Busy
  /\ disk[d][p] # version
  /\ disk' = [disk EXCEPT ![d][p] = version]
  /\ exposed' = IF version # NoFile /\ InFlight(d, p)
                THEN exposed \cup {<<d, p, version>>} ELSE exposed
  /\ versions' = IF version # NoFile THEN versions \cup {<<p, version>>} ELSE versions
  /\ edits' = edits + 1
  /\ UNCHANGED <<files, skipped, ops, plans, agent, task, approved, faults, size_limit>>

\* retry-failed.
Retry(d) ==
  /\ agent[d].pc = "idle"
  /\ \A o \in ops[d] : o.retry_count < MaxRetries
  /\ ops' = [ops EXCEPT ![d] = retry_failed_sync_operations(@, Device)]
  /\ ops' # ops
  /\ UNCHANGED <<disk, files, skipped, plans, agent, task, user, edits, faults, size_limit>>

\* execute-sync-queue, run_sync_queue without a new plan.
ExecuteQueue(d) ==
  /\ agent[d].pc = "idle"
  /\ \E o \in ops[d] : o.status = "pending"
  /\ files' = Scanned(d)
  /\ Goto(d, "manifest")
  /\ UNCHANGED <<disk, skipped, ops, plans, task, user, edits, faults, size_limit>>

\* resolve-blocked: the user gives up the version on the side that receives.
Resolve(d, o, resolution) ==
  /\ agent[d].pc = "idle"
  /\ CanResolve(o, resolution)
  /\ ops' = [ops EXCEPT ![d] = resolve_update(@, o.id, resolution)]
  /\ approved' = approved \cup
       {IF resolution = "DownloadFromRemote" THEN <<d, o.path, o.local_content_hash>>
        ELSE <<Peer(d), o.path, o.remote_content_hash>>}
  /\ UNCHANGED <<disk, files, skipped, plans, agent, task, exposed, versions, edits, faults, size_limit>>

\* delete-file removes the local file first, whatever the scope: LocalOnly goes
\* on to the index, PropagateToPeers to the peer.
DeleteFile(d, p, scope) ==
  /\ edits < MaxEdits
  /\ BusyEdits \/ ~Busy
  /\ agent[d].pc = "idle"
  /\ files[d][p] # NoRecord
  /\ disk' = [disk EXCEPT ![d][p] = NoFile]
  /\ agent' = [agent EXCEPT ![d] = [@ EXCEPT !.pc = scope, !.erase = p, !.body = files[d][p].hash]]
  /\ approved' = IF scope = "LocalOnly" THEN approved
                 ELSE approved \cup {<<Peer(d), p, files[d][p].hash>>}
  /\ edits' = edits + 1
  /\ UNCHANGED <<files, skipped, ops, plans, task, exposed, versions, faults, size_limit>>

\* mark_file_deleted_locally ends a delete on this device only.
EndDeleteLocal(d) ==
  /\ agent[d].pc = "LocalOnly"
  /\ files' = [files EXCEPT ![d] = mark_file_deleted_locally(@, agent[d].erase)]
  /\ agent' = [agent EXCEPT ![d] = Idle]
  /\ UNCHANGED <<disk, skipped, ops, plans, task, user, edits, faults, size_limit>>

\* A delete on both devices asks the peer for the version of the old record.
SendErase(d, s) ==
  /\ agent[d].pc = "PropagateToPeers"
  /\ Request(d, s, "delete", agent[d].erase, agent[d].body)
  /\ agent' = [agent EXCEPT ![d].pc = "erase_wait", ![d].slot = s]
  /\ UNCHANGED <<disk, files, skipped, ops, plans, user, edits, faults, size_limit>>

\* The record is forgotten only when the peer has deleted its file.
EndDeleteBoth(d) ==
  LET s == agent[d].slot
  IN /\ agent[d].pc = "erase_wait"
     /\ task[s].stage \in {"accepted", "refused"}
     /\ files' = IF Accepted(s)
                 THEN [files EXCEPT ![d] = forget_file(@, agent[d].erase)] ELSE files
     /\ task' = [task EXCEPT ![s] = FreeSlot]
     /\ agent' = [agent EXCEPT ![d] = Idle]
     /\ UNCHANGED <<disk, skipped, ops, plans, user, edits, faults, size_limit>>

-----------------------------------------------------------------------------
\* A transfer in progress.
Transfer(d) ==
  \E o \in Queued(d) :
    \/ StartNext(d, o)
    \/ CheckDownload(d, o) \/ Fetch(d, o) \/ RemoveReplaced(d, o)
    \/ PublishDownload(d, o) \/ IndexDownload(d, o)
    \/ CheckUpload(d, o) \/ Answer(d, o)
    \/ \E s \in Slot : SendDelete(d, o, s) \/ SendPut(d, o, s)

\* The steps of a sync loop.
Cycle(d) ==
  \/ BeginPlan(d) \/ MakePlan(d) \/ BeginQueue(d) \/ ListBatch(d)
  \/ Transfer(d) \/ EndRun(d)
  \/ EndDeleteLocal(d) \/ (\E s \in Slot : SendErase(d, s)) \/ EndDeleteBoth(d)

Serve(s) ==
  \/ CheckPut(s) \/ PublishPut(s) \/ IndexPut(s)
  \/ CheckDelete(s) \/ RemoveDelete(s) \/ ForgetDelete(s)

User ==
  \/ \E d \in Device, p \in Path, version \in Content \cup {NoFile} : Edit(d, p, version)
  \/ \E d \in Client :
       \/ Retry(d) \/ ExecuteQueue(d)
       \/ \E o \in ops[d], resolution \in BlockedOperationResolution : Resolve(d, o, resolution)
       \/ \E p \in Path, scope \in {"LocalOnly", "PropagateToPeers"} : DeleteFile(d, p, scope)

Fault ==
  \/ \E d \in Client : AgentStops(d) \/ \E o \in Queued(d) : TransferTimesOut(d, o)
  \/ \E e \in Device : ServerStops(e)

Next ==
  \/ \E d \in Client : Cycle(d)
  \/ \E s \in Slot : Serve(s)
  \/ User
  \/ Fault

Spec == Init /\ [][Next]_vars

\* sync-loop keeps running cycles and the server its tasks: a process that can
\* take a step takes it.
Fairness ==
  /\ \A d \in Client : WF_vars(Cycle(d))
  /\ \A s \in Slot : WF_vars(Serve(s))

FairSpec == Spec /\ Fairness

-----------------------------------------------------------------------------
(* Properties *)

\* The promise to the user.  A version may go where the user gave it up, and
\* where the user wrote it into the way of a transfer that had looked already.
Folder == INSTANCE SharedFolder WITH givenUp <- approved \cup exposed

\* The whole system implements SharedFolder: with agents, server tasks, stale
\* rows, timeouts and crashes, a file changes by the user's hand, by one of its
\* versions arriving at a free place, or by a given-up version disappearing.
ImplementsSharedFolder == Folder!Spec

\* The tables, and that a client only waits for a task of its own.
TypeOK ==
  /\ disk \in [Device -> [Path -> Content \cup {NoFile}]]
  /\ files \in [Device -> Manifest]
  /\ skipped \in [Device -> SUBSET Path]
  /\ \A d \in Device : ops[d] \subseteq SyncOperationRecord
  /\ plans \in [Device -> 0..MaxPlans]
  /\ approved \subseteq Device \X Path \X (Content \cup {NoHash})
  /\ exposed \subseteq Device \X Path \X Content
  /\ versions \subseteq Path \X Content
  /\ edits \in 0..MaxEdits
  /\ faults \in 0..MaxFaults
  /\ size_limit \in SizeLimits
  /\ \A d \in Client : agent[d].slot # 0 => task[agent[d].slot].client = d

\* Whatever overlaps, Syncer never destroys the last copy of a version that the
\* user has given up nowhere: a file that a stale DELETE or a late rename removes
\* without the user's word is still on the other device.
LastCopyKept ==
  [][\A d \in Device, p \in Path :
       disk[d][p] # NoFile /\ disk'[d][p] # disk[d][p] /\ edits' = edits
         => \/ \E e \in Device : <<e, p, disk[d][p]>> \in approved
            \/ disk[Peer(d)][p] = disk[d][p]]_vars

\* Disk d has the version the queue row asked for; a row without a hash, made
\* when the sending side had no record, asks for any version.
Holds(d, p, hash) == disk[d][p] # NoFile /\ HashOr(hash, disk[d][p]) = disk[d][p]

\* When an operation is marked done its content is where it should be: a
\* download on this device, an upload on the peer.
DoneMeansCopied ==
  [][\A d \in Client : \A o \in ops[d], q \in ops'[d] :
       o.id = q.id /\ o.status # "done" /\ q.status = "done" =>
         IF q.kind = "DownloadFromRemote"
         THEN Holds(d, q.path, q.remote_content_hash)
         ELSE Holds(Peer(d), q.path, q.local_content_hash)]_vars

OnDisk(d) == {p \in Path : disk[d][p] # NoFile}

\* A download on d that has passed its checks is at p.
Downloads(d, p) ==
  /\ agent[d].pc \in {"fetch", "remove", "publish", "index"}
  /\ \E o \in Queued(d) : IsCurrent(d, o) /\ o.path = p

\* A PUT to d that has passed its checks is at p.
Receives(d, p) ==
  \E s \in Slot : /\ task[s].kind = "put" /\ task[s].stage \in {"checked", "published"}
                  /\ task[s].server = d /\ task[s].path = p

UnderWay(d) == {p \in Path : Downloads(d, p) \/ Receives(d, p)}

\* What is in the folder or has been let in.
Claimed(d) == OnDisk(d) \cup UnderWay(d)

\* Paths on which the user has chosen a version or deleted one.
Chosen == {a[2] : a \in approved}

\* A transfer that is let in finds room for itself beside all files of the folder,
\* apart from those that other transfers are bringing at that moment and those
\* that a crash cut off between the rename and upsert_file, at most one per task:
\* every other file has been counted by the time the limit is checked.  Where the
\* user has chosen a version, forget_file of a late DELETE can take the row of a
\* file that has arrived since; such paths are not counted here.
LimitRespected ==
  [][\A d \in Device :
       edits' = edits /\ Claimed(d)' \ Claimed(d) # {} =>
         Cardinality(Claimed(d)' \ Chosen)
           <= size_limit[d] + Cardinality(UnderWay(d)) + Cardinality(Slot) * faults]_vars

\* A file is skipped because of the folder limit only when the files in the
\* folder do reach the limit.
SkippedOnlyWhenFull ==
  [][\A d \in Device :
       skipped'[d] # skipped[d] => Cardinality(OnDisk(d)) >= size_limit[d]]_vars

\* Would the planner, after a scan on both sides, ask for a transfer that the
\* limit of the receiving folder leaves room for?
Pending(p) ==
  LET index == [d \in Device |-> scan_into(files[d], disk[d])]
      room(d) == indexed_bytes(index[d]) < size_limit[d]
  IN \E d \in Client :
       LET action == plan_path(index[d][p], index[Peer(d)][p])
       IN \/ action = "DownloadFromRemote" /\ room(d)
          \/ action = "UploadToRemote" /\ room(Peer(d))

\* The user and the faults are done, no process or task is in the middle of
\* anything, and an agent still has a cycle per path to run: with --limit 1 a
\* cycle transfers one file.
Undisturbed ==
  /\ edits = MaxEdits
  /\ faults = MaxFaults
  /\ ~Busy
  /\ \E d \in Client : plans[d] + Cardinality(Path) <= MaxPlans

\* Once nobody disturbs the agents any more, the folders settle whatever stale
\* rows and half-done transfers the faults left behind: in the end everything
\* that fits is transferred.
Settles == Undisturbed ~> [](\A p \in Path : ~Pending(p))
=============================================================================
