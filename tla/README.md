# Syncer in TLA+

Syncer keeps a folder the same on two devices. Each device runs `syncer-agent`: a
peer server that offers the folder to paired devices, and commands that compare
the folder with a peer's and transfer files (`sync-once`, `sync-loop`,
`execute-sync-queue`, `retry-failed`, `resolve-blocked`, `delete-file`) or set it
up (`init-folder`, `accept-peer`, `plan-folder-limit`). A desktop app runs these
commands for the user. This directory models that program in TLA+, checks it with
TLC on small instances and proves parts of it with TLAPS for every instance.

Everything is translated from `crates/syncer-core/src`, `crates/syncer-agent/src`
and `apps/linux-tauri/src-tauri/src`.

## 1. The system

| Part | State | Operations | Hard about it |
|---|---|---|---|
| Planner (`planning.rs`) | none | compares two manifests, one action per path, folder mode applied last | both devices decide alone, from manifests of different age |
| State database (`state_db.rs`) | tables `files`, `skipped_files`, `sync_operations` | one SQL statement or transaction each | rows are written by id alone; callers read and write in separate statements |
| Scanner (`scanner.rs`) | column `scan_missing` | mark all rows, walk and upsert, make the unseen rows missing | many scans at once, files changing during the walk, errors in the middle |
| Limits (`limits.rs`) | `folder.size_limit` | remaining bytes, warning threshold, which transfers fit | saturating arithmetic; checked before a transfer that is counted after it |
| Agent (`main.rs`) | processes; the batch and manifest of a run | plan, enqueue, list a batch, download, upload, resolve, retry, delete | no lock on the folder; crashes between disk and index |
| Peer server (`peer_server.rs`) | one task per connection | manifest, GET, PUT, DELETE, presence | tasks go on when the client has given up; check-then-act on the disk |
| Peer client (`peer_client.rs`) | none | requests with a 5 s read timeout, verification of what arrives | a timeout says nothing about what the server did |
| Signing and encryption (`request_signing.rs`, `peer_crypto.rs`) | temporary ciphertexts beside the file | sign, verify, encrypt and decrypt in chunks | both ends compute the framing alone; the source changes while it is read; the secret changes while a transfer runs |
| Peer store (`peer_store.rs`) | `peers.json` | `read_or_default`, `accept_ticket`, `write` | read-modify-write without a lock; one temporary name for all writers |
| Folder store (`folder_store.rs`) | `folder.json` | initialise, read, write | the same |
| Desktop app (`apps/linux-tauri`) | `state.json` | add a folder (runs `init-folder` first), run agent commands, show results | written in place; two processes, either may fail |
| Path coding, profile, security types (`path_codec.rs`, `manifest.rs`, `profile.rs`, `security.rs`) | device profile | pure functions, plain data | little |
| Android UI, shared contract (`apps/`) | view state | show results | no sync logic of their own |

How they interact. A cycle of `sync-loop` (`run_sync_once`) scans its own folder,
asks the peer for its manifest (the peer's server scans to answer), plans, and
replaces the queue rows of that peer in one transaction. `run_sync_queue` then
scans again, fetches the manifest again, lists at most `--limit` pending rows,
downloads before uploads, and carries them out one by one. A download fetches the
file, verifies it, renames it over the target and updates the index. An upload
asks the peer to DELETE a version the user chose to replace, then PUTs the file;
the server checks, renames and updates its own index. Conflicts and missing files
become blocked rows that only `resolve-blocked` turns into transfers. Every file
travels as an encrypted temporary file, written by the sender beside the original,
in a request that is verified with the secret `accept-peer` has stored. Shared state
is the disk, the documents and the database of a device; nothing locks any of them.

What makes the parts correct:

- planner: the two devices' plans fit together, one cycle settles a folder, a plan
  never overwrites anything by itself;
- queue: rows of one peer are not disturbed by another's plan, kinds and statuses
  do not drift apart under interleaving, a question is asked once, finished stays
  finished, a run respects its limit;
- scanner: a scan repairs whatever was left in the index, and only calls missing
  what was missing;
- limits: what is accepted fits, what is skipped does not, the oldest goes first,
  the warning is not late, and no sum saturates;
- documents: a crash leaves them readable, what was acknowledged stays, a device
  has one secret, and the app lists only folders that were initialised;
- transfers: only the version that was asked for is published, undisturbed
  transfers of every size succeed, ciphertexts do not stay in the user's folder;
- cycle: files change by the user's hand, by a delivery to a free place, or where
  the user has given a version up; the last copy of a version is never lost unasked;
  "done" means the content is there; limits hold up to what is under way; and
  folders settle when left alone.

`PROJECT.json` lists the hazards behind these at the lines where they bite.

## 2. Modules

| Module | Models | Extends |
|---|---|---|
| `Planning` | `planning.rs`: manifests, `plan_path`, `plan_existing_path`, `apply_folder_mode`, `classify_file_presence` | |
| `PlanRound` | undisturbed cycles over two indexes | `Planning` |
| `StateDb` | the SQL statements as operators from table to table | `Planning` |
| `SyncQueue` | the queue table and the processes on it, statement by statement | `StateDb` |
| `FolderScan` | one folder's index: scans, PUT and DELETE tasks, the user, step by step | `StateDb` |
| `SyncCycle` | two devices: disks, indexes, queues, agents, server tasks, user, faults | `StateDb` |
| `SharedFolder` | what the user is promised; no code of its own | |
| `FolderLimit` | `limits.rs` and `plan-folder-limit`, in saturating machine words | |
| `Documents` | `peers.json`, `folder.json` and `state.json`, system call by system call | |
| `PeerTransfer` | GET and PUT of one file: signing, encryption in chunks, temporary files | |
| `PlanningProofs` | lemmas about plans and about rows of the queue | `StateDb` |
| `PlanRoundProofs`, `SyncQueueProofs`, `FolderScanProofs`, `FolderLimitProofs`, `DocumentsProofs`, `PeerTransferProofs`, `SyncCycleProofs` | theorems | the module they are named after |
| `MC*` | constant values and symmetry sets for TLC | the module they are named after |

Definitions carry the names of the functions they translate (`enqueue_sync_plan`,
`finalize_scan`); `map` in `PROJECT.json` gives the lines. Operators whose comment
says "Mutant of" are wrong variants of the definition that follows; they are used by no specification and
show that a property notices the slip they contain.

Data is abstracted as follows. A *path* is a number, so that `ORDER BY path` is `<`.
A *content* stands for hash and size together and has size 1; in `PeerTransfer` it
is a sequence of bytes, and its hash is the sequence itself; a ciphertext is there
the plaintext that was read for it (`plain`) and the lengths of its chunks (`lens`),
since only its length and what it opens to matter to either end. A *manifest* maps a
path to a record (content, available or missing) or to `NoRecord`. A queue row's
`id` is the number of the plan that inserted it and its path; `created_at_unix` is
that number. This assumes two plans of a device are at least a second apart: within one
second the order of the rows would be by path only. Times, error texts and reasons
are reduced to whether they are set, and to whether planner or user chose. A `u64`
is a number of `0..MaxWord`, a percentage (`u8`) one of `0..MaxPercent`. A JSON
document is the set of its entries (device and secret, folder and limit), or it is
absent, empty or does not parse; in `Documents` a folder stands for the name of its
own `folder.json`.

Granularity. In `SyncQueue` one SQL statement (or transaction) is one step. In
`FolderScan` every directory entry, file read, SQL statement, removal and rename
is one. In `Documents` each system call is one, and in `PeerTransfer` each chunk that is
read, each request and each file operation. In `SyncCycle` a step ends at each
request, each change of a disk and each write of an index; a scan is one step
there, and each device runs one command at a time. The views complement each
other: `SyncQueue` covers concurrent commands, `FolderScan` scans that others
interfere with, `PeerTransfer` what happens inside the one step in which
`SyncCycle` moves a file, and `SyncCycle` the end-to-end effect on the user's files. Replacing
downloads and the limit of a PUT are in `SyncCycle` only.

Correspondence of `SyncCycle` with the code:

| Actions | Code |
|---|---|
| `BeginPlan`, `MakePlan` | `build_sync_plan`, `enqueue_sync_plan` in `run_sync_once` |
| `BeginQueue`, `ListBatch`, `StartNext`, `EndRun` | `run_sync_queue` and its two loops |
| `CheckDownload`, `Fetch`, `RemoveReplaced`, `PublishDownload`, `IndexDownload` | `download_operation`, `enforce_local_download_limit`, `fetch_file_to_path`, `publish_download` |
| `CheckUpload`, `SendDelete`, `SendPut`, `Answer` | `upload_operation`, `delete_file`, `put_file_from_path` |
| `CheckPut`, `PublishPut`, `IndexPut` | `write_uploaded_file` |
| `CheckDelete`, `RemoveDelete`, `ForgetDelete` | `delete_shared_file` |
| `DeleteFile`, `EndDeleteLocal`, `SendErase`, `EndDeleteBoth` | the command `delete-file` |
| `Retry`, `Resolve`, `ExecuteQueue` | `retry-failed`, `resolve-blocked`, `execute-sync-queue` |
| `TransferTimesOut`, `AgentStops`, `ServerStops` | the client's timeout; the end of a process, by a crash or by `?` |
| `Edit` | the user's other programs (external) |

of `Documents`:

| Actions | Code |
|---|---|
| `AcceptPeer`, `AcceptTicket` | `accept_peer`, `read_or_default`, `validate`, `accept_ticket` |
| `InitFolder`, `CheckLimit`, `OpenDatabase` | `init_folder`, `FolderSizeLimit::new`, `StateDatabase::open` |
| `AddFolder` | `syncer_add_folder`, `load_state`, `create_folder_config` |
| `Create`, `Write`, `Rename` | `PeerStore::write`, `FolderStore::write`, `write_state` |
| `Crash`, `AppStops`, `Expire` | the end of a process, of the app while its agent goes on; the ticket's time |

and of `PeerTransfer`:

| Actions | Code |
|---|---|
| `Start` | `download_operation`, `upload_operation` up to the request |
| `LookUp`, `Open`, `Encrypt`, `Seal` | `shared_file`, `encrypt_file_to_path` and what its callers compare |
| `SendGet`, `SendPut`, `Verify` | `write_response`, `put_file_from_path`, `verify_peer_request` |
| `CreateOutput`, `WriteOutput` | `decrypt_file_to_path` and the comparison of the hash |
| `PublishGet`, `CheckPut`, `PublishPut` | `publish_download`, `write_uploaded_file`, `publish_uploaded_file` |
| `Edit`, `RePair`, `Fault`, `ClientGivesUp` | the user; `accept-peer` on the server; a lost connection or process; the client's timeout |

*The refinement.* `SyncCycle` implements `SharedFolder` under the mapping that keeps
`disk`, `versions` and `edits` and takes for `givenUp` the versions the user has
approved the loss of (by `resolve-blocked` or `delete-file`) together with the
*exposed* ones. A version is exposed when the user writes it where the scan of a
run that may still download the file, or the check of a server task, has already
looked (`InFlight`): see remark 1 below.

## 3. Runs

| Run | Instance | Shows |
|---|---|---|
| `plan_round` | 2 paths, 2 contents, 3 cycles, every pair of indexes and mode | `MirrorPlans`, `SettledAfterOneCycle`, `NoRecordOverwritten`, `AgreesWithClassification` |
| `sync_queue` | 1 agent, 1 resolver, 2 peers, 2 paths, limit 2, 2 plans, 1 retry | `LastPlanKept`, `BatchWithinLimit`, `OutcomeRecorded`, `DoneIsFinal`, `KindMatchesStatus`, `OneBlockedPerPath`, `ReplacementsAreUserChosen` |
| `sync_queue_no_lock` | 2 agents, 1 path | **violates** `DoneIsFinal` |
| `folder_scan` | 2 tasks of which 1 scans, 2 paths, 3 requests, 2 edits | `UndisturbedScanIsExact`, `MissingIsTrue` |
| `folder_scan_twice` | both tasks scan, no edits | **violates** `MissingIsTrue` |
| `sync_cycle` | 1 path, 2 contents, agent on one side, 2 edits at any moment, 2 plans, 1 retry, 2 faults | `ImplementsSharedFolder` |
| `sync_cycle_overlap` | agents on both sides, 2 server tasks, 2 paths (2 versions of one, 1 of the other), room for 1 file, `--limit 2`, 1 edit or deletion, 1 plan each, 1 fault | `LimitRespected`, `LastCopyKept` |
| `sync_cycle_live` | 2 paths, both folders with room for 1 or for 2 files, `--limit 1`, 3 plans, 1 edit, 1 retry, 1 fault, fair | `DoneMeansCopied`, `Settles` |
| `sync_cycle_skipped` | 1 path, room for 1 file | **violates** `SkippedOnlyWhenFull` |
| `folder_limit` | words up to 255, up to 3 transfers, sizes and limits around 0, the limit and the largest word | `SumIsExact`, `AcceptedFit`, `NothingThatFitsIsSkipped`, `OldestFirst`, `WarningAccurate` |
| `documents` | 2 processes, 2 devices, 2 secrets, 2 folders, limits 0 and 1, 3 commands | `DocumentsReadable`, `AcknowledgedKept`, `OneEntryPerKey`, `ConfiguredIsInitialised` |
| `peer_transfer` | 2 agents, 2 secrets, chunks of 2 bytes, 2 transfers, 2 edits, 1 pairing, 1 fault | `PublishedIsVerified`, `FailsOnlyWhenDisturbed`, `LeftoverOnlyAfterFault` |

Most passing runs also check the type invariant of their module.

The bounds. Every property is about one path, or about two that compete (for the
limit of a run, for the space of a folder); two contents make every conflict.
Two plans give a stale row and its successor, and a retry brings back a row of the
older one. Two agents are enough for one to act on what the other has changed. In
`sync_cycle_overlap` a state constraint leaves the second path, which is there to compete
for space, one version; `--limit 2` is needed for a run to be at one path while a PUT is at the
other; and with one fault the bound of `LimitRespected` exceeds the number of paths, so
that TLC tests it up to the fault and the theorem shows the rest. Two
faults allow a crash during the recovery from a crash. Three commands on the
documents are one that is acknowledged and two that overlap after it. Contents of
zero bytes, one, one chunk, and more than a chunk are all the cases of the framing;
two edits during one transfer can change a file and change it back. `sync_queue`
has one agent and one resolver because `DoneIsFinal` and `OutcomeRecorded` hold for
one of each only, and `BatchWithinLimit` needs one resolver; the other properties are
proved for any number of both. Runs of safety
properties use the symmetry of what the model does not tell apart: processes,
peers, secrets, versions of a file. All runs may stop
(`CHECK_DEADLOCK FALSE`): commands end, and a user need not start another.

What the violations say:

1. *No lock.* The design says `locks/` keeps agents apart; no code takes a lock.
   Two agents list the same pending row, one finishes it, and the other's failure
   overwrites the outcome. The row says failed for a transfer that was done.
2. *Overlapping scans.* `scan_missing` is shared. A scan that begins while another
   is at its end re-marks rows that the other has seen, and the other's
   `finalize_scan` makes files missing that are on the disk. The next undisturbed
   scan repairs this (`UndisturbedScanIsExact`), but the manifest exported
   meanwhile says missing, and a plan made from it blocks the path. `folder_scan`
   therefore lets one task scan.
3. *Removing files frees no space.* The design says the user can remove files to
   free space. `indexed_bytes` sums all rows, and the row of a removed file stays
   as missing, so an empty folder can still be full.

Remarks on what the passing runs leave out, and why:

1. *An edit during a transfer.* `download_operation` tests the target
   (`main.rs:1010`) before the transfer and renames over it afterwards, and a download
   that replaces a file compares it with the index, as the scan left it; a file the
   user writes in between is replaced without a conflict (the design, section on
   conflicts: "must not overwrite either side automatically"). The same holds for
   `write_uploaded_file` and `delete_shared_file` on the server. `sync_cycle` lets the user
   edit at any moment and counts such versions as given up; without that TLC shows
   the loss. The other `SyncCycle` runs take the user as quiet (`BusyEdits = FALSE`): edits
   and `delete-file` happen only while no agent and no server task is under way.
2. *Starvation.* Downloads come first in a batch, refused ones count against
   `--limit`, and the next plan queues them again. With the agent's folder full, the
   peer's not and `--limit 1`, refused downloads fill every batch and an upload that
   the peer has room for never runs. Where both folders have the same room for
   unit files this cannot happen, and `sync_cycle_live` shows that they settle.
3. *Two server tasks.* A DELETE that its client has given up can remove a file that a
   later PUT has just published, so `ImplementsSharedFolder` and `DoneMeansCopied`
   are checked with one client and one task, and `LastCopyKept` with two of each. It
   lets one device lose a version unasked as long as the other has it, and it speaks of
   versions the user has given up on neither device, since resolutions on both that
   contradict each other can lose both versions.
4. *Limits.* `enforce_folder_limit` and `enforce_local_download_limit` read the index;
   the file is renamed into place and indexed later. Transfers to one folder that overlap
   (a PUT beside a download, two PUTs of which one was given up) are both let in where
   there is room for one. `LimitRespected` therefore allows a folder to exceed its limit by
   the transfers that are under way when another is let in; without that allowance TLC
   shows the excess in `sync_cycle_overlap`. A crash between the rename and `upsert_file`
   leaves a file that does not count until the next scan, at most one per task, which
   the property allows for too. Last, `forget_file` of a late DELETE can take the row of a
   file that has arrived at the path since, so the property does not count paths on which
   the user has chosen a version or deleted one.
5. *One `.part` for two agents.* It is named after the operation. When two agents run
   one download, the second truncates the file the first has just verified, and the
   first renames it to the target. `PublishedIsVerified` excepts downloads that met
   another; without the exception TLC shows this.
6. *Shared temporary names.* `folder_store.rs` calls its write atomic. It is for one
   writer; two that overlap rename each other's half-written file. `state.json` is
   written in place. `DocumentsReadable` excepts documents on which commands have
   overlapped and the moment of a write in place (and what a crash in it leaves);
   `AcknowledgedKept` and `OneEntryPerKey` hold all the same, because a document
   that does not parse is an error to its readers and never a new document.
7. *Early warning.* `max_bytes * percent` saturates; above that the warning comes early. `WarningAccurate`
   says it is never late, and exact to a byte where the product does not saturate.

Fairness. `SyncCycle!FairSpec` assumes weak fairness of each agent's cycle and of
each server task. `sync_loop` starts the next cycle after a sleep for as long as
it runs, and a tokio task that is ready is polled again. `sync_loop` leaves on an
error of a scan or of the request for a manifest; that it is started again is an
assumption about its supervisor. The user's commands, `execute-sync-queue` among
them, and the faults are not fair. `Settles`
starts when edits and faults are used up, nothing is under way and plans are left
for one cycle per path, which `--limit 1` needs. The other modules state no
liveness: their commands end or fail, and nothing in the code restarts them.

## 4. Proofs

The theorems hold for every value of the constants that satisfies the named
assumptions: paths are numbers, finitely many (`PathAssumption`, `FolderAssumption`);
there are two devices (`TwoDevices`); bounds are numbers; limits and sizes are
machine words, in `SyncCycle` numbers (`LimitsAssumption`); a chunk and a tag have at
least one byte, and contents are sequences of bytes; `NoRecord`, `NoHash`, `NoFile`,
`NoPath`, `Live`, `Absent`, `Empty` and `Torn` are none of the values they stand beside; no
folder is called `peers.json` or `state.json`. Where a theorem needs more, its
statement says so as a hypothesis, and it is given below with the reason.

- `PlanRoundProofs`. The invariant is `TypeOK`, `SettledAfterOneCycle` and
  *PlanIsCurrent*: every transfer still in the plan is the entry that the two
  indexes give for its path now, and from the first plan on a path that the plan
  does not transfer needs no transfer. It is needed because a transfer changes the
  indexes under the plan. `TransferFillsGap` (a transfer is planned only where the
  receiver has no record) and `NothingToTransfer` (after it the path is in sync) carry
  the steps. `PlansMirror` and `NothingOverwritten` follow from types and the first,
  `ClassificationsAgree` from a case split over the records and the mode.
- `SyncQueueProofs`. The invariant `IInv` is `TypeOK` and six facts about the
  table: ids are unique and not newer than the last plan; a row that an agent has
  listed, if it still exists, is a transfer; kinds match
  statuses; all blocked rows of a peer come from one plan; the rows of the last plan
  are there and are the peer's; replacements are the user's. `KindMatchesStatus` is
  not inductive alone: agents write by id, so one must know that what an agent
  listed is a transfer for ever. One lemma (`UpdatePreserves`) says what an UPDATE
  must respect to keep the six facts, and each statement is shown to respect it.
  `BatchesFit` bounds what a run lists for any number of commands.
  `BatchesWithinLimit`, which adds that no row is listed twice, assumes one resolver:
  two `resolve-blocked` commands that overlap can turn a download an agent has listed
  into an upload that it lists again. `OutcomesRecorded` and `FinishedStaysFinished`
  assume one agent as well (run `sync_queue_no_lock` shows why); their invariants
  say which statuses the rows of a run and of a resolution can have.
- `FolderScanProofs`. For `ScanRepairs` the invariant says of a quiet scan that
  every path it has passed is indexed exactly and unmarked if present, and that
  the paths ahead are marked if they have a row. For `MissingWereAbsent` it says
  that a marked row is ahead of the walk or its path was absent since the scan
  began. The latter assumes one scanning task (`OneScanner`), as the run
  `folder_scan_twice` shows it must.
- `FolderLimitProofs`. `PlanFits` and `PlanMaximal` rest on one another: the bytes
  in use never fall, so what did not fit when it was skipped does not fit at the
  end; and an accepted file is at most what remains, so that the sum stays within
  the limit, and within the word, or does not change. `WarningRight` is the
  arithmetic of a truncating division of a product that may saturate. `SumExact`
  and `OldestServedFirst` need sums of whole sequences. Where that takes an induction, the
  proof assumes that the claim fails and takes the least length at which it does:
  this needs no theorem that takes an operator as a parameter.
- `DocumentsProofs`. `CrashSafe` and `NoLostUpdate` are not inductive: the writers
  act on files by name. `IInv` adds that two commands under way on one document
  know they have met (`MeetingsKnown`); that a command which met nobody finds its
  temporary file and its own text where it left them (`WorkKept`); and that every
  command that is about to write a document carries the entries acknowledged in it,
  apart from the one it replaces (`KeptByAll`). An overlapping writer may leave
  garbage, but whatever parses was written by one of these commands. `Unambiguous`
  needs of each text under way that it has one entry per key, and
  `ListedAreInitialised` that what the app is about to list has been initialised
  by the agent it waited for. TLC checks `IInv` on the instance of `documents`.
- `PeerTransferProofs`. The user may write into the source between two chunks and
  other agents transfer at the same time, so the invariant follows each transfer:
  what it holds at each step, and that what it is about to publish was compared with
  the version it asked for (`Control`); that transfers under way at the same time know
  they have met, and one that met none finds the `.part` it verified (`Meetings`); that as long
  as nobody changed the source, the bytes read so far are a prefix of the version
  that was named and the chunks are the ones the receiver is going to expect
  (`Framed`, `Faithful`); and that an undisturbed transfer is alone, awaited, trusted and
  finds its target free (`Calm`). `DisturbedOnly` then rests on arithmetic: the length that the
  sender announces for a file is the length of its chunks with their tags, for every
  size of file, chunk and tag, an empty file included.
- `SyncCycleProofs`. Three groups of theorems, by what they ask of the instance.

  *Any number of clients and tasks.* `TypeCorrect`; and `ConsentBehindRequests`, with edits
  at any moment. Its invariant `GInv` says that the rows and batches of a client carry the user's
  consent for whatever they replace (`TableInv`, `BatchInv`), that a version it is about to have the
  peer delete is given up there (`TargetInv`), and that every DELETE names such a version
  (`Meant`). It holds however late a task runs because consent is never taken back.

  *Any number of clients and tasks, and a user who waits for them* (`WaitingUser`:
  no edit or `delete-file` while a command or a task is under way, as in the runs; finitely many
  tasks). `LastCopySurvives` and `TransfersRespectLimit`, from `WaitingInvariant`. With overlap a
  device can lose a version, so an invariant about single devices fails; what holds is that
  every version that is on a disk or on its way, and given up nowhere, has an *anchor*: a copy at
  a path where no download and no task is past its checks, and which the index shows if the
  device is running a batch (`Anchored`). A transfer takes a path in hand only when
  it found the path free, or holding a version that is given up, so it takes no
  anchor away; and the version it brings keeps its anchor where it comes from until the path
  is at rest again. `Covered` says that of the files in a folder whose index a run or a PUT
  relies on, all have a row except those being brought, those on paths where the user has
  chosen, and at most one per task and fault. The proof names what each kind of step may do to anchors and to counted files
  (`Careful`, `LetIn`, `Counted`; for crashes `Cut`), shows once that such steps keep the invariant,
  and then that each action is such a step. When a user's step is possible nothing is under way
  (`Still`), and every copy is an anchor. `TransfersRespectLimit` adds the cardinalities up:
  what the index counts, what is under way, what crashes cut off, and the newcomer. A content has size 1
  here, so the sum of sizes is a cardinality.

  *One client and one task* (`OneClientOneTask`), without which remark 3 refutes the
  claims. `RefinesSharedFolder` has edits at any moment. `IInv` adds to consent
  that no file has changed behind the run's scan without being exposed,
  and that the place it is about to write is free, given up or exposed (`RunInv`); of a task, that
  it carries a version of the file, or consent for what it deletes, and that the place it
  has checked is free in the same sense (`ServerInv`); and that what is on the disks
  are versions of the files (`Known`). `Edit` and `DeleteFile` are the abstract edit; `RemoveReplaced` and `RemoveDelete`
  discard; `PublishDownload` and `PublishPut` deliver; `Resolve` gives up; all others
  leave the abstract state alone. TLC checks `IInv` on the instance of `sync_cycle`.
  `DoneIsCopied` also takes the user as quiet (`QuietUser`), as its run does (remark 1).
  `QInv` adds that the rows of a batch are still
  those of the table (`RowsKept`), that the version in hand is what its row asks for and stays
  where it was published (`WorkKept`, `TaskKept`), and that files on a disk are
  in the index, apart from the one just published (`RunCovered`, `PeerCovered`).
  TLC checked `QInv` on an instance with two paths and two contents.

Only model-checked: `Settles` and its fairness, since liveness is beyond the prover.

## 5. Not modelled

- The parsing of HTTP requests and answers: a request arrives as sent or not at all.
- Path coding and manifest paths: pure functions on strings, without state.
- Ciphers, hashes and random numbers, which are libraries: a ciphertext opens only
  with the key and header it was made with, and hashes do not collide.
- `PairingTicket` and `PublicKeyBytes` in `security.rs`: no command uses them.
- `init-device` and `pairing-ticket`, which create one new file each, and the commands
  that only list or show.
- The clock. A fault at the verification of a request stands for a timestamp older
  than the 300 s window.
- The `.body` and `.plain` files in `.syncer/tmp`, which scans and limits do not see.
- Symbolic links and directories, which are never indexed, and short reads of
  regular files.
- The app's remaining commands, each of which runs one agent command, the web view,
  the Android app and the shared contract: they hold no sync logic. The app passes
  `init-folder` no mode, so that a folder is always `Bidirectional` there although
  the design says `folder.json` stores the mode; no property depends on it, since
  `PlanRound` and `SyncQueue` range over every mode.

## 6. Plan

In order of importance:

1. *(done)* `Planning`, `PlanRound`: what a cycle decides.
2. *(done)* `StateDb`, `SyncQueue`: the queue under interleaving.
3. *(done)* `FolderScan`: the index under interleaving.
4. *(done)* `SyncCycle`: the composition, with faults and the user.
5. *(done)* `SharedFolder` and the refinement.
6. *(done)* `FolderLimit`, `Documents`, `PeerTransfer`.
7. *(done)* Proofs about the queue, the planner, the documents, the limits and
   `PeerTransfer`: every invariant and action property their runs check.
8. *(done)* Proofs about `SyncCycle`: its types, its refinement of `SharedFolder` for
   one agent and one server task, and what a run does while the user waits.
9. *(done)* An invariant for overlapping agents and tasks, under which the last copy of a
   version is kept and the limits are respected for any number of both.
