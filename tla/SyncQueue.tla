----------------------------- MODULE SyncQueue -----------------------------
(***************************************************************************)
(* The persistent transfer queue of one folder and the processes that use  *)
(* it.  Every command of syncer-agent is a process of its own that opens   *)
(* the folder's database and runs statements on it; there is no lock on    *)
(* the folder, so the statements of different commands interleave.         *)
(*                                                                         *)
(*   Agent      runs sync-once/sync-loop: enqueue_sync_plan, then          *)
(*              run_sync_queue, which lists a batch of pending operations  *)
(*              and marks each one started and then done or failed         *)
(*   Resolver   runs resolve-blocked, a read followed by an update         *)
(*   retry-failed is a single statement                                    *)
(*                                                                         *)
(* What the transfers do is left to SyncCycle: here one succeeds or fails. *)
(***************************************************************************)
EXTENDS StateDb

CONSTANTS
  Agent,       \* processes that run sync-once, enqueue or execute commands
  Resolver,    \* processes that run resolve-blocked
  Manifests,   \* the manifests that plans are made from
  Limit,       \* --limit: operations per run of the queue
  MaxPlans,    \* bound on the number of plans enqueued
  MaxRetries   \* bound on retry_count

ASSUME ManifestsAssumption == Manifests \subseteq Manifest
ASSUME LimitAssumption == Limit \in Nat
ASSUME BoundsAssumption == MaxPlans \in Nat /\ MaxRetries \in Nat

VARIABLES
  ops,        \* table sync_operations
  plans,      \* number of plans enqueued so far
  planned,    \* history: planned[r] = ids of the last plan enqueued for peer r
  pc,         \* pc[a]: where agent a is in run_sync_queue
  peer,       \* peer[a]: remote_device_id of a's run
  downloads,  \* downloads[a], uploads[a]: ids a listed and has not finished
  uploads,
  resolving   \* resolving[u]: <<>> or the <<id, resolution>> u is about to write

vars == <<ops, plans, planned, pc, peer, downloads, uploads, resolving>>

agentVars == <<pc, peer, downloads, uploads>>

Init ==
  /\ ops = {}
  /\ plans = 0
  /\ planned = [r \in Device |-> {}]
  /\ pc = [a \in Agent |-> "idle"]
  /\ peer \in [Agent -> Device]
  /\ downloads = [a \in Agent |-> {}]
  /\ uploads = [a \in Agent |-> {}]
  /\ resolving = [u \in Resolver |-> <<>>]

\* enqueue_sync_plan with the plan made from two manifests.
Enqueue(a, local, remote, mode) ==
  LET plan == plan_manifest_sync_for_mode(local, remote, mode)
  IN /\ pc[a] = "idle"
     /\ plans < MaxPlans
     /\ plans' = plans + 1
     /\ ops' = enqueue_sync_plan(ops, plan, peer[a], plans')
     /\ planned' = [planned EXCEPT ![peer[a]] =
                      {<<plans', e.path>> : e \in {f \in plan : f.action # "InSync"}}]
     /\ UNCHANGED <<agentVars, resolving>>

Ids(rows) == {o.id : o \in rows}

\* run_sync_queue: the two list queries are two statements.
ListDownloads(a) ==
  /\ pc[a] = "idle"
  /\ downloads' = [downloads EXCEPT ![a] =
       Ids(list_pending_operations(ops, peer[a], "DownloadFromRemote", Limit))]
  /\ pc' = [pc EXCEPT ![a] = "list_uploads"]
  /\ UNCHANGED <<ops, plans, planned, peer, uploads, resolving>>

\* limit.saturating_sub(download_operations.len())
remaining_limit(a) == IF Cardinality(downloads[a]) > Limit THEN 0
                      ELSE Limit - Cardinality(downloads[a])

\* Mutant of ListUploads: the whole limit again for the uploads.
ListUploadsFullLimit(a) ==
  /\ pc[a] = "list_uploads"
  /\ uploads' = [uploads EXCEPT ![a] =
       Ids(list_pending_operations(ops, peer[a], "UploadToRemote", Limit))]
  /\ pc' = [pc EXCEPT ![a] = "run"]
  /\ UNCHANGED <<ops, plans, planned, peer, downloads, resolving>>

ListUploads(a) ==
  /\ pc[a] = "list_uploads"
  /\ uploads' = [uploads EXCEPT ![a] =
       Ids(list_pending_operations(ops, peer[a], "UploadToRemote", remaining_limit(a)))]
  /\ pc' = [pc EXCEPT ![a] = "run"]
  /\ UNCHANGED <<ops, plans, planned, peer, downloads, resolving>>

\* The operation the two for loops are at: the downloads come first.
IsCurrent(a, id) ==
  IF downloads[a] # {} THEN IsFirst(id, downloads[a]) ELSE IsFirst(id, uploads[a])

\* mark_sync_operation_started of the next operation of the batch.
StartNext(a, id) ==
  /\ pc[a] = "run"
  /\ IsCurrent(a, id)
  /\ ops' = mark_sync_operation_started(ops, id)
  /\ pc' = [pc EXCEPT ![a] = "transfer"]
  /\ UNCHANGED <<plans, planned, peer, downloads, uploads, resolving>>

Advance(a, id) ==
  /\ pc' = [pc EXCEPT ![a] = "run"]
  /\ downloads' = [downloads EXCEPT ![a] = @ \ {id}]
  /\ uploads' = [uploads EXCEPT ![a] = @ \ {id}]

\* download_operation or upload_operation returned Ok.
TransferDone(a, id) ==
  /\ pc[a] = "transfer"
  /\ IsCurrent(a, id)
  /\ ops' = mark_sync_operation_done(ops, id)
  /\ Advance(a, id)
  /\ UNCHANGED <<plans, planned, peer, resolving>>

\* download_operation or upload_operation returned an error.
TransferFailed(a, id) ==
  /\ pc[a] = "transfer"
  /\ IsCurrent(a, id)
  /\ ops' = mark_sync_operation_failed(ops, id)
  /\ Advance(a, id)
  /\ UNCHANGED <<plans, planned, peer, resolving>>

\* The batch is done; the next run may be for another peer.
RunEnds(a, r) ==
  /\ pc[a] = "run"
  /\ downloads[a] = {} /\ uploads[a] = {}
  /\ pc' = [pc EXCEPT ![a] = "idle"]
  /\ peer' = [peer EXCEPT ![a] = r]
  /\ UNCHANGED <<ops, plans, planned, downloads, uploads, resolving>>

\* The process dies, or leaves run_sync_queue on a database error; what it
\* listed is lost and the row it had started stays as it is.
Crash(a) ==
  /\ pc[a] # "idle"
  /\ pc' = [pc EXCEPT ![a] = "idle"]
  /\ downloads' = [downloads EXCEPT ![a] = {}]
  /\ uploads' = [uploads EXCEPT ![a] = {}]
  /\ UNCHANGED <<ops, plans, planned, peer, resolving>>

\* retry-failed, for one peer or for all of them.
RetryFailed(remotes) ==
  /\ \A o \in ops : o.retry_count < MaxRetries
  /\ ops' = retry_failed_sync_operations(ops, remotes)
  /\ ops' # ops
  /\ UNCHANGED <<plans, planned, agentVars, resolving>>

\* resolve_blocked_sync_operation up to its UPDATE.
ResolveRead(u, o, resolution) ==
  /\ resolving[u] = <<>>
  /\ o \in ops
  /\ CanResolve(o, resolution)
  /\ resolving' = [resolving EXCEPT ![u] = <<o.id, resolution>>]
  /\ UNCHANGED <<ops, plans, planned, agentVars>>

\* Its UPDATE; no row matches when a plan has replaced the queue since.
ResolveWrite(u) ==
  /\ resolving[u] # <<>>
  /\ ops' = resolve_update(ops, resolving[u][1], resolving[u][2])
  /\ resolving' = [resolving EXCEPT ![u] = <<>>]
  /\ UNCHANGED <<plans, planned, agentVars>>

\* The resolving process dies before its UPDATE.
ResolveCrash(u) ==
  /\ resolving[u] # <<>>
  /\ resolving' = [resolving EXCEPT ![u] = <<>>]
  /\ UNCHANGED <<ops, plans, planned, agentVars>>

AgentNext(a) ==
  \/ \E local, remote \in Manifests, mode \in FolderMode : Enqueue(a, local, remote, mode)
  \/ ListDownloads(a)
  \/ ListUploads(a)
  \/ \E id \in downloads[a] \cup uploads[a] :
       StartNext(a, id) \/ TransferDone(a, id) \/ TransferFailed(a, id)
  \/ \E r \in Device : RunEnds(a, r)
  \/ Crash(a)

ResolverNext(u) ==
  \/ \E o \in ops, resolution \in BlockedOperationResolution : ResolveRead(u, o, resolution)
  \/ ResolveWrite(u)
  \/ ResolveCrash(u)

Next ==
  \/ \E a \in Agent : AgentNext(a)
  \/ \E u \in Resolver : ResolverNext(u)
  \/ \E r \in Device : RetryFailed({r})
  \/ RetryFailed(Device)

Spec == Init /\ [][Next]_vars

-----------------------------------------------------------------------------
(* Properties *)

\* Every row satisfies the CHECKs of table sync_operations, and a process holds
\* only ids of rows and resolutions.
TypeOK ==
  /\ ops \subseteq SyncOperationRecord
  /\ plans \in Nat
  /\ planned \in [Device -> SUBSET OperationId]
  /\ pc \in [Agent -> {"idle", "list_uploads", "run", "transfer"}]
  /\ peer \in [Agent -> Device]
  /\ downloads \in [Agent -> SUBSET OperationId]
  /\ uploads \in [Agent -> SUBSET OperationId]
  /\ resolving \in [Resolver -> {<<>>} \cup (OperationId \X BlockedOperationResolution)]

\* Status and kind of a row never drift apart, although done, failed and the
\* resolution are written by id alone (update_sync_operation_status and the
\* UPDATE of resolve_blocked_sync_operation): a blocked row is one that waits
\* for the user, and only a transfer is ever pending, done or failed.
KindMatchesStatus ==
  \A o \in ops : o.status = "blocked" <=> o.kind \in BlockedKind

\* The user is asked at most one question about a path and a peer: however
\* plans, resolutions, retries and crashes interleave, a path has at most one
\* blocked row per peer (the DELETE of enqueue_sync_plan).
OneBlockedPerPath ==
  \A o, q \in ops :
    /\ o.status = "blocked" /\ q.status = "blocked"
    /\ o.path = q.path /\ o.remote_device_id = q.remote_device_id
    => o = q

\* A transfer that replaces a version the other side holds is one the user
\* chose: a transfer row that knows a hash on both sides went through
\* resolve_blocked_sync_operation (plan_path orders a transfer only when one
\* side has no record).
ReplacementsAreUserChosen ==
  \A o \in ops :
    /\ o.kind \in TransferKind
    /\ o.local_content_hash # NoHash /\ o.remote_content_hash # NoHash
    => o.reason = "user"

\* Every operation of the last plan for a peer keeps its row until the next
\* plan for that peer replaces it, whatever plans for other peers, retries and
\* resolutions do in between (enqueue_sync_plan deletes by remote_device_id).
LastPlanKept == \A r \in Device : planned[r] \subseteq Ids(ops)

\* One run of the queue never takes more operations than --limit allows, and
\* none of them twice (run_sync_queue splits the limit over two queries).
BatchWithinLimit ==
  \A a \in Agent :
    /\ Cardinality(downloads[a]) + Cardinality(uploads[a]) <= Limit
    /\ downloads[a] \cap uploads[a] = {}

\* The row tells how its last execution ended: a done row has no error, a
\* failed one has its reason and both have a finish time, a pending or blocked
\* one has neither.
OutcomeRecorded ==
  \A o \in ops :
    /\ o.last_error <=> o.status = "failed"
    /\ o.finished_at <=> o.status \in {"done", "failed"}
    /\ o.finished_at => o.started_at

\* A finished transfer stays finished: no later step removes its row, reopens
\* it or turns it into a failure.
DoneIsFinal ==
  [][\A o \in ops : o.status = "done" =>
       \E q \in ops' : q.id = o.id /\ q.status = "done"]_vars
=============================================================================
