---------------------------- MODULE MCSyncQueue ----------------------------
(***************************************************************************)
(* The manifests are chosen so that between them the plans hold every      *)
(* action: an upload, a download, a conflict, a file missing on either     *)
(* side and, in the one-way modes, a blocked transfer.                     *)
(***************************************************************************)
EXTENDS SyncQueue, TLC

CONSTANTS c1, c2

Removed(content) == AsMissing(Available(content))

\* Two paths, for the run with one agent.
TwoPaths == {1, 2}

TwoPathManifests ==
  { [p \in TwoPaths |-> IF p = 1 THEN Available(c1) ELSE NoRecord],
    [p \in TwoPaths |-> IF p = 1 THEN Available(c2) ELSE Removed(c2)],
    [p \in TwoPaths |-> IF p = 1 THEN NoRecord ELSE Available(c2)] }

\* One path, for the run with several agents.
OnePath == {1}

OnePathManifests ==
  { [p \in OnePath |-> record] :
      record \in {NoRecord, Available(c1), Available(c2), Removed(c1)} }

\* The peers of a device are interchangeable.
PeerSymmetry == Permutations(Device)

=============================================================================
