---------------------------- MODULE PeerTransfer ----------------------------
(***************************************************************************)
(* One file on its way between an agent and the server of its peer: GET    *)
(* and PUT /file with request signing (request_signing.rs), the encryption *)
(* in chunks (peer_crypto.rs) and the temporary files on both sides.       *)
(*                                                                         *)
(* A content is a sequence of bytes and a hash is the content it was taken *)
(* of, as hashes do not collide.  A ciphertext is the bytes in it and the  *)
(* lengths of its chunks; it can be opened only with the key, the path,    *)
(* the hash, the size and the positions it was made with                   *)
(* (XChaCha20-Poly1305).                                                   *)
(* The source is the file on the sending side, which the user may change   *)
(* at any time, the target its place on the receiving side.  Each transfer *)
(* is one request: the agent a is the client, the server has a task for it.*)
(***************************************************************************)
EXTENDS Naturals, Sequences

CONSTANTS
  Agent,         \* agents of the device, processes without a lock
  Secret,        \* shared secrets
  Contents,      \* contents the user gives the file
  ChunkSize,     \* CHUNK_SIZE
  TagSize,       \* TAG_SIZE
  MaxTransfers,  \* bound: transfers
  MaxEdits,      \* bound: changes of the source by the user
  MaxPairings,   \* bound: pairings while transfers run
  MaxFaults,     \* bound: crashes, lost connections, timeouts
  NoFile,        \* no file at this place
  Partial,       \* a file that is being written
  Live           \* a reader has open what is at the source's name

ASSUME SizeAssumption == ChunkSize \in Nat \ {0} /\ TagSize \in Nat \ {0}
ASSUME ContentsAssumption == Contents \subseteq Seq(0 .. 255)
ASSUME NoFileAssumption == NoFile \notin Contents \cup Secret \cup {Partial, Live}
ASSUME LiveAssumption == Live \notin Contents
ASSUME BoundAssumption ==
  MaxTransfers \in Nat /\ MaxEdits \in Nat /\ MaxPairings \in Nat /\ MaxFaults \in Nat

VARIABLES
  direction,  \* "GET" or "PUT"
  source,     \* the file on the sending side
  known,      \* the version the agent's manifest names
  target,     \* the receiving side's file
  part,       \* the .part file of a download, one for all agents
  trusted,    \* the secret that the server's peers.json has for the device
  t,          \* t[a]: the transfer of agent a, with the server's task for it
  left,       \* a ciphertext was left behind in the sender's folder
  transfers, edits, pairings, faults

vars == <<direction, source, known, target, part, trusted, t, left, transfers, edits, pairings,
          faults>>

Nothing == [pc |-> "idle", secret |-> NoFile, key |-> NoFile, want |-> NoFile, listed |-> NoFile,
            plain |-> <<>>, lens |-> <<>>, reads |-> Live, fd |-> "closed", waits |-> FALSE, met |-> FALSE,
            calm |-> TRUE, failed |-> FALSE]

Init ==
  /\ direction \in {"GET", "PUT"}
  /\ source \in Contents
  /\ known = source
  /\ target = NoFile
  /\ part = NoFile
  /\ trusted \in Secret
  /\ t = [a \in Agent |-> Nothing]
  /\ left = FALSE
  /\ transfers = 0 /\ edits = 0 /\ pairings = 0 /\ faults = 0

counters == <<transfers, edits, pairings, faults>>

-----------------------------------------------------------------------------
(* The framing of peer_crypto.rs *)

\* Mutant of chunk_count: an empty file has no chunk.
NoEmptyChunk(size) == (size + ChunkSize - 1) \div ChunkSize

chunk_count(size) == IF size = 0 THEN 1 ELSE (size + ChunkSize - 1) \div ChunkSize

encrypted_len(size) == size + chunk_count(size) * TagSize

\* The length of the ciphertext file that was really written.
WrittenLen(plain, lens) == Len(plain) + Len(lens) * TagSize

\* decrypt_file_to_path reads chunk_count chunks of the lengths that the size
\* implies and then expects the end of the file.
WellFramed(lens, size) ==
  /\ Len(lens) = chunk_count(size)
  /\ \A i \in 1..Len(lens) :
       lens[i] = IF i * ChunkSize <= size THEN ChunkSize ELSE size - (i - 1) * ChunkSize

-----------------------------------------------------------------------------
(* The client starts *)

Active(a) == t[a].pc # "idle"

\* The user's agent plans anew: the manifest names what is there now.
Plan ==
  /\ source # NoFile
  /\ known # source
  /\ known' = source
  /\ UNCHANGED <<direction, source, target, part, trusted, t, left, counters>>

\* download_operation up to the signed request, or upload_operation up to
\* put_file_from_path.  The secret is an argument of the command; one that is
\* out of date is one that RePair overtakes.  (Downloads that replace a file
\* are in SyncCycle; here the target is free.)
Start(a) ==
  LET others == {b \in Agent \ {a} : Active(b)}
  IN /\ ~Active(a)
     /\ transfers < MaxTransfers
     /\ direction = "GET" => target = NoFile
     /\ t' = [b \in Agent |->
               IF b = a
               THEN [Nothing EXCEPT !.pc = IF direction = "GET" THEN "verify" ELSE "open",
                       !.secret = trusted, !.want = known, !.listed = known, !.waits = TRUE,
                       !.met = others # {},
                       !.calm = source = known /\ target = NoFile /\ others = {}]
               ELSE IF b \in others THEN [t[b] EXCEPT !.met = TRUE, !.calm = FALSE]
               ELSE t[b]]
     /\ transfers' = transfers + 1
     /\ UNCHANGED <<direction, source, known, target, part, trusted, left, edits, pairings, faults>>

Ends(a) == t' = [t EXCEPT ![a] = Nothing]

\* The server refuses, or the client finds a fault: a client that still waits
\* learns that its transfer has failed.
Failed(a) ==
  t' = [t EXCEPT ![a] = [Nothing EXCEPT !.failed = t[a].waits, !.calm = t[a].calm \/ ~t[a].waits]]

GoesTo(a, pc) == t' = [t EXCEPT ![a].pc = pc]

-----------------------------------------------------------------------------
(* The sending side encrypts: the server for GET, the agent for PUT *)

\* shared_file: the scan finds the file as it is now.
LookUp(a) ==
  /\ t[a].pc = "look up"
  /\ \/ source = NoFile /\ Failed(a)
     \/ source # NoFile /\ t' = [t EXCEPT ![a].pc = "open", ![a].listed = source]
  /\ UNCHANGED <<direction, source, known, target, part, trusted, left, counters>>

\* encrypt_file_to_path opens the source before it creates the ciphertext,
\* which lies beside the source.
Open(a) ==
  /\ t[a].pc = "open"
  /\ \/ source = NoFile /\ Failed(a)
     \/ source # NoFile /\ GoesTo(a, "encrypt")
  /\ UNCHANGED <<direction, source, known, target, part, trusted, left, counters>>

Processed(a) == Len(t[a].plain)

\* What a reader has open, and the bytes it gets next.
OpenSource(a) == IF t[a].reads = Live THEN source ELSE t[a].reads

\* Mutant of NextChunk: the buffer is one byte too long.
ChunkAndOne(a) ==
  SubSeq(OpenSource(a), Processed(a) + 1,
         IF Processed(a) + ChunkSize + 1 < Len(OpenSource(a)) THEN Processed(a) + ChunkSize + 1
         ELSE Len(OpenSource(a)))

NextChunk(a) ==
  SubSeq(OpenSource(a), Processed(a) + 1,
         IF Processed(a) + ChunkSize < Len(OpenSource(a)) THEN Processed(a) + ChunkSize
         ELSE Len(OpenSource(a)))

\* One turn of the loop: a chunk and its tag; without bytes only for a file
\* that is expected to be empty, and then the loop ends.
Encrypt(a) ==
  LET read == NextChunk(a)
  IN /\ t[a].pc = "encrypt"
     /\ \/ /\ read # <<>>
           /\ t' = [t EXCEPT ![a].plain = @ \o read, ![a].lens = Append(@, Len(read))]
        \/ /\ read = <<>> /\ t[a].listed = <<>> /\ t[a].lens = <<>>
           /\ t' = [t EXCEPT ![a].lens = <<0>>, ![a].pc = "sealed"]
        \/ /\ read = <<>> /\ ~(t[a].listed = <<>> /\ t[a].lens = <<>>)
           /\ GoesTo(a, "sealed")
     /\ UNCHANGED <<direction, source, known, target, part, trusted, left, counters>>

\* A size that is not the expected one ends the transfer and leaves the
\* ciphertext.  The agent also compares the hash and then removes it; the
\* server leaves that to the client.
Seal(a) ==
  LET sizeDiffers == Processed(a) # Len(t[a].listed)
      hashDiffers == direction = "PUT" /\ t[a].plain # t[a].want
  IN /\ t[a].pc = "sealed"
     /\ IF sizeDiffers \/ hashDiffers
        THEN Failed(a)
        ELSE t' = [t EXCEPT ![a].pc = "send", ![a].reads = Live]
     /\ left' = (left \/ sizeDiffers)
     /\ UNCHANGED <<direction, source, known, target, part, trusted, counters>>

-----------------------------------------------------------------------------
(* The connection *)

\* Mutant of LeftAfterSend: the ciphertext is not removed when it has been sent.
NeverRemoved(a) == TRUE

\* Once all of it is sent, the ciphertext is removed.
LeftAfterSend(a) == left

\* write_response and fetch_file_to_path.  A client that is gone, or that does
\* not read to the end because the length is not the one it expects, may
\* break the server's write: then the ciphertext stays.
SendGet(a) ==
  /\ direction = "GET" /\ t[a].pc = "send"
  /\ LET length == encrypted_len(Processed(a))
         reads == t[a].waits /\ length = encrypted_len(Len(t[a].want))
     IN /\ IF reads THEN GoesTo(a, "decrypt") ELSE Failed(a)
        /\ \/ left' = LeftAfterSend(a)
           \/ (~reads \/ length # WrittenLen(t[a].plain, t[a].lens)) /\ left' = TRUE
  /\ UNCHANGED <<direction, source, known, target, part, trusted, counters>>

\* put_file_from_path sends the whole file, then removes it.
SendPut(a) ==
  /\ direction = "PUT" /\ t[a].pc = "send"
  /\ GoesTo(a, "verify")
  /\ left' = LeftAfterSend(a)
  /\ UNCHANGED <<direction, source, known, target, part, trusted, counters>>

\* read_file_body takes content-length bytes.  The signature is one of all
\* that was sent and holds for them if these are all.
BodyMatches(a) ==
  direction = "PUT" => WrittenLen(t[a].plain, t[a].lens) = encrypted_len(Processed(a))

\* verify_peer_request reads peers.json; its secret is used from here on.
Verify(a) ==
  /\ t[a].pc = "verify"
  /\ \/ /\ t[a].secret = trusted /\ BodyMatches(a)
        /\ t' = [t EXCEPT ![a].key = trusted,
                          ![a].pc = IF direction = "GET" THEN "look up" ELSE "decrypt"]
     \/ ~(t[a].secret = trusted /\ BodyMatches(a)) /\ Failed(a)
  /\ UNCHANGED <<direction, source, known, target, part, trusted, left, counters>>

-----------------------------------------------------------------------------
(* The receiving side decrypts and publishes: the agent for GET, the server *)
(* for PUT                                                                   *)

\* decrypt_file_to_path creates its output: for GET the .part of the operation.
CreateOutput(a) ==
  /\ t[a].pc = "decrypt"
  /\ t' = [t EXCEPT ![a].pc = "write", ![a].fd = IF direction = "GET" THEN "part" ELSE "own"]
  /\ part' = IF direction = "GET" THEN Partial ELSE part
  /\ UNCHANGED <<direction, source, known, target, trusted, left, counters>>

\* Mutant of Verified: the hash of what was decrypted is not compared.
OnlyDecrypted(a) == t[a].key = t[a].secret /\ WellFramed(t[a].lens, Len(t[a].want))

\* The ciphertext opens, and has the hash that the operation or the header names.
Verified(a) ==
  /\ t[a].key = t[a].secret
  /\ WellFramed(t[a].lens, Len(t[a].want))
  /\ t[a].plain = t[a].want

\* The output goes to the file that was created, wherever it is by now.
WriteOutput(a) ==
  /\ t[a].pc = "write"
  /\ LET output == IF Verified(a) THEN t[a].plain ELSE Partial
     IN /\ part' = IF t[a].fd = "part" THEN output ELSE part
        /\ target' = IF t[a].fd = "target" THEN output ELSE target
  /\ IF Verified(a) THEN t' = [t EXCEPT ![a].pc = "publish", ![a].fd = "closed"] ELSE Failed(a)
  /\ UNCHANGED <<direction, source, known, trusted, left, counters>>

\* publish_download renames the .part, whoever wrote it.
PublishGet(a) ==
  /\ direction = "GET" /\ t[a].pc = "publish"
  /\ \/ /\ part = NoFile
        /\ Failed(a)
        /\ UNCHANGED <<target, part>>
     \/ /\ part # NoFile
        /\ target' = part
        /\ part' = NoFile
        /\ t' = [b \in Agent |->
                  IF b = a THEN Nothing
                  ELSE IF t[b].fd = "part" THEN [t[b] EXCEPT !.fd = "target"]
                  ELSE IF t[b].fd = "target" THEN [t[b] EXCEPT !.fd = "unlinked"]
                  ELSE t[b]]
  /\ UNCHANGED <<direction, source, known, trusted, left, counters>>

\* write_uploaded_file: a target that exists is a conflict.
CheckPut(a) ==
  /\ direction = "PUT" /\ t[a].pc = "publish"
  /\ \/ target # NoFile /\ Failed(a)
     \/ target = NoFile /\ GoesTo(a, "rename")
  /\ UNCHANGED <<direction, source, known, target, part, trusted, left, counters>>

\* publish_uploaded_file renames the file that was decrypted, over what is at
\* the target by now.
PublishPut(a) ==
  /\ t[a].pc = "rename"
  /\ target' = t[a].plain
  /\ Ends(a)
  /\ UNCHANGED <<direction, source, known, part, trusted, left, counters>>

-----------------------------------------------------------------------------
(* The user, pairing and faults *)

\* The user writes into the file: who has it open reads the new bytes.  Or
\* the user removes or replaces it: who has it open reads on in the old file.
Edit ==
  /\ edits < MaxEdits
  /\ edits' = edits + 1
  /\ \E content \in Contents \cup {NoFile}, inPlace \in BOOLEAN :
       /\ content # source
       /\ inPlace => content # NoFile /\ source # NoFile
       /\ source' = content
       /\ t' = [a \in Agent |->
                 [t[a] EXCEPT
                    !.calm = @ /\ ~(t[a].pc \in {"look up", "open", "encrypt"}
                                    \/ (t[a].pc = "verify" /\ direction = "GET")),
                    !.reads = IF t[a].pc = "encrypt" /\ @ = Live /\ ~inPlace THEN source ELSE @]]
  /\ UNCHANGED <<direction, known, target, part, trusted, left, transfers, pairings, faults>>

\* accept-peer on the server's device: the device has a new secret.
RePair(secret) ==
  /\ pairings < MaxPairings
  /\ secret # trusted
  /\ pairings' = pairings + 1
  /\ trusted' = secret
  /\ t' = [a \in Agent |-> [t[a] EXCEPT !.calm = @ /\ t[a].key # NoFile]]
  /\ UNCHANGED <<direction, source, known, target, part, left, transfers, edits, faults>>

\* A connection is lost, a process is killed, an answer takes too long or, at
\* "verify", the body took so long that the timestamp is too old: the transfer
\* ends where it is, and a ciphertext that exists stays.
Fault(a) ==
  /\ faults < MaxFaults
  /\ Active(a)
  /\ faults' = faults + 1
  /\ t' = [t EXCEPT ![a] = [Nothing EXCEPT !.calm = FALSE, !.failed = TRUE]]
  /\ left' = (left \/ t[a].pc \in {"encrypt", "sealed", "send"})
  /\ UNCHANGED <<direction, source, known, target, part, trusted, transfers, edits, pairings>>

\* Where the server works and the client only waits.
ServerWorks(a) ==
  \/ direction = "GET" /\ t[a].pc \in {"verify", "look up", "open", "encrypt", "sealed", "send"}
  \/ direction = "PUT" /\ t[a].pc \in {"verify", "decrypt", "write", "publish", "rename"}

\* The client's timeout: its call has failed, the server's task goes on.
ClientGivesUp(a) ==
  /\ faults < MaxFaults
  /\ ServerWorks(a) /\ t[a].waits
  /\ faults' = faults + 1
  /\ t' = [t EXCEPT ![a].waits = FALSE, ![a].calm = FALSE]
  /\ UNCHANGED <<direction, source, known, target, part, trusted, left, transfers, edits, pairings>>

Step(a) ==
  \/ LookUp(a) \/ Open(a) \/ Encrypt(a) \/ Seal(a) \/ SendGet(a) \/ SendPut(a) \/ Verify(a)
  \/ CreateOutput(a) \/ WriteOutput(a) \/ PublishGet(a) \/ CheckPut(a) \/ PublishPut(a)

Next ==
  \/ Plan \/ Edit
  \/ \E secret \in Secret : RePair(secret)
  \/ \E a \in Agent : Start(a) \/ Step(a) \/ Fault(a) \/ ClientGivesUp(a)

Spec == Init /\ [][Next]_vars

-----------------------------------------------------------------------------
(* Properties *)

Pc == {"idle", "verify", "look up", "open", "encrypt", "sealed", "send", "decrypt", "write",
       "publish", "rename"}

Fd == {"closed", "own", "part", "target", "unlinked"}

Transfer ==
  [pc : Pc,
   secret : Secret \cup {NoFile}, key : Secret \cup {NoFile},
   want : Contents \cup {NoFile}, listed : Contents \cup {NoFile},
   plain : Seq(0 .. 255), lens : Seq(0 .. ChunkSize), reads : Contents \cup {Live},
   fd : Fd,
   waits : BOOLEAN, met : BOOLEAN, calm : BOOLEAN, failed : BOOLEAN]

TypeOK ==
  /\ direction \in {"GET", "PUT"}
  /\ source \in Contents \cup {NoFile}
  /\ known \in Contents
  /\ target \in Contents \cup {NoFile, Partial}
  /\ part \in Contents \cup {NoFile, Partial}
  /\ trusted \in Secret
  /\ t \in [Agent -> Transfer]
  /\ left \in BOOLEAN
  /\ transfers \in Nat /\ edits \in Nat /\ pairings \in Nat /\ faults \in Nat

\* A file appears at the target only whole and as the version that the
\* operation named, whatever the user writes into the source between two
\* chunks and wherever a connection breaks.  Two agents that run the same
\* download share its .part and are excepted.
PublishedIsVerified ==
  [][target' # target =>
       \E a \in Agent : (direction = "GET" /\ t[a].met) \/ target' = t[a].want]_vars

\* The two ends agree on framing, keys and lengths for every size: a transfer
\* fails only if its source changed before it was read to the end, its secret
\* was not the trusted one until it was verified, another agent ran the same
\* transfer, the target was taken, or a fault hit it.
FailsOnlyWhenDisturbed ==
  \A a \in Agent : t[a].failed => ~t[a].calm

\* A ciphertext stays in the folder that scans walk only after a fault or a
\* change of the source: refused requests, wrong secrets, conflicts and
\* transfers that went well leave none.
LeftoverOnlyAfterFault == left => edits + faults > 0
=============================================================================
