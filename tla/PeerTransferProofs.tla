------------------------- MODULE PeerTransferProofs -------------------------
(***************************************************************************)
(* Proofs about file transfers, for any number of agents, contents of any  *)
(* length, any size of chunks and tags and any number of edits, pairings   *)
(* and faults.                                                             *)
(***************************************************************************)
EXTENDS PeerTransfer, SequenceTheorems, TLAPS

\* Where a transfer has not yet read its source to the end.
Reading(a) ==
  \/ t[a].pc \in {"look up", "open", "encrypt"}
  \/ t[a].pc = "verify" /\ direction = "GET"

\* Where the server has verified the request.
Authenticated(a) ==
  /\ t[a].pc \notin {"idle", "verify"}
  /\ direction = "GET" \/ t[a].pc \notin {"open", "encrypt", "sealed", "send"}

\* A transfer goes through the steps of its direction, with one open file; what
\* it publishes has been verified.
Control(a) ==
  /\ t[a].pc = "look up" => direction = "GET"
  /\ t[a].pc = "rename" => direction = "PUT"
  /\ t[a].fd # "closed" <=> t[a].pc = "write"
  /\ t[a].fd = "own" => direction = "PUT"
  /\ t[a].fd = "part" => direction = "GET"
  /\ t[a].fd \in {"target", "unlinked"} => direction = "GET" /\ t[a].met
  /\ Active(a) => t[a].secret \in Secret /\ t[a].want \in Contents /\ t[a].listed \in Contents
  /\ t[a].key = IF Authenticated(a) THEN t[a].secret ELSE NoFile
  /\ t[a].pc = "encrypt" => OpenSource(a) \in Contents
  /\ t[a].pc \in {"publish", "rename"} => t[a].plain = t[a].want

\* Agents that run at the same time have met; one that has met no other finds
\* the .part as it left it.
Meetings ==
  /\ \A a, b \in Agent : a # b /\ Active(a) /\ Active(b) => t[a].met
  /\ \A a \in Agent :
       direction = "GET" /\ t[a].pc = "publish" /\ ~t[a].met => part = t[a].want

\* The chunks so far are the ones decrypt_file_to_path is going to expect.
Framed(plain, lens, want) ==
  LET n == Len(lens)
  IN /\ Len(plain) <= Len(want)
     /\ \A i \in 1 .. Len(plain) : plain[i] = want[i]
     /\ Len(plain) = n * ChunkSize \/ (Len(plain) = Len(want) /\ Len(want) <= n * ChunkSize)
     /\ n = 0 \/ (n - 1) * ChunkSize < Len(want)
     /\ \A i \in 1 .. n :
          lens[i] = IF i * ChunkSize <= Len(want) THEN ChunkSize
                    ELSE Len(want) - (i - 1) * ChunkSize

\* What a transfer has read while nobody changed its source.
Faithful(a) ==
  /\ Reading(a) => source = t[a].want /\ t[a].listed = t[a].want /\ t[a].reads = Live
  /\ Reading(a) /\ t[a].pc # "encrypt" => t[a].plain = <<>> /\ t[a].lens = <<>>
  /\ t[a].pc = "encrypt" => Framed(t[a].plain, t[a].lens, t[a].want)
  /\ ~Reading(a) => t[a].plain = t[a].want /\ WellFramed(t[a].lens, Len(t[a].want))
  /\ t[a].pc = "sealed" => t[a].listed = t[a].want

\* A calm transfer is the only one, its client waits and its target is free.
Calm(a) ==
  /\ ~t[a].met /\ t[a].waits /\ target = NoFile
  /\ t[a].key = NoFile => t[a].secret = trusted

\* What holds of the transfer of one agent.
AgentInv(a) ==
  /\ Control(a)
  /\ Active(a) /\ t[a].calm => Calm(a)
  /\ Active(a) /\ (t[a].calm \/ edits = 0) => Faithful(a)
  /\ Active(a) /\ faults = 0 => t[a].waits
  /\ t[a].failed => ~t[a].calm

IInv ==
  /\ TypeOK
  /\ Meetings
  /\ edits = 0 => source = known
  /\ \A a \in Agent : AgentInv(a)
  /\ LeftoverOnlyAfterFault

-----------------------------------------------------------------------------
(* Framing *)

\* The quotient of a division is the number with the two bounds.
LEMMA Quotient ==
  ASSUME NEW c \in Nat \ {0}, NEW n \in Nat, NEW q \in Nat, q * c <= n, n < q * c + c
  PROVE  n \div c = q
  OBVIOUS

\* chunk_count counts the chunks of which all but the last are full.
LEMMA ChunkCount ==
  ASSUME NEW size \in Nat \ {0}, NEW n \in Nat \ {0},
         (n - 1) * ChunkSize < size, size <= n * ChunkSize
  PROVE  chunk_count(size) = n
<1>1. ChunkSize \in Nat \ {0}
  BY SizeAssumption
<1>2. (n - 1) * ChunkSize = n * ChunkSize - ChunkSize
  BY <1>1
<1> DEFINE m == n * ChunkSize
<1>3. m \in Nat
  BY <1>1
<1>4. m <= size + ChunkSize - 1 /\ size + ChunkSize - 1 < m + ChunkSize /\ size + ChunkSize - 1 \in Nat
  <2> HIDE DEF m
  <2> QED
    BY <1>1, <1>2, <1>3 DEF m
<1>5. (size + ChunkSize - 1) \div ChunkSize = n
  BY <1>1, <1>4, Quotient
<1> QED
  BY <1>5 DEF chunk_count

\* The bytes between two positions.
LEMMA Piece ==
  ASSUME NEW S, NEW s \in Seq(S), NEW p \in Nat, NEW q \in Nat, p < q, q <= Len(s)
  PROVE  /\ SubSeq(s, p + 1, q) \in Seq(S)
         /\ Len(SubSeq(s, p + 1, q)) = q - p
         /\ \A i \in 1 .. (q - p) : SubSeq(s, p + 1, q)[i] = s[p + i]
<1>1. \A i \in (p + 1) .. q : s[i] \in S
  <2> TAKE i \in (p + 1) .. q
  <2>1. i \in 1 .. Len(s)
    OBVIOUS
  <2> QED
    BY <2>1, ElementOfSeq
<1>2. p + 1 \in Int /\ q \in Int
  OBVIOUS
<1>3. /\ SubSeq(s, p + 1, q) \in Seq(S)
      /\ Len(SubSeq(s, p + 1, q)) = IF p + 1 <= q THEN q - (p + 1) + 1 ELSE 0
      /\ \A i \in 1 .. q - (p + 1) + 1 : SubSeq(s, p + 1, q)[i] = s[(p + 1) + i - 1]
  BY <1>1, <1>2, SubSeqProperties
<1> DEFINE piece == SubSeq(s, p + 1, q)
<1> HIDE DEF piece
<1>4. p + 1 <= q /\ q - (p + 1) + 1 = q - p
  OBVIOUS
<1>5. \A i \in 1 .. (q - p) : (p + 1) + i - 1 = p + i
  OBVIOUS
<1> QED
  BY <1>3, <1>4, <1>5

\* Two sequences after each other.
LEMMA Joined ==
  ASSUME NEW S, NEW s \in Seq(S), NEW r \in Seq(S)
  PROVE  /\ s \o r \in Seq(S)
         /\ Len(s \o r) = Len(s) + Len(r)
         /\ \A i \in 1 .. Len(s) : (s \o r)[i] = s[i]
         /\ \A i \in 1 .. Len(r) : (s \o r)[Len(s) + i] = r[i]
<1> DEFINE j == s \o r
<1>1. /\ j \in Seq(S) /\ Len(j) = Len(s) + Len(r)
      /\ \A i \in 1 .. Len(s) + Len(r) : j[i] = IF i <= Len(s) THEN s[i] ELSE r[i - Len(s)]
  BY ConcatProperties
<1>2. Len(s) \in Nat /\ Len(r) \in Nat
  OBVIOUS
<1> HIDE DEF j
<1>3. \A i \in 1 .. Len(s) : j[i] = s[i]
  <2> TAKE i \in 1 .. Len(s)
  <2>1. i \in 1 .. Len(s) + Len(r) /\ i <= Len(s)
    BY <1>2
  <2> QED
    BY <1>1, <2>1
<1>4. \A i \in 1 .. Len(r) : j[Len(s) + i] = r[i]
  <2> TAKE i \in 1 .. Len(r)
  <2>1. Len(s) + i \in 1 .. Len(s) + Len(r) /\ ~(Len(s) + i <= Len(s)) /\ (Len(s) + i) - Len(s) = i
    BY <1>2
  <2>2. j[Len(s) + i] = IF Len(s) + i <= Len(s) THEN s[Len(s) + i] ELSE r[(Len(s) + i) - Len(s)]
    BY <1>1, <2>1
  <2> QED
    BY <2>1, <2>2
<1> QED
  BY <1>1, <1>3, <1>4 DEF j

\* encrypt_file_to_path reads one more chunk.
LEMMA FramedNext ==
  ASSUME NEW want \in Seq(0 .. 255), NEW plain \in Seq(0 .. 255), NEW lens \in Seq(0 .. ChunkSize),
         Framed(plain, lens, want), NEW read,
         read = SubSeq(want, Len(plain) + 1,
                       IF Len(plain) + ChunkSize < Len(want) THEN Len(plain) + ChunkSize
                       ELSE Len(want)),
         read # <<>>
  PROVE  /\ read \in Seq(0 .. 255) /\ Len(read) \in 0 .. ChunkSize
         /\ Framed(plain \o read, Append(lens, Len(read)), want)
<1> DEFINE p == Len(plain)
           n == Len(lens)
           w == Len(want)
           m == n * ChunkSize
           last == IF p + ChunkSize < w THEN p + ChunkSize ELSE w
<1>1. ChunkSize \in Nat \ {0} /\ p \in Nat /\ n \in Nat /\ w \in Nat /\ m \in Nat /\ p <= w
  BY SizeAssumption DEF Framed
<1>2. p < w
  <2>1. CASE p = w
    <3>1. ~(w + ChunkSize < w)
      BY <1>1
    <3>2. read = SubSeq(want, w + 1, w)
      BY <2>1, <3>1
    <3>3. read = <<>>
      BY <3>2, <1>1
    <3> QED
      BY <3>3
  <2> QED
    BY <1>1, <2>1
<1>3. p = m
  BY <1>2 DEF Framed
<1>4. last \in Nat /\ p < last /\ last <= w /\ last <= p + ChunkSize
  BY <1>1, <1>2
<1>5. read = SubSeq(want, p + 1, last)
  OBVIOUS
<1>6. /\ read \in Seq(0 .. 255) /\ Len(read) = last - p
      /\ \A i \in 1 .. Len(read) : read[i] = want[p + i]
  <2>1. p \in Nat /\ last \in Nat /\ p < last /\ last <= Len(want)
    BY <1>1, <1>4
  <2> HIDE DEF p, last
  <2>2. /\ SubSeq(want, p + 1, last) \in Seq(0 .. 255)
        /\ Len(SubSeq(want, p + 1, last)) = last - p
        /\ \A i \in 1 .. (last - p) : SubSeq(want, p + 1, last)[i] = want[p + i]
    <3>1. PICK S : S = 0 .. 255
      OBVIOUS
    <3>2. want \in Seq(S)
      BY <3>1
    <3>3. /\ SubSeq(want, p + 1, last) \in Seq(S)
          /\ Len(SubSeq(want, p + 1, last)) = last - p
          /\ \A i \in 1 .. (last - p) : SubSeq(want, p + 1, last)[i] = want[p + i]
      BY <2>1, <3>2, Piece
    <3> QED
      BY <3>1, <3>3
  <2> QED
    BY <1>5, <2>2
<1>7. Len(read) \in 0 .. ChunkSize
  BY <1>1, <1>4, <1>6
<1> DEFINE plain2 == plain \o read
           lens2 == Append(lens, Len(read))
<1>8. /\ plain2 \in Seq(0 .. 255) /\ Len(plain2) = last /\ Len(lens2) = n + 1
      /\ \A i \in 1 .. p : plain2[i] = plain[i]
      /\ \A i \in 1 .. Len(read) : plain2[p + i] = read[i]
      /\ \A i \in 1 .. n : lens2[i] = lens[i]
      /\ lens2[n + 1] = Len(read)
  <2>1. /\ plain2 \in Seq(0 .. 255) /\ Len(plain2) = p + Len(read)
        /\ \A i \in 1 .. p : plain2[i] = plain[i]
        /\ \A i \in 1 .. Len(read) : plain2[p + i] = read[i]
    <3> HIDE DEF last
    <3> QED
      BY <1>6, Joined
  <2>2. p + Len(read) = last
    <3> HIDE DEF last, p
    <3> QED
      BY <1>1, <1>4, <1>6
  <2>3. /\ Len(lens2) = n + 1
        /\ \A i \in 1 .. n : lens2[i] = lens[i]
        /\ lens2[n + 1] = Len(read)
    <3> DEFINE x == Len(read)
    <3>1. x \in 0 .. ChunkSize
      BY <1>7
    <3> HIDE DEF x
    <3>2. /\ Len(Append(lens, x)) = Len(lens) + 1
          /\ \A i \in 1 .. Len(lens) : Append(lens, x)[i] = lens[i]
          /\ Append(lens, x)[Len(lens) + 1] = x
      BY <3>1, AppendProperties
    <3> QED
      BY <3>2 DEF x
  <2> HIDE DEF plain2, lens2
  <2> QED
    BY <2>1, <2>2, <2>3
<1>9. (n + 1) * ChunkSize = m + ChunkSize /\ ((n + 1) - 1) * ChunkSize = m
  BY <1>1
<1>10. \A i \in 1 .. last : plain2[i] = want[i]
  <2> SUFFICES ASSUME NEW i \in 1 .. last PROVE plain2[i] = want[i]
    OBVIOUS
  <2> HIDE DEF plain2, last, p
  <2>1. CASE i <= p
    BY <1>1, <1>4, <1>8, <2>1 DEF Framed, p
  <2>2. CASE i > p
    <3>1. (i - p) \in 1 .. Len(read) /\ p + (i - p) = i
      BY <1>1, <1>4, <1>6, <2>2
    <3>2. plain2[p + (i - p)] = read[i - p] /\ read[i - p] = want[p + (i - p)]
      BY <3>1, <1>6, <1>8
    <3> QED
      BY <3>1, <3>2
  <2> QED
    BY <1>1, <1>4, <2>1, <2>2
<1>11. Len(read) = IF (n + 1) * ChunkSize <= w THEN ChunkSize ELSE w - m
  <2>1. CASE p + ChunkSize < w
    <3>1. Len(read) = (p + ChunkSize) - p
      BY <1>6, <2>1
    <3> HIDE DEF p, w, n, m
    <3>2. (n + 1) * ChunkSize <= w /\ (p + ChunkSize) - p = ChunkSize
      BY <1>1, <1>3, <1>9, <2>1
    <3> QED
      BY <3>1, <3>2
  <2>2. CASE ~(p + ChunkSize < w)
    <3>1. Len(read) = w - p
      BY <1>6, <2>2
    <3> HIDE DEF p, w, n, m
    <3>2. (n + 1) * ChunkSize <= w => w - p = ChunkSize
      BY <1>1, <1>3, <1>9, <2>2
    <3> QED
      BY <1>3, <3>1, <3>2
  <2> QED
    BY <2>1, <2>2
<1>12. last = (n + 1) * ChunkSize \/ (last = w /\ w <= (n + 1) * ChunkSize)
  BY <1>1, <1>2, <1>3, <1>9
<1>13. Framed(plain2, lens2, want)
  <2>1. Len(plain2) <= w /\ \A i \in 1 .. Len(plain2) : plain2[i] = want[i]
    <3> HIDE DEF plain2, last
    <3> QED
      BY <1>4, <1>8, <1>10
  <2>2. \/ Len(plain2) = Len(lens2) * ChunkSize
        \/ Len(plain2) = w /\ w <= Len(lens2) * ChunkSize
    <3> HIDE DEF plain2, lens2, last
    <3> QED
      BY <1>8, <1>12
  <2>3. (Len(lens2) - 1) * ChunkSize < w
    <3> HIDE DEF lens2, m
    <3> QED
      BY <1>2, <1>3, <1>8, <1>9
  <2>4. \A i \in 1 .. Len(lens2) :
          lens2[i] = IF i * ChunkSize <= w THEN ChunkSize ELSE w - (i - 1) * ChunkSize
    <3> SUFFICES ASSUME NEW i \in 1 .. Len(lens2)
                 PROVE  lens2[i] = IF i * ChunkSize <= w THEN ChunkSize ELSE w - (i - 1) * ChunkSize
      OBVIOUS
    <3> HIDE DEF lens2
    <3>1. CASE i \in 1 .. n
      BY <1>8, <3>1 DEF Framed
    <3>2. CASE i = n + 1
      <4>1. i * ChunkSize = (n + 1) * ChunkSize /\ (i - 1) * ChunkSize = m
        BY <1>9, <3>2
      <4>2. lens2[i] = Len(read)
        BY <1>8, <3>2
      <4> HIDE DEF w, n, m
      <4> QED
        BY <1>11, <4>1, <4>2
    <3>3. i \in 1 .. n \/ i = n + 1
      <4>1. i \in 1 .. (n + 1)
        BY <1>8
      <4> HIDE DEF n
      <4> QED
        BY <1>1, <4>1
    <3> QED
      BY <3>1, <3>2, <3>3
  <2> HIDE DEF plain2, lens2
  <2> QED
    BY <2>1, <2>2, <2>3, <2>4 DEF Framed
<1> QED
  BY <1>6, <1>7, <1>13

\* When there is nothing left to read, decrypt_file_to_path finds the file.
LEMMA FramedEnd ==
  ASSUME NEW want \in Seq(0 .. 255), NEW plain \in Seq(0 .. 255), NEW lens \in Seq(0 .. ChunkSize),
         Framed(plain, lens, want),
         SubSeq(want, Len(plain) + 1,
                IF Len(plain) + ChunkSize < Len(want) THEN Len(plain) + ChunkSize
                ELSE Len(want)) = <<>>
  PROVE  /\ plain = want
         /\ want = <<>> => lens = <<>> /\ WellFramed(<<0>>, Len(want))
         /\ want # <<>> => WellFramed(lens, Len(want))
<1> DEFINE p == Len(plain)
           n == Len(lens)
           w == Len(want)
           last == IF p + ChunkSize < w THEN p + ChunkSize ELSE w
<1>1. ChunkSize \in Nat \ {0} /\ p \in Nat /\ n \in Nat /\ w \in Nat /\ p <= w
  BY SizeAssumption DEF Framed
<1>2. p = w
  <2>1. CASE p < w
    <3>1. last \in Nat /\ p + 1 <= last /\ last <= w
      BY <1>1, <2>1
    <3>2. Len(SubSeq(want, p + 1, last)) = last - p
      <4> HIDE DEF last
      <4> QED
        BY <1>1, <3>1
    <3>3. Len(SubSeq(want, p + 1, last)) = 0
      OBVIOUS
    <3> HIDE DEF last
    <3> QED
      BY <1>1, <3>1, <3>2, <3>3
  <2> QED
    BY <1>1, <2>1
<1>3. plain = want
  BY <1>2 DEF Framed
<1>4. ASSUME want = <<>> PROVE lens = <<>> /\ WellFramed(<<0>>, Len(want))
  <2>1. w = 0
    BY <1>4
  <2>2. n = 0
    <3>1. n # 0 => n - 1 \in Nat /\ (n - 1) * ChunkSize \in Nat
      BY <1>1
    <3> QED
      BY <1>1, <2>1, <3>1 DEF Framed
  <2>3. chunk_count(w) = 1 /\ Len(<<0>>) = 1
    BY <2>1 DEF chunk_count
  <2>4. 1 * ChunkSize = ChunkSize /\ (1 - 1) * ChunkSize = 0
    BY <1>1
  <2> QED
    BY <1>1, <2>1, <2>2, <2>3, <2>4 DEF WellFramed
<1>5. ASSUME want # <<>> PROVE WellFramed(lens, Len(want))
  <2>1. w \in Nat \ {0}
    BY <1>1, <1>5
  <2>2. n # 0
    BY <1>1, <1>2, <2>1 DEF Framed
  <2>3. (n - 1) * ChunkSize < w /\ w <= n * ChunkSize
    BY <1>1, <1>2, <2>2 DEF Framed
  <2>4. chunk_count(w) = n
    BY <1>1, <2>1, <2>2, <2>3, ChunkCount
  <2> QED
    BY <2>4 DEF WellFramed, Framed
<1> QED
  BY <1>3, <1>4, <1>5
\* A file of which nothing has been read.
LEMMA FramedStart ==
  ASSUME NEW want \in Seq(0 .. 255)
  PROVE  Framed(<<>>, <<>>, want)
<1>1. Len(<<>>) = 0 /\ Len(want) \in Nat /\ 0 * ChunkSize = 0
  BY SizeAssumption
<1> QED
  BY <1>1 DEF Framed

\* Whatever is open, a read gives at most a chunk of bytes.
LEMMA ReadTyped ==
  ASSUME NEW s \in Seq(0 .. 255), NEW p \in Nat
  PROVE  LET read == SubSeq(s, p + 1, IF p + ChunkSize < Len(s) THEN p + ChunkSize ELSE Len(s))
         IN  read \in Seq(0 .. 255) /\ Len(read) \in 0 .. ChunkSize
<1> DEFINE last == IF p + ChunkSize < Len(s) THEN p + ChunkSize ELSE Len(s)
<1>1. ChunkSize \in Nat \ {0} /\ Len(s) \in Nat
  BY SizeAssumption
<1>2. last \in Nat /\ last <= Len(s) /\ last <= p + ChunkSize
  BY <1>1
<1> HIDE DEF last
<1>3. CASE p < last
  <2>1. SubSeq(s, p + 1, last) \in Seq(0 .. 255) /\ Len(SubSeq(s, p + 1, last)) = last - p
    <3>1. PICK S : S = 0 .. 255
      OBVIOUS
    <3>2. s \in Seq(S)
      BY <3>1
    <3>3. SubSeq(s, p + 1, last) \in Seq(S) /\ Len(SubSeq(s, p + 1, last)) = last - p
      BY <1>2, <1>3, <3>2, Piece
    <3> QED
      BY <3>1, <3>3
  <2>2. last - p \in 0 .. ChunkSize
    BY <1>1, <1>2, <1>3
  <2> QED
    BY <2>1, <2>2 DEF last
<1>4. CASE ~(p < last)
  <2>1. p + 1 \in Int /\ last \in Int /\ last < p + 1
    BY <1>2, <1>4
  <2>2. SubSeq(s, p + 1, last) = <<>>
    BY <2>1, SubSeqEmpty
  <2>3. <<>> \in Seq(0 .. 255) /\ Len(<<>>) = 0 /\ 0 \in 0 .. ChunkSize
    BY <1>1
  <2> QED
    BY <2>2, <2>3 DEF last
<1> QED
  BY <1>3, <1>4

-----------------------------------------------------------------------------
(* The fields of a transfer after an update *)

SetPc(o, x) == [o EXCEPT !.pc = x]

LEMMA SetPcFields ==
  ASSUME NEW o \in Transfer, NEW x \in Pc
  PROVE  LET r == SetPc(o, x)
         IN  /\ r \in Transfer
             /\ r.pc = x
             /\ r.secret = o.secret /\ r.key = o.key /\ r.want = o.want /\ r.listed = o.listed
             /\ r.plain = o.plain /\ r.lens = o.lens /\ r.reads = o.reads /\ r.fd = o.fd
             /\ r.waits = o.waits /\ r.met = o.met /\ r.calm = o.calm /\ r.failed = o.failed
<1> DEFINE r == SetPc(o, x)
<1>1. r \in Transfer
  BY DEF Transfer, SetPc
<1>2. /\ r.pc = x
      /\ r.secret = o.secret /\ r.key = o.key /\ r.want = o.want /\ r.listed = o.listed
      /\ r.plain = o.plain /\ r.lens = o.lens /\ r.reads = o.reads /\ r.fd = o.fd
      /\ r.waits = o.waits /\ r.met = o.met /\ r.calm = o.calm /\ r.failed = o.failed
  BY DEF Transfer, SetPc
<1> QED
  BY <1>1, <1>2

SetPcListed(o, x, y) == [o EXCEPT !.pc = x, !.listed = y]

LEMMA SetPcListedFields ==
  ASSUME NEW o \in Transfer, NEW x \in Pc, NEW y \in Contents \cup {NoFile}
  PROVE  LET r == SetPcListed(o, x, y)
         IN  /\ r \in Transfer
             /\ r.pc = x /\ r.listed = y
             /\ r.secret = o.secret /\ r.key = o.key /\ r.want = o.want /\ r.plain = o.plain
             /\ r.lens = o.lens /\ r.reads = o.reads /\ r.fd = o.fd /\ r.waits = o.waits
             /\ r.met = o.met /\ r.calm = o.calm /\ r.failed = o.failed
<1> DEFINE r == SetPcListed(o, x, y)
<1>1. r \in Transfer
  BY DEF Transfer, SetPcListed
<1>2. /\ r.pc = x /\ r.listed = y
      /\ r.secret = o.secret /\ r.key = o.key /\ r.want = o.want /\ r.plain = o.plain
      /\ r.lens = o.lens /\ r.reads = o.reads /\ r.fd = o.fd /\ r.waits = o.waits
      /\ r.met = o.met /\ r.calm = o.calm /\ r.failed = o.failed
  BY DEF Transfer, SetPcListed
<1> QED
  BY <1>1, <1>2

SetPlainLens(o, x, y) == [o EXCEPT !.plain = x, !.lens = y]

LEMMA SetPlainLensFields ==
  ASSUME NEW o \in Transfer, NEW x \in Seq(0 .. 255), NEW y \in Seq(0 .. ChunkSize)
  PROVE  LET r == SetPlainLens(o, x, y)
         IN  /\ r \in Transfer
             /\ r.plain = x /\ r.lens = y
             /\ r.pc = o.pc /\ r.secret = o.secret /\ r.key = o.key /\ r.want = o.want
             /\ r.listed = o.listed /\ r.reads = o.reads /\ r.fd = o.fd /\ r.waits = o.waits
             /\ r.met = o.met /\ r.calm = o.calm /\ r.failed = o.failed
<1> DEFINE r == SetPlainLens(o, x, y)
<1>1. r \in Transfer
  BY DEF Transfer, SetPlainLens
<1>2. /\ r.plain = x /\ r.lens = y
      /\ r.pc = o.pc /\ r.secret = o.secret /\ r.key = o.key /\ r.want = o.want
      /\ r.listed = o.listed /\ r.reads = o.reads /\ r.fd = o.fd /\ r.waits = o.waits
      /\ r.met = o.met /\ r.calm = o.calm /\ r.failed = o.failed
  BY DEF Transfer, SetPlainLens
<1> QED
  BY <1>1, <1>2

SetLensPc(o, x, y) == [o EXCEPT !.lens = x, !.pc = y]

LEMMA SetLensPcFields ==
  ASSUME NEW o \in Transfer, NEW x \in Seq(0 .. ChunkSize), NEW y \in Pc
  PROVE  LET r == SetLensPc(o, x, y)
         IN  /\ r \in Transfer
             /\ r.lens = x /\ r.pc = y
             /\ r.secret = o.secret /\ r.key = o.key /\ r.want = o.want /\ r.listed = o.listed
             /\ r.plain = o.plain /\ r.reads = o.reads /\ r.fd = o.fd /\ r.waits = o.waits
             /\ r.met = o.met /\ r.calm = o.calm /\ r.failed = o.failed
<1> DEFINE r == SetLensPc(o, x, y)
<1>1. r \in Transfer
  BY DEF Transfer, SetLensPc
<1>2. /\ r.lens = x /\ r.pc = y
      /\ r.secret = o.secret /\ r.key = o.key /\ r.want = o.want /\ r.listed = o.listed
      /\ r.plain = o.plain /\ r.reads = o.reads /\ r.fd = o.fd /\ r.waits = o.waits
      /\ r.met = o.met /\ r.calm = o.calm /\ r.failed = o.failed
  BY DEF Transfer, SetLensPc
<1> QED
  BY <1>1, <1>2

SetPcReads(o, x, y) == [o EXCEPT !.pc = x, !.reads = y]

LEMMA SetPcReadsFields ==
  ASSUME NEW o \in Transfer, NEW x \in Pc, NEW y \in Contents \cup {Live}
  PROVE  LET r == SetPcReads(o, x, y)
         IN  /\ r \in Transfer
             /\ r.pc = x /\ r.reads = y
             /\ r.secret = o.secret /\ r.key = o.key /\ r.want = o.want /\ r.listed = o.listed
             /\ r.plain = o.plain /\ r.lens = o.lens /\ r.fd = o.fd /\ r.waits = o.waits
             /\ r.met = o.met /\ r.calm = o.calm /\ r.failed = o.failed
<1> DEFINE r == SetPcReads(o, x, y)
<1>1. r \in Transfer
  BY DEF Transfer, SetPcReads
<1>2. /\ r.pc = x /\ r.reads = y
      /\ r.secret = o.secret /\ r.key = o.key /\ r.want = o.want /\ r.listed = o.listed
      /\ r.plain = o.plain /\ r.lens = o.lens /\ r.fd = o.fd /\ r.waits = o.waits
      /\ r.met = o.met /\ r.calm = o.calm /\ r.failed = o.failed
  BY DEF Transfer, SetPcReads
<1> QED
  BY <1>1, <1>2

SetKeyPc(o, x, y) == [o EXCEPT !.key = x, !.pc = y]

LEMMA SetKeyPcFields ==
  ASSUME NEW o \in Transfer, NEW x \in Secret \cup {NoFile}, NEW y \in Pc
  PROVE  LET r == SetKeyPc(o, x, y)
         IN  /\ r \in Transfer
             /\ r.key = x /\ r.pc = y
             /\ r.secret = o.secret /\ r.want = o.want /\ r.listed = o.listed /\ r.plain = o.plain
             /\ r.lens = o.lens /\ r.reads = o.reads /\ r.fd = o.fd /\ r.waits = o.waits
             /\ r.met = o.met /\ r.calm = o.calm /\ r.failed = o.failed
<1> DEFINE r == SetKeyPc(o, x, y)
<1>1. r \in Transfer
  BY DEF Transfer, SetKeyPc
<1>2. /\ r.key = x /\ r.pc = y
      /\ r.secret = o.secret /\ r.want = o.want /\ r.listed = o.listed /\ r.plain = o.plain
      /\ r.lens = o.lens /\ r.reads = o.reads /\ r.fd = o.fd /\ r.waits = o.waits
      /\ r.met = o.met /\ r.calm = o.calm /\ r.failed = o.failed
  BY DEF Transfer, SetKeyPc
<1> QED
  BY <1>1, <1>2

SetPcFd(o, x, y) == [o EXCEPT !.pc = x, !.fd = y]

LEMMA SetPcFdFields ==
  ASSUME NEW o \in Transfer, NEW x \in Pc, NEW y \in Fd
  PROVE  LET r == SetPcFd(o, x, y)
         IN  /\ r \in Transfer
             /\ r.pc = x /\ r.fd = y
             /\ r.secret = o.secret /\ r.key = o.key /\ r.want = o.want /\ r.listed = o.listed
             /\ r.plain = o.plain /\ r.lens = o.lens /\ r.reads = o.reads /\ r.waits = o.waits
             /\ r.met = o.met /\ r.calm = o.calm /\ r.failed = o.failed
<1> DEFINE r == SetPcFd(o, x, y)
<1>1. r \in Transfer
  BY DEF Transfer, SetPcFd
<1>2. /\ r.pc = x /\ r.fd = y
      /\ r.secret = o.secret /\ r.key = o.key /\ r.want = o.want /\ r.listed = o.listed
      /\ r.plain = o.plain /\ r.lens = o.lens /\ r.reads = o.reads /\ r.waits = o.waits
      /\ r.met = o.met /\ r.calm = o.calm /\ r.failed = o.failed
  BY DEF Transfer, SetPcFd
<1> QED
  BY <1>1, <1>2

SetWaitsCalm(o, x, y) == [o EXCEPT !.waits = x, !.calm = y]

LEMMA SetWaitsCalmFields ==
  ASSUME NEW o \in Transfer, NEW x \in BOOLEAN, NEW y \in BOOLEAN
  PROVE  LET r == SetWaitsCalm(o, x, y)
         IN  /\ r \in Transfer
             /\ r.waits = x /\ r.calm = y
             /\ r.pc = o.pc /\ r.secret = o.secret /\ r.key = o.key /\ r.want = o.want
             /\ r.listed = o.listed /\ r.plain = o.plain /\ r.lens = o.lens /\ r.reads = o.reads
             /\ r.fd = o.fd /\ r.met = o.met /\ r.failed = o.failed
<1> DEFINE r == SetWaitsCalm(o, x, y)
<1>1. r \in Transfer
  BY DEF Transfer, SetWaitsCalm
<1>2. /\ r.waits = x /\ r.calm = y
      /\ r.pc = o.pc /\ r.secret = o.secret /\ r.key = o.key /\ r.want = o.want
      /\ r.listed = o.listed /\ r.plain = o.plain /\ r.lens = o.lens /\ r.reads = o.reads
      /\ r.fd = o.fd /\ r.met = o.met /\ r.failed = o.failed
  BY DEF Transfer, SetWaitsCalm
<1> QED
  BY <1>1, <1>2

SetCalmReads(o, x, y) == [o EXCEPT !.calm = x, !.reads = y]

LEMMA SetCalmReadsFields ==
  ASSUME NEW o \in Transfer, NEW x \in BOOLEAN, NEW y \in Contents \cup {Live}
  PROVE  LET r == SetCalmReads(o, x, y)
         IN  /\ r \in Transfer
             /\ r.calm = x /\ r.reads = y
             /\ r.pc = o.pc /\ r.secret = o.secret /\ r.key = o.key /\ r.want = o.want
             /\ r.listed = o.listed /\ r.plain = o.plain /\ r.lens = o.lens /\ r.fd = o.fd
             /\ r.waits = o.waits /\ r.met = o.met /\ r.failed = o.failed
<1> DEFINE r == SetCalmReads(o, x, y)
<1>1. r \in Transfer
  BY DEF Transfer, SetCalmReads
<1>2. /\ r.calm = x /\ r.reads = y
      /\ r.pc = o.pc /\ r.secret = o.secret /\ r.key = o.key /\ r.want = o.want
      /\ r.listed = o.listed /\ r.plain = o.plain /\ r.lens = o.lens /\ r.fd = o.fd
      /\ r.waits = o.waits /\ r.met = o.met /\ r.failed = o.failed
  BY DEF Transfer, SetCalmReads
<1> QED
  BY <1>1, <1>2

SetCalm(o, x) == [o EXCEPT !.calm = x]

LEMMA SetCalmFields ==
  ASSUME NEW o \in Transfer, NEW x \in BOOLEAN
  PROVE  LET r == SetCalm(o, x)
         IN  /\ r \in Transfer
             /\ r.calm = x
             /\ r.pc = o.pc /\ r.secret = o.secret /\ r.key = o.key /\ r.want = o.want
             /\ r.listed = o.listed /\ r.plain = o.plain /\ r.lens = o.lens /\ r.reads = o.reads
             /\ r.fd = o.fd /\ r.waits = o.waits /\ r.met = o.met /\ r.failed = o.failed
<1> DEFINE r == SetCalm(o, x)
<1>1. r \in Transfer
  BY DEF Transfer, SetCalm
<1>2. /\ r.calm = x
      /\ r.pc = o.pc /\ r.secret = o.secret /\ r.key = o.key /\ r.want = o.want
      /\ r.listed = o.listed /\ r.plain = o.plain /\ r.lens = o.lens /\ r.reads = o.reads
      /\ r.fd = o.fd /\ r.waits = o.waits /\ r.met = o.met /\ r.failed = o.failed
  BY DEF Transfer, SetCalm
<1> QED
  BY <1>1, <1>2

SetFd(o, x) == [o EXCEPT !.fd = x]

LEMMA SetFdFields ==
  ASSUME NEW o \in Transfer, NEW x \in Fd
  PROVE  LET r == SetFd(o, x)
         IN  /\ r \in Transfer
             /\ r.fd = x
             /\ r.pc = o.pc /\ r.secret = o.secret /\ r.key = o.key /\ r.want = o.want
             /\ r.listed = o.listed /\ r.plain = o.plain /\ r.lens = o.lens /\ r.reads = o.reads
             /\ r.waits = o.waits /\ r.met = o.met /\ r.calm = o.calm /\ r.failed = o.failed
<1> DEFINE r == SetFd(o, x)
<1>1. r \in Transfer
  BY DEF Transfer, SetFd
<1>2. /\ r.fd = x
      /\ r.pc = o.pc /\ r.secret = o.secret /\ r.key = o.key /\ r.want = o.want
      /\ r.listed = o.listed /\ r.plain = o.plain /\ r.lens = o.lens /\ r.reads = o.reads
      /\ r.waits = o.waits /\ r.met = o.met /\ r.calm = o.calm /\ r.failed = o.failed
  BY DEF Transfer, SetFd
<1> QED
  BY <1>1, <1>2

SetMetCalm(o, x, y) == [o EXCEPT !.met = x, !.calm = y]

LEMMA SetMetCalmFields ==
  ASSUME NEW o \in Transfer, NEW x \in BOOLEAN, NEW y \in BOOLEAN
  PROVE  LET r == SetMetCalm(o, x, y)
         IN  /\ r \in Transfer
             /\ r.met = x /\ r.calm = y
             /\ r.pc = o.pc /\ r.secret = o.secret /\ r.key = o.key /\ r.want = o.want
             /\ r.listed = o.listed /\ r.plain = o.plain /\ r.lens = o.lens /\ r.reads = o.reads
             /\ r.fd = o.fd /\ r.waits = o.waits /\ r.failed = o.failed
<1> DEFINE r == SetMetCalm(o, x, y)
<1>1. r \in Transfer
  BY DEF Transfer, SetMetCalm
<1>2. /\ r.met = x /\ r.calm = y
      /\ r.pc = o.pc /\ r.secret = o.secret /\ r.key = o.key /\ r.want = o.want
      /\ r.listed = o.listed /\ r.plain = o.plain /\ r.lens = o.lens /\ r.reads = o.reads
      /\ r.fd = o.fd /\ r.waits = o.waits /\ r.failed = o.failed
  BY DEF Transfer, SetMetCalm
<1> QED
  BY <1>1, <1>2

-----------------------------------------------------------------------------
(* One agent moves *)

\* A transfer that has not failed, or that nobody watches, keeps its part of
\* the invariant while another one moves: the two have met.
LEMMA Other ==
  ASSUME IInv, NEW a \in Agent, NEW b \in Agent, a # b, Active(a), t'[b] = t[b],
         UNCHANGED <<direction, source, edits>>, faults' = 0 => faults = 0
  PROVE  AgentInv(b)'
<1>1. AgentInv(b) /\ (Active(b) => t[b].met)
  BY DEF IInv, Meetings
<1>2. Active(b) => ~t[b].calm
  BY <1>1 DEF AgentInv, Calm
<1>3. Active(b)' <=> Active(b)
  BY DEF Active
<1>4. Control(b)'
  <2>1. Authenticated(b)' <=> Authenticated(b)
    BY DEF Authenticated
  <2>2. OpenSource(b)' = OpenSource(b)
    BY DEF OpenSource
  <2> QED
    BY <1>1, <1>3, <2>1, <2>2 DEF AgentInv, Control
<1>5. Faithful(b) => Faithful(b)'
  BY DEF Faithful, Reading
<1> QED
  BY <1>1, <1>2, <1>3, <1>4, <1>5 DEF AgentInv

\* A step of one agent keeps the invariant if it keeps that agent's part.
LEMMA Moves ==
  ASSUME IInv, NEW a \in Agent, Active(a), NEW r \in Transfer, t' = [t EXCEPT ![a] = r],
         r.pc # "idle" => r.met = t[a].met,
         UNCHANGED <<direction, source, known, trusted, transfers, edits, pairings>>,
         faults' \in Nat, faults' = 0 => faults = 0,
         target' \in Contents \cup {NoFile, Partial}, part' \in Contents \cup {NoFile, Partial},
         left' \in BOOLEAN, LeftoverOnlyAfterFault',
         direction = "GET" /\ r.pc = "publish" /\ ~r.met => part' = r.want,
         AgentInv(a)'
  PROVE  IInv'
<1>1. t'[a] = r /\ \A b \in Agent \ {a} : t'[b] = t[b]
  BY DEF IInv, TypeOK
<1>2. TypeOK'
  <2>1. t' \in [Agent -> Transfer]
    BY DEF IInv, TypeOK
  <2> QED
    BY <2>1 DEF IInv, TypeOK
<1>3. Meetings'
  <2>1. \A b \in Agent \ {a} : Active(b) => t[b].met /\ t[a].met
    BY DEF IInv, Meetings
  <2>2. ASSUME NEW x \in Agent, NEW y \in Agent, x # y, Active(x)', Active(y)'
        PROVE  t'[x].met
    <3>1. CASE x = a
      BY <1>1, <2>1, <2>2, <3>1 DEF Active
    <3>2. CASE x # a
      BY <1>1, <2>1, <2>2, <3>2 DEF Active
    <3> QED
      BY <3>1, <3>2
  <2>3. ASSUME NEW b \in Agent, direction = "GET", t'[b].pc = "publish", ~t'[b].met
        PROVE  part' = t'[b].want
    <3>1. CASE b = a
      BY <1>1, <2>3, <3>1
    <3>2. CASE b # a
      BY <1>1, <2>1, <2>3, <3>2 DEF Active
    <3> QED
      BY <3>1, <3>2
  <2> QED
    BY <2>2, <2>3 DEF Meetings
<1>4. \A b \in Agent : AgentInv(b)'
  BY <1>1, Other
<1>5. (edits = 0 => source = known)'
  BY DEF IInv
<1> QED
  BY <1>2, <1>3, <1>4, <1>5 DEF IInv

\* A transfer that was disturbed may fail.
LEMMA Fails ==
  ASSUME IInv, NEW a \in Agent, Active(a), Failed(a), ~t[a].calm,
         UNCHANGED <<direction, source, known, trusted, transfers, edits, pairings, faults>>,
         target' \in Contents \cup {NoFile, Partial}, part' \in Contents \cup {NoFile, Partial},
         left' \in BOOLEAN, LeftoverOnlyAfterFault'
  PROVE  IInv'
<1> DEFINE r == [Nothing EXCEPT !.failed = t[a].waits, !.calm = t[a].calm \/ ~t[a].waits]
<1>1. t[a] \in Transfer
  BY DEF IInv, TypeOK
<1>2. t[a].waits \in BOOLEAN /\ t[a].calm \in BOOLEAN
  BY <1>1 DEF Transfer
<1>3. /\ r \in Transfer /\ r.pc = "idle" /\ r.fd = "closed" /\ r.key = NoFile
      /\ r.failed = t[a].waits /\ r.calm = (t[a].calm \/ ~t[a].waits)
  <2>1. /\ r.pc = "idle" /\ r.fd = "closed" /\ r.key = NoFile
        /\ r.failed = t[a].waits /\ r.calm = (t[a].calm \/ ~t[a].waits)
    BY Zenon DEF Nothing
  <2>2. r \in Transfer
    <3> DEFINE x == t[a].waits
               y == t[a].calm \/ ~t[a].waits
               n == [Nothing EXCEPT !.failed = x, !.calm = y]
    <3>1. x \in BOOLEAN /\ y \in BOOLEAN
      BY <1>2
    <3>2. Nothing \in Transfer
      BY SizeAssumption DEF Nothing, Transfer, Pc, Fd
    <3> HIDE DEF x, y
    <3>3. n \in Transfer
      BY <3>1, <3>2 DEF Transfer
    <3> QED
      BY <3>3 DEF x, y
  <2> QED
    BY <2>1, <2>2
<1>4. t' = [t EXCEPT ![a] = r]
  BY DEF Failed
<1>5. t'[a] = r
  BY <1>4 DEF IInv, TypeOK
<1>6. AgentInv(a)'
  <2> HIDE DEF r
  <2>1. ~Active(a)' /\ ~Authenticated(a)'
    BY <1>3, <1>5 DEF Active, Authenticated
  <2>2. Control(a)'
    BY <1>3, <1>5, <2>1 DEF Control
  <2>3. t'[a].failed => ~t'[a].calm
    BY <1>2, <1>3, <1>5
  <2> QED
    BY <2>1, <2>2, <2>3 DEF AgentInv
<1>7. faults' \in Nat /\ (faults' = 0 => faults = 0)
  BY DEF IInv, TypeOK
<1>8. r.pc # "idle" => r.met = t[a].met
  BY <1>3
<1>9. direction = "GET" /\ r.pc = "publish" /\ ~r.met => part' = r.want
  BY <1>3
<1> HIDE DEF r
<1> QED
  BY <1>3, <1>4, <1>6, <1>7, <1>8, <1>9, Moves
\* The fields of a transfer.
LEMMA Fields ==
  ASSUME IInv, NEW a \in Agent
  PROVE  /\ t[a] \in Transfer
         /\ t[a].pc \in Pc /\ t[a].fd \in Fd
         /\ t[a].plain \in Seq(0 .. 255) /\ t[a].lens \in Seq(0 .. ChunkSize)
         /\ t[a].waits \in BOOLEAN /\ t[a].met \in BOOLEAN /\ t[a].calm \in BOOLEAN
<1>1. t[a] \in Transfer
  BY DEF IInv, TypeOK
<1> QED
  BY <1>1 DEF Transfer

\* What a calm transfer, or any one before the first edit, has read.
LEMMA Quiet ==
  ASSUME IInv, NEW a \in Agent, Active(a)
  PROVE  /\ t[a].calm => ~t[a].met /\ t[a].waits /\ target = NoFile
                          /\ (t[a].key = NoFile => t[a].secret = trusted)
         /\ t[a].calm \/ edits = 0 => Faithful(a)
         /\ faults = 0 => t[a].waits
         /\ t[a].secret \in Secret /\ t[a].want \in Contents /\ t[a].listed \in Contents
         /\ t[a].want # NoFile /\ t[a].secret # NoFile /\ t[a].want \in Seq(0 .. 255)
  BY ContentsAssumption, NoFileAssumption DEF IInv, AgentInv, Calm, Control

-----------------------------------------------------------------------------
(* The steps of a transfer *)

\* The sender looks its file up.
LEMMA LookUpInv ==
  ASSUME IInv, NEW a \in Agent, LookUp(a)
  PROVE  IInv'
<1>1. Active(a) /\ t[a].pc = "look up" /\ Reading(a) /\ t[a].pc # "encrypt"
  BY DEF LookUp, Active, Reading
<1>2. /\ UNCHANGED <<direction, source, known, target, part, trusted, left>>
      /\ UNCHANGED <<transfers, edits, pairings, faults>>
  BY DEF LookUp, counters
<1>3. /\ target' \in Contents \cup {NoFile, Partial} /\ part' \in Contents \cup {NoFile, Partial}
      /\ left' \in BOOLEAN /\ faults' \in Nat /\ (faults' = 0 => faults = 0)
      /\ LeftoverOnlyAfterFault'
  BY <1>2 DEF IInv, TypeOK, LeftoverOnlyAfterFault
<1>4. CASE source = NoFile
  <2>1. Failed(a)
    BY <1>4 DEF LookUp
  <2>2. ~t[a].calm
    BY <1>1, <1>4, Quiet DEF Faithful
  <2> QED
    BY <1>1, <1>2, <1>3, <2>1, <2>2, Fails
<1>5. CASE source # NoFile
  <2> DEFINE r == SetPcListed(t[a], "open", source)
  <2>1. t' = [t EXCEPT ![a] = r]
    BY <1>5 DEF LookUp, SetPcListed
  <2>2. source \in Contents
    BY <1>5 DEF IInv, TypeOK
  <2>3. /\ r \in Transfer /\ r.pc = "open" /\ r.listed = source
        /\ r.secret = t[a].secret /\ r.key = t[a].key /\ r.want = t[a].want /\ r.plain = t[a].plain
        /\ r.lens = t[a].lens /\ r.reads = t[a].reads /\ r.fd = t[a].fd /\ r.waits = t[a].waits
        /\ r.met = t[a].met /\ r.calm = t[a].calm /\ r.failed = t[a].failed
    <3>1. t[a] \in Transfer /\ "open" \in Pc /\ source \in Contents \cup {NoFile}
      BY <2>2, Fields DEF Pc
    <3> QED
      BY <3>1, SetPcListedFields
  <2>4. t'[a] = r
    BY <2>1 DEF IInv, TypeOK
  <2> HIDE DEF r
  <2>5. direction = "GET" /\ Authenticated(a) /\ Authenticated(a)' /\ Active(a)' /\ Reading(a)'
    BY <1>1, <1>2, <2>3, <2>4 DEF IInv, AgentInv, Control, Authenticated, Active, Reading
  <2>6. AgentInv(a) /\ Control(a)
    BY DEF IInv, AgentInv
  <2>7. Control(a)'
    BY <1>1, <1>2, <2>2, <2>3, <2>4, <2>5, <2>6 DEF Control
  <2>8. Faithful(a) => Faithful(a)'
    BY <1>1, <1>2, <2>3, <2>4, <2>5 DEF Faithful
  <2>9. AgentInv(a)'
    BY <1>1, <1>2, <2>3, <2>4, <2>5, <2>6, <2>7, <2>8 DEF AgentInv, Calm
  <2> QED
    BY <1>1, <1>2, <1>3, <2>1, <2>3, <2>9, Moves
<1> QED
  BY <1>4, <1>5
\* The sender opens the file it has looked up.
LEMMA OpenInv ==
  ASSUME IInv, NEW a \in Agent, Open(a)
  PROVE  IInv'
<1>1. Active(a) /\ t[a].pc = "open" /\ Reading(a) /\ t[a].pc # "encrypt"
  BY DEF Open, Active, Reading
<1>2. /\ UNCHANGED <<direction, source, known, target, part, trusted, left>>
      /\ UNCHANGED <<transfers, edits, pairings, faults>>
  BY DEF Open, counters
<1>3. /\ target' \in Contents \cup {NoFile, Partial} /\ part' \in Contents \cup {NoFile, Partial}
      /\ left' \in BOOLEAN /\ faults' \in Nat /\ (faults' = 0 => faults = 0)
      /\ LeftoverOnlyAfterFault'
  BY <1>2 DEF IInv, TypeOK, LeftoverOnlyAfterFault
<1>4. CASE source = NoFile
  <2>1. Failed(a)
    BY <1>4 DEF Open
  <2>2. ~t[a].calm
    BY <1>1, <1>4, Quiet DEF Faithful
  <2> QED
    BY <1>1, <1>2, <1>3, <2>1, <2>2, Fails
<1>5. CASE source # NoFile
  <2> DEFINE r == SetPc(t[a], "encrypt")
  <2>1. t' = [t EXCEPT ![a] = r]
    BY <1>5 DEF Open, GoesTo, SetPc
  <2>2. source \in Contents
    BY <1>5 DEF IInv, TypeOK
  <2>3. /\ r \in Transfer /\ r.pc = "encrypt" /\ r.listed = t[a].listed
        /\ r.secret = t[a].secret /\ r.key = t[a].key /\ r.want = t[a].want /\ r.plain = t[a].plain
        /\ r.lens = t[a].lens /\ r.reads = t[a].reads /\ r.fd = t[a].fd /\ r.waits = t[a].waits
        /\ r.met = t[a].met /\ r.calm = t[a].calm /\ r.failed = t[a].failed
    <3>1. t[a] \in Transfer /\ "encrypt" \in Pc
      BY Fields DEF Pc
    <3> QED
      BY <3>1, SetPcFields
  <2>4. t'[a] = r
    BY <2>1 DEF IInv, TypeOK
  <2> HIDE DEF r
  <2>5. (Authenticated(a)' <=> Authenticated(a)) /\ Active(a)' /\ Reading(a)'
    BY <1>1, <1>2, <2>3, <2>4 DEF Authenticated, Active, Reading
  <2>6. AgentInv(a) /\ Control(a)
    BY DEF IInv, AgentInv
  <2>7. OpenSource(a)' \in Contents
    <3>1. t[a].reads \in Contents \cup {Live}
      BY Fields DEF Transfer
    <3> QED
      BY <1>2, <2>2, <2>3, <2>4, <3>1 DEF OpenSource
  <2>8. Control(a)'
    BY <1>1, <1>2, <2>2, <2>3, <2>4, <2>5, <2>6, <2>7 DEF Control
  <2>9. Faithful(a) => Faithful(a)'
    <3>1. Framed(<<>>, <<>>, t[a].want)
      BY <1>1, Quiet, FramedStart
    <3> QED
      BY <1>1, <1>2, <2>3, <2>4, <2>5, <3>1 DEF Faithful
  <2>10. AgentInv(a)'
    BY <1>1, <1>2, <2>3, <2>4, <2>5, <2>6, <2>8, <2>9 DEF AgentInv, Calm
  <2> QED
    BY <1>1, <1>2, <1>3, <2>1, <2>3, <2>10, Moves
<1> QED
  BY <1>4, <1>5

\* The sender encrypts another chunk of the file as it is by now.
LEMMA EncryptInv ==
  ASSUME IInv, NEW a \in Agent, Encrypt(a)
  PROVE  IInv'
<1> DEFINE read == NextChunk(a)
<1>1. Active(a) /\ t[a].pc = "encrypt" /\ Reading(a)
  BY DEF Encrypt, Active, Reading
<1>2. /\ UNCHANGED <<direction, source, known, target, part, trusted, left>>
      /\ UNCHANGED <<transfers, edits, pairings, faults>>
  BY DEF Encrypt, counters
<1>3. /\ target' \in Contents \cup {NoFile, Partial} /\ part' \in Contents \cup {NoFile, Partial}
      /\ left' \in BOOLEAN /\ faults' \in Nat /\ (faults' = 0 => faults = 0)
      /\ LeftoverOnlyAfterFault'
  BY <1>2 DEF IInv, TypeOK, LeftoverOnlyAfterFault
<1>4. /\ AgentInv(a) /\ Control(a) /\ OpenSource(a) \in Seq(0 .. 255)
      /\ t[a].plain \in Seq(0 .. 255) /\ t[a].lens \in Seq(0 .. ChunkSize)
  <2>1. t[a].plain \in Seq(0 .. 255) /\ t[a].lens \in Seq(0 .. ChunkSize)
    BY Fields
  <2>2. AgentInv(a) /\ Control(a)
    BY DEF IInv, AgentInv
  <2>3. OpenSource(a) \in Contents
    BY <1>1, <2>2 DEF Control
  <2> QED
    BY <2>1, <2>2, <2>3, ContentsAssumption
<1>5. read \in Seq(0 .. 255) /\ Len(read) \in 0 .. ChunkSize
  <2>1. Processed(a) \in Nat
    BY <1>4 DEF Processed
  <2> QED
    BY <1>4, <2>1, ReadTyped DEF NextChunk
<1>6. ASSUME Faithful(a)
      PROVE  /\ Framed(t[a].plain, t[a].lens, t[a].want) /\ t[a].listed = t[a].want
             /\ read = SubSeq(t[a].want, Len(t[a].plain) + 1,
                              IF Len(t[a].plain) + ChunkSize < Len(t[a].want)
                              THEN Len(t[a].plain) + ChunkSize ELSE Len(t[a].want))
             /\ t[a].want \in Seq(0 .. 255) /\ source = t[a].want /\ t[a].reads = Live
  BY <1>1, <1>6, Quiet DEF Faithful, NextChunk, OpenSource, Processed
<1> HIDE DEF read
<1>7. CASE read # <<>>
  <2> DEFINE plain == t[a].plain \o read
             lens == Append(t[a].lens, Len(read))
             r == SetPlainLens(t[a], plain, lens)
  <2>1. t' = [t EXCEPT ![a] = r]
    BY <1>7 DEF Encrypt, SetPlainLens, read
  <2>2. plain \in Seq(0 .. 255) /\ lens \in Seq(0 .. ChunkSize)
    BY <1>4, <1>5, Joined, AppendProperties
  <2> HIDE DEF plain, lens
  <2>3. /\ r \in Transfer /\ r.pc = "encrypt" /\ r.listed = t[a].listed
        /\ r.secret = t[a].secret /\ r.key = t[a].key /\ r.want = t[a].want
        /\ r.plain = plain /\ r.lens = lens
        /\ r.reads = t[a].reads /\ r.fd = t[a].fd /\ r.waits = t[a].waits
        /\ r.met = t[a].met /\ r.calm = t[a].calm /\ r.failed = t[a].failed
    <3>1. t[a] \in Transfer
      BY Fields
    <3> QED
      BY <1>1, <2>2, <3>1, SetPlainLensFields
  <2>4. t'[a] = r
    BY <2>1 DEF IInv, TypeOK
  <2> HIDE DEF r
  <2>5. (Authenticated(a)' <=> Authenticated(a)) /\ Active(a)' /\ Reading(a)'
    BY <1>1, <1>2, <2>3, <2>4 DEF Authenticated, Active, Reading
  <2>6. OpenSource(a)' = OpenSource(a)
    BY <1>2, <2>3, <2>4 DEF OpenSource
  <2>7. Control(a)'
    BY <1>1, <1>2, <1>4, <2>3, <2>4, <2>5, <2>6 DEF Control
  <2>8. Faithful(a) => Faithful(a)'
    <3> SUFFICES ASSUME Faithful(a) PROVE Faithful(a)'
      OBVIOUS
    <3>1. PICK want \in Seq(0 .. 255), before \in Seq(0 .. 255), sizes \in Seq(0 .. ChunkSize) :
            want = t[a].want /\ before = t[a].plain /\ sizes = t[a].lens
      BY <1>4, <1>6
    <3>2. /\ Framed(before, sizes, want)
          /\ read = SubSeq(want, Len(before) + 1,
                           IF Len(before) + ChunkSize < Len(want) THEN Len(before) + ChunkSize
                           ELSE Len(want))
      BY <1>6, <3>1
    <3>3. Framed(before \o read, Append(sizes, Len(read)), want)
      BY <1>7, <3>2, FramedNext
    <3>4. Framed(plain, lens, t[a].want)
      BY <3>1, <3>3 DEF plain, lens
    <3> QED
      BY <1>1, <1>2, <1>6, <2>3, <2>4, <2>5, <3>4 DEF Faithful
  <2>9. AgentInv(a)'
    BY <1>1, <1>2, <1>4, <2>3, <2>4, <2>5, <2>7, <2>8 DEF AgentInv, Calm
  <2>10. r.pc # "publish"
    BY <2>3
  <2> QED
    BY <1>1, <1>2, <1>3, <2>1, <2>3, <2>9, <2>10, Moves
<1>8. CASE read = <<>>
  <2> DEFINE empty == t[a].listed = <<>> /\ t[a].lens = <<>>
             lens == IF empty THEN <<0>> ELSE t[a].lens
             r == SetLensPc(t[a], lens, "sealed")
  <2>1. t' = [t EXCEPT ![a] = r]
    <3>1. CASE empty
      BY <1>8, <3>1 DEF Encrypt, SetLensPc, read
    <3>2. CASE ~empty
      <4>1. t' = [t EXCEPT ![a].pc = "sealed"]
        BY <1>8, <3>2 DEF Encrypt, GoesTo, read
      <4>2. r = [t[a] EXCEPT !.lens = t[a].lens, !.pc = "sealed"]
        BY <3>2 DEF SetLensPc
      <4>3. r = [t[a] EXCEPT !.pc = "sealed"]
        BY <4>2, Fields DEF Transfer
      <4> QED
        BY <4>1, <4>3
    <3> QED
      BY <3>1, <3>2
  <2>2. lens \in Seq(0 .. ChunkSize)
    <3>1. 0 \in 0 .. ChunkSize
      BY SizeAssumption
    <3>2. <<0>> \in Seq(0 .. ChunkSize)
      BY <3>1
    <3> QED
      BY <1>4, <3>2
  <2> HIDE DEF lens
  <2>3. /\ r \in Transfer /\ r.pc = "sealed" /\ r.listed = t[a].listed
        /\ r.secret = t[a].secret /\ r.key = t[a].key /\ r.want = t[a].want
        /\ r.plain = t[a].plain /\ r.lens = lens
        /\ r.reads = t[a].reads /\ r.fd = t[a].fd /\ r.waits = t[a].waits
        /\ r.met = t[a].met /\ r.calm = t[a].calm /\ r.failed = t[a].failed
    <3>1. t[a] \in Transfer /\ "sealed" \in Pc
      BY Fields DEF Pc
    <3> QED
      BY <2>2, <3>1, SetLensPcFields
  <2>4. t'[a] = r
    BY <2>1 DEF IInv, TypeOK
  <2> HIDE DEF r
  <2>5. (Authenticated(a)' <=> Authenticated(a)) /\ Active(a)' /\ ~Reading(a)'
    BY <1>1, <1>2, <2>3, <2>4 DEF Authenticated, Active, Reading
  <2>6. Control(a)'
    BY <1>1, <1>2, <1>4, <2>3, <2>4, <2>5 DEF Control
  <2>7. Faithful(a) => Faithful(a)'
    <3> SUFFICES ASSUME Faithful(a) PROVE Faithful(a)'
      OBVIOUS
    <3>1. /\ t[a].plain = t[a].want
          /\ t[a].want = <<>> => t[a].lens = <<>> /\ WellFramed(<<0>>, Len(t[a].want))
          /\ t[a].want # <<>> => WellFramed(t[a].lens, Len(t[a].want))
      <4>1. PICK want \in Seq(0 .. 255), plain \in Seq(0 .. 255), sizes \in Seq(0 .. ChunkSize) :
              want = t[a].want /\ plain = t[a].plain /\ sizes = t[a].lens
        BY <1>4, <1>6
      <4>2. /\ Framed(plain, sizes, want)
            /\ SubSeq(want, Len(plain) + 1,
                      IF Len(plain) + ChunkSize < Len(want) THEN Len(plain) + ChunkSize
                      ELSE Len(want)) = <<>>
        BY <1>6, <1>8, <4>1
      <4>3. /\ plain = want
            /\ want = <<>> => sizes = <<>> /\ WellFramed(<<0>>, Len(want))
            /\ want # <<>> => WellFramed(sizes, Len(want))
        BY <4>2, FramedEnd
      <4> QED
        BY <4>1, <4>3
    <3>2. WellFramed(lens, Len(t[a].want))
      BY <1>6, <3>1 DEF lens
    <3> QED
      BY <1>1, <1>2, <1>6, <2>3, <2>4, <2>5, <3>1, <3>2 DEF Faithful
  <2>8. AgentInv(a)'
    BY <1>1, <1>2, <1>4, <2>3, <2>4, <2>5, <2>6, <2>7 DEF AgentInv, Calm
  <2>9. r.pc # "publish"
    BY <2>3
  <2> QED
    BY <1>1, <1>2, <1>3, <2>1, <2>3, <2>8, <2>9, Moves
<1> QED
  BY <1>7, <1>8

\* The sender has read to the end of the file.
LEMMA SealInv ==
  ASSUME IInv, NEW a \in Agent, Seal(a)
  PROVE  IInv'
<1>1. Active(a) /\ t[a].pc = "sealed" /\ ~Reading(a)
  BY DEF Seal, Active, Reading
<1>2. /\ UNCHANGED <<direction, source, known, target, part, trusted>>
      /\ UNCHANGED <<transfers, edits, pairings, faults>>
  BY DEF Seal, counters
<1>3. /\ target' \in Contents \cup {NoFile, Partial} /\ part' \in Contents \cup {NoFile, Partial}
      /\ faults' \in Nat /\ (faults' = 0 => faults = 0)
  BY <1>2 DEF IInv, TypeOK
<1>4. AgentInv(a) /\ Control(a) /\ t[a] \in Transfer
  BY Fields DEF IInv, AgentInv
<1>5. Faithful(a) => t[a].plain = t[a].want /\ t[a].listed = t[a].want
  BY <1>1 DEF Faithful
<1>6. left' \in BOOLEAN /\ LeftoverOnlyAfterFault'
  <2>1. CASE Processed(a) # Len(t[a].listed)
    <3>1. edits # 0
      BY <1>1, <1>5, <2>1, Quiet DEF Processed
    <3>2. edits' + faults' > 0
      BY <1>2, <3>1 DEF IInv, TypeOK
    <3>3. left' \in BOOLEAN
      BY DEF Seal, IInv, TypeOK
    <3> QED
      BY <3>2, <3>3 DEF LeftoverOnlyAfterFault
  <2>2. CASE Processed(a) = Len(t[a].listed)
    <3>1. left' = left
      BY <2>2 DEF Seal, IInv, TypeOK
    <3> QED
      BY <1>2, <3>1 DEF LeftoverOnlyAfterFault, IInv, TypeOK
  <2> QED
    BY <2>1, <2>2
<1>7. CASE Failed(a)
  <2>1. CASE t[a].calm
    <3>1. ~(Processed(a) # Len(t[a].listed) \/ (direction = "PUT" /\ t[a].plain # t[a].want))
      BY <1>1, <1>5, <2>1, Quiet DEF Processed
    <3>2. t' = [t EXCEPT ![a].pc = "send", ![a].reads = Live]
      BY <3>1 DEF Seal
    <3>3. t'[a].pc = "send"
      BY <1>4, <3>2 DEF IInv, TypeOK, Transfer
    <3>4. t'[a].pc = "idle"
      BY <1>4, <1>7 DEF IInv, TypeOK, Failed, Nothing
    <3> QED
      BY <3>3, <3>4
  <2> QED
    BY <1>1, <1>2, <1>3, <1>6, <1>7, <2>1, Fails
<1>8. CASE t' = [t EXCEPT ![a].pc = "send", ![a].reads = Live]
  <2> DEFINE r == SetPcReads(t[a], "send", Live)
  <2>1. t' = [t EXCEPT ![a] = r]
    BY <1>8 DEF SetPcReads
  <2>2. /\ r \in Transfer /\ r.pc = "send" /\ r.listed = t[a].listed
        /\ r.secret = t[a].secret /\ r.key = t[a].key /\ r.want = t[a].want
        /\ r.plain = t[a].plain /\ r.lens = t[a].lens
        /\ r.reads = Live /\ r.fd = t[a].fd /\ r.waits = t[a].waits
        /\ r.met = t[a].met /\ r.calm = t[a].calm /\ r.failed = t[a].failed
    <3>1. "send" \in Pc /\ Live \in Contents \cup {Live}
      BY DEF Pc
    <3> QED
      BY <1>4, <3>1, SetPcReadsFields
  <2>3. t'[a] = r
    BY <2>1 DEF IInv, TypeOK
  <2> HIDE DEF r
  <2>4. (Authenticated(a)' <=> Authenticated(a)) /\ Active(a)' /\ ~Reading(a)'
    BY <1>1, <1>2, <2>2, <2>3 DEF Authenticated, Active, Reading
  <2>5. Control(a)'
    BY <1>1, <1>2, <1>4, <2>2, <2>3, <2>4 DEF Control
  <2>6. Faithful(a) => Faithful(a)'
    BY <1>1, <1>2, <2>2, <2>3, <2>4 DEF Faithful
  <2>7. AgentInv(a)'
    BY <1>1, <1>2, <1>4, <2>2, <2>3, <2>4, <2>5, <2>6 DEF AgentInv, Calm
  <2>8. r.pc # "publish"
    BY <2>2
  <2> QED
    BY <1>1, <1>2, <1>3, <1>6, <2>1, <2>2, <2>7, <2>8, Moves
<1> QED
  BY <1>7, <1>8 DEF Seal

\* A transfer that goes on without another change.
LEMMA GoesInv ==
  ASSUME IInv, NEW a \in Agent, Active(a), ~Reading(a), NEW pc \in Pc, GoesTo(a, pc),
         t[a].pc # "write", pc \in {"verify", "decrypt", "rename"},
         pc = "rename" => direction = "PUT" /\ t[a].pc = "publish",
         pc = "verify" => direction = "PUT" /\ ~Authenticated(a),
         pc # "verify" => Authenticated(a),
         UNCHANGED <<direction, source, known, target, part, trusted>>,
         UNCHANGED <<transfers, edits, pairings, faults>>,
         left' \in BOOLEAN, LeftoverOnlyAfterFault'
  PROVE  IInv'
<1> DEFINE r == SetPc(t[a], pc)
<1>1. AgentInv(a) /\ Control(a) /\ t[a] \in Transfer
  BY Fields DEF IInv, AgentInv
<1>2. /\ target' \in Contents \cup {NoFile, Partial} /\ part' \in Contents \cup {NoFile, Partial}
      /\ faults' \in Nat /\ (faults' = 0 => faults = 0)
  BY DEF IInv, TypeOK
<1>3. t' = [t EXCEPT ![a] = r]
  BY DEF GoesTo, SetPc
<1>4. /\ r \in Transfer /\ r.pc = pc /\ r.listed = t[a].listed
      /\ r.secret = t[a].secret /\ r.key = t[a].key /\ r.want = t[a].want
      /\ r.plain = t[a].plain /\ r.lens = t[a].lens
      /\ r.reads = t[a].reads /\ r.fd = t[a].fd /\ r.waits = t[a].waits
      /\ r.met = t[a].met /\ r.calm = t[a].calm /\ r.failed = t[a].failed
  BY <1>1, SetPcFields
<1>5. t'[a] = r
  BY <1>3 DEF IInv, TypeOK
<1> HIDE DEF r
<1>6. (Authenticated(a)' <=> Authenticated(a)) /\ Active(a)' /\ ~Reading(a)'
  BY <1>4, <1>5 DEF Authenticated, Active, Reading
<1>7. Control(a)'
  BY <1>1, <1>4, <1>5, <1>6 DEF Control
<1>8. Faithful(a) => Faithful(a)'
  BY <1>4, <1>5, <1>6 DEF Faithful
<1>9. AgentInv(a)'
  BY <1>1, <1>4, <1>5, <1>6, <1>7, <1>8 DEF AgentInv, Calm
<1>10. r.pc # "publish"
  BY <1>4
<1> QED
  BY <1>2, <1>3, <1>4, <1>9, <1>10, Moves

\* The answer to a GET is on its way.
LEMMA SendGetInv ==
  ASSUME IInv, NEW a \in Agent, SendGet(a)
  PROVE  IInv'
<1>1. Active(a) /\ t[a].pc = "send" /\ ~Reading(a) /\ direction = "GET"
  BY DEF SendGet, Active, Reading
<1>2. /\ UNCHANGED <<direction, source, known, target, part, trusted>>
      /\ UNCHANGED <<transfers, edits, pairings, faults>>
  BY DEF SendGet, counters
<1>3. /\ target' \in Contents \cup {NoFile, Partial} /\ part' \in Contents \cup {NoFile, Partial}
  BY <1>2 DEF IInv, TypeOK
<1> DEFINE length == encrypted_len(Processed(a))
           reads == t[a].waits /\ length = encrypted_len(Len(t[a].want))
<1>4. ASSUME Faithful(a)
      PROVE  length = encrypted_len(Len(t[a].want)) /\ length = WrittenLen(t[a].plain, t[a].lens)
  BY <1>1, <1>4 DEF Faithful, Processed, WellFramed, encrypted_len, WrittenLen
<1>5. left' \in BOOLEAN /\ LeftoverOnlyAfterFault'
  <2>1. left' = left \/ ((~reads \/ length # WrittenLen(t[a].plain, t[a].lens)) /\ left' = TRUE)
    BY DEF SendGet, LeftAfterSend
  <2>2. CASE left' = left
    BY <1>2, <2>2 DEF LeftoverOnlyAfterFault, IInv, TypeOK
  <2>3. CASE (~reads \/ length # WrittenLen(t[a].plain, t[a].lens)) /\ left' = TRUE
    <3>1. edits # 0 \/ faults # 0
      BY <1>1, <1>4, <2>3, Quiet
    <3>2. edits' + faults' > 0
      BY <1>2, <3>1 DEF IInv, TypeOK
    <3> QED
      BY <2>3, <3>2 DEF LeftoverOnlyAfterFault
  <2> QED
    BY <2>1, <2>2, <2>3
<1>6. CASE ~reads
  <2>1. Failed(a)
    BY <1>6 DEF SendGet
  <2>2. ~t[a].calm
    BY <1>1, <1>4, <1>6, Quiet
  <2> QED
    BY <1>1, <1>2, <1>3, <1>5, <2>1, <2>2, Fails
<1>7. CASE reads
  <2>1. GoesTo(a, "decrypt") /\ "decrypt" \in Pc
    BY <1>7 DEF SendGet, Pc
  <2>2. Authenticated(a)
    BY <1>1 DEF Authenticated
  <2> QED
    BY <1>1, <1>2, <1>5, <2>1, <2>2, GoesInv
<1> QED
  BY <1>6, <1>7

\* The body of a PUT is on its way.
LEMMA SendPutInv ==
  ASSUME IInv, NEW a \in Agent, SendPut(a)
  PROVE  IInv'
<1>1. Active(a) /\ t[a].pc = "send" /\ ~Reading(a) /\ direction = "PUT"
  BY DEF SendPut, Active, Reading
<1>2. /\ UNCHANGED <<direction, source, known, target, part, trusted>>
      /\ UNCHANGED <<transfers, edits, pairings, faults>>
  BY DEF SendPut, counters
<1>3. left' \in BOOLEAN /\ LeftoverOnlyAfterFault'
  BY <1>2 DEF SendPut, LeftAfterSend, LeftoverOnlyAfterFault, IInv, TypeOK
<1>4. GoesTo(a, "verify") /\ "verify" \in Pc
  BY DEF SendPut, Pc
<1>5. ~Authenticated(a)
  BY <1>1 DEF Authenticated
<1> QED
  BY <1>1, <1>2, <1>3, <1>4, <1>5, GoesInv

\* verify_peer_request takes the secret that peers.json has at this moment.
LEMMA VerifyInv ==
  ASSUME IInv, NEW a \in Agent, Verify(a)
  PROVE  IInv'
<1>1. Active(a) /\ t[a].pc = "verify"
  BY DEF Verify, Active, Reading
<1>2. /\ UNCHANGED <<direction, source, known, target, part, left, trusted>>
      /\ UNCHANGED <<transfers, edits, pairings, faults>>
  BY DEF Verify, counters
<1>3. /\ target' \in Contents \cup {NoFile, Partial} /\ part' \in Contents \cup {NoFile, Partial}
      /\ left' \in BOOLEAN /\ faults' \in Nat /\ (faults' = 0 => faults = 0)
      /\ LeftoverOnlyAfterFault'
  BY <1>2 DEF IInv, TypeOK, LeftoverOnlyAfterFault
<1>4. AgentInv(a) /\ Control(a) /\ t[a] \in Transfer
  BY Fields DEF IInv, AgentInv
<1>5. CASE t[a].secret = trusted /\ BodyMatches(a)
  <2> DEFINE pc == IF direction = "GET" THEN "look up" ELSE "decrypt"
             r == SetKeyPc(t[a], trusted, pc)
  <2>1. t' = [t EXCEPT ![a] = r]
    BY <1>5 DEF Verify, SetKeyPc
  <2>2. trusted \in Secret \cup {NoFile} /\ pc \in Pc /\ trusted # NoFile
    BY NoFileAssumption DEF Pc, IInv, TypeOK
  <2> HIDE DEF pc
  <2>3. /\ r \in Transfer /\ r.pc = pc /\ r.listed = t[a].listed
        /\ r.secret = t[a].secret /\ r.key = trusted /\ r.want = t[a].want
        /\ r.plain = t[a].plain /\ r.lens = t[a].lens
        /\ r.reads = t[a].reads /\ r.fd = t[a].fd /\ r.waits = t[a].waits
        /\ r.met = t[a].met /\ r.calm = t[a].calm /\ r.failed = t[a].failed
    BY <1>4, <2>2, SetKeyPcFields
  <2>4. t'[a] = r
    BY <2>1 DEF IInv, TypeOK
  <2> HIDE DEF r
  <2>5. direction \in {"GET", "PUT"}
    BY DEF IInv, TypeOK
  <2>6. Authenticated(a)' /\ Active(a)' /\ (Reading(a)' <=> Reading(a))
    BY <1>1, <1>2, <2>3, <2>4, <2>5 DEF Authenticated, Active, Reading, pc
  <2>7. Control(a)'
    BY <1>1, <1>2, <1>4, <1>5, <2>3, <2>4, <2>6 DEF Control, pc
  <2>8. Faithful(a) => Faithful(a)'
    BY <1>1, <1>2, <2>3, <2>4, <2>6 DEF Faithful, pc
  <2>9. AgentInv(a)'
    BY <1>1, <1>2, <1>4, <2>2, <2>3, <2>4, <2>6, <2>7, <2>8 DEF AgentInv, Calm
  <2>10. r.pc # "publish"
    BY <2>3 DEF pc
  <2> QED
    BY <1>1, <1>2, <1>3, <2>1, <2>3, <2>9, <2>10, Moves
<1>6. CASE ~(t[a].secret = trusted /\ BodyMatches(a))
  <2>1. Failed(a)
    BY <1>6 DEF Verify
  <2>2. t[a].key = NoFile
    BY <1>1, <1>4 DEF Control, Authenticated
  <2>3. ASSUME Faithful(a)
        PROVE  BodyMatches(a)
    <3> SUFFICES ASSUME direction = "PUT"
                 PROVE  WrittenLen(t[a].plain, t[a].lens) = encrypted_len(Processed(a))
      BY DEF BodyMatches
    <3>1. ~Reading(a)
      BY <1>1 DEF Reading
    <3> QED
      BY <2>3, <3>1 DEF Faithful, Processed, WellFramed, encrypted_len, WrittenLen
  <2>4. ~t[a].calm
    BY <1>1, <1>6, <2>2, <2>3, Quiet
  <2> QED
    BY <1>1, <1>2, <1>3, <2>1, <2>4, Fails
<1> QED
  BY <1>5, <1>6

\* The receiver creates the file that it is going to write.
LEMMA CreateOutputInv ==
  ASSUME IInv, NEW a \in Agent, CreateOutput(a)
  PROVE  IInv'
<1>1. Active(a) /\ t[a].pc = "decrypt" /\ ~Reading(a)
  BY DEF CreateOutput, Active, Reading
<1>2. /\ UNCHANGED <<direction, source, known, target, left, trusted>>
      /\ UNCHANGED <<transfers, edits, pairings, faults>>
  BY DEF CreateOutput, counters
<1>3. /\ target' \in Contents \cup {NoFile, Partial} /\ part' \in Contents \cup {NoFile, Partial}
      /\ left' \in BOOLEAN /\ faults' \in Nat /\ (faults' = 0 => faults = 0)
      /\ LeftoverOnlyAfterFault'
  BY <1>2 DEF IInv, TypeOK, LeftoverOnlyAfterFault, CreateOutput
<1>4. AgentInv(a) /\ Control(a) /\ t[a] \in Transfer
  BY Fields DEF IInv, AgentInv
<1> DEFINE fd == IF direction = "GET" THEN "part" ELSE "own"
           r == SetPcFd(t[a], "write", fd)
<1>5. t' = [t EXCEPT ![a] = r]
  BY DEF CreateOutput, SetPcFd
<1>6. "write" \in Pc /\ fd \in Fd
  BY DEF Pc, Fd
<1> HIDE DEF fd
<1>7. /\ r \in Transfer /\ r.pc = "write" /\ r.listed = t[a].listed
      /\ r.secret = t[a].secret /\ r.key = t[a].key /\ r.want = t[a].want
      /\ r.plain = t[a].plain /\ r.lens = t[a].lens
      /\ r.reads = t[a].reads /\ r.fd = fd /\ r.waits = t[a].waits
      /\ r.met = t[a].met /\ r.calm = t[a].calm /\ r.failed = t[a].failed
  BY <1>4, <1>6, SetPcFdFields
<1>8. t'[a] = r
  BY <1>5 DEF IInv, TypeOK
<1> HIDE DEF r
<1>9. (Authenticated(a)' <=> Authenticated(a)) /\ Active(a)' /\ ~Reading(a)'
  BY <1>1, <1>2, <1>7, <1>8 DEF Authenticated, Active, Reading
<1>10. Control(a)'
  <2>1. direction \in {"GET", "PUT"}
    BY DEF IInv, TypeOK
  <2> QED
    BY <1>1, <1>2, <1>4, <1>7, <1>8, <1>9, <2>1 DEF Control, fd
<1>11. Faithful(a) => Faithful(a)'
  BY <1>1, <1>2, <1>7, <1>8, <1>9 DEF Faithful
<1>12. AgentInv(a)'
  BY <1>1, <1>2, <1>4, <1>7, <1>8, <1>9, <1>10, <1>11 DEF AgentInv, Calm
<1>13. r.pc # "publish"
  BY <1>7
<1> QED
  BY <1>1, <1>2, <1>3, <1>5, <1>7, <1>12, <1>13, Moves

\* The output of decrypt_file_to_path goes to the file that was created.
LEMMA WriteOutputInv ==
  ASSUME IInv, NEW a \in Agent, WriteOutput(a)
  PROVE  IInv'
<1>1. Active(a) /\ t[a].pc = "write" /\ ~Reading(a)
  BY DEF WriteOutput, Active, Reading
<1>2. /\ UNCHANGED <<direction, source, known, left, trusted>>
      /\ UNCHANGED <<transfers, edits, pairings, faults>>
  BY DEF WriteOutput, counters
<1>3. /\ left' \in BOOLEAN /\ faults' \in Nat /\ (faults' = 0 => faults = 0)
      /\ LeftoverOnlyAfterFault'
  BY <1>2 DEF IInv, TypeOK, LeftoverOnlyAfterFault
<1>4. AgentInv(a) /\ Control(a) /\ t[a] \in Transfer
  BY Fields DEF IInv, AgentInv
<1>5. Authenticated(a) /\ t[a].key = t[a].secret
  BY <1>1, <1>4 DEF Control, Authenticated
<1>6. target' \in Contents \cup {NoFile, Partial} /\ part' \in Contents \cup {NoFile, Partial}
  <2>1. Verified(a) => t[a].plain \in Contents
    BY <1>1, Quiet DEF Verified
  <2>2. target \in Contents \cup {NoFile, Partial} /\ part \in Contents \cup {NoFile, Partial}
    BY DEF IInv, TypeOK
  <2> QED
    BY <2>1, <2>2 DEF WriteOutput
<1>7. CASE ~Verified(a)
  <2>1. Failed(a)
    BY <1>7 DEF WriteOutput
  <2>2. ~t[a].calm
    BY <1>1, <1>5, <1>7, Quiet DEF Faithful, Verified
  <2> QED
    BY <1>1, <1>2, <1>3, <1>6, <2>1, <2>2, Fails
<1>8. CASE Verified(a)
  <2> DEFINE r == SetPcFd(t[a], "publish", "closed")
  <2>1. t' = [t EXCEPT ![a] = r]
    BY <1>8 DEF WriteOutput, SetPcFd
  <2>2. /\ r \in Transfer /\ r.pc = "publish" /\ r.listed = t[a].listed
        /\ r.secret = t[a].secret /\ r.key = t[a].key /\ r.want = t[a].want
        /\ r.plain = t[a].plain /\ r.lens = t[a].lens
        /\ r.reads = t[a].reads /\ r.fd = "closed" /\ r.waits = t[a].waits
        /\ r.met = t[a].met /\ r.calm = t[a].calm /\ r.failed = t[a].failed
    <3>1. "publish" \in Pc /\ "closed" \in Fd
      BY DEF Pc, Fd
    <3> QED
      BY <1>4, <3>1, SetPcFdFields
  <2>3. t'[a] = r
    BY <2>1 DEF IInv, TypeOK
  <2> HIDE DEF r
  <2>4. (Authenticated(a)' <=> Authenticated(a)) /\ Active(a)' /\ ~Reading(a)'
    BY <1>1, <1>2, <2>2, <2>3 DEF Authenticated, Active, Reading
  <2>5. Control(a)'
    <3>1. t[a].plain = t[a].want
      BY <1>8 DEF Verified
    <3> QED
      BY <1>1, <1>2, <1>4, <2>2, <2>3, <2>4, <3>1 DEF Control
  <2>6. Faithful(a) => Faithful(a)'
    BY <1>1, <1>2, <2>2, <2>3, <2>4 DEF Faithful
  <2>7. t[a].fd \in Fd /\ t[a].fd # "closed"
    BY <1>1, <1>4, Fields DEF Control
  <2>8. ~t[a].met => target' = target
    BY <1>4 DEF WriteOutput, Control
  <2>9. direction = "GET" /\ ~t[a].met => part' = t[a].want
    <3> SUFFICES ASSUME direction = "GET", ~t[a].met PROVE part' = t[a].want
      OBVIOUS
    <3>1. t[a].fd = "part"
      BY <1>4, <2>7 DEF Control, Fd
    <3> QED
      BY <1>8, <3>1 DEF WriteOutput, Verified
  <2>10. AgentInv(a)'
    BY <1>1, <1>2, <1>4, <2>2, <2>3, <2>4, <2>5, <2>6, <2>8 DEF AgentInv, Calm
  <2> QED
    BY <1>1, <1>2, <1>3, <1>6, <2>1, <2>2, <2>9, <2>10, Moves
<1> QED
  BY <1>7, <1>8

\* The server looks whether the target of a PUT exists.
LEMMA CheckPutInv ==
  ASSUME IInv, NEW a \in Agent, CheckPut(a)
  PROVE  IInv'
<1>1. Active(a) /\ t[a].pc = "publish" /\ ~Reading(a) /\ direction = "PUT"
  BY DEF CheckPut, Active, Reading
<1>2. /\ UNCHANGED <<direction, source, known, target, part, left, trusted>>
      /\ UNCHANGED <<transfers, edits, pairings, faults>>
  BY DEF CheckPut, counters
<1>3. /\ target' \in Contents \cup {NoFile, Partial} /\ part' \in Contents \cup {NoFile, Partial}
      /\ left' \in BOOLEAN /\ faults' \in Nat /\ (faults' = 0 => faults = 0)
      /\ LeftoverOnlyAfterFault'
  BY <1>2 DEF IInv, TypeOK, LeftoverOnlyAfterFault
<1>4. CASE target # NoFile
  <2>1. Failed(a)
    BY <1>4 DEF CheckPut
  <2>2. ~t[a].calm
    BY <1>1, <1>4, Quiet
  <2> QED
    BY <1>1, <1>2, <1>3, <2>1, <2>2, Fails
<1>5. CASE target = NoFile
  <2>1. GoesTo(a, "rename") /\ "rename" \in Pc
    BY <1>5 DEF CheckPut, Pc
  <2>2. Authenticated(a)
    BY <1>1 DEF Authenticated
  <2> QED
    BY <1>1, <1>2, <1>3, <2>1, <2>2, GoesInv
<1> QED
  BY <1>4, <1>5

\* A transfer that is over, or that has not begun.
LEMMA NothingFields ==
  /\ Nothing \in Transfer /\ Nothing.pc = "idle" /\ Nothing.fd = "closed" /\ Nothing.key = NoFile
  /\ ~Nothing.failed /\ ~Nothing.met
<1>1. Nothing \in Transfer
  BY SizeAssumption DEF Nothing, Transfer, Pc, Fd
<1> QED
  BY <1>1 DEF Nothing

\* A transfer that has ended relies on nothing.
LEMMA IdleInv ==
  ASSUME NEW a \in Agent, t[a].pc = "idle", t[a].fd = "closed", t[a].key = NoFile,
         t[a].failed => ~t[a].calm
  PROVE  AgentInv(a)
<1>1. ~Active(a) /\ ~Authenticated(a)
  BY DEF Active, Authenticated
<1>2. Control(a)
  BY <1>1 DEF Control
<1> QED
  BY <1>1, <1>2 DEF AgentInv

\* The rename that publishes an upload.
LEMMA PublishPutInv ==
  ASSUME IInv, NEW a \in Agent, PublishPut(a)
  PROVE  IInv'
<1>1. Active(a) /\ t[a].pc = "rename" /\ ~Reading(a)
  BY DEF PublishPut, Active, Reading
<1>2. /\ UNCHANGED <<direction, source, known, part, left, trusted>>
      /\ UNCHANGED <<transfers, edits, pairings, faults>>
  BY DEF PublishPut, counters
<1>3. /\ target' \in Contents \cup {NoFile, Partial} /\ part' \in Contents \cup {NoFile, Partial}
      /\ left' \in BOOLEAN /\ faults' \in Nat /\ (faults' = 0 => faults = 0)
      /\ LeftoverOnlyAfterFault'
  <2>1. AgentInv(a) /\ Control(a)
    BY DEF IInv, AgentInv
  <2>2. t[a].plain = t[a].want /\ target' = t[a].plain
    BY <1>1, <2>1 DEF Control, PublishPut
  <2>3. t[a].want \in Contents
    BY <1>1, Quiet
  <2> QED
    BY <1>2, <2>2, <2>3 DEF IInv, TypeOK, LeftoverOnlyAfterFault
<1>4. t' = [t EXCEPT ![a] = Nothing]
  BY DEF PublishPut, Ends
<1>5. t'[a] = Nothing
  BY <1>4 DEF IInv, TypeOK
<1>6. AgentInv(a)'
  <2>1. t'[a].pc = "idle" /\ t'[a].fd = "closed" /\ t'[a].key = NoFile /\ ~t'[a].failed
    BY <1>5, NothingFields
  <2>2. ~Active(a)' /\ ~Authenticated(a)'
    BY <2>1 DEF Active, Authenticated
  <2>3. Control(a)'
    BY <2>1, <2>2 DEF Control
  <2> QED
    BY <2>1, <2>2, <2>3 DEF AgentInv
<1>7. Nothing.pc = "idle"
  BY NothingFields
<1> QED
  BY <1>1, <1>2, <1>3, <1>4, <1>6, <1>7, NothingFields, Moves

\* The rename that publishes a download.
LEMMA PublishGetInv ==
  ASSUME IInv, NEW a \in Agent, PublishGet(a)
  PROVE  IInv'
<1>1. Active(a) /\ t[a].pc = "publish" /\ ~Reading(a) /\ direction = "GET"
  BY DEF PublishGet, Active, Reading
<1>2. /\ UNCHANGED <<direction, source, known, left, trusted>>
      /\ UNCHANGED <<transfers, edits, pairings, faults>>
  BY DEF PublishGet, counters
<1>3. /\ left' \in BOOLEAN /\ faults' \in Nat /\ (faults' = 0 => faults = 0)
      /\ LeftoverOnlyAfterFault'
  BY <1>2 DEF IInv, TypeOK, LeftoverOnlyAfterFault
<1>4. CASE part = NoFile
  <2>1. Failed(a) /\ UNCHANGED <<target, part>>
    BY <1>4 DEF PublishGet
  <2>2. target' \in Contents \cup {NoFile, Partial} /\ part' \in Contents \cup {NoFile, Partial}
    BY <2>1 DEF IInv, TypeOK
  <2>3. ~t[a].met => part = t[a].want
    BY <1>1 DEF IInv, Meetings
  <2>4. ~t[a].calm
    BY <1>1, <1>4, <2>3, Quiet
  <2> QED
    BY <1>1, <1>2, <1>3, <2>1, <2>2, <2>4, Fails
<1>5. CASE part # NoFile
  <2>1. target' = part /\ part' = NoFile
    BY <1>5 DEF PublishGet
  <2>2. t' = [b \in Agent |->
               IF b = a THEN Nothing
               ELSE IF t[b].fd = "part" THEN SetFd(t[b], "target")
               ELSE IF t[b].fd = "target" THEN SetFd(t[b], "unlinked")
               ELSE t[b]]
    BY <1>5 DEF PublishGet, SetFd
  <2>3. t'[a] = Nothing
    BY <2>2
  <2>4. ASSUME NEW b \in Agent, b # a
        PROVE  /\ t'[b] \in Transfer /\ t'[b].pc = t[b].pc /\ t'[b].listed = t[b].listed
               /\ t'[b].secret = t[b].secret /\ t'[b].key = t[b].key /\ t'[b].want = t[b].want
               /\ t'[b].plain = t[b].plain /\ t'[b].lens = t[b].lens /\ t'[b].reads = t[b].reads
               /\ t'[b].waits = t[b].waits /\ t'[b].met = t[b].met /\ t'[b].calm = t[b].calm
               /\ t'[b].failed = t[b].failed
               /\ \/ t'[b].fd = t[b].fd
                  \/ t[b].fd \in {"part", "target"} /\ t'[b].fd \in {"target", "unlinked"}
    <3>1. t[b] \in Transfer /\ "target" \in Fd /\ "unlinked" \in Fd
      BY Fields DEF Fd
    <3>2. CASE t[b].fd = "part"
      <4>1. t'[b] = SetFd(t[b], "target")
        BY <2>2, <2>4, <3>2
      <4> QED
        BY <3>1, <3>2, <4>1, SetFdFields
    <3>3. CASE t[b].fd = "target"
      <4>1. t'[b] = SetFd(t[b], "unlinked")
        BY <2>2, <2>4, <3>3
      <4> QED
        BY <3>1, <3>3, <4>1, SetFdFields
    <3>4. CASE t[b].fd \notin {"part", "target"}
      <4>1. t'[b] = t[b]
        BY <2>2, <2>4, <3>4
      <4> QED
        BY <3>1, <4>1
    <3> QED
      BY <3>2, <3>3, <3>4
  <2>5. \A b \in Agent : t'[b] \in Transfer
    BY <2>3, <2>4, NothingFields
  <2>6. t' \in [Agent -> Transfer]
    <3>1. t' = [b \in Agent |-> t'[b]]
      BY <2>2
    <3> QED
      BY <2>5, <3>1
  <2>7. TypeOK'
    BY <1>2, <1>3, <2>1, <2>6 DEF IInv, TypeOK
  <2>8. ~Active(a)' /\ AgentInv(a)'
    <3>1. t'[a].pc = "idle" /\ t'[a].fd = "closed" /\ t'[a].key = NoFile /\ ~t'[a].failed
      BY <2>3, NothingFields
    <3>2. ~Active(a)' /\ ~Authenticated(a)'
      BY <3>1 DEF Active, Authenticated
    <3>3. Control(a)'
      BY <3>1, <3>2 DEF Control
    <3> QED
      BY <3>1, <3>2, <3>3 DEF AgentInv
  <2>9. ASSUME NEW b \in Agent, b # a
        PROVE  AgentInv(b)'
    <3>1. AgentInv(b) /\ Control(b) /\ (Active(b) => t[b].met /\ ~t[b].calm)
      BY <1>1, <2>9 DEF IInv, Meetings, AgentInv, Calm
    <3>2. (Active(b)' <=> Active(b)) /\ (Authenticated(b)' <=> Authenticated(b))
      BY <1>2, <2>4, <2>9 DEF Active, Authenticated
    <3>3. OpenSource(b)' = OpenSource(b)
      BY <1>2, <2>4, <2>9 DEF OpenSource
    <3>4. Control(b)'
      <4>1. t[b].fd # "closed" => Active(b)
        BY <3>1 DEF Control, Active
      <4> QED
        BY <1>1, <1>2, <2>4, <2>9, <3>1, <3>2, <3>3, <4>1 DEF Control
    <3>5. Faithful(b) => Faithful(b)'
      BY <1>2, <2>4, <2>9 DEF Faithful, Reading
    <3> QED
      BY <1>2, <2>4, <2>9, <3>1, <3>2, <3>4, <3>5 DEF AgentInv
  <2>10. Meetings'
    <3>1. \A b \in Agent \ {a} : Active(b)' => t'[b].met
      BY <1>1, <2>4 DEF IInv, Meetings, Active
    <3>2. \A b \in Agent : t'[b].pc = "publish" => Active(b)'
      BY DEF Active
    <3> QED
      BY <2>8, <3>1, <3>2 DEF Meetings
  <2>11. (edits = 0 => source = known)'
    BY <1>2 DEF IInv
  <2> QED
    BY <1>3, <2>7, <2>8, <2>9, <2>10, <2>11 DEF IInv
<1> QED
  BY <1>4, <1>5

-----------------------------------------------------------------------------
(* The start of a transfer, the user, pairing and faults *)

Begins(pc, secret, content, waits, met, calm) ==
  [Nothing EXCEPT !.pc = pc, !.secret = secret, !.want = content, !.listed = content,
                  !.waits = waits, !.met = met, !.calm = calm]

\* A transfer that begins has its type.
LEMMA BeginsTyped ==
  ASSUME NEW pc \in Pc, NEW secret \in Secret, NEW content \in Contents, NEW waits \in BOOLEAN,
         NEW met \in BOOLEAN, NEW calm \in BOOLEAN
  PROVE  Begins(pc, secret, content, waits, met, calm) \in Transfer
<1> DEFINE o1 == [Nothing EXCEPT !.pc = pc, !.secret = secret]
           o2 == [o1 EXCEPT !.want = content, !.listed = content]
           o3 == [o2 EXCEPT !.waits = waits, !.met = met]
           o4 == [o3 EXCEPT !.calm = calm]
<1>1. Nothing \in Transfer
  BY NothingFields
<1>2. o1 \in Transfer
  BY <1>1 DEF Transfer
<1> HIDE DEF o1
<1>3. o2 \in Transfer
  BY <1>2 DEF Transfer
<1> HIDE DEF o2
<1>4. o3 \in Transfer
  BY <1>3 DEF Transfer
<1> HIDE DEF o3
<1>5. o4 \in Transfer
  BY <1>4 DEF Transfer
<1> HIDE DEF o4
<1>6. Begins(pc, secret, content, waits, met, calm) = o4
  BY DEF o1, o2, o3, o4, Begins
<1> QED
  BY <1>5, <1>6

\* A transfer begins with the key and the listing of this moment.
LEMMA StartInv ==
  ASSUME IInv, NEW a \in Agent, Start(a)
  PROVE  IInv'
<1> DEFINE others == {b \in Agent \ {a} : Active(b)}
           quiet == source = known /\ target = NoFile /\ others = {}
           busy == others # {}
           pc == IF direction = "GET" THEN "verify" ELSE "open"
           n == [Nothing EXCEPT !.pc = pc, !.secret = trusted, !.want = known, !.listed = known,
                   !.waits = TRUE, !.met = busy, !.calm = quiet]
<1>1. /\ UNCHANGED <<direction, source, known, target, part, trusted, left, edits, pairings, faults>>
      /\ transfers' = transfers + 1
  BY DEF Start
<1>2. t' = [b \in Agent |-> IF b = a THEN n
                            ELSE IF b \in others THEN SetMetCalm(t[b], TRUE, FALSE)
                            ELSE t[b]]
  BY DEF Start, SetMetCalm
<1>3. pc \in Pc /\ busy \in BOOLEAN /\ quiet \in BOOLEAN
  BY DEF Pc
<1>4. /\ direction \in {"GET", "PUT"} /\ trusted \in Secret /\ known \in Contents
      /\ source \in Contents \cup {NoFile}
  BY DEF IInv, TypeOK
<1>5. n \in Transfer
  <2> DEFINE yes == TRUE
  <2>1. n = Begins(pc, trusted, known, yes, busy, quiet)
    BY DEF Begins
  <2>2. yes \in BOOLEAN
    OBVIOUS
  <2> HIDE DEF pc, busy, quiet, n, yes
  <2> QED
    BY <1>3, <1>4, <2>1, <2>2, BeginsTyped
<1>6. /\ n.pc = pc /\ n.secret = trusted /\ n.want = known /\ n.listed = known
      /\ n.plain = <<>> /\ n.lens = <<>> /\ n.reads = Live /\ n.fd = "closed" /\ n.key = NoFile
      /\ n.waits = TRUE /\ n.met = busy /\ n.calm = quiet /\ n.failed = FALSE
  <2> HIDE DEF pc, busy, quiet
  <2> QED
    BY DEF Nothing
<1>7. t'[a] = n
  BY <1>2
<1> HIDE DEF n
<1>8. ASSUME NEW b \in Agent, b # a
      PROVE  /\ t'[b] \in Transfer /\ t'[b].pc = t[b].pc /\ t'[b].listed = t[b].listed
             /\ t'[b].secret = t[b].secret /\ t'[b].key = t[b].key /\ t'[b].want = t[b].want
             /\ t'[b].plain = t[b].plain /\ t'[b].lens = t[b].lens /\ t'[b].reads = t[b].reads
             /\ t'[b].fd = t[b].fd /\ t'[b].waits = t[b].waits /\ t'[b].failed = t[b].failed
             /\ IF Active(b) THEN t'[b].met /\ ~t'[b].calm
                ELSE t'[b].met = t[b].met /\ t'[b].calm = t[b].calm
  <2>1. t[b] \in Transfer
    BY Fields
  <2>2. CASE Active(b)
    <3> DEFINE yes == TRUE
               no == FALSE
    <3>1. t'[b] = SetMetCalm(t[b], yes, no)
      BY <1>2, <1>8, <2>2
    <3>2. yes \in BOOLEAN /\ no \in BOOLEAN
      OBVIOUS
    <3> HIDE DEF yes, no
    <3>3. /\ t'[b] \in Transfer /\ t'[b].pc = t[b].pc /\ t'[b].listed = t[b].listed
          /\ t'[b].secret = t[b].secret /\ t'[b].key = t[b].key /\ t'[b].want = t[b].want
          /\ t'[b].plain = t[b].plain /\ t'[b].lens = t[b].lens /\ t'[b].reads = t[b].reads
          /\ t'[b].fd = t[b].fd /\ t'[b].waits = t[b].waits /\ t'[b].failed = t[b].failed
          /\ t'[b].met = yes /\ t'[b].calm = no
      BY <2>1, <3>1, <3>2, SetMetCalmFields
    <3> QED
      BY <2>2, <3>3 DEF yes, no
  <2>3. CASE ~Active(b)
    <3>1. t'[b] = t[b]
      BY <1>2, <1>8, <2>3
    <3> QED
      BY <2>1, <2>3, <3>1
  <2> QED
    BY <2>2, <2>3
<1>9. TypeOK'
  <2>1. \A b \in Agent : t'[b] \in Transfer
    BY <1>5, <1>7, <1>8
  <2>2. t' = [b \in Agent |-> t'[b]]
    BY <1>2
  <2>3. t' \in [Agent -> Transfer]
    BY <2>1, <2>2
  <2> QED
    BY <1>1, <2>3 DEF IInv, TypeOK
<1>10. \A b \in Agent \ {a} : Active(b)' <=> Active(b)
  BY <1>8 DEF Active
<1>11. Meetings'
  <2>1. ASSUME NEW x \in Agent, NEW y \in Agent, x # y, Active(x)', Active(y)'
        PROVE  t'[x].met
    <3>1. CASE x = a
      <4>1. y \in others
        BY <1>10, <2>1, <3>1
      <4> QED
        BY <1>6, <1>7, <3>1, <4>1
    <3>2. CASE x # a
      BY <1>8, <1>10, <2>1, <3>2
    <3> QED
      BY <3>1, <3>2
  <2>2. ASSUME NEW b \in Agent, t'[b].pc = "publish", ~t'[b].met
        PROVE  FALSE
    <3>1. b # a
      BY <1>6, <1>7, <2>2
    <3> QED
      BY <1>8, <2>2, <3>1 DEF Active
  <2> QED
    BY <2>1, <2>2 DEF Meetings
<1>12. AgentInv(a)'
  <2>1. Active(a)' /\ ~Authenticated(a)' /\ Reading(a)'
    BY <1>1, <1>4, <1>6, <1>7 DEF Active, Authenticated, Reading
  <2>2. Control(a)'
    BY <1>1, <1>4, <1>6, <1>7, <2>1 DEF Control
  <2>3. quiet \/ edits = 0 => Faithful(a)'
    <3>1. quiet \/ edits = 0 => source = known
      BY DEF IInv
    <3> QED
      BY <1>1, <1>6, <1>7, <2>1, <3>1 DEF Faithful
  <2>4. quiet => Calm(a)'
    BY <1>1, <1>6, <1>7 DEF Calm
  <2>5. t'[a].calm = quiet /\ t'[a].waits /\ ~t'[a].failed
    BY <1>6, <1>7
  <2> HIDE DEF quiet
  <2> QED
    BY <1>1, <2>1, <2>2, <2>3, <2>4, <2>5 DEF AgentInv
<1>13. ASSUME NEW b \in Agent, b # a
       PROVE  AgentInv(b)'
  <2>1. AgentInv(b) /\ Control(b)
    BY DEF IInv, AgentInv
  <2>2. (Active(b)' <=> Active(b)) /\ (Authenticated(b)' <=> Authenticated(b))
    BY <1>1, <1>8, <1>10, <1>13 DEF Authenticated
  <2>3. OpenSource(b)' = OpenSource(b)
    BY <1>1, <1>8, <1>13 DEF OpenSource
  <2>4. t[b].fd # "closed" => Active(b)
    BY <2>1 DEF Control, Active
  <2>5. Control(b)'
    BY <1>1, <1>8, <1>13, <2>1, <2>2, <2>3, <2>4 DEF Control
  <2>6. Faithful(b) => Faithful(b)'
    BY <1>1, <1>8, <1>13 DEF Faithful, Reading
  <2> QED
    BY <1>1, <1>8, <1>13, <2>1, <2>2, <2>5, <2>6 DEF AgentInv
<1>14. (edits = 0 => source = known)' /\ LeftoverOnlyAfterFault'
  BY <1>1 DEF IInv, LeftoverOnlyAfterFault
<1> QED
  BY <1>9, <1>11, <1>12, <1>13, <1>14 DEF IInv

\* What a transfer's part of the invariant speaks of.
LEMMA Untouched ==
  ASSUME NEW a \in Agent, AgentInv(a),
         UNCHANGED <<direction, source, target, trusted, t, edits, faults>>
  PROVE  AgentInv(a)'
<1>1. (Active(a)' <=> Active(a)) /\ (Authenticated(a)' <=> Authenticated(a))
      /\ OpenSource(a)' = OpenSource(a)
  BY DEF Active, Authenticated, OpenSource
<1>2. (Control(a)' <=> Control(a)) /\ (Calm(a)' <=> Calm(a)) /\ (Faithful(a)' <=> Faithful(a))
  BY <1>1 DEF Control, Calm, Faithful, Reading
<1> QED
  BY <1>1, <1>2 DEF AgentInv

\* A new listing of the files.
LEMMA PlanInv ==
  ASSUME IInv, Plan
  PROVE  IInv'
<1>1. /\ UNCHANGED <<direction, source, target, part, trusted, t, left>>
      /\ UNCHANGED <<transfers, edits, pairings, faults>>
      /\ known' = source /\ source # NoFile
  BY DEF Plan, counters
<1>2. TypeOK'
  BY <1>1 DEF IInv, TypeOK
<1>3. Meetings' /\ LeftoverOnlyAfterFault'
  BY <1>1 DEF IInv, Meetings, Active, LeftoverOnlyAfterFault
<1>4. \A a \in Agent : AgentInv(a)'
  BY <1>1, Untouched DEF IInv
<1> QED
  BY <1>1, <1>2, <1>3, <1>4 DEF IInv

\* The user changes a file that transfers may be reading.
LEMMA EditInv ==
  ASSUME IInv, Edit
  PROVE  IInv'
<1>1. /\ UNCHANGED <<direction, known, target, part, trusted, left, transfers, pairings, faults>>
      /\ edits' = edits + 1
  BY DEF Edit
<1>2. edits' \in Nat /\ edits' # 0 /\ edits' + faults' > 0
  BY <1>1 DEF IInv, TypeOK
<1> DEFINE reads(a, inPlace) ==
             IF t[a].pc = "encrypt" /\ t[a].reads = Live /\ ~inPlace THEN source ELSE t[a].reads
           calm(a) == t[a].calm /\ ~(t[a].pc \in {"look up", "open", "encrypt"}
                                     \/ (t[a].pc = "verify" /\ direction = "GET"))
<1>3. PICK content \in Contents \cup {NoFile}, inPlace \in BOOLEAN :
        /\ inPlace => content # NoFile /\ source # NoFile
        /\ source' = content
        /\ t' = [a \in Agent |-> SetCalmReads(t[a], calm(a), reads(a, inPlace))]
  BY DEF Edit, SetCalmReads
<1>4. ASSUME NEW a \in Agent
      PROVE  /\ calm(a) \in BOOLEAN /\ (calm(a) <=> t[a].calm /\ ~Reading(a))
             /\ reads(a, inPlace) \in Contents \cup {Live}
  <2>1. t[a].calm \in BOOLEAN /\ t[a].reads \in Contents \cup {Live}
    BY Fields DEF Transfer
  <2>2. t[a].pc = "encrypt" /\ t[a].reads = Live => source \in Contents
    BY DEF IInv, AgentInv, Control, OpenSource
  <2> QED
    BY <2>1, <2>2 DEF Reading
<1>5. ASSUME NEW a \in Agent
      PROVE  /\ t'[a] \in Transfer /\ t'[a].pc = t[a].pc /\ t'[a].listed = t[a].listed
             /\ t'[a].secret = t[a].secret /\ t'[a].key = t[a].key /\ t'[a].want = t[a].want
             /\ t'[a].plain = t[a].plain /\ t'[a].lens = t[a].lens /\ t'[a].fd = t[a].fd
             /\ t'[a].waits = t[a].waits /\ t'[a].met = t[a].met /\ t'[a].failed = t[a].failed
             /\ t'[a].calm = calm(a) /\ t'[a].reads = reads(a, inPlace)
  <2>1. t[a] \in Transfer
    BY Fields
  <2>2. t'[a] = SetCalmReads(t[a], calm(a), reads(a, inPlace))
    BY <1>3
  <2> HIDE DEF calm, reads
  <2> QED
    BY <1>4, <2>1, <2>2, SetCalmReadsFields
<1> HIDE DEF calm
<1>6. TypeOK'
  <2>1. t' \in [Agent -> Transfer]
    BY <1>3, <1>5
  <2> QED
    BY <1>1, <1>2, <1>3, <2>1 DEF IInv, TypeOK
<1>7. Meetings'
  BY <1>1, <1>5 DEF IInv, Meetings, Active
<1>8. \A a \in Agent : AgentInv(a)'
  <2> TAKE a \in Agent
  <2>1. AgentInv(a) /\ Control(a)
    BY DEF IInv, AgentInv
  <2>2. /\ (Active(a)' <=> Active(a)) /\ (Authenticated(a)' <=> Authenticated(a))
        /\ (Reading(a)' <=> Reading(a))
    BY <1>1, <1>5 DEF Active, Authenticated, Reading
  <2>3. t[a].pc = "encrypt" => OpenSource(a)' \in Contents
    <3> SUFFICES ASSUME t[a].pc = "encrypt" PROVE OpenSource(a)' \in Contents
      OBVIOUS
    <3>1. OpenSource(a) \in Contents
      BY <2>1 DEF Control
    <3>2. CASE t[a].reads = Live /\ ~inPlace
      BY <1>5, <3>1, <3>2, LiveAssumption DEF OpenSource
    <3>3. CASE t[a].reads = Live /\ inPlace
      BY <1>3, <1>5, <3>3 DEF OpenSource
    <3>4. CASE t[a].reads # Live
      BY <1>5, <3>1, <3>4 DEF OpenSource
    <3> QED
      BY <3>2, <3>3, <3>4
  <2>4. Control(a)'
    BY <1>1, <1>5, <2>1, <2>2, <2>3 DEF Control
  <2>5. t'[a].calm => t[a].calm /\ ~Reading(a)
    BY <1>4, <1>5
  <2>6. ~Reading(a) /\ Faithful(a) => Faithful(a)'
    BY <1>5, <2>2 DEF Faithful, Reading
  <2> QED
    BY <1>1, <1>2, <1>5, <2>1, <2>2, <2>4, <2>5, <2>6 DEF AgentInv, Calm
<1> QED
  BY <1>2, <1>6, <1>7, <1>8 DEF IInv, LeftoverOnlyAfterFault

\* Pairing again replaces the key.
LEMMA RePairInv ==
  ASSUME IInv, NEW secret \in Secret, RePair(secret)
  PROVE  IInv'
<1>1. /\ UNCHANGED <<direction, source, known, target, part, left, transfers, edits, faults>>
      /\ pairings' = pairings + 1 /\ trusted' = secret
  BY DEF RePair
<1> DEFINE calm(a) == t[a].calm /\ t[a].key # NoFile
<1>2. t' = [a \in Agent |-> SetCalm(t[a], calm(a))]
  BY DEF RePair, SetCalm
<1>3. ASSUME NEW a \in Agent
      PROVE  calm(a) \in BOOLEAN /\ (calm(a) <=> t[a].calm /\ t[a].key # NoFile)
  BY Fields
<1>4. ASSUME NEW a \in Agent
      PROVE  /\ t'[a] \in Transfer /\ t'[a].pc = t[a].pc /\ t'[a].listed = t[a].listed
             /\ t'[a].secret = t[a].secret /\ t'[a].key = t[a].key /\ t'[a].want = t[a].want
             /\ t'[a].plain = t[a].plain /\ t'[a].lens = t[a].lens /\ t'[a].fd = t[a].fd
             /\ t'[a].waits = t[a].waits /\ t'[a].met = t[a].met /\ t'[a].failed = t[a].failed
             /\ t'[a].reads = t[a].reads /\ t'[a].calm = calm(a)
  <2>1. t[a] \in Transfer
    BY Fields
  <2>2. t'[a] = SetCalm(t[a], calm(a))
    BY <1>2
  <2> HIDE DEF calm
  <2> QED
    BY <1>3, <2>1, <2>2, SetCalmFields
<1> HIDE DEF calm
<1>5. TypeOK'
  <2>1. t' \in [Agent -> Transfer]
    BY <1>2, <1>4
  <2> QED
    BY <1>1, <2>1 DEF IInv, TypeOK
<1>6. Meetings'
  BY <1>1, <1>4 DEF IInv, Meetings, Active
<1>7. \A a \in Agent : AgentInv(a)'
  <2> TAKE a \in Agent
  <2>1. AgentInv(a) /\ Control(a)
    BY DEF IInv, AgentInv
  <2>2. (Active(a)' <=> Active(a)) /\ (Authenticated(a)' <=> Authenticated(a))
    BY <1>1, <1>4 DEF Active, Authenticated
  <2>3. OpenSource(a)' = OpenSource(a)
    BY <1>1, <1>4 DEF OpenSource
  <2>4. Control(a)'
    BY <1>1, <1>4, <2>1, <2>2, <2>3 DEF Control
  <2>5. t'[a].calm => t[a].calm /\ t[a].key # NoFile
    BY <1>3, <1>4
  <2>6. Faithful(a) => Faithful(a)'
    BY <1>1, <1>4 DEF Faithful, Reading
  <2> QED
    BY <1>1, <1>4, <2>1, <2>2, <2>4, <2>5, <2>6 DEF AgentInv, Calm
<1> QED
  BY <1>1, <1>5, <1>6, <1>7 DEF IInv, LeftoverOnlyAfterFault

\* A transfer dies.
LEMMA FaultInv ==
  ASSUME IInv, NEW a \in Agent, Fault(a)
  PROVE  IInv'
<1>1. /\ UNCHANGED <<direction, source, known, target, part, trusted, transfers, edits, pairings>>
      /\ faults' = faults + 1 /\ Active(a)
  BY DEF Fault
<1>2. faults' \in Nat /\ faults' # 0 /\ edits' + faults' > 0
  BY <1>1 DEF IInv, TypeOK
<1>3. /\ target' \in Contents \cup {NoFile, Partial} /\ part' \in Contents \cup {NoFile, Partial}
      /\ left' \in BOOLEAN /\ LeftoverOnlyAfterFault'
  BY <1>1, <1>2 DEF IInv, TypeOK, LeftoverOnlyAfterFault, Fault
<1> DEFINE r == [Nothing EXCEPT !.calm = FALSE, !.failed = TRUE]
<1>4. t' = [t EXCEPT ![a] = r]
  BY DEF Fault
<1>5. r.pc = "idle" /\ r.fd = "closed" /\ r.key = NoFile /\ ~r.calm
  BY DEF Nothing
<1>6. r \in Transfer
  <2> DEFINE yes == TRUE
             no == FALSE
             n == [Nothing EXCEPT !.calm = no, !.failed = yes]
  <2>1. yes \in BOOLEAN /\ no \in BOOLEAN
    OBVIOUS
  <2>2. Nothing \in Transfer
    BY NothingFields
  <2> HIDE DEF yes, no
  <2>3. n \in Transfer
    BY <2>1, <2>2 DEF Transfer
  <2> QED
    BY <2>3 DEF yes, no
<1>7. t'[a] = r
  BY <1>4 DEF IInv, TypeOK
<1> HIDE DEF r
<1>8. AgentInv(a)'
  <2>1. ~Active(a)' /\ ~Authenticated(a)'
    BY <1>5, <1>7 DEF Active, Authenticated
  <2>2. Control(a)'
    BY <1>5, <1>7, <2>1 DEF Control
  <2> QED
    BY <1>5, <1>7, <2>1, <2>2 DEF AgentInv
<1> QED
  BY <1>1, <1>2, <1>3, <1>4, <1>5, <1>6, <1>8, Moves

\* The client gives up; the server does not notice.
LEMMA ClientGivesUpInv ==
  ASSUME IInv, NEW a \in Agent, ClientGivesUp(a)
  PROVE  IInv'
<1>1. /\ UNCHANGED <<direction, source, known, target, part, trusted, left>>
      /\ UNCHANGED <<transfers, edits, pairings>>
      /\ faults' = faults + 1
  BY DEF ClientGivesUp
<1>2. Active(a)
  BY DEF ClientGivesUp, ServerWorks, Active
<1>3. faults' \in Nat /\ faults' # 0 /\ edits' + faults' > 0
  BY <1>1 DEF IInv, TypeOK
<1>4. /\ target' \in Contents \cup {NoFile, Partial} /\ part' \in Contents \cup {NoFile, Partial}
      /\ left' \in BOOLEAN /\ LeftoverOnlyAfterFault'
  BY <1>1, <1>3 DEF IInv, TypeOK, LeftoverOnlyAfterFault
<1>5. AgentInv(a) /\ Control(a) /\ t[a] \in Transfer
  BY Fields DEF IInv, AgentInv
<1> DEFINE no == FALSE
           r == SetWaitsCalm(t[a], no, no)
<1>6. t' = [t EXCEPT ![a] = r]
  BY DEF ClientGivesUp, SetWaitsCalm
<1>7. no \in BOOLEAN
  OBVIOUS
<1> HIDE DEF no
<1>8. /\ r \in Transfer /\ r.pc = t[a].pc /\ r.listed = t[a].listed
      /\ r.secret = t[a].secret /\ r.key = t[a].key /\ r.want = t[a].want
      /\ r.plain = t[a].plain /\ r.lens = t[a].lens
      /\ r.reads = t[a].reads /\ r.fd = t[a].fd /\ r.waits = no
      /\ r.met = t[a].met /\ r.calm = no /\ r.failed = t[a].failed
  BY <1>5, <1>7, SetWaitsCalmFields
<1>9. t'[a] = r /\ ~r.calm
  BY <1>6, <1>8 DEF IInv, TypeOK, no
<1> HIDE DEF r
<1>10. (Authenticated(a)' <=> Authenticated(a)) /\ (Active(a)' <=> Active(a))
       /\ OpenSource(a)' = OpenSource(a)
  BY <1>1, <1>8, <1>9 DEF Authenticated, Active, OpenSource
<1>11. Control(a)'
  BY <1>1, <1>5, <1>8, <1>9, <1>10 DEF Control
<1>12. Faithful(a) => Faithful(a)'
  BY <1>1, <1>8, <1>9 DEF Faithful, Reading
<1>13. AgentInv(a)'
  BY <1>1, <1>3, <1>5, <1>8, <1>9, <1>10, <1>11, <1>12 DEF AgentInv
<1>14. direction = "GET" /\ r.pc = "publish" /\ ~r.met => part' = r.want
  BY <1>1, <1>5, <1>8 DEF IInv, Meetings
<1> QED
  BY <1>1, <1>2, <1>3, <1>4, <1>6, <1>8, <1>13, <1>14, Moves

-----------------------------------------------------------------------------
(* The theorems *)

\* Before the first transfer.
LEMMA InitInv ==
  ASSUME Init
  PROVE  IInv
<1>1. \A a \in Agent : t[a] = Nothing
  BY DEF Init
<1>2. \A a \in Agent : AgentInv(a) /\ ~Active(a) /\ t[a].pc # "publish"
  <2> TAKE a \in Agent
  <2>1. t[a].pc = "idle" /\ t[a].fd = "closed" /\ t[a].key = NoFile /\ ~t[a].failed
    BY <1>1, NothingFields
  <2> QED
    BY <2>1, IdleInv DEF Active
<1>3. TypeOK
  BY NothingFields DEF Init, TypeOK
<1>4. Meetings
  BY <1>2 DEF Meetings
<1> QED
  BY <1>2, <1>3, <1>4 DEF Init, IInv, LeftoverOnlyAfterFault

\* Every step keeps the invariant.
LEMMA NextInv ==
  ASSUME IInv, [Next]_vars
  PROVE  IInv'
<1>1. CASE Plan
  BY <1>1, PlanInv
<1>2. CASE Edit
  BY <1>2, EditInv
<1>3. ASSUME NEW secret \in Secret, RePair(secret)
      PROVE  IInv'
  BY <1>3, RePairInv
<1>4. ASSUME NEW a \in Agent, Start(a)
      PROVE  IInv'
  BY <1>4, StartInv
<1>5. ASSUME NEW a \in Agent, Step(a)
      PROVE  IInv'
  BY <1>5, LookUpInv, OpenInv, EncryptInv, SealInv, SendGetInv, SendPutInv, VerifyInv,
     CreateOutputInv, WriteOutputInv, PublishGetInv, CheckPutInv, PublishPutInv DEF Step
<1>6. ASSUME NEW a \in Agent, Fault(a) \/ ClientGivesUp(a)
      PROVE  IInv'
  BY <1>6, FaultInv, ClientGivesUpInv
<1>7. CASE UNCHANGED vars
  <2>1. \A a \in Agent : AgentInv(a)'
    BY <1>7, Untouched DEF vars, IInv
  <2> QED
    BY <1>7, <2>1 DEF vars, IInv, TypeOK, Meetings, Active, LeftoverOnlyAfterFault
<1> QED
  BY <1>1, <1>2, <1>3, <1>4, <1>5, <1>6, <1>7 DEF Next

\* The inductive invariant holds in every state of the transfers.
THEOREM Invariance == Spec => []IInv
<1>1. Init => IInv
  BY InitInv
<1>2. IInv /\ [Next]_vars => IInv'
  BY NextInv
<1> QED
  BY <1>1, <1>2, PTL DEF Spec

\* Every field of every transfer keeps its type: what a reader has open is a
\* content whatever the user does, and a .part or a target is one or partial.
THEOREM TypeCorrect == Spec => []TypeOK
<1>1. IInv => TypeOK
  BY DEF IInv
<1> QED
  BY <1>1, Invariance, PTL

\* The framing, the keys and the lengths of the two ends agree for contents
\* and chunks of every size: only a disturbed transfer fails.
THEOREM DisturbedOnly == Spec => []FailsOnlyWhenDisturbed
<1>1. IInv => FailsOnlyWhenDisturbed
  BY DEF IInv, AgentInv, FailsOnlyWhenDisturbed
<1> QED
  BY <1>1, Invariance, PTL

\* Without a fault and without an edit no ciphertext stays in the folder.
THEOREM NoLeftover == Spec => []LeftoverOnlyAfterFault
<1>1. IInv => LeftoverOnlyAfterFault
  BY DEF IInv
<1> QED
  BY <1>1, Invariance, PTL

\* Only the version that the operation named appears at the target, unless two
\* agents shared the .part of a download.
THEOREM OnlyVerifiedPublished == Spec => PublishedIsVerified
<1> DEFINE Published == target' # target =>
             \E a \in Agent : (direction = "GET" /\ t[a].met) \/ target' = t[a].want
<1>1. ASSUME IInv, [Next]_vars PROVE [Published]_vars
  <2> SUFFICES ASSUME target' # target
               PROVE  \E a \in Agent : (direction = "GET" /\ t[a].met) \/ target' = t[a].want
    OBVIOUS
  <2>1. PICK a \in Agent : WriteOutput(a) \/ PublishGet(a) \/ PublishPut(a)
    BY <1>1 DEF Next, Step, vars, counters, Plan, Edit, RePair, Start, Fault, ClientGivesUp,
       LookUp, Open, Encrypt, Seal, SendGet, SendPut, Verify, CreateOutput, CheckPut
  <2>2. AgentInv(a) /\ Control(a)
    BY <1>1 DEF IInv, AgentInv
  <2>3. CASE WriteOutput(a)
    <3>1. t[a].fd = "target"
      BY <2>3 DEF WriteOutput
    <3> QED
      BY <2>2, <3>1 DEF Control
  <2>4. CASE PublishGet(a)
    <3>1. direction = "GET" /\ t[a].pc = "publish" /\ target' = part
      BY <2>4 DEF PublishGet
    <3> QED
      BY <1>1, <3>1 DEF IInv, Meetings
  <2>5. CASE PublishPut(a)
    BY <2>2, <2>5 DEF PublishPut, Control
  <2> QED
    BY <2>1, <2>3, <2>4, <2>5
<1>2. Spec => [][Published]_vars
  BY <1>1, Invariance, PTL DEF Spec
<1> QED
  BY <1>2 DEF PublishedIsVerified

=============================================================================
