---------------------------- MODULE Files_proofs ----------------------------
(***************************************************************************)
(* Proofs about Files, for any number of files and processes, any contents *)
(* and any size of a chunk.                                                *)
(***************************************************************************)
EXTENDS Files, TLAPS, SequenceTheorems

Signal == ({"deleted"} \X TmpFile) \cup ({"processScheduled"} \X Proc)

MFile == [data : Seq(Byte), iseq : Nat, exists : BOOLEAN]
Upload == [state : {"new", "append", "done", "failed"}, rest : Seq(Byte), src : Seq(Byte)]
Job == [step : {"idle", "attach", "download"}, proc : {Nothing} \cup Proc, todo : SUBSET TmpFile,
        file : {Nothing} \cup TmpFile, got : Seq(Byte)]
Copy == [op : {"idle", "up", "uploaded", "down", "downloaded"}, rest : Seq(Byte),
         got : Seq(Byte), size : Nat, from : Seq(Byte), changed : Nat]
ProcState == {"new", "scheduled", "running", "exited", "nonstarter"}

\* The variables that belong to the file objects and the copies of host files.
TransferTypeOK ==
    /\ mfile \in [TmpFile -> MFile]
    /\ upload \in [TmpFile -> Upload]
    /\ hostfile \in Seq(Byte)
    /\ copy \in Copy

\* The variables of the agent and what it is told.
AgentTypeOK ==
    /\ signals \in Seq(Signal)
    /\ DOMAIN meta = Proc
    /\ \A p \in Proc : DOMAIN meta[p] \subseteq TmpFile
    /\ \A p \in Proc : \A f \in DOMAIN meta[p] : meta[p][f] \in [iseq : Nat, len : Nat]
    /\ cached \in [TmpFile -> {Nothing} \cup Proc]
    /\ iseq \in [Proc -> [TmpFile -> Nat]]
    /\ buf \in [Proc -> [TmpFile -> {Nothing} \cup Seq(Byte)]]
    /\ inst \in [Proc -> [TmpFile -> {Nothing} \cup Proc]]
    /\ uses \in [Proc -> [TmpFile -> {Nothing} \cup Proc]]
    /\ job \in Job
    /\ pstate \in [Proc -> ProcState]
    /\ seen \in [Proc -> [TmpFile -> {Nothing} \cup Seq(Byte)]]

FilesTypeOK == TransferTypeOK /\ AgentTypeOK

-----------------------------------------------------------------------------
(* The inductive invariant                                                 *)

\* s is a prefix of t, element by element.
Prefix(s, t) == Len(s) <= Len(t) /\ \A i \in 1 .. Len(s) : s[i] = t[i]

\* Concatenation, by a name the provers need not look into.
Cat(s, t) == s \o t

\* What is on the master and what is still to be sent make up the source.
UploadInv ==
    \A f \in TmpFile :
        /\ Cat(mfile[f].data, upload[f].rest) = upload[f].src
        /\ Len(mfile[f].data) <= SizeMax
        /\ upload[f].state = "done" => upload[f].rest = <<>>
        /\ upload[f].state = "new" => mfile[f].data = <<>>

\* What was fetched of a file nobody changes is the beginning of it.
CopyInv ==
    /\ copy.op = "downloaded" => Len(copy.got) = copy.size
    /\ copy.op \in {"down", "downloaded"} /\ copy.changed = 0 =>
          /\ copy.size = Len(copy.from) /\ Prefix(copy.got, copy.from)
          /\ copy.op = "down" => hostfile = copy.from

InQueue(s, p) == \E i \in 1 .. Len(s) : s[i] = <<"processScheduled", p>>
Queued(p) == InQueue(signals, p)
Active(p) == job.step # "idle" /\ job.proc = p

\* The agent has begun to start the process.
Started(p) == pstate[p] # "new" /\ ~Queued(p)

\* A process is announced once and then started once.
QueueInv ==
    /\ \A p \in Proc : Queued(p) => pstate[p] = "scheduled" /\ ~Active(p)
    /\ \A i, j \in 1 .. Len(signals) :
          signals[i] = signals[j] /\ signals[i][1] = "processScheduled" => i = j

\* Contents that process p may be given for file f.
GoodFor(p, f, b) ==
    b # Nothing => Prefix(b, mfile[f].data) /\ meta[p][f].len <= Len(b)

\* The version a process was scheduled with is one the master's file has had.
MetaInv ==
    \A p \in Proc : \A f \in DOMAIN meta[p] :
        meta[p][f].len <= Len(mfile[f].data) /\ meta[p][f].iseq <= mfile[f].iseq

\* The structure of a process has no data, and nobody else refers to it, until
\* the process attaches the file.
FreshInv ==
    \A p \in Proc, f \in TmpFile :
        pstate[p] = "new" \/ Queued(p) \/ (Active(p) /\ f \in job.todo) =>
            /\ buf[p][f] = Nothing /\ cached[f] # p
            /\ \A q \in Proc : q # p => uses[q][f] # p

\* Of the files of the process being started, those that may be read are still
\* to be attached, or being downloaded, or good.
JobInv ==
    job.step # "idle" =>
        /\ job.proc \in Proc /\ pstate[job.proc] = "scheduled"
        /\ job.todo \subseteq DOMAIN meta[job.proc]
        /\ \A f \in TmpFile : f \in DOMAIN meta[job.proc] <=> uses[job.proc][f] # Nothing
        /\ \A f \in DOMAIN meta[job.proc] : iseq[job.proc][f] = meta[job.proc][f].iseq
        /\ \A f \in job.todo : uses[job.proc][f] = job.proc
        /\ job.step = "download" =>
              /\ job.file \in ReadOnly /\ job.file \in DOMAIN meta[job.proc]
              /\ job.file \notin job.todo
              /\ Prefix(job.got, mfile[job.file].data)
        /\ \A f \in ReadOnly \cap DOMAIN meta[job.proc] :
              \/ f \in job.todo
              \/ job.step = "download" /\ job.file = f
              \/ GoodFor(job.proc, f, buf[uses[job.proc][f]][f])

SeenInv ==
    \A p \in Proc, f \in TmpFile :
        /\ pstate[p] \in {"new", "scheduled", "nonstarter"} => seen[p][f] = Nothing
        /\ seen[p][f] # Nothing => f \in DOMAIN meta[p]
        /\ f \in ReadOnly => GoodFor(p, f, seen[p][f])

\* Processes are started in the order they were scheduled, so the versions they
\* were scheduled with only grow.
OrderInv ==
    /\ \A p, q \in Proc, f \in TmpFile :
          /\ Started(p) /\ (Queued(q) \/ Active(q))
          /\ f \in DOMAIN meta[p] /\ f \in DOMAIN meta[q]
          => meta[p][f].iseq <= meta[q][f].iseq
    /\ \A i, j \in 1 .. Len(signals), p, q \in Proc, f \in TmpFile :
          /\ i < j
          /\ signals[i] = <<"processScheduled", p>> /\ signals[j] = <<"processScheduled", q>>
          /\ f \in DOMAIN meta[p] /\ f \in DOMAIN meta[q]
          => meta[p][f].iseq <= meta[q][f].iseq

\* A cached structure and an instance belong to processes that were started.
CacheInv ==
    /\ \A f \in TmpFile :
          cached[f] # Nothing =>
              /\ Started(cached[f]) /\ f \in DOMAIN meta[cached[f]]
              /\ iseq[cached[f]][f] = meta[cached[f]][f].iseq
    /\ \A q \in Proc, f \in TmpFile :
          inst[q][f] # Nothing => Started(inst[q][f]) /\ f \in DOMAIN meta[inst[q][f]]

AgentInv == QueueInv /\ MetaInv /\ FreshInv /\ JobInv /\ SeenInv
FilesInv == FilesTypeOK /\ UploadInv /\ CopyInv /\ AgentInv /\ OrderInv /\ CacheInv

-----------------------------------------------------------------------------
(* Sequences of bytes                                                      *)

\* IsPrefix compares two sequences of bytes element by element.
LEMMA PrefixIff ==
    ASSUME NEW s \in Seq(Byte), NEW t \in Seq(Byte)
    PROVE  IsPrefix(s, t) <=> Prefix(s, t)
<1>1. SUFFICES ASSUME Len(s) <= Len(t)
               PROVE  SubSeq(s, 1, Len(s)) = SubSeq(t, 1, Len(s)) <=> Prefix(s, t)
    BY DEF IsPrefix, Prefix
<1>2. Len(s) \in Nat /\ Len(t) \in Nat
    BY LenProperties
<1>3. SubSeq(s, 1, Len(s)) = s
    BY SubSeqFull
<1>4. \A i \in 1 .. Len(s) : t[i] \in Byte
    BY <1>1, <1>2, ElementOfSeq
<1>5. /\ SubSeq(t, 1, Len(s)) \in Seq(Byte)
      /\ Len(SubSeq(t, 1, Len(s))) = Len(s)
      /\ \A i \in 1 .. Len(s) : SubSeq(t, 1, Len(s))[i] = t[i]
    BY <1>2, <1>4, SubSeqProperties
<1>6. Prefix(s, t) => s = SubSeq(t, 1, Len(s))
    BY <1>5, SeqEqual DEF Prefix
<1> QED
    BY <1>1, <1>3, <1>5, <1>6 DEF Prefix

\* What comes from the front of a sequence and what is left of it.
LEMMA SplitSeq ==
    ASSUME NEW s \in Seq(Byte), NEW n \in 0 .. Len(s)
    PROVE  /\ SubSeq(s, 1, n) \in Seq(Byte)
           /\ Len(SubSeq(s, 1, n)) = n
           /\ \A i \in 1 .. n : SubSeq(s, 1, n)[i] = s[i]
           /\ SubSeq(s, n + 1, Len(s)) \in Seq(Byte)
           /\ Len(SubSeq(s, n + 1, Len(s))) = Len(s) - n
           /\ \A i \in 1 .. Len(s) - n : SubSeq(s, n + 1, Len(s))[i] = s[n + i]
           /\ SubSeq(s, 1, n) \o SubSeq(s, n + 1, Len(s)) = s
<1>1. Len(s) \in Nat /\ n \in Nat /\ n <= Len(s)
    BY LenProperties
<1>2. \A i \in 1 .. Len(s) : s[i] \in Byte
    BY ElementOfSeq
<1>3. /\ SubSeq(s, 1, n) \in Seq(Byte)
      /\ Len(SubSeq(s, 1, n)) = n
      /\ \A i \in 1 .. n : SubSeq(s, 1, n)[i] = s[i]
    <2>1. \A i \in 1 .. n : s[i] \in Byte
        BY <1>1, <1>2
    <2> QED
        BY <1>1, <2>1, SubSeqProperties
<1>4. /\ SubSeq(s, n + 1, Len(s)) \in Seq(Byte)
      /\ Len(SubSeq(s, n + 1, Len(s))) = Len(s) - n
      /\ \A i \in 1 .. Len(s) - n : SubSeq(s, n + 1, Len(s))[i] = s[n + i]
    <2>1. \A i \in n + 1 .. Len(s) : s[i] \in Byte
        BY <1>1, <1>2
    <2>2. n + 1 \in Int /\ Len(s) \in Int
        BY <1>1
    <2>3. /\ SubSeq(s, n + 1, Len(s)) \in Seq(Byte)
          /\ Len(SubSeq(s, n + 1, Len(s))) =
                 IF n + 1 <= Len(s) THEN Len(s) - (n + 1) + 1 ELSE 0
          /\ \A i \in 1 .. Len(s) - (n + 1) + 1 :
                 SubSeq(s, n + 1, Len(s))[i] = s[(n + 1) + i - 1]
        BY <2>1, <2>2, SubSeqProperties
    <2> QED
        BY <1>1, <2>3
<1>5. SubSeq(s, 1, n) \o SubSeq(s, n + 1, Len(s)) = SubSeq(s, 1, Len(s))
    <2>1. 1 \in 1 .. Len(s) + 1 /\ n \in 1 - 1 .. Len(s) /\ Len(s) \in n .. Len(s)
        BY <1>1
    <2> QED
        BY <2>1, ConcatAdjacentSubSeq
<1> QED
    BY <1>3, <1>4, <1>5, SubSeqFull

\* FirstChunk takes as much as there is, a chunk at most.
LEMMA FirstChunkProperties ==
    ASSUME NEW s \in Seq(Byte)
    PROVE  /\ FirstChunk(s) \in Seq(Byte)
           /\ Len(FirstChunk(s)) \in 0 .. Len(s)
           /\ s # <<>> => Len(FirstChunk(s)) > 0
           /\ Len(FirstChunk(s)) < Chunk => Len(FirstChunk(s)) = Len(s)
           /\ \A i \in 1 .. Len(FirstChunk(s)) : FirstChunk(s)[i] = s[i]
           /\ SubSeq(s, Len(FirstChunk(s)) + 1, Len(s)) \in Seq(Byte)
           /\ FirstChunk(s) \o SubSeq(s, Len(FirstChunk(s)) + 1, Len(s)) = s
<1> DEFINE n == IF Len(s) < Chunk THEN Len(s) ELSE Chunk
<1>1. Len(s) \in Nat /\ n \in 0 .. Len(s) /\ (n < Chunk => n = Len(s))
    BY LenProperties, FilesAssumption
<1>2. s # <<>> => n > 0
    BY <1>1, EmptySeq, FilesAssumption
<1>3. FirstChunk(s) = SubSeq(s, 1, n)
    BY DEF FirstChunk
<1> HIDE DEF n
<1>4. /\ SubSeq(s, 1, n) \in Seq(Byte)
      /\ Len(SubSeq(s, 1, n)) = n
      /\ \A i \in 1 .. n : SubSeq(s, 1, n)[i] = s[i]
      /\ SubSeq(s, n + 1, Len(s)) \in Seq(Byte)
      /\ SubSeq(s, 1, n) \o SubSeq(s, n + 1, Len(s)) = s
    BY <1>1, SplitSeq
<1>5. Len(FirstChunk(s)) = n
    BY <1>3, <1>4
<1> QED
    BY <1>1, <1>2, <1>3, <1>4, <1>5, Zenon

\* A prefix stays one when the longer sequence grows.
LEMMA PrefixGrows ==
    ASSUME NEW s \in Seq(Byte), NEW t \in Seq(Byte), NEW u \in Seq(Byte), Prefix(s, t)
    PROVE  Prefix(s, t \o u) /\ t \o u \in Seq(Byte) /\ Len(t) <= Len(t \o u)
<1>1. Len(s) \in Nat /\ Len(t) \in Nat /\ Len(u) \in Nat
    BY LenProperties
<1> QED
    BY <1>1, ConcatProperties DEF Prefix

\* A sequence is a prefix of itself.
LEMMA PrefixReflexive ==
    ASSUME NEW s \in Seq(Byte)
    PROVE  Prefix(s, s)
BY LenProperties DEF Prefix

\* Prefixes of prefixes are prefixes.
LEMMA PrefixTransitive ==
    ASSUME NEW s \in Seq(Byte), NEW t \in Seq(Byte), NEW u \in Seq(Byte),
           Prefix(s, t), Prefix(t, u)
    PROVE  Prefix(s, u)
<1>1. Len(s) \in Nat /\ Len(t) \in Nat /\ Len(u) \in Nat
    BY LenProperties
<1> QED
    BY <1>1 DEF Prefix

\* The elements of a concatenation.
LEMMA CatElements ==
    ASSUME NEW s \in Seq(Byte), NEW t \in Seq(Byte)
    PROVE  /\ Cat(s, t) \in Seq(Byte) /\ Len(Cat(s, t)) = Len(s) + Len(t)
           /\ \A i \in 1 .. Len(s) + Len(t) :
                 Cat(s, t)[i] = IF i <= Len(s) THEN s[i] ELSE t[i - Len(s)]
BY ConcatProperties, Zenon DEF Cat

\* What the proofs use of concatenation.
LEMMA CatProperties ==
    /\ \A s, t \in Seq(Byte) : /\ Cat(s, t) \in Seq(Byte)
                               /\ Len(Cat(s, t)) = Len(s) + Len(t)
                               /\ Prefix(s, Cat(s, t))
    /\ \A s \in Seq(Byte) : Cat(s, <<>>) = s /\ Cat(<<>>, s) = s
    /\ \A s, t, u \in Seq(Byte) : Cat(Cat(s, t), u) = Cat(s, Cat(t, u))
<1>1. ASSUME NEW s \in Seq(Byte), NEW t \in Seq(Byte)
      PROVE  Cat(s, t) \in Seq(Byte) /\ Len(Cat(s, t)) = Len(s) + Len(t) /\ Prefix(s, Cat(s, t))
    BY ConcatProperties, PrefixGrows, PrefixReflexive DEF Cat
<1>2. \A s \in Seq(Byte) : Cat(s, <<>>) = s /\ Cat(<<>>, s) = s
    BY ConcatEmptySeq DEF Cat
<1>3. ASSUME NEW s \in Seq(Byte), NEW t \in Seq(Byte), NEW u \in Seq(Byte)
      PROVE  Cat(Cat(s, t), u) = Cat(s, Cat(t, u))
    <2>1. Len(s) \in Nat /\ Len(t) \in Nat /\ Len(u) \in Nat
        BY LenProperties
    <2>2. PICK st \in Seq(Byte) : st = Cat(s, t)
        BY CatElements
    <2>3. PICK tu \in Seq(Byte) : tu = Cat(t, u)
        BY CatElements
    <2>4. /\ Len(st) = Len(s) + Len(t)
          /\ \A i \in 1 .. Len(s) + Len(t) : st[i] = IF i <= Len(s) THEN s[i] ELSE t[i - Len(s)]
          /\ Len(tu) = Len(t) + Len(u)
          /\ \A i \in 1 .. Len(t) + Len(u) : tu[i] = IF i <= Len(t) THEN t[i] ELSE u[i - Len(t)]
        BY <2>2, <2>3, CatElements
    <2>5. /\ Cat(st, u) \in Seq(Byte) /\ Len(Cat(st, u)) = Len(st) + Len(u)
          /\ \A i \in 1 .. Len(st) + Len(u) :
                Cat(st, u)[i] = IF i <= Len(st) THEN st[i] ELSE u[i - Len(st)]
          /\ Cat(s, tu) \in Seq(Byte) /\ Len(Cat(s, tu)) = Len(s) + Len(tu)
          /\ \A i \in 1 .. Len(s) + Len(tu) :
                Cat(s, tu)[i] = IF i <= Len(s) THEN s[i] ELSE tu[i - Len(s)]
        BY CatElements
    <2>6. Len(Cat(st, u)) = Len(Cat(s, tu)) /\ Len(Cat(st, u)) = Len(s) + Len(t) + Len(u)
        BY <2>1, <2>4, <2>5
    <2>7. ASSUME NEW i \in 1 .. Len(Cat(st, u))
          PROVE  Cat(st, u)[i] = Cat(s, tu)[i]
        <3>0. i \in 1 .. Len(st) + Len(u) /\ i \in 1 .. Len(s) + Len(tu)
            BY <2>1, <2>4, <2>5, <2>6
        <3>1. CASE i <= Len(s)
            <4>1. i \in 1 .. Len(s) + Len(t) /\ i <= Len(st)
                BY <2>1, <2>4, <3>0, <3>1
            <4> QED
                BY <2>4, <2>5, <3>0, <3>1, <4>1
        <3>2. CASE i > Len(s) /\ i <= Len(s) + Len(t)
            <4>1. /\ i \in 1 .. Len(s) + Len(t) /\ i <= Len(st) /\ ~(i <= Len(s))
                  /\ i - Len(s) \in 1 .. Len(t) + Len(u) /\ i - Len(s) <= Len(t)
                BY <2>1, <2>4, <3>0, <3>2
            <4>2. tu[i - Len(s)] = t[i - Len(s)]
                BY <2>4, <4>1
            <4> QED
                BY <2>4, <2>5, <3>0, <4>1, <4>2
        <3>3. CASE i > Len(s) + Len(t)
            <4>1. Cat(st, u)[i] = u[i - (Len(s) + Len(t))]
                BY <2>1, <2>4, <2>5, <2>6, <3>3
            <4>2. Cat(s, tu)[i] = u[(i - Len(s)) - Len(t)]
                <5>1. i - Len(s) \in 1 .. Len(t) + Len(u) /\ ~(i - Len(s) <= Len(t)) /\ ~(i <= Len(s))
                    BY <2>1, <2>4, <3>0, <3>3
                <5>2. tu[i - Len(s)] = u[(i - Len(s)) - Len(t)]
                    BY <2>4, <5>1
                <5> QED
                    BY <2>5, <3>0, <5>1, <5>2
            <4>3. i - (Len(s) + Len(t)) = (i - Len(s)) - Len(t)
                BY <2>1
            <4> QED
                BY <4>1, <4>2, <4>3
        <3> QED
            BY <2>1, <2>6, <3>1, <3>2, <3>3
    <2> QED
        BY <2>2, <2>3, <2>5, <2>6, <2>7, SeqEqual
<1> QED
    BY <1>1, <1>2, <1>3, Zenon

\* The next n bytes of t after a prefix s of it make a longer prefix.
LEMMA PrefixExtends ==
    ASSUME NEW s \in Seq(Byte), NEW t \in Seq(Byte), Prefix(s, t), NEW u \in Seq(Byte),
           Len(u) <= Len(t) - Len(s),
           \A i \in 1 .. Len(u) : u[i] = SubSeq(t, Len(s) + 1, Len(t))[i]
    PROVE  /\ s \o u \in Seq(Byte) /\ Len(s \o u) = Len(s) + Len(u)
           /\ Prefix(s \o u, t)
<1>1. /\ Len(s) \in Nat /\ Len(t) \in Nat /\ Len(u) \in Nat
      /\ Len(s) \in 0 .. Len(t)
    BY LenProperties DEF Prefix
<1>2. \A i \in 1 .. Len(u) : u[i] = t[Len(s) + i]
    BY <1>1, SplitSeq
<1>3. /\ s \o u \in Seq(Byte) /\ Len(s \o u) = Len(s) + Len(u)
      /\ \A i \in 1 .. Len(s) + Len(u) :
             (s \o u)[i] = IF i <= Len(s) THEN s[i] ELSE u[i - Len(s)]
    BY ConcatProperties
<1>4. ASSUME NEW i \in 1 .. Len(s) + Len(u)
      PROVE  (s \o u)[i] = t[i]
    <2>1. CASE i <= Len(s)
        BY <1>1, <1>3, <2>1 DEF Prefix
    <2>2. CASE i > Len(s)
        <3>1. i - Len(s) \in 1 .. Len(u) /\ Len(s) + (i - Len(s)) = i
            BY <1>1, <2>2
        <3> QED
            BY <1>1, <1>2, <1>3, <2>2, <3>1
    <2> QED
        BY <1>1, <2>1, <2>2
<1> QED
    BY <1>1, <1>3, <1>4 DEF Prefix

-----------------------------------------------------------------------------
(* Transfers: the file objects of the master and the copies of host files  *)

\* A chunk is appended as a whole or not at all, and then the object changes.
LEMMA AppendProps ==
    ASSUME NEW m \in MFile, NEW data \in Seq(Byte)
    PROVE  /\ append(m, data) \in MFile
           /\ append(m, data).exists = m.exists
           /\ append(m, data) = m => append(m, data).data = m.data
           /\ append(m, data) # m =>
                 /\ append(m, data).data = Cat(m.data, data)
                 /\ append(m, data).iseq = m.iseq + 1
                 /\ Len(append(m, data).data) <= SizeMax
<1> DEFINE d == Cat(m.data, data)
<1>1. m.data \in Seq(Byte) /\ m.iseq \in Nat /\ m.exists \in BOOLEAN
    BY DEF MFile
<1>2. d \in Seq(Byte) /\ Len(d) = Len(m.data) + Len(data)
    BY <1>1, CatProperties
<1>3. append(m, data) = IF m.exists /\ Len(m.data) + Len(data) <= SizeMax
                        THEN [m EXCEPT !.data = d, !.iseq = @ + 1] ELSE m
    BY Zenon DEF append, Cat
<1> HIDE DEF d
<1>4. [m EXCEPT !.data = d, !.iseq = @ + 1] \in MFile
    <2>1. m.iseq + 1 \in Nat
        BY <1>1
    <2> QED
        BY <1>1, <1>2, <2>1, Zenon DEF MFile
<1>5. /\ [m EXCEPT !.data = d, !.iseq = @ + 1].data = d
      /\ [m EXCEPT !.data = d, !.iseq = @ + 1].iseq = m.iseq + 1
      /\ [m EXCEPT !.data = d, !.iseq = @ + 1].exists = m.exists
    BY DEF MFile
<1>6. CASE m.exists /\ Len(m.data) + Len(data) <= SizeMax
    BY <1>1, <1>2, <1>3, <1>4, <1>5, <1>6 DEF d
<1>7. CASE ~(m.exists /\ Len(m.data) + Len(data) <= SizeMax)
    BY <1>3, <1>7
<1> QED
    BY <1>6, <1>7

\* The steps that change none of the variables of a transfer.
LEMMA OtherSteps ==
    ASSUME FilesNext
    PROVE  \/ \E f \in TmpFile : CreateTempfile(f) \/ UploadChunk(f) \/ UploadDone(f) \/ DeleteFile(f)
           \/ UNCHANGED fvars
BY DEF FilesNext, MasterFilesNext, AgentStep, UploadStep, CopyNext, CopyStep, fvars,
       StartProcess, Attach, Download, DownloadFails, RunProcess, DiscardCachedFile, Schedule,
       ProcessExit, StartAgentUpload, AgentUpload, AgentUploadDone, StartAgentDownload,
       AgentDownload, AgentDownloadDone, HostFileChanges

\* The file objects and the uploads keep their types, and what is on the master
\* and what is still to be sent go on making up the source.
LEMMA UploadStepInv ==
    ASSUME TransferTypeOK, UploadInv, FilesNext
    PROVE  /\ mfile' \in [TmpFile -> MFile] /\ upload' \in [TmpFile -> Upload]
           /\ UploadInv'
           /\ \A f \in TmpFile :
                 /\ mfile[f].iseq <= mfile'[f].iseq
                 /\ Prefix(mfile[f].data, mfile'[f].data)
<1> DEFINE Goal ==
        /\ mfile' \in [TmpFile -> MFile] /\ upload' \in [TmpFile -> Upload]
        /\ UploadInv'
        /\ \A f \in TmpFile :
              /\ mfile[f].iseq <= mfile'[f].iseq
              /\ Prefix(mfile[f].data, mfile'[f].data)
<1>t. mfile \in [TmpFile -> MFile] /\ upload \in [TmpFile -> Upload]
    BY DEF TransferTypeOK
<1>f. \A f \in TmpFile : mfile[f].data \in Seq(Byte) /\ mfile[f].iseq \in Nat
    BY <1>t DEF MFile
<1>s. \A f \in TmpFile : Prefix(mfile[f].data, mfile[f].data)
    BY <1>f, PrefixReflexive
<1>1. ASSUME NEW f \in TmpFile, CreateTempfile(f)
      PROVE  Goal
    <2>1. PICK data \in Source :
             upload' = [upload EXCEPT ![f] = [state |-> "append", rest |-> data, src |-> data]]
        BY <1>1 DEF CreateTempfile
    <2>2. data \in Seq(Byte) /\ Cat(<<>>, data) = data
        BY FilesAssumption, ConcatEmptySeq DEF Cat
    <2>3. mfile' = [mfile EXCEPT ![f].exists = TRUE] /\ mfile[f].data = <<>>
        BY <1>1 DEF CreateTempfile, UploadInv
    <2>4. mfile' \in [TmpFile -> MFile] /\ upload' \in [TmpFile -> Upload]
        BY <1>t, <2>1, <2>2, <2>3 DEF MFile, Upload
    <2>5. \A g \in TmpFile : mfile'[g].data = mfile[g].data /\ mfile'[g].iseq = mfile[g].iseq
        BY <1>t, <2>3 DEF MFile
    <2>6. \A g \in TmpFile : upload'[g] = IF g = f THEN [state |-> "append", rest |-> data, src |-> data]
                                           ELSE upload[g]
        BY <1>t, <2>1
    <2>7. UploadInv'
        BY <2>2, <2>3, <2>5, <2>6 DEF UploadInv
    <2> QED
        BY <1>f, <1>s, <2>4, <2>5, <2>7
<1>2. ASSUME NEW f \in TmpFile, UploadChunk(f)
      PROVE  Goal
    <2> DEFINE data == FirstChunk(upload[f].rest)
               m == append(mfile[f], data)
               rest == SubSeq(upload[f].rest, Len(data) + 1, Len(upload[f].rest))
    <2>1. upload[f].rest \in Seq(Byte) /\ mfile[f] \in MFile
        BY <1>t DEF Upload
    <2>2. data \in Seq(Byte) /\ rest \in Seq(Byte) /\ Cat(data, rest) = upload[f].rest
        BY <2>1, FirstChunkProperties DEF Cat
    <2>3. mfile' = [mfile EXCEPT ![f] = m]
        BY <1>2 DEF UploadChunk
    <2>4. upload' = [upload EXCEPT ![f] =
             IF m = mfile[f] THEN [@ EXCEPT !.state = "failed"] ELSE [@ EXCEPT !.rest = rest]]
        BY <1>2 DEF UploadChunk
    <2>5. upload[f].state = "append"
        BY <1>2 DEF UploadChunk
    <2> HIDE DEF data, rest
    <2>6. m \in MFile /\ (m # mfile[f] => m.data = Cat(mfile[f].data, data)
                                        /\ m.iseq = mfile[f].iseq + 1 /\ Len(m.data) <= SizeMax)
        BY <2>1, <2>2, AppendProps
    <2> HIDE DEF m
    <2>7. mfile' \in [TmpFile -> MFile] /\ upload' \in [TmpFile -> Upload]
        BY <1>t, <2>2, <2>3, <2>4, <2>6 DEF Upload
    <2>8. \A g \in TmpFile : mfile'[g] = IF g = f THEN m ELSE mfile[g]
        BY <1>t, <2>3
    <2>9. CASE m = mfile[f]
        <3>1. mfile' = mfile
            BY <1>t, <2>3, <2>9
        <3>2. \A g \in TmpFile : /\ upload'[g].rest = upload[g].rest /\ upload'[g].src = upload[g].src
                                 /\ upload'[g].state = "done" => upload[g].state = "done"
                                 /\ upload'[g].state = "new" => upload[g].state = "new"
            BY <1>t, <2>4, <2>9 DEF Upload
        <3>3. UploadInv'
            BY <3>1, <3>2 DEF UploadInv
        <3> QED
            BY <1>f, <1>s, <2>7, <3>1, <3>3
    <2>10. CASE m # mfile[f]
        <3>1. \A g \in TmpFile : g # f => upload'[g] = upload[g] /\ mfile'[g] = mfile[g]
            BY <1>t, <2>4, <2>8
        <3>2. upload'[f].rest = rest /\ upload'[f].src = upload[f].src /\ upload'[f].state = "append"
            BY <1>t, <2>4, <2>5, <2>10 DEF Upload
        <3>3. mfile'[f].data = Cat(mfile[f].data, data) /\ Len(mfile'[f].data) <= SizeMax
            BY <2>6, <2>8, <2>10
        <3>4. /\ Cat(Cat(mfile[f].data, data), rest) = Cat(mfile[f].data, Cat(data, rest))
              /\ Prefix(mfile[f].data, Cat(mfile[f].data, data))
            <4>1. mfile[f].data \in Seq(Byte)
                BY <1>f
            <4> QED
                BY <2>2, <4>1, CatProperties, Zenon
        <3>5. UploadInv'
            BY <2>2, <3>1, <3>2, <3>3, <3>4 DEF UploadInv
        <3>6. \A g \in TmpFile : Prefix(mfile[g].data, mfile'[g].data)
            BY <1>s, <3>1, <3>3, <3>4
        <3>7. \A g \in TmpFile : mfile[g].iseq <= mfile'[g].iseq
            BY <1>f, <2>6, <2>8, <2>10
        <3> QED
            BY <2>7, <3>5, <3>6, <3>7
    <2> QED
        BY <2>9, <2>10
<1>3. ASSUME NEW f \in TmpFile, UploadDone(f)
      PROVE  Goal
    <2>1. upload' = [upload EXCEPT ![f].state = "done"] /\ mfile' = mfile /\ upload[f].rest = <<>>
        BY <1>3 DEF UploadDone
    <2>2. upload' \in [TmpFile -> Upload]
        BY <1>t, <2>1 DEF Upload
    <2>3. \A g \in TmpFile : /\ upload'[g].rest = upload[g].rest /\ upload'[g].src = upload[g].src
                             /\ upload'[g].state = "done" => upload[g].state = "done" \/ g = f
                             /\ upload'[g].state = "new" => upload[g].state = "new"
        BY <1>t, <2>1 DEF Upload
    <2>4. UploadInv'
        BY <2>1, <2>3 DEF UploadInv
    <2> QED
        BY <1>t, <1>f, <1>s, <2>1, <2>2, <2>4
<1>4. ASSUME NEW f \in TmpFile, DeleteFile(f)
      PROVE  Goal
    <2>1. mfile' = [mfile EXCEPT ![f].exists = FALSE] /\ upload' = upload
        BY <1>4 DEF DeleteFile
    <2>2. mfile' \in [TmpFile -> MFile]
        BY <1>t, <2>1 DEF MFile
    <2>3. \A g \in TmpFile : mfile'[g].data = mfile[g].data /\ mfile'[g].iseq = mfile[g].iseq
        BY <1>t, <2>1 DEF MFile
    <2>4. UploadInv'
        BY <2>1, <2>3 DEF UploadInv
    <2> QED
        BY <1>t, <1>f, <1>s, <2>1, <2>2, <2>3, <2>4
<1>5. ASSUME UNCHANGED fvars
      PROVE  Goal
    <2>1. mfile' = mfile /\ upload' = upload
        BY <1>5 DEF fvars
    <2> QED
        BY <1>t, <1>f, <1>s, <2>1 DEF UploadInv
<1> QED
    BY <1>1, <1>2, <1>3, <1>4, <1>5, OtherSteps

\* The steps of a copy, and those that have nothing to do with it.
LEMMA CopySteps ==
    ASSUME FilesNext
    PROVE  CopyNext \/ UNCHANGED <<hostfile, copy>>
BY DEF FilesNext, MasterFilesNext, AgentStep, UploadStep, fvars,
       StartProcess, Attach, Download, DownloadFails, RunProcess, DiscardCachedFile, Schedule,
       ProcessExit, CreateTempfile, UploadChunk, UploadDone, DeleteFile

\* The copies of host files keep their types, and what was fetched of a file
\* that nobody changes stays the beginning of it.
LEMMA CopyStepInv ==
    ASSUME TransferTypeOK, CopyInv, FilesNext
    PROVE  hostfile' \in Seq(Byte) /\ copy' \in Copy /\ CopyInv'
<1> DEFINE Goal == hostfile' \in Seq(Byte) /\ copy' \in Copy /\ CopyInv'
<1>t. hostfile \in Seq(Byte) /\ copy \in Copy
    BY DEF TransferTypeOK
<1>e. <<>> \in Seq(Byte) /\ Len(<<>>) = 0
    BY EmptySeq
<1>1. CASE StartAgentUpload
    <2>1. PICK data \in HostData : copy' = [CopyIdle EXCEPT !.op = "up", !.rest = data, !.from = data]
        BY <1>1 DEF StartAgentUpload
    <2>2. data \in Seq(Byte)
        BY FilesAssumption
    <2>3. copy' \in Copy /\ copy'.op = "up"
        BY <1>e, <2>1, <2>2 DEF CopyIdle, Copy
    <2>4. hostfile' = hostfile
        BY <1>1 DEF StartAgentUpload
    <2> QED
        BY <1>t, <2>3, <2>4 DEF CopyInv
<1>2. CASE AgentUpload
    <2>1. /\ hostfile' = FirstChunk(copy.rest) /\ copy.op = "up"
          /\ copy' = [copy EXCEPT !.rest =
                         SubSeq(copy.rest, Len(FirstChunk(copy.rest)) + 1, Len(copy.rest))]
        BY <1>2 DEF AgentUpload, fs_upload
    <2>2. copy.rest \in Seq(Byte)
        BY <1>t DEF Copy
    <2>3. /\ FirstChunk(copy.rest) \in Seq(Byte)
          /\ SubSeq(copy.rest, Len(FirstChunk(copy.rest)) + 1, Len(copy.rest)) \in Seq(Byte)
        BY <2>2, FirstChunkProperties
    <2>4. copy' \in Copy /\ copy'.op = "up"
        BY <1>t, <2>1, <2>3 DEF Copy
    <2> QED
        BY <2>1, <2>3, <2>4 DEF CopyInv
<1>3. CASE AgentUploadDone
    <2>1. hostfile' = hostfile /\ copy' = [copy EXCEPT !.op = "uploaded"]
        BY <1>3 DEF AgentUploadDone
    <2>2. copy' \in Copy /\ copy'.op = "uploaded"
        BY <1>t, <2>1 DEF Copy
    <2> QED
        BY <1>t, <2>1, <2>2 DEF CopyInv
<1>4. CASE StartAgentDownload
    <2>1. /\ hostfile' = hostfile
          /\ copy' = [CopyIdle EXCEPT !.op = "down", !.size = Len(hostfile), !.from = hostfile]
        BY <1>4 DEF StartAgentDownload
    <2>2. Len(hostfile) \in Nat
        BY <1>t, LenProperties
    <2>3. /\ copy' \in Copy /\ copy'.op = "down" /\ copy'.size = Len(hostfile)
          /\ copy'.from = hostfile /\ copy'.got = <<>>
        BY <1>t, <1>e, <2>1, <2>2 DEF CopyIdle, Copy
    <2>4. Prefix(<<>>, hostfile)
        BY <1>e, <2>2 DEF Prefix
    <2> QED
        BY <1>t, <2>1, <2>3, <2>4 DEF CopyInv
<1>5. CASE AgentDownload
    <2> DEFINE data == fs_download(Len(copy.got))
               room == copy.size - Len(copy.got)
               n == IF room < Len(data) THEN room ELSE Len(data)
               part == SubSeq(data, 1, n)
    <2>1. /\ hostfile' = hostfile /\ copy.op = "down" /\ Len(copy.got) < copy.size
          /\ copy' = [copy EXCEPT !.got = copy.got \o part]
        BY <1>5 DEF AgentDownload
    <2>2. /\ copy.got \in Seq(Byte) /\ copy.size \in Nat /\ Len(copy.got) \in Nat
          /\ copy.from \in Seq(Byte) /\ Len(hostfile) \in Nat
        BY <1>t, LenProperties DEF Copy
    <2> DEFINE tail == SubSeq(hostfile, Len(copy.got) + 1, Len(hostfile))
    <2>3. tail \in Seq(Byte)
        <3>1. \A i \in Len(copy.got) + 1 .. Len(hostfile) : hostfile[i] \in Byte
            BY <1>t, <2>2, ElementOfSeq
        <3> QED
            BY <2>2, <3>1, SubSeqProperties
    <2>4. data = FirstChunk(tail)
        BY DEF fs_download
    <2> HIDE DEF data, tail
    <2>5. /\ data \in Seq(Byte) /\ Len(data) \in Nat /\ Len(data) <= Len(tail) /\ Len(tail) \in Nat
          /\ \A i \in 1 .. Len(data) : data[i] = tail[i]
        BY <2>3, <2>4, FirstChunkProperties, LenProperties
    <2>6. n \in 0 .. Len(data)
        BY <2>1, <2>2, <2>5
    <2> HIDE DEF n
    <2>7. part \in Seq(Byte) /\ Len(part) = n /\ \A i \in 1 .. n : part[i] = data[i]
        BY <2>5, <2>6, SplitSeq
    <2> HIDE DEF part
    <2>8. copy.got \o part \in Seq(Byte)
        BY <2>2, <2>7, ConcatProperties
    <2>9. /\ copy' \in Copy /\ copy'.op = "down" /\ copy'.got = copy.got \o part
          /\ copy'.from = copy.from /\ copy'.size = copy.size /\ copy'.changed = copy.changed
        BY <1>t, <2>1, <2>8, Zenon DEF Copy
    <2>10. ASSUME copy.changed = 0
           PROVE  Prefix(copy.got \o part, copy.from)
        <3>1. Prefix(copy.got, copy.from) /\ hostfile = copy.from
            BY <2>1, <2>10 DEF CopyInv
        <3>2. Len(copy.got) \in 0 .. Len(copy.from)
            BY <2>2, <3>1 DEF Prefix
        <3>3. Len(tail) = Len(copy.from) - Len(copy.got)
            BY <2>2, <3>1, <3>2, SplitSeq DEF tail
        <3>4. /\ Len(part) <= Len(copy.from) - Len(copy.got)
              /\ \A i \in 1 .. Len(part) : part[i] = SubSeq(copy.from, Len(copy.got) + 1, Len(copy.from))[i]
            <4>1. Len(part) <= Len(copy.from) - Len(copy.got)
                <5>1. Len(part) \in Nat /\ Len(data) \in Nat /\ Len(part) <= Len(data)
                    <6>1. Len(part) = n /\ Len(data) \in Nat
                        BY <2>5, <2>7
                    <6> QED
                        BY <2>6, <6>1
                <5>2. Len(data) <= Len(tail) /\ Len(tail) \in Nat
                    BY <2>5
                <5>3. Len(part) <= Len(tail)
                    BY <5>1, <5>2
                <5> QED
                    BY <3>3, <5>3
            <4>2. \A i \in 1 .. Len(part) : part[i] = tail[i]
                BY <2>5, <2>6, <2>7
            <4>3. tail = SubSeq(copy.from, Len(copy.got) + 1, Len(copy.from))
                BY <3>1, Zenon DEF tail
            <4> QED
                BY <4>1, <4>2, <4>3, Zenon
        <3> QED
            BY <2>2, <2>7, <3>1, <3>4, PrefixExtends
    <2>11. CopyInv'
        BY <2>1, <2>9, <2>10 DEF CopyInv
    <2> QED
        BY <1>t, <2>1, <2>9, <2>11
<1>6. CASE AgentDownloadDone
    <2>1. /\ hostfile' = hostfile /\ copy' = [copy EXCEPT !.op = "downloaded"]
          /\ copy.op = "down" /\ Len(copy.got) = copy.size
        BY <1>6 DEF AgentDownloadDone
    <2>2. /\ copy' \in Copy /\ copy'.op = "downloaded" /\ copy'.got = copy.got
          /\ copy'.from = copy.from /\ copy'.size = copy.size /\ copy'.changed = copy.changed
        BY <1>t, <2>1 DEF Copy
    <2> QED
        BY <1>t, <2>1, <2>2 DEF CopyInv
<1>7. CASE HostFileChanges
    <2>1. PICK data \in HostData : hostfile' = data
        BY <1>7 DEF HostFileChanges
    <2>2. copy' = [copy EXCEPT !.changed = copy.changed + 1] /\ copy.op = "down"
        BY <1>7 DEF HostFileChanges
    <2>3. copy.changed \in Nat /\ copy.changed + 1 \in Nat
        BY <1>t DEF Copy
    <2>4. copy' \in Copy /\ copy'.changed = copy.changed + 1 /\ copy'.op = "down"
        BY <1>t, <2>2, <2>3, Zenon DEF Copy
    <2>5. copy'.changed # 0
        BY <2>3, <2>4
    <2> QED
        BY <2>1, <2>4, <2>5, FilesAssumption DEF CopyInv
<1>8. CASE UNCHANGED <<hostfile, copy>>
    BY <1>t, <1>8 DEF CopyInv
<1> QED
    BY <1>1, <1>2, <1>3, <1>4, <1>5, <1>6, <1>7, <1>8, CopySteps DEF CopyNext, CopyStep

-----------------------------------------------------------------------------
(* Signals                                                                 *)

\* A signal says that a file was deleted or that a process was scheduled.
LEMMA SignalCases ==
    ASSUME NEW x \in Signal
    PROVE  /\ x[1] = "deleted" => x[2] \in TmpFile
           /\ x[1] = "processScheduled" => x[2] \in Proc /\ x = <<"processScheduled", x[2]>>
           /\ \A p : x = <<"processScheduled", p>> => x[1] = "processScheduled" /\ x[2] = p
BY DEF Signal

\* A signal is sent.
LEMMA AppendSignal ==
    ASSUME NEW s \in Seq(Signal), NEW x \in Signal, NEW t, t = Append(s, x)
    PROVE  /\ t \in Seq(Signal) /\ Len(t) = Len(s) + 1 /\ Len(s) \in Nat
           /\ \A i \in 1 .. Len(s) : t[i] = s[i]
           /\ t[Len(s) + 1] = x
           /\ \A p : InQueue(t, p) <=> InQueue(s, p) \/ x = <<"processScheduled", p>>
<1>1. Len(s) \in Nat
    BY LenProperties
<1>2. /\ t \in Seq(Signal) /\ Len(t) = Len(s) + 1
      /\ \A i \in 1 .. Len(s) : t[i] = s[i]
      /\ t[Len(s) + 1] = x
    BY AppendProperties
<1>3. \A i \in 1 .. Len(s) + 1 : i \in 1 .. Len(s) \/ i = Len(s) + 1
    BY <1>1
<1>4. Len(s) + 1 \in 1 .. Len(s) + 1 /\ \A i \in 1 .. Len(s) : i \in 1 .. Len(s) + 1
    BY <1>1
<1>5. \A p : InQueue(t, p) <=> InQueue(s, p) \/ x = <<"processScheduled", p>>
    BY <1>2, <1>3, <1>4 DEF InQueue
<1> QED
    BY <1>1, <1>2, <1>5

\* The first signal is taken.
LEMMA TailSignal ==
    ASSUME NEW s \in Seq(Signal), s # <<>>, NEW t, t = Tail(s)
    PROVE  /\ t \in Seq(Signal) /\ Len(s) = Len(t) + 1 /\ Len(t) \in Nat
           /\ \A i \in 1 .. Len(t) : t[i] = s[i + 1]
           /\ Head(s) \in Signal /\ s[1] = Head(s)
           /\ \A p : InQueue(s, p) <=> InQueue(t, p) \/ Head(s) = <<"processScheduled", p>>
<1>1. Len(s) \in Nat \ {0}
    BY EmptySeq, LenProperties
<1>2. /\ t \in Seq(Signal) /\ Len(t) = Len(s) - 1
      /\ \A i \in 1 .. Len(t) : t[i] = s[i + 1]
      /\ Head(s) \in Signal
    BY HeadTailProperties
<1>3. s[1] = Head(s)
    BY <1>1
<1>4. Len(s) = Len(t) + 1 /\ Len(t) \in Nat
    BY <1>1, <1>2
<1>5. ASSUME NEW p
      PROVE  InQueue(s, p) <=> InQueue(t, p) \/ Head(s) = <<"processScheduled", p>>
    <2>1. ASSUME InQueue(s, p)
          PROVE  InQueue(t, p) \/ Head(s) = <<"processScheduled", p>>
        <3>1. PICK i \in 1 .. Len(s) : s[i] = <<"processScheduled", p>>
            BY <2>1 DEF InQueue
        <3>2. CASE i = 1
            BY <1>3, <3>1, <3>2
        <3>3. CASE i # 1
            <4>1. i - 1 \in 1 .. Len(t) /\ (i - 1) + 1 = i
                BY <1>4, <3>3
            <4>2. t[i - 1] = s[i]
                BY <1>2, <4>1
            <4> QED
                BY <3>1, <4>1, <4>2 DEF InQueue
        <3> QED
            BY <3>2, <3>3
    <2>2. ASSUME InQueue(t, p)
          PROVE  InQueue(s, p)
        <3>1. PICK i \in 1 .. Len(t) : t[i] = <<"processScheduled", p>>
            BY <2>2 DEF InQueue
        <3>2. i + 1 \in 1 .. Len(s) /\ s[i + 1] = t[i]
            BY <1>2, <1>4
        <3> QED
            BY <3>1, <3>2 DEF InQueue
    <2>3. ASSUME Head(s) = <<"processScheduled", p>>
          PROVE  InQueue(s, p)
        <3>1. 1 \in 1 .. Len(s)
            BY <1>1
        <3> QED
            BY <1>3, <2>3, <3>1 DEF InQueue
    <2> QED
        BY <2>1, <2>2, <2>3
<1> QED
    BY <1>2, <1>3, <1>4, <1>5

-----------------------------------------------------------------------------
(* The agent                                                               *)

AllAgentInv == AgentTypeOK /\ AgentInv /\ OrderInv /\ CacheInv

\* The files of the master have only grown in a step.
MFilesGrow ==
    \A f \in TmpFile :
        /\ mfile[f].data \in Seq(Byte) /\ mfile'[f].data \in Seq(Byte)
        /\ mfile[f].iseq \in Nat /\ mfile'[f].iseq \in Nat
        /\ mfile[f].iseq <= mfile'[f].iseq
        /\ Prefix(mfile[f].data, mfile'[f].data)

\* What may be given to a process stays so when the files of the master grow.
LEMMA GoodForGrows ==
    ASSUME MFilesGrow, NEW f \in TmpFile, NEW p, NEW b \in {Nothing} \cup Seq(Byte),
           GoodFor(p, f, b), meta'[p][f].len = meta[p][f].len
    PROVE  b # Nothing => Prefix(b, mfile'[f].data) /\ meta'[p][f].len <= Len(b)
BY PrefixTransitive DEF GoodFor, MFilesGrow

\* Steps of the master and of a copy that leave the agent alone.
LEMMA AgentKept ==
    ASSUME AllAgentInv, MFilesGrow,
           UNCHANGED <<signals, meta, cacheVars, job, pstate, seen>>
    PROVE  AllAgentInv'
<1>u. /\ signals' = signals /\ meta' = meta /\ cached' = cached /\ iseq' = iseq /\ buf' = buf
      /\ inst' = inst /\ uses' = uses /\ job' = job /\ pstate' = pstate /\ seen' = seen
    BY DEF cacheVars
<1>1. AgentTypeOK'
    BY <1>u DEF AllAgentInv, AgentTypeOK
<1>2. QueueInv'
    BY <1>u DEF AllAgentInv, AgentInv, QueueInv, Queued, Active
<1>3. FreshInv'
    BY <1>u DEF AllAgentInv, AgentInv, FreshInv, Queued, Active
<1>4. OrderInv' /\ CacheInv'
    BY <1>u DEF AllAgentInv, OrderInv, CacheInv, Started, Queued, Active
<1>5. MetaInv'
    <2>1. ASSUME NEW p \in Proc, NEW f \in DOMAIN meta[p]
          PROVE  meta[p][f].len <= Len(mfile'[f].data) /\ meta[p][f].iseq <= mfile'[f].iseq
        <3>1. f \in TmpFile /\ meta[p][f].len \in Nat /\ meta[p][f].iseq \in Nat
            BY DEF AllAgentInv, AgentTypeOK
        <3>2. meta[p][f].len <= Len(mfile[f].data) /\ meta[p][f].iseq <= mfile[f].iseq
            BY DEF AllAgentInv, AgentInv, MetaInv
        <3>3. /\ Len(mfile[f].data) <= Len(mfile'[f].data) /\ mfile[f].iseq <= mfile'[f].iseq
              /\ mfile[f].iseq \in Nat /\ mfile'[f].iseq \in Nat
            BY <3>1 DEF MFilesGrow, Prefix
        <3>4. Len(mfile[f].data) \in Nat /\ Len(mfile'[f].data) \in Nat
            BY <3>1, LenProperties DEF MFilesGrow
        <3> QED
            BY <3>1, <3>2, <3>3, <3>4
    <2> QED
        BY <1>u, <2>1 DEF MetaInv
<1>6. JobInv'
    <2>1. SUFFICES ASSUME job.step # "idle"
                   PROVE  JobInv'
        BY <1>u DEF JobInv
    <2>2. JobInv /\ job.proc \in Proc /\ DOMAIN meta[job.proc] \subseteq TmpFile
        BY <2>1 DEF AllAgentInv, AgentInv, JobInv, AgentTypeOK
    <2>3. ASSUME job.step = "download"
          PROVE  Prefix(job.got, mfile'[job.file].data)
        <3>1. job.file \in TmpFile /\ job.got \in Seq(Byte) /\ Prefix(job.got, mfile[job.file].data)
            BY <2>1, <2>2, <2>3, FilesAssumption DEF JobInv, AllAgentInv, AgentTypeOK, Job
        <3> QED
            BY <3>1, PrefixTransitive DEF MFilesGrow
    <2>4. ASSUME NEW f \in ReadOnly \cap DOMAIN meta[job.proc],
                 GoodFor(job.proc, f, buf[uses[job.proc][f]][f])
          PROVE  GoodFor(job.proc, f, buf[uses[job.proc][f]][f])'
        <3>1. f \in TmpFile /\ uses[job.proc][f] \in Proc
            BY <2>1, <2>2 DEF JobInv, AllAgentInv, AgentTypeOK
        <3>2. buf[uses[job.proc][f]][f] \in {Nothing} \cup Seq(Byte)
            BY <3>1 DEF AllAgentInv, AgentTypeOK
        <3> QED
            BY <1>u, <2>4, <3>1, <3>2, GoodForGrows DEF GoodFor
    <2> QED
        BY <1>u, <2>1, <2>2, <2>3, <2>4 DEF JobInv
<1>7. SeenInv'
    <2>1. ASSUME NEW p \in Proc, NEW f \in ReadOnly, GoodFor(p, f, seen[p][f])
          PROVE  GoodFor(p, f, seen[p][f])'
        <3>1. f \in TmpFile /\ seen[p][f] \in {Nothing} \cup Seq(Byte)
            BY FilesAssumption DEF AllAgentInv, AgentTypeOK
        <3> QED
            BY <1>u, <2>1, <3>1, GoodForGrows DEF GoodFor
    <2> QED
        BY <1>u, <2>1 DEF SeenInv, AllAgentInv, AgentInv
<1> QED
    BY <1>1, <1>2, <1>3, <1>4, <1>5, <1>6, <1>7 DEF AllAgentInv, AgentInv

\* What the invariant says of the parts, for the steps of the agent.
LEMMA AgentFacts ==
    ASSUME AllAgentInv
    PROVE  /\ AgentTypeOK /\ QueueInv /\ MetaInv /\ FreshInv /\ JobInv /\ SeenInv /\ OrderInv /\ CacheInv
           /\ \A p \in Proc : pstate[p] = "new" => ~Queued(p) /\ ~Active(p) /\ ~Started(p)
           /\ \A p \in Proc : Active(p) => Started(p)
<1>1. AgentTypeOK /\ QueueInv /\ MetaInv /\ FreshInv /\ JobInv /\ SeenInv /\ OrderInv /\ CacheInv
    BY DEF AllAgentInv, AgentInv
<1>2. \A p \in Proc : pstate[p] = "new" => ~Queued(p) /\ ~Started(p)
    BY <1>1 DEF QueueInv, Started
<1>3. \A p \in Proc : Active(p) => pstate[p] = "scheduled"
    BY <1>1 DEF JobInv, Active
<1>4. \A p \in Proc : Active(p) => Started(p)
    BY <1>1, <1>3 DEF QueueInv, Started
<1> QED
    BY <1>1, <1>2, <1>3, <1>4

\* A process is scheduled, with the versions the files have at this moment.
LEMMA ScheduleInv ==
    ASSUME AllAgentInv, mfile \in [TmpFile -> MFile], NEW p \in Proc, Schedule(p)
    PROVE  AllAgentInv'
<1> DEFINE files == {g \in TmpFile : mfile[g].exists}
           M == [f \in files |-> [iseq |-> mfile[f].iseq, len |-> Len(mfile[f].data)]]
<1>f. /\ AgentTypeOK /\ QueueInv /\ MetaInv /\ FreshInv /\ JobInv /\ SeenInv /\ OrderInv /\ CacheInv
      /\ \A q \in Proc : pstate[q] = "new" => ~Queued(q) /\ ~Active(q) /\ ~Started(q)
      /\ \A q \in Proc : Active(q) => Started(q)
    BY AgentFacts
<1>u. /\ cached' = cached /\ iseq' = iseq /\ buf' = buf /\ inst' = inst /\ uses' = uses
      /\ job' = job /\ seen' = seen /\ mfile' = mfile
      /\ pstate[p] = "new" /\ pstate' = [pstate EXCEPT ![p] = "scheduled"]
      /\ meta' = [meta EXCEPT ![p] = M]
      /\ signals' = Append(signals, <<"processScheduled", p>>)
    BY DEF Schedule, cacheVars
<1>d. \A g \in TmpFile : Len(mfile[g].data) \in Nat /\ mfile[g].iseq \in Nat
    BY LenProperties DEF MFile
<1>m. /\ DOMAIN M = files /\ files \subseteq TmpFile
      /\ \A g \in files : M[g].iseq = mfile[g].iseq /\ M[g].len = Len(mfile[g].data)
      /\ \A g \in files : M[g] \in [iseq : Nat, len : Nat]
    BY <1>d
<1> HIDE DEF M, files
<1>q. /\ signals' \in Seq(Signal) /\ Len(signals') = Len(signals) + 1 /\ Len(signals) \in Nat
      /\ \A i \in 1 .. Len(signals) : signals'[i] = signals[i]
      /\ signals'[Len(signals) + 1] = <<"processScheduled", p>>
      /\ \A q \in Proc : Queued(q)' <=> Queued(q) \/ q = p
    <2>1. PICK x \in Signal : x = <<"processScheduled", p>>
        BY DEF Signal
    <2>2. signals \in Seq(Signal) /\ signals' = Append(signals, x)
        BY <1>f, <1>u, <2>1 DEF AgentTypeOK
    <2>3. \A q : InQueue(signals', q) <=> InQueue(signals, q) \/ x = <<"processScheduled", q>>
        BY <2>2, AppendSignal, Zenon
    <2>4. \A q \in Proc : Queued(q)' <=> Queued(q) \/ q = p
        BY <2>1, <2>3 DEF Queued
    <2> QED
        BY <2>1, <2>2, <2>4, AppendSignal
<1>n. /\ DOMAIN meta' = Proc /\ meta'[p] = M
      /\ \A q \in Proc : q # p => meta'[q] = meta[q] /\ pstate'[q] = pstate[q]
      /\ pstate'[p] = "scheduled" /\ pstate' \in [Proc -> ProcState]
    BY <1>f, <1>u DEF AgentTypeOK, ProcState
<1>a. /\ \A q \in Proc : Active(q)' <=> Active(q)
      /\ \A q \in Proc : Started(q)' <=> Started(q)
      /\ ~Active(p) /\ ~Started(p) /\ ~Queued(p)
    <2>1. \A q \in Proc : Active(q)' <=> Active(q)
        BY <1>u DEF Active
    <2> QED
        BY <1>f, <1>u, <1>q, <1>n, <2>1 DEF Started
<1>1. AgentTypeOK'
    BY <1>f, <1>u, <1>q, <1>n, <1>m DEF AgentTypeOK
<1>2. QueueInv'
    <2>1. \A q \in Proc : Queued(q)' => pstate'[q] = "scheduled" /\ ~Active(q)'
        BY <1>f, <1>q, <1>n, <1>a DEF QueueInv
    <2>2. ASSUME NEW i \in 1 .. Len(signals'), NEW j \in 1 .. Len(signals'),
                 signals'[i] = signals'[j], signals'[i][1] = "processScheduled"
          PROVE  i = j
        <3>1. \A k \in 1 .. Len(signals') : k \in 1 .. Len(signals) \/ k = Len(signals) + 1
            BY <1>q
        <3>2. \A k \in 1 .. Len(signals) : signals[k] # <<"processScheduled", p>>
            BY <1>a DEF Queued, InQueue
        <3> QED
            BY <1>f, <1>q, <2>2, <3>1, <3>2 DEF QueueInv
    <2> QED
        BY <2>1, <2>2 DEF QueueInv
<1>3. MetaInv'
    BY <1>f, <1>u, <1>n, <1>m, <1>d DEF MetaInv
<1>4. FreshInv'
    BY <1>f, <1>u, <1>n, <1>q, <1>a DEF FreshInv
<1>5. JobInv'
    <2>1. job.step # "idle" => job.proc \in Proc /\ job.proc # p
        BY <1>f, <1>a DEF JobInv, Active
    <2> QED
        BY <1>f, <1>u, <1>n, <2>1 DEF JobInv, GoodFor
<1>6. SeenInv'
    <2>1. \A g \in TmpFile : seen[p][g] = Nothing
        BY <1>f, <1>u DEF SeenInv
    <2> QED
        BY <1>f, <1>u, <1>n, <2>1 DEF SeenInv, GoodFor
<1>7. OrderInv'
    <2>1. ASSUME NEW a \in Proc, NEW b \in Proc, NEW g \in TmpFile,
                 Started(a)', Queued(b)' \/ Active(b)',
                 g \in DOMAIN meta'[a], g \in DOMAIN meta'[b]
          PROVE  meta'[a][g].iseq <= meta'[b][g].iseq
        <3>1. a # p /\ Started(a) /\ meta'[a] = meta[a]
            BY <1>n, <1>a, <2>1
        <3>2. CASE b = p
            BY <1>f, <1>n, <1>m, <2>1, <3>1, <3>2 DEF MetaInv
        <3>3. CASE b # p
            BY <1>f, <1>n, <1>q, <1>a, <2>1, <3>1, <3>3 DEF OrderInv
        <3> QED
            BY <3>2, <3>3
    <2>2. ASSUME NEW i \in 1 .. Len(signals'), NEW j \in 1 .. Len(signals'),
                 NEW a \in Proc, NEW b \in Proc, NEW g \in TmpFile, i < j,
                 signals'[i] = <<"processScheduled", a>>, signals'[j] = <<"processScheduled", b>>,
                 g \in DOMAIN meta'[a], g \in DOMAIN meta'[b]
          PROVE  meta'[a][g].iseq <= meta'[b][g].iseq
        <3>1. i \in 1 .. Len(signals) /\ signals[i] = <<"processScheduled", a>>
            BY <1>q, <2>2
        <3>2. a # p /\ meta'[a] = meta[a]
            BY <1>n, <1>a, <3>1 DEF Queued, InQueue
        <3>3. CASE j \in 1 .. Len(signals)
            <4>1. signals[j] = <<"processScheduled", b>>
                BY <1>q, <2>2, <3>3
            <4>2. b # p /\ meta'[b] = meta[b]
                BY <1>n, <1>a, <3>3, <4>1 DEF Queued, InQueue
            <4> QED
                BY <1>f, <2>2, <3>1, <3>2, <3>3, <4>1, <4>2 DEF OrderInv
        <3>4. CASE j = Len(signals) + 1
            <4>1. b = p
                BY <1>q, <2>2, <3>4
            <4> QED
                BY <1>f, <1>n, <1>m, <2>2, <3>2, <4>1 DEF MetaInv
        <3> QED
            BY <1>q, <3>3, <3>4
    <2> QED
        BY <2>1, <2>2 DEF OrderInv
<1>8. CacheInv'
    <2>1. \A q \in Proc : Started(q) => Started(q)' /\ meta'[q] = meta[q]
        BY <1>n, <1>a
    <2>2. /\ \A g \in TmpFile : cached[g] # Nothing => cached[g] \in Proc
          /\ \A q \in Proc, g \in TmpFile : inst[q][g] # Nothing => inst[q][g] \in Proc
        BY <1>f DEF AgentTypeOK
    <2> QED
        BY <1>f, <1>u, <2>1, <2>2 DEF CacheInv
<1> QED
    BY <1>1, <1>2, <1>3, <1>4, <1>5, <1>6, <1>7, <1>8 DEF AllAgentInv, AgentInv

\* A file is deleted: the queue grows, and nothing else changes for the agent.
LEMMA DeleteFileInv ==
    ASSUME AllAgentInv, mfile \in [TmpFile -> MFile], NEW f \in TmpFile, DeleteFile(f)
    PROVE  AllAgentInv'
<1>f. /\ AgentTypeOK /\ QueueInv /\ MetaInv /\ FreshInv /\ JobInv /\ SeenInv /\ OrderInv /\ CacheInv
      /\ \A q \in Proc : pstate[q] = "new" => ~Queued(q) /\ ~Active(q) /\ ~Started(q)
      /\ \A q \in Proc : Active(q) => Started(q)
    BY AgentFacts
<1>u. /\ cached' = cached /\ iseq' = iseq /\ buf' = buf /\ inst' = inst /\ uses' = uses
      /\ job' = job /\ seen' = seen /\ meta' = meta /\ pstate' = pstate
      /\ signals' = Append(signals, <<"deleted", f>>)
      /\ \A g \in TmpFile : mfile'[g].data = mfile[g].data /\ mfile'[g].iseq = mfile[g].iseq
    BY DEF DeleteFile, cacheVars, MFile
<1>q. /\ signals' \in Seq(Signal) /\ Len(signals') = Len(signals) + 1 /\ Len(signals) \in Nat
      /\ \A i \in 1 .. Len(signals) : signals'[i] = signals[i]
      /\ signals'[Len(signals) + 1] = <<"deleted", f>>
      /\ \A q \in Proc : Queued(q)' <=> Queued(q)
    <2>1. PICK x \in Signal : x = <<"deleted", f>>
        BY DEF Signal
    <2>2. signals \in Seq(Signal) /\ signals' = Append(signals, x)
        BY <1>f, <1>u, <2>1 DEF AgentTypeOK
    <2>3. \A q : InQueue(signals', q) <=> InQueue(signals, q) \/ x = <<"processScheduled", q>>
        BY <2>2, AppendSignal, Zenon
    <2>4. \A q \in Proc : Queued(q)' <=> Queued(q)
        BY <2>1, <2>3 DEF Queued
    <2> QED
        BY <2>1, <2>2, <2>4, AppendSignal
<1>a. \A q \in Proc : (Active(q)' <=> Active(q)) /\ (Started(q)' <=> Started(q))
    BY <1>u, <1>q DEF Active, Started
<1>k. \A k \in 1 .. Len(signals') :
         \/ k \in 1 .. Len(signals) /\ signals'[k] = signals[k]
         \/ k = Len(signals) + 1 /\ signals'[k] = <<"deleted", f>>
    BY <1>q
<1>1. AgentTypeOK'
    BY <1>f, <1>u, <1>q DEF AgentTypeOK
<1>2. QueueInv'
    <2>1. \A q \in Proc : Queued(q)' => pstate'[q] = "scheduled" /\ ~Active(q)'
        BY <1>f, <1>u, <1>q, <1>a DEF QueueInv
    <2>2. ASSUME NEW i \in 1 .. Len(signals'), NEW j \in 1 .. Len(signals'),
                 signals'[i] = signals'[j], signals'[i][1] = "processScheduled"
          PROVE  i = j
        BY <1>f, <1>k, <2>2 DEF QueueInv
    <2> QED
        BY <2>1, <2>2 DEF QueueInv
<1>3. MetaInv'
    BY <1>f, <1>u DEF MetaInv, AgentTypeOK
<1>4. FreshInv'
    BY <1>f, <1>u, <1>q, <1>a DEF FreshInv
<1>5. JobInv'
    <2>1. job.step # "idle" => DOMAIN meta[job.proc] \subseteq TmpFile
        BY <1>f DEF JobInv, AgentTypeOK
    <2> QED
        BY <1>f, <1>u, <2>1 DEF JobInv, GoodFor
<1>6. SeenInv'
    BY <1>f, <1>u DEF SeenInv, GoodFor
<1>7. OrderInv'
    <2>1. ASSUME NEW i \in 1 .. Len(signals'), NEW j \in 1 .. Len(signals'),
                 NEW a \in Proc, NEW b \in Proc, NEW g \in TmpFile, i < j,
                 signals'[i] = <<"processScheduled", a>>, signals'[j] = <<"processScheduled", b>>,
                 g \in DOMAIN meta[a], g \in DOMAIN meta[b]
          PROVE  meta[a][g].iseq <= meta[b][g].iseq
        <3>1. /\ i \in 1 .. Len(signals) /\ signals[i] = <<"processScheduled", a>>
              /\ j \in 1 .. Len(signals) /\ signals[j] = <<"processScheduled", b>>
            BY <1>k, <2>1
        <3> QED
            BY <1>f, <2>1, <3>1 DEF OrderInv
    <2>2. ASSUME NEW a \in Proc, NEW b \in Proc, NEW g \in TmpFile,
                 Started(a)', Queued(b)' \/ Active(b)',
                 g \in DOMAIN meta[a], g \in DOMAIN meta[b]
          PROVE  meta[a][g].iseq <= meta[b][g].iseq
        BY <1>f, <1>q, <1>a, <2>2 DEF OrderInv
    <2>3. meta' = meta
        BY <1>u
    <2> QED
        BY <2>1, <2>2, <2>3 DEF OrderInv
<1>8. CacheInv'
    BY <1>f, <1>u, <1>a DEF CacheInv, AgentTypeOK
<1> QED
    BY <1>1, <1>2, <1>3, <1>4, <1>5, <1>6, <1>7, <1>8 DEF AllAgentInv, AgentInv

\* The agent begins to start the first process announced.
LEMMA StartProcessInv ==
    ASSUME AllAgentInv, StartProcess
    PROVE  AllAgentInv'
<1> DEFINE p == Head(signals)[2]
<1>f. /\ AgentTypeOK /\ QueueInv /\ MetaInv /\ FreshInv /\ JobInv /\ SeenInv /\ OrderInv /\ CacheInv
      /\ \A q \in Proc : pstate[q] = "new" => ~Queued(q) /\ ~Active(q) /\ ~Started(q)
      /\ \A q \in Proc : Active(q) => Started(q)
    BY AgentFacts
<1>u. /\ cached' = cached /\ buf' = buf /\ inst' = inst /\ mfile' = mfile
      /\ seen' = seen /\ meta' = meta /\ pstate' = pstate
      /\ iseq' = [iseq EXCEPT ![p] = [g \in TmpFile |-> IF g \in DOMAIN meta[p] THEN meta[p][g].iseq ELSE 0]]
      /\ uses' = [uses EXCEPT ![p] = [g \in TmpFile |-> IF g \in DOMAIN meta[p] THEN p ELSE Nothing]]
      /\ job' = [step |-> "attach", proc |-> p, todo |-> DOMAIN meta[p], file |-> Nothing, got |-> <<>>]
      /\ signals # <<>> /\ Head(signals)[1] = "processScheduled"
      /\ signals' = Tail(signals) /\ job.step = "idle"
    BY DEF StartProcess
<1> HIDE DEF p
<1>s. /\ signals \in Seq(Signal) /\ signals' \in Seq(Signal)
      /\ Len(signals) = Len(signals') + 1 /\ Len(signals') \in Nat
      /\ \A i \in 1 .. Len(signals') : signals'[i] = signals[i + 1]
      /\ Head(signals) \in Signal /\ signals[1] = Head(signals)
      /\ \A q : InQueue(signals, q) <=> InQueue(signals', q) \/ Head(signals) = <<"processScheduled", q>>
    <2>1. signals \in Seq(Signal)
        BY <1>f DEF AgentTypeOK
    <2> QED
        BY <1>u, <2>1, TailSignal
<1>p. p \in Proc /\ signals[1] = <<"processScheduled", p>> /\ Queued(p) /\ 1 \in 1 .. Len(signals)
    <2>1. p \in Proc /\ Head(signals) = <<"processScheduled", p>>
        BY <1>u, <1>s, SignalCases DEF p
    <2> QED
        BY <1>s, <2>1 DEF Queued
<1>q. \A q \in Proc : Queued(q)' <=> Queued(q) /\ q # p
    <2>1. ~InQueue(signals', p)
        <3>1. ASSUME NEW i \in 1 .. Len(signals'), signals'[i] = <<"processScheduled", p>>
              PROVE  FALSE
            <4>1. i + 1 \in 1 .. Len(signals) /\ signals[i + 1] = <<"processScheduled", p>> /\ i + 1 # 1
                BY <1>s, <3>1
            <4>2. signals[1][1] = "processScheduled"
                BY <1>p
            <4> QED
                BY <1>f, <1>p, <4>1, <4>2 DEF QueueInv
        <3> QED
            BY <3>1 DEF InQueue
    <2> QED
        BY <1>s, <1>p, <2>1 DEF Queued
<1>a. /\ \A q \in Proc : Active(q)' <=> q = p
      /\ \A q \in Proc : ~Active(q)
      /\ \A q \in Proc : Started(q)' <=> Started(q) \/ q = p
    <2>1. pstate[p] = "scheduled"
        BY <1>f, <1>p DEF QueueInv
    <2> QED
        BY <1>u, <1>p, <1>q, <2>1 DEF Active, Started
<1>t. /\ \A q \in Proc : q # p => uses'[q] = uses[q] /\ iseq'[q] = iseq[q]
      /\ \A g \in TmpFile : /\ uses'[p][g] = IF g \in DOMAIN meta[p] THEN p ELSE Nothing
                            /\ g \in DOMAIN meta[p] => iseq'[p][g] = meta[p][g].iseq
    BY <1>f, <1>u, <1>p DEF AgentTypeOK
<1>j. /\ job'.step = "attach" /\ job'.proc = p /\ job'.todo = DOMAIN meta[p]
      /\ DOMAIN meta[p] \subseteq TmpFile
    BY <1>f, <1>u, <1>p DEF AgentTypeOK
<1>1. AgentTypeOK'
    <2>1. iseq' \in [Proc -> [TmpFile -> Nat]] /\ uses' \in [Proc -> [TmpFile -> {Nothing} \cup Proc]]
        BY <1>f, <1>u, <1>p DEF AgentTypeOK
    <2>2. job' \in Job
        BY <1>u, <1>p, <1>j, EmptySeq DEF Job
    <2> QED
        BY <1>f, <1>u, <1>s, <2>1, <2>2 DEF AgentTypeOK
<1>2. QueueInv'
    <2>1. \A q \in Proc : Queued(q)' => pstate'[q] = "scheduled" /\ ~Active(q)'
        BY <1>f, <1>u, <1>q, <1>a DEF QueueInv
    <2>2. ASSUME NEW i \in 1 .. Len(signals'), NEW j \in 1 .. Len(signals'),
                 signals'[i] = signals'[j], signals'[i][1] = "processScheduled"
          PROVE  i = j
        <3>1. /\ i + 1 \in 1 .. Len(signals) /\ j + 1 \in 1 .. Len(signals)
              /\ signals'[i] = signals[i + 1] /\ signals'[j] = signals[j + 1]
            BY <1>s
        <3>2. i + 1 = j + 1
            BY <1>f, <2>2, <3>1 DEF QueueInv
        <3> QED
            BY <3>2
    <2> QED
        BY <2>1, <2>2 DEF QueueInv
<1>3. MetaInv'
    BY <1>f, <1>u DEF MetaInv
<1>4. FreshInv'
    <2>1. ASSUME NEW q \in Proc, NEW g \in TmpFile,
                 pstate'[q] = "new" \/ Queued(q)' \/ (Active(q)' /\ g \in job'.todo)
          PROVE  /\ buf'[q][g] = Nothing /\ cached'[g] # q
                 /\ \A r \in Proc : r # q => uses'[r][g] # q
        <3>1. pstate[q] = "new" \/ Queued(q)
            BY <1>u, <1>p, <1>q, <1>a, <2>1
        <3>2. buf[q][g] = Nothing /\ cached[g] # q /\ \A r \in Proc : r # q => uses[r][g] # q
            BY <1>f, <3>1 DEF FreshInv
        <3> QED
            BY <1>u, <1>t, <3>2, FilesAssumption
    <2> QED
        BY <2>1 DEF FreshInv
<1>5. JobInv'
    <2>1. pstate[p] = "scheduled"
        BY <1>f, <1>p DEF QueueInv
    <2> QED
        BY <1>u, <1>p, <1>t, <1>j, <2>1, FilesAssumption DEF JobInv
<1>6. SeenInv'
    BY <1>f, <1>u DEF SeenInv, GoodFor
<1>7. OrderInv'
    <2>1. ASSUME NEW a \in Proc, NEW b \in Proc, NEW g \in TmpFile,
                 Started(a)', Queued(b)' \/ Active(b)',
                 g \in DOMAIN meta[a], g \in DOMAIN meta[b]
          PROVE  meta[a][g].iseq <= meta[b][g].iseq
        <3>1. Queued(b)
            BY <1>p, <1>q, <1>a, <2>1
        <3>2. CASE Started(a)
            BY <1>f, <2>1, <3>1, <3>2 DEF OrderInv
        <3>3. CASE a = p /\ b = p
            BY <1>f, <2>1, <3>3 DEF AgentTypeOK
        <3>4. CASE a = p /\ b # p
            <4>1. PICK i \in 1 .. Len(signals) : signals[i] = <<"processScheduled", b>>
                BY <3>1 DEF Queued, InQueue
            <4>2. i # 1
                BY <1>p, <3>4, <4>1
            <4>3. 1 < i
                BY <4>2
            <4> QED
                BY <1>f, <1>p, <2>1, <3>4, <4>1, <4>3 DEF OrderInv
        <3> QED
            BY <1>a, <2>1, <3>2, <3>3, <3>4
    <2>2. ASSUME NEW i \in 1 .. Len(signals'), NEW j \in 1 .. Len(signals'),
                 NEW a \in Proc, NEW b \in Proc, NEW g \in TmpFile, i < j,
                 signals'[i] = <<"processScheduled", a>>, signals'[j] = <<"processScheduled", b>>,
                 g \in DOMAIN meta[a], g \in DOMAIN meta[b]
          PROVE  meta[a][g].iseq <= meta[b][g].iseq
        <3>1. /\ i + 1 \in 1 .. Len(signals) /\ signals[i + 1] = <<"processScheduled", a>>
              /\ j + 1 \in 1 .. Len(signals) /\ signals[j + 1] = <<"processScheduled", b>>
              /\ i + 1 < j + 1
            BY <1>s, <2>2
        <3> QED
            BY <1>f, <2>2, <3>1 DEF OrderInv
    <2>3. meta' = meta
        BY <1>u
    <2>4. \A a, b \in Proc, g \in TmpFile :
             /\ Started(a)' /\ (Queued(b)' \/ Active(b)')
             /\ g \in DOMAIN meta'[a] /\ g \in DOMAIN meta'[b]
             => meta'[a][g].iseq <= meta'[b][g].iseq
        BY <2>1, <2>3
    <2>5. \A i, j \in 1 .. Len(signals'), a, b \in Proc, g \in TmpFile :
             /\ i < j
             /\ signals'[i] = <<"processScheduled", a>> /\ signals'[j] = <<"processScheduled", b>>
             /\ g \in DOMAIN meta'[a] /\ g \in DOMAIN meta'[b]
             => meta'[a][g].iseq <= meta'[b][g].iseq
        BY <2>2, <2>3
    <2> QED
        BY <2>4, <2>5 DEF OrderInv
<1>8. CacheInv'
    <2>1. \A g \in TmpFile : cached[g] # p
        BY <1>f, <1>p DEF FreshInv
    <2>2. /\ \A g \in TmpFile : cached[g] # Nothing => cached[g] \in Proc
          /\ \A q \in Proc, g \in TmpFile : inst[q][g] # Nothing => inst[q][g] \in Proc
        BY <1>f DEF AgentTypeOK
    <2> QED
        BY <1>f, <1>u, <1>a, <1>t, <2>1, <2>2 DEF CacheInv
<1> QED
    BY <1>1, <1>2, <1>3, <1>4, <1>5, <1>6, <1>7, <1>8 DEF AllAgentInv, AgentInv

\* What the queue and the process being started are not concerned with.
LEMMA QueueKept ==
    ASSUME AllAgentInv, UNCHANGED <<signals, meta>>,
           \A q \in Proc : Active(q)' => Active(q),
           \A q \in Proc : Queued(q) => pstate'[q] = pstate[q],
           \A q \in Proc : pstate'[q] = "new" <=> pstate[q] = "new"
    PROVE  /\ QueueInv' /\ OrderInv'
           /\ \A q \in Proc : (Queued(q)' <=> Queued(q)) /\ (Started(q)' <=> Started(q))
<1>f. /\ AgentTypeOK /\ QueueInv /\ MetaInv /\ FreshInv /\ JobInv /\ SeenInv /\ OrderInv /\ CacheInv
      /\ \A q \in Proc : pstate[q] = "new" => ~Queued(q) /\ ~Active(q) /\ ~Started(q)
      /\ \A q \in Proc : Active(q) => Started(q)
    BY AgentFacts
<1>1. \A q \in Proc : Queued(q)' <=> Queued(q)
    BY DEF Queued
<1>2. \A q \in Proc : Started(q)' <=> Started(q)
    BY <1>1 DEF Started
<1>3. QueueInv'
    <2>1. \A q \in Proc : Queued(q)' => pstate'[q] = "scheduled" /\ ~Active(q)'
        BY <1>f, <1>1 DEF QueueInv
    <2> QED
        BY <1>f, <2>1 DEF QueueInv
<1>4. OrderInv'
    <2>1. ASSUME NEW a \in Proc, NEW b \in Proc, NEW g \in TmpFile,
                 Started(a)', Queued(b)' \/ Active(b)',
                 g \in DOMAIN meta[a], g \in DOMAIN meta[b]
          PROVE  meta[a][g].iseq <= meta[b][g].iseq
        BY <1>f, <1>1, <1>2, <2>1 DEF OrderInv
    <2> QED
        BY <1>f, <2>1 DEF OrderInv
<1> QED
    BY <1>1, <1>2, <1>3, <1>4

\* A file of the process being started is attached.
LEMMA AttachInv ==
    ASSUME AllAgentInv, mfile \in [TmpFile -> MFile], NEW f \in TmpFile, Attach(f)
    PROVE  AllAgentInv'
<1> DEFINE p == job.proc
           g == cached[f]
<1>f. /\ AgentTypeOK /\ QueueInv /\ MetaInv /\ FreshInv /\ JobInv /\ SeenInv /\ OrderInv /\ CacheInv
      /\ \A q \in Proc : pstate[q] = "new" => ~Queued(q) /\ ~Active(q) /\ ~Started(q)
      /\ \A q \in Proc : Active(q) => Started(q)
    BY AgentFacts
<1>u. /\ mfile' = mfile /\ signals' = signals /\ meta' = meta /\ iseq' = iseq /\ pstate' = pstate
      /\ job.step = "attach" /\ f \in job.todo
    BY DEF Attach
<1>p. /\ p \in Proc /\ Active(p) /\ Started(p) /\ f \in DOMAIN meta[p] /\ uses[p][f] = p
      /\ iseq[p][f] = meta[p][f].iseq /\ DOMAIN meta[p] \subseteq TmpFile
      /\ buf[p][f] = Nothing
    BY <1>f, <1>u DEF JobInv, FreshInv, Active, AgentTypeOK
<1>c. /\ cached[f] = Nothing \/ cached[f] \in Proc
      /\ \/ /\ cached[f] = Nothing
            /\ cached' = [cached EXCEPT ![f] = p] /\ job' = Need(f)
            /\ buf' = buf /\ inst' = inst /\ uses' = uses /\ seen' = seen
         \/ /\ g # Nothing /\ iseq[g][f] = iseq[p][f]
            /\ job' = [job EXCEPT !.todo = job.todo \ {f}]
            /\ cached' = cached /\ buf' = buf /\ inst' = inst /\ uses' = uses /\ seen' = seen
         \/ /\ g # Nothing /\ drop_cache(g, f) /\ cached' = cached
            /\ uses' = [uses EXCEPT ![p][f] = g] /\ job' = Need(f)
    BY <1>f DEF Attach, AgentTypeOK
<1>n. \/ job' = Need(f)
      \/ job' = [job EXCEPT !.todo = job.todo \ {f}]
    BY <1>c
<1>j. /\ job' \in Job /\ job'.proc = p /\ job'.todo = job.todo \ {f}
      /\ job'.step \in {"attach", "download"}
      /\ job'.step = "download" => job'.file = f /\ f \in ReadOnly /\ job'.got = <<>>
      /\ f \in ReadOnly /\ job' = Need(f) => job'.step = "download"
    <2>1. job \in Job /\ <<>> \in Seq(Byte)
        BY <1>f, EmptySeq DEF AgentTypeOK
    <2>2. CASE f \in ReadOnly /\ job' = Need(f)
        <3>1. job' = [job EXCEPT !.step = "download", !.file = f, !.todo = job.todo \ {f}, !.got = <<>>]
            BY <2>2 DEF Need
        <3> QED
            BY <1>u, <2>1, <2>2, <3>1 DEF Job
    <2>3. CASE ~(f \in ReadOnly /\ job' = Need(f))
        <3>1. job' = [job EXCEPT !.todo = job.todo \ {f}]
            BY <1>n, <2>3 DEF Need
        <3>2. /\ job' \in Job /\ job'.proc = p /\ job'.todo = job.todo \ {f}
              /\ job'.step = "attach"
            BY <1>u, <2>1, <3>1 DEF Job
        <3> QED
            BY <2>3, <3>2
    <2> QED
        BY <2>2, <2>3
<1>a. \A q \in Proc : Active(q)' <=> Active(q)
    BY <1>u, <1>j DEF Active
<1>q. /\ QueueInv' /\ OrderInv'
      /\ \A q \in Proc : (Queued(q)' <=> Queued(q)) /\ (Started(q)' <=> Started(q))
    BY <1>u, <1>a, QueueKept
\* What the three cases have in common.
<1>w. /\ cached' = cached \/ cached' = [cached EXCEPT ![f] = p]
      /\ uses' = uses \/ (g # Nothing /\ uses' = [uses EXCEPT ![p][f] = g])
      /\ buf' = buf \/ (g # Nothing /\ buf' = [buf EXCEPT ![g][f] = Nothing])
      /\ inst' = inst \/ (g # Nothing /\ inst' = [inst EXCEPT ![g][f] = Nothing])
      /\ seen' = seen \/ \E q \in Proc : seen' = [seen EXCEPT ![q][f] = Nothing]
    <2>1. g # Nothing => inst[g][f] = Nothing \/ inst[g][f] \in Proc
        BY <1>f, <1>c DEF AgentTypeOK
    <2> QED
        BY <1>c, <2>1 DEF drop_cache
<1>v. /\ buf \in [Proc -> [TmpFile -> {Nothing} \cup Seq(Byte)]]
      /\ seen \in [Proc -> [TmpFile -> {Nothing} \cup Seq(Byte)]]
      /\ inst \in [Proc -> [TmpFile -> {Nothing} \cup Proc]]
      /\ uses \in [Proc -> [TmpFile -> {Nothing} \cup Proc]]
      /\ cached \in [TmpFile -> {Nothing} \cup Proc]
      /\ p \in Proc /\ (g # Nothing => g \in Proc)
      /\ Nothing \in {Nothing} \cup Seq(Byte) /\ Nothing \in {Nothing} \cup Proc
    BY <1>f, <1>p, <1>c DEF AgentTypeOK
<1> HIDE DEF p, g
<1>x1. /\ uses' \in [Proc -> [TmpFile -> {Nothing} \cup Proc]]
       /\ \A q \in Proc, h \in TmpFile :
             uses'[q][h] = uses[q][h] \/ (q = p /\ h = f /\ uses'[q][h] = g /\ g # Nothing)
    <2>1. CASE uses' = uses
        BY <1>v, <2>1, Zenon
    <2>2. CASE g # Nothing /\ uses' = [uses EXCEPT ![p][f] = g]
        <3>1. g \in Proc /\ p \in Proc /\ uses \in [Proc -> [TmpFile -> {Nothing} \cup Proc]]
            BY <1>v, <2>2
        <3>2. /\ uses' \in [Proc -> [TmpFile -> {Nothing} \cup Proc]]
              /\ \A q \in Proc, h \in TmpFile :
                    uses'[q][h] = IF q = p /\ h = f THEN g ELSE uses[q][h]
            BY <2>2, <3>1
        <3> QED
            BY <2>2, <3>2
    <2> QED
        BY <1>w, <2>1, <2>2
<1>x2. /\ buf' \in [Proc -> [TmpFile -> {Nothing} \cup Seq(Byte)]]
       /\ \A q \in Proc, h \in TmpFile : buf'[q][h] = buf[q][h] \/ (h = f /\ buf'[q][h] = Nothing)
    <2>1. CASE buf' = buf
        BY <1>v, <2>1, Zenon
    <2>2. CASE g # Nothing /\ buf' = [buf EXCEPT ![g][f] = Nothing]
        <3>1. g \in Proc /\ buf \in [Proc -> [TmpFile -> {Nothing} \cup Seq(Byte)]]
            BY <1>v, <2>2
        <3>2. /\ buf' \in [Proc -> [TmpFile -> {Nothing} \cup Seq(Byte)]]
              /\ \A q \in Proc, h \in TmpFile :
                    buf'[q][h] = IF q = g /\ h = f THEN Nothing ELSE buf[q][h]
            BY <2>2, <3>1
        <3> QED
            BY <3>2
    <2> QED
        BY <1>w, <2>1, <2>2
<1>x3. /\ inst' \in [Proc -> [TmpFile -> {Nothing} \cup Proc]]
       /\ \A q \in Proc, h \in TmpFile : inst'[q][h] = inst[q][h] \/ inst'[q][h] = Nothing
    <2>1. CASE inst' = inst
        BY <1>v, <2>1, Zenon
    <2>2. CASE g # Nothing /\ inst' = [inst EXCEPT ![g][f] = Nothing]
        <3>1. g \in Proc /\ inst \in [Proc -> [TmpFile -> {Nothing} \cup Proc]]
            BY <1>v, <2>2
        <3>2. /\ inst' \in [Proc -> [TmpFile -> {Nothing} \cup Proc]]
              /\ \A q \in Proc, h \in TmpFile :
                    inst'[q][h] = IF q = g /\ h = f THEN Nothing ELSE inst[q][h]
            BY <2>2, <3>1
        <3> QED
            BY <3>2
    <2> QED
        BY <1>w, <2>1, <2>2
<1>x4. /\ seen' \in [Proc -> [TmpFile -> {Nothing} \cup Seq(Byte)]]
       /\ \A q \in Proc, h \in TmpFile : seen'[q][h] = seen[q][h] \/ seen'[q][h] = Nothing
    <2>1. CASE seen' = seen
        BY <1>v, <2>1, Zenon
    <2>2. ASSUME NEW r \in Proc, seen' = [seen EXCEPT ![r][f] = Nothing]
          PROVE  /\ seen' \in [Proc -> [TmpFile -> {Nothing} \cup Seq(Byte)]]
                 /\ \A q \in Proc, h \in TmpFile : seen'[q][h] = seen[q][h] \/ seen'[q][h] = Nothing
        <3>1. r \in Proc /\ seen \in [Proc -> [TmpFile -> {Nothing} \cup Seq(Byte)]]
            BY <1>v, <2>2
        <3>2. /\ seen' \in [Proc -> [TmpFile -> {Nothing} \cup Seq(Byte)]]
              /\ \A q \in Proc, h \in TmpFile :
                    seen'[q][h] = IF q = r /\ h = f THEN Nothing ELSE seen[q][h]
            BY <2>2, <3>1
        <3> QED
            BY <3>2
    <2> QED
        BY <1>w, <2>1, <2>2
<1>x5. /\ cached' \in [TmpFile -> {Nothing} \cup Proc]
       /\ \A h \in TmpFile : cached'[h] = cached[h] \/ (h = f /\ cached'[h] = p)
    BY <1>v, <1>w
<1>y. /\ \A q \in Proc, h \in TmpFile :
            /\ buf'[q][h] = buf[q][h] \/ (h = f /\ buf'[q][h] = Nothing)
            /\ seen'[q][h] = seen[q][h] \/ seen'[q][h] = Nothing
            /\ inst'[q][h] = inst[q][h] \/ inst'[q][h] = Nothing
            /\ uses'[q][h] = uses[q][h] \/ (q = p /\ h = f /\ uses'[q][h] = g /\ g # Nothing)
      /\ \A h \in TmpFile : cached'[h] = cached[h] \/ (h = f /\ cached'[h] = p)
      /\ g = cached[f]
    BY <1>x1, <1>x2, <1>x3, <1>x4, <1>x5 DEF g
<1>1. AgentTypeOK'
    BY <1>f, <1>u, <1>j, <1>x1, <1>x2, <1>x3, <1>x4, <1>x5 DEF AgentTypeOK
<1>2. QueueInv'
    BY <1>q
<1>3. MetaInv'
    BY <1>f, <1>u DEF MetaInv
<1>4. FreshInv'
    <2>1. ASSUME NEW q \in Proc, NEW h \in TmpFile,
                 pstate'[q] = "new" \/ Queued(q)' \/ (Active(q)' /\ h \in job'.todo)
          PROVE  /\ buf'[q][h] = Nothing /\ cached'[h] # q
                 /\ \A r \in Proc : r # q => uses'[r][h] # q
        <3>1. pstate[q] = "new" \/ Queued(q) \/ (Active(q) /\ h \in job.todo /\ h # f)
            BY <1>u, <1>q, <1>a, <1>j, <2>1
        <3>2. buf[q][h] = Nothing /\ cached[h] # q /\ \A r \in Proc : r # q => uses[r][h] # q
            BY <1>f, <3>1 DEF FreshInv
        <3>3. h = f => q # p
            BY <1>f, <1>p, <3>1 DEF QueueInv
        <3> QED
            BY <1>y, <3>2, <3>3
    <2> QED
        BY <2>1 DEF FreshInv
<1>5. JobInv'
    <2>1. pstate[p] = "scheduled" /\ job'.todo \subseteq DOMAIN meta[p]
        BY <1>f, <1>u, <1>j DEF JobInv, p
    <2>2. \A h \in TmpFile : h \in DOMAIN meta[p] <=> uses'[p][h] # Nothing
        BY <1>f, <1>u, <1>p, <1>y DEF JobInv, p
    <2>3. \A h \in DOMAIN meta[p] : iseq[p][h] = meta[p][h].iseq
        BY <1>f, <1>u DEF JobInv, p
    <2>4. \A h \in job'.todo : uses'[p][h] = p
        <3>1. \A h \in job.todo : uses[p][h] = p /\ h \in TmpFile
            BY <1>f, <1>u, <1>p DEF JobInv, p
        <3> QED
            BY <1>p, <1>j, <1>y, <3>1
    <2>5. job'.step = "download" => Prefix(<<>>, mfile[f].data)
        <3>1. Len(mfile[f].data) \in Nat /\ Len(<<>>) = 0
            BY LenProperties, EmptySeq DEF MFile
        <3> QED
            BY <3>1 DEF Prefix
    <2>6. ASSUME NEW h \in ReadOnly \cap DOMAIN meta[p],
                 h \notin job'.todo, ~(job'.step = "download" /\ job'.file = h)
          PROVE  GoodFor(p, h, buf'[uses'[p][h]][h])
        <3>0. h \in TmpFile
            BY <1>p, <2>6
        <3>1. CASE h # f
            <4>1. h \notin job.todo
                BY <1>j, <2>6, <3>1
            <4>2. GoodFor(p, h, buf[uses[p][h]][h])
                BY <1>f, <1>u, <2>6, <4>1 DEF JobInv, p
            <4>3. uses[p][h] \in Proc
                BY <1>f, <1>u, <1>p, <2>6, <3>0 DEF JobInv, AgentTypeOK, p
            <4>4. uses'[p][h] = uses[p][h] /\ buf'[uses[p][h]][h] = buf[uses[p][h]][h]
                BY <1>p, <1>y, <3>0, <3>1, <4>3
            <4> QED
                BY <4>2, <4>4
        <3>2. CASE h = f
            <4>1. job' # Need(f)
                BY <1>j, <2>6, <3>2
            <4>2. uses' = uses /\ buf' = buf
                BY <1>c, <4>1
            <4> QED
                BY <1>p, <3>2, <4>2 DEF GoodFor
        <3> QED
            BY <3>1, <3>2
    <2>7. job'.step = "download" => job'.file \in ReadOnly /\ job'.file \in DOMAIN meta[p] /\ job'.file \notin job'.todo
        BY <1>p, <1>j
    <2> QED
        BY <1>u, <1>p, <1>j, <2>1, <2>2, <2>3, <2>4, <2>5, <2>6, <2>7 DEF JobInv, GoodFor
<1>6. SeenInv'
    BY <1>f, <1>u, <1>y DEF SeenInv, GoodFor
<1>7. OrderInv'
    BY <1>q
<1>8. CacheInv'
    <2>1. /\ \A h \in TmpFile : cached[h] # Nothing => cached[h] \in Proc
          /\ \A q \in Proc, h \in TmpFile : inst[q][h] # Nothing => inst[q][h] \in Proc
        BY <1>f DEF AgentTypeOK
    <2> QED
        BY <1>f, <1>u, <1>p, <1>q, <1>y, <2>1 DEF CacheInv
<1> QED
    BY <1>1, <1>2, <1>3, <1>4, <1>5, <1>6, <1>7, <1>8 DEF AllAgentInv, AgentInv

\* A chunk of a file is downloaded.  The last one is not full, so what was
\* fetched by then is all the master has.
LEMMA DownloadInv ==
    ASSUME AllAgentInv, mfile \in [TmpFile -> MFile], Download
    PROVE  AllAgentInv'
<1> DEFINE p == job.proc
           f == job.file
           data == retrieve(f, Len(job.got))
           got == job.got \o data
<1>f. /\ AgentTypeOK /\ QueueInv /\ MetaInv /\ FreshInv /\ JobInv /\ SeenInv /\ OrderInv /\ CacheInv
      /\ \A q \in Proc : pstate[q] = "new" => ~Queued(q) /\ ~Active(q) /\ ~Started(q)
      /\ \A q \in Proc : Active(q) => Started(q)
    BY AgentFacts
<1>u. /\ mfile' = mfile /\ signals' = signals /\ meta' = meta /\ iseq' = iseq /\ pstate' = pstate
      /\ cached' = cached /\ inst' = inst /\ uses' = uses /\ seen' = seen /\ job.step = "download"
    BY DEF Download, fvars
<1>c. \/ /\ Len(data) < Chunk
         /\ buf' = [buf EXCEPT ![uses[p][f]][f] = got]
         /\ job' = [job EXCEPT !.step = "attach", !.file = Nothing, !.got = <<>>]
      \/ /\ buf' = buf
         /\ job' = [job EXCEPT !.got = got]
    BY DEF Download
<1>p. /\ p \in Proc /\ pstate[p] = "scheduled" /\ f \in ReadOnly /\ f \in DOMAIN meta[p] /\ f \notin job.todo
      /\ Prefix(job.got, mfile[f].data) /\ DOMAIN meta[p] \subseteq TmpFile
      /\ \A h \in DOMAIN meta[p] : uses[p][h] \in Proc
    BY <1>f, <1>u DEF JobInv, AgentTypeOK
<1>d. /\ job \in Job /\ job.got \in Seq(Byte) /\ mfile[f].data \in Seq(Byte)
    BY <1>f, <1>p DEF AgentTypeOK, Job, MFile
<1>g. /\ got \in Seq(Byte) /\ Prefix(got, mfile[f].data)
      /\ Len(data) < Chunk => Len(got) = Len(mfile[f].data)
    <2> DEFINE d == mfile[f].data
               tail == SubSeq(d, Len(job.got) + 1, Len(d))
    <2>1. Len(job.got) \in 0 .. Len(d) /\ Len(d) \in Nat
        BY <1>p, <1>d, LenProperties DEF Prefix
    <2>2. tail \in Seq(Byte) /\ Len(tail) = Len(d) - Len(job.got)
        BY <1>d, <2>1, SplitSeq
    <2>3. data = FirstChunk(tail)
        BY DEF retrieve
    <2> HIDE DEF tail, data
    <2>4. /\ data \in Seq(Byte) /\ Len(data) \in 0 .. Len(tail)
          /\ Len(data) < Chunk => Len(data) = Len(tail)
          /\ \A i \in 1 .. Len(data) : data[i] = tail[i]
        BY <2>2, <2>3, FirstChunkProperties
    <2>5. Len(data) <= Len(d) - Len(job.got)
        BY <2>1, <2>2, <2>4
    <2>6. got \in Seq(Byte) /\ Len(got) = Len(job.got) + Len(data) /\ Prefix(got, d)
        BY <1>p, <1>d, <2>4, <2>5, PrefixExtends DEF tail
    <2> QED
        BY <2>1, <2>2, <2>4, <2>6
<1> HIDE DEF data, got
<1>j. /\ job' \in Job /\ job'.proc = p /\ job'.todo = job.todo /\ job'.step \in {"attach", "download"}
      /\ job'.step = "download" => job'.file = f /\ job'.got = got /\ buf' = buf
      /\ job'.step = "attach" => Len(data) < Chunk /\ buf' = [buf EXCEPT ![uses[p][f]][f] = got]
    <2>1. CASE /\ Len(data) < Chunk /\ buf' = [buf EXCEPT ![uses[p][f]][f] = got]
               /\ job' = [job EXCEPT !.step = "attach", !.file = Nothing, !.got = <<>>]
        <3>1. <<>> \in Seq(Byte)
            BY EmptySeq
        <3> QED
            BY <1>d, <2>1, <3>1 DEF Job
    <2>2. CASE buf' = buf /\ job' = [job EXCEPT !.got = got]
        BY <1>u, <1>d, <1>g, <2>2 DEF Job
    <2> QED
        BY <1>c, <2>1, <2>2
<1>b. /\ buf' \in [Proc -> [TmpFile -> {Nothing} \cup Seq(Byte)]]
      /\ \A q \in Proc, h \in TmpFile :
            \/ buf'[q][h] = buf[q][h]
            \/ q = uses[p][f] /\ h = f
      /\ job'.step = "attach" => buf'[uses[p][f]][f] = got
    <2>1. /\ buf \in [Proc -> [TmpFile -> {Nothing} \cup Seq(Byte)]]
          /\ uses[p][f] \in Proc /\ f \in TmpFile
        BY <1>f, <1>p DEF AgentTypeOK
    <2>2. CASE job'.step = "attach"
        <3>1. buf' = [buf EXCEPT ![uses[p][f]][f] = got]
            BY <1>j, <2>2
        <3> QED
            BY <1>g, <2>1, <3>1
    <2>3. CASE job'.step = "download"
        BY <1>j, <2>1, <2>3
    <2> QED
        BY <1>j, <2>2, <2>3
<1> HIDE DEF p, f
<1>a. \A q \in Proc : Active(q)' <=> Active(q)
    BY <1>u, <1>j DEF Active, p
<1>q. /\ QueueInv' /\ OrderInv'
      /\ \A q \in Proc : (Queued(q)' <=> Queued(q)) /\ (Started(q)' <=> Started(q))
    BY <1>u, <1>a, QueueKept
<1>e. Active(p) /\ Started(p)
    BY <1>f, <1>u, <1>p DEF Active, p
<1>1. AgentTypeOK'
    BY <1>f, <1>u, <1>j, <1>b DEF AgentTypeOK
<1>2. QueueInv'
    BY <1>q
<1>3. MetaInv'
    BY <1>f, <1>u DEF MetaInv
<1>4. FreshInv'
    <2>1. ASSUME NEW q \in Proc, NEW h \in TmpFile,
                 pstate'[q] = "new" \/ Queued(q)' \/ (Active(q)' /\ h \in job'.todo)
          PROVE  /\ buf'[q][h] = Nothing /\ cached'[h] # q
                 /\ \A r \in Proc : r # q => uses'[r][h] # q
        <3>1. pstate[q] = "new" \/ Queued(q) \/ (Active(q) /\ h \in job.todo)
            BY <1>u, <1>q, <1>a, <1>j, <2>1
        <3>2. buf[q][h] = Nothing /\ cached[h] # q /\ \A r \in Proc : r # q => uses[r][h] # q
            BY <1>f, <3>1 DEF FreshInv
        <3>3. h = f => q # p
            BY <1>f, <1>p, <1>e, <3>1 DEF QueueInv
        <3> QED
            BY <1>u, <1>p, <1>b, <3>2, <3>3
    <2> QED
        BY <2>1 DEF FreshInv
<1>5. JobInv'
    <2>1. /\ job'.todo \subseteq DOMAIN meta[p]
          /\ \A h \in TmpFile : h \in DOMAIN meta[p] <=> uses[p][h] # Nothing
          /\ \A h \in DOMAIN meta[p] : iseq[p][h] = meta[p][h].iseq
          /\ \A h \in job'.todo : uses[p][h] = p
        BY <1>f, <1>u, <1>j DEF JobInv, p
    <2>2. ASSUME NEW h \in ReadOnly \cap DOMAIN meta[p],
                 h \notin job'.todo, ~(job'.step = "download" /\ job'.file = h)
          PROVE  GoodFor(p, h, buf'[uses[p][h]][h])
        <3>1. h \in TmpFile /\ uses[p][h] \in Proc
            BY <1>p, <2>2
        <3>2. CASE h # f
            <4>1. GoodFor(p, h, buf[uses[p][h]][h])
                BY <1>f, <1>u, <1>j, <2>2, <3>2 DEF JobInv, p, f
            <4> QED
                BY <1>b, <3>1, <3>2, <4>1
        <3>3. CASE h = f
            <4>1. job'.step = "attach" /\ Len(data) < Chunk
                BY <1>j, <2>2, <3>3
            <4>2. buf'[uses[p][h]][h] = got /\ Len(got) = Len(mfile[f].data)
                BY <1>g, <1>b, <3>3, <4>1
            <4>3. meta[p][f].len <= Len(mfile[f].data)
                BY <1>f, <1>p DEF MetaInv
            <4> QED
                BY <1>g, <3>3, <4>2, <4>3 DEF GoodFor
        <3> QED
            BY <3>2, <3>3
    <2> QED
        BY <1>u, <1>p, <1>j, <1>g, <2>1, <2>2 DEF JobInv, GoodFor
<1>6. SeenInv'
    BY <1>f, <1>u DEF SeenInv, GoodFor
<1>7. OrderInv'
    BY <1>q
<1>8. CacheInv'
    <2>1. /\ \A h \in TmpFile : cached[h] # Nothing => cached[h] \in Proc
          /\ \A q \in Proc, h \in TmpFile : inst[q][h] # Nothing => inst[q][h] \in Proc
        BY <1>f DEF AgentTypeOK
    <2> QED
        BY <1>f, <1>u, <1>q, <2>1 DEF CacheInv
<1> QED
    BY <1>1, <1>2, <1>3, <1>4, <1>5, <1>6, <1>7, <1>8 DEF AllAgentInv, AgentInv

\* The process being started becomes one that runs, or that never will.
LEMMA EndOfStart ==
    ASSUME AllAgentInv, mfile \in [TmpFile -> MFile], DownloadFails \/ RunProcess
    PROVE  AllAgentInv'
<1> DEFINE p == job.proc
<1>f. /\ AgentTypeOK /\ QueueInv /\ MetaInv /\ FreshInv /\ JobInv /\ SeenInv /\ OrderInv /\ CacheInv
      /\ \A q \in Proc : pstate[q] = "new" => ~Queued(q) /\ ~Active(q) /\ ~Started(q)
      /\ \A q \in Proc : Active(q) => Started(q)
    BY AgentFacts
<1>u. /\ mfile' = mfile /\ signals' = signals /\ meta' = meta /\ iseq' = iseq /\ cached' = cached
      /\ buf' = buf /\ uses' = uses /\ job' = NoJob /\ job.step # "idle"
      /\ \E st \in {"running", "nonstarter"} : pstate' = [pstate EXCEPT ![p] = st]
    BY DEF DownloadFails, RunProcess, fvars, cacheVars
<1>p. /\ p \in Proc /\ pstate[p] = "scheduled" /\ Active(p) /\ Started(p) /\ ~Queued(p)
      /\ DOMAIN meta[p] \subseteq TmpFile
    BY <1>f, <1>u DEF JobInv, Active, AgentTypeOK, QueueInv
<1>s. /\ pstate' \in [Proc -> ProcState] /\ pstate'[p] \in {"running", "nonstarter"}
      /\ \A q \in Proc : q # p => pstate'[q] = pstate[q]
    BY <1>f, <1>u, <1>p DEF AgentTypeOK, ProcState
<1>j. job' \in Job /\ job'.step = "idle"
    BY <1>u, EmptySeq DEF NoJob, Job
<1>a. \A q \in Proc : ~Active(q)'
    BY <1>j DEF Active
<1>q. /\ QueueInv' /\ OrderInv'
      /\ \A q \in Proc : (Queued(q)' <=> Queued(q)) /\ (Started(q)' <=> Started(q))
    BY <1>u, <1>p, <1>s, <1>a, QueueKept
<1> DEFINE files == {h \in TmpFile : uses[p][h] # Nothing}
<1>c. \/ seen' = seen /\ inst' = inst /\ pstate'[p] = "nonstarter"
      \/ /\ job.todo = {} /\ job.step = "attach" /\ pstate'[p] = "running"
         /\ seen' = [seen EXCEPT ![p] = [h \in TmpFile |-> IF h \in files THEN buf[uses[p][h]][h] ELSE Nothing]]
         /\ inst' = [q \in Proc |-> [h \in TmpFile |-> IF h \in files /\ uses[p][h] = q THEN p ELSE inst[q][h]]]
    BY <1>f, <1>p DEF DownloadFails, RunProcess, cacheVars, AgentTypeOK
<1>v. /\ seen \in [Proc -> [TmpFile -> {Nothing} \cup Seq(Byte)]]
      /\ inst \in [Proc -> [TmpFile -> {Nothing} \cup Proc]]
      /\ \A h \in files : buf[uses[p][h]][h] \in {Nothing} \cup Seq(Byte)
      /\ \A h \in files : h \in DOMAIN meta[p] /\ uses[p][h] \in Proc
    BY <1>f, <1>u, <1>p DEF AgentTypeOK, JobInv
<1> HIDE DEF p, files
<1>x. /\ seen' \in [Proc -> [TmpFile -> {Nothing} \cup Seq(Byte)]]
      /\ inst' \in [Proc -> [TmpFile -> {Nothing} \cup Proc]]
      /\ \A q \in Proc, h \in TmpFile : q # p => seen'[q][h] = seen[q][h]
      /\ \A h \in TmpFile :
            \/ seen'[p][h] = seen[p][h] /\ pstate'[p] = "nonstarter"
            \/ pstate'[p] = "running" /\ seen'[p][h] = Nothing
            \/ pstate'[p] = "running" /\ h \in files /\ seen'[p][h] = buf[uses[p][h]][h] /\ job.todo = {} /\ job.step = "attach"
      /\ \A q \in Proc, h \in TmpFile :
            \/ inst'[q][h] = inst[q][h]
            \/ h \in files /\ inst'[q][h] = p
    <2>1. CASE seen' = seen /\ inst' = inst /\ pstate'[p] = "nonstarter"
        BY <1>v, <2>1
    <2>2. CASE /\ job.todo = {} /\ job.step = "attach" /\ pstate'[p] = "running"
               /\ seen' = [seen EXCEPT ![p] = [h \in TmpFile |-> IF h \in files THEN buf[uses[p][h]][h] ELSE Nothing]]
               /\ inst' = [q \in Proc |-> [h \in TmpFile |-> IF h \in files /\ uses[p][h] = q THEN p ELSE inst[q][h]]]
        <3>1. /\ seen' \in [Proc -> [TmpFile -> {Nothing} \cup Seq(Byte)]]
              /\ \A q \in Proc : q # p => seen'[q] = seen[q]
              /\ \A h \in TmpFile : seen'[p][h] = IF h \in files THEN buf[uses[p][h]][h] ELSE Nothing
            BY <1>p, <1>v, <2>2
        <3>2. /\ inst' \in [Proc -> [TmpFile -> {Nothing} \cup Proc]]
              /\ \A q \in Proc, h \in TmpFile :
                    inst'[q][h] = IF h \in files /\ uses[p][h] = q THEN p ELSE inst[q][h]
            BY <1>p, <1>v, <2>2
        <3> QED
            BY <2>2, <3>1, <3>2
    <2> QED
        BY <1>c, <2>1, <2>2
<1>1. AgentTypeOK'
    BY <1>f, <1>u, <1>s, <1>j, <1>x DEF AgentTypeOK
<1>2. QueueInv'
    BY <1>q
<1>3. MetaInv'
    BY <1>f, <1>u DEF MetaInv
<1>4. FreshInv'
    <2>1. \A q \in Proc : pstate'[q] = "new" => pstate[q] = "new"
        BY <1>s
    <2> QED
        BY <1>f, <1>u, <1>a, <1>q, <2>1 DEF FreshInv
<1>5. JobInv'
    BY <1>j DEF JobInv
<1>6. SeenInv'
    <2>1. ASSUME NEW q \in Proc, NEW h \in TmpFile
          PROVE  /\ pstate'[q] \in {"new", "scheduled", "nonstarter"} => seen'[q][h] = Nothing
                 /\ seen'[q][h] # Nothing => h \in DOMAIN meta[q]
                 /\ h \in ReadOnly => GoodFor(q, h, seen'[q][h])
        <3>1. CASE q # p
            BY <1>f, <1>s, <1>x, <3>1 DEF SeenInv
        <3>2. CASE q = p
            <4>1. seen[p][h] = Nothing
                BY <1>f, <1>p DEF SeenInv
            <4>2. ASSUME h \in files, job.todo = {}, job.step = "attach", h \in ReadOnly
                  PROVE  GoodFor(p, h, buf[uses[p][h]][h])
                BY <1>f, <1>v, <4>2 DEF JobInv, p
            <4> QED
                BY <1>v, <1>x, <3>2, <4>1, <4>2 DEF GoodFor
        <3> QED
            BY <3>1, <3>2
    <2> QED
        BY <1>u, <2>1 DEF SeenInv, GoodFor
<1>7. OrderInv'
    BY <1>q
<1>8. CacheInv'
    <2>1. /\ \A h \in TmpFile : cached[h] # Nothing => cached[h] \in Proc
          /\ \A q \in Proc, h \in TmpFile : inst[q][h] # Nothing => inst[q][h] \in Proc
        BY <1>f DEF AgentTypeOK
    <2> QED
        BY <1>f, <1>u, <1>p, <1>q, <1>v, <1>x, <2>1 DEF CacheInv
<1> QED
    BY <1>1, <1>2, <1>3, <1>4, <1>5, <1>6, <1>7, <1>8 DEF AllAgentInv, AgentInv

\* A process that ran is one that did.
LEMMA ProcessExitInv ==
    ASSUME AllAgentInv, NEW p \in Proc, ProcessExit(p)
    PROVE  AllAgentInv'
<1>f. /\ AgentTypeOK /\ QueueInv /\ MetaInv /\ FreshInv /\ JobInv /\ SeenInv /\ OrderInv /\ CacheInv
      /\ \A q \in Proc : pstate[q] = "new" => ~Queued(q) /\ ~Active(q) /\ ~Started(q)
      /\ \A q \in Proc : Active(q) => Started(q)
    BY AgentFacts
<1>u. /\ mfile' = mfile /\ signals' = signals /\ meta' = meta /\ iseq' = iseq /\ cached' = cached
      /\ buf' = buf /\ uses' = uses /\ inst' = inst /\ seen' = seen /\ job' = job
      /\ pstate[p] = "running" /\ pstate' = [pstate EXCEPT ![p] = "exited"]
    BY DEF ProcessExit, fvars, cacheVars
<1>s. /\ pstate' \in [Proc -> ProcState] /\ pstate'[p] = "exited"
      /\ \A q \in Proc : q # p => pstate'[q] = pstate[q]
    BY <1>f, <1>u DEF AgentTypeOK, ProcState
<1>a. \A q \in Proc : Active(q)' <=> Active(q)
    BY <1>u DEF Active
<1>q. /\ QueueInv' /\ OrderInv'
      /\ \A q \in Proc : (Queued(q)' <=> Queued(q)) /\ (Started(q)' <=> Started(q))
    <2>1. ~Queued(p)
        BY <1>f, <1>u DEF QueueInv
    <2> QED
        BY <1>u, <1>s, <1>a, <2>1, QueueKept
<1>1. AgentTypeOK'
    BY <1>f, <1>u, <1>s DEF AgentTypeOK
<1>2. QueueInv'
    BY <1>q
<1>3. MetaInv'
    BY <1>f, <1>u DEF MetaInv
<1>4. FreshInv'
    <2>1. \A q \in Proc : pstate'[q] = "new" => pstate[q] = "new"
        BY <1>s
    <2> QED
        BY <1>f, <1>u, <1>a, <1>q, <2>1 DEF FreshInv
<1>5. JobInv'
    <2>1. job.step # "idle" => job.proc \in Proc /\ job.proc # p
        BY <1>f, <1>u DEF JobInv
    <2> QED
        BY <1>f, <1>u, <1>s, <2>1 DEF JobInv, GoodFor
<1>6. SeenInv'
    BY <1>f, <1>u, <1>s DEF SeenInv, GoodFor
<1>7. OrderInv'
    BY <1>q
<1>8. CacheInv'
    <2>1. /\ \A h \in TmpFile : cached[h] # Nothing => cached[h] \in Proc
          /\ \A q \in Proc, h \in TmpFile : inst[q][h] # Nothing => inst[q][h] \in Proc
        BY <1>f DEF AgentTypeOK
    <2> QED
        BY <1>f, <1>u, <1>q, <2>1 DEF CacheInv
<1> QED
    BY <1>1, <1>2, <1>3, <1>4, <1>5, <1>6, <1>7, <1>8 DEF AllAgentInv, AgentInv

\* The agent hears that a file was deleted.
LEMMA DiscardInv ==
    ASSUME AllAgentInv, DiscardCachedFile
    PROVE  AllAgentInv'
<1> DEFINE f == Head(signals)[2]
<1>f. /\ AgentTypeOK /\ QueueInv /\ MetaInv /\ FreshInv /\ JobInv /\ SeenInv /\ OrderInv /\ CacheInv
      /\ \A q \in Proc : pstate[q] = "new" => ~Queued(q) /\ ~Active(q) /\ ~Started(q)
      /\ \A q \in Proc : Active(q) => Started(q)
    BY AgentFacts
<1>u. /\ mfile' = mfile /\ meta' = meta /\ iseq' = iseq /\ pstate' = pstate
      /\ buf' = buf /\ uses' = uses /\ inst' = inst /\ seen' = seen /\ job' = job
      /\ cached' = [cached EXCEPT ![f] = Nothing]
      /\ signals # <<>> /\ Head(signals)[1] = "deleted" /\ signals' = Tail(signals)
    BY DEF DiscardCachedFile, fvars
<1> HIDE DEF f
<1>s. /\ signals \in Seq(Signal) /\ signals' \in Seq(Signal)
      /\ Len(signals) = Len(signals') + 1 /\ Len(signals') \in Nat
      /\ \A i \in 1 .. Len(signals') : signals'[i] = signals[i + 1]
      /\ Head(signals) \in Signal
      /\ \A q : InQueue(signals, q) <=> InQueue(signals', q) \/ Head(signals) = <<"processScheduled", q>>
    <2>1. signals \in Seq(Signal)
        BY <1>f DEF AgentTypeOK
    <2> QED
        BY <1>u, <2>1, TailSignal
<1>q. \A q \in Proc : Queued(q)' <=> Queued(q)
    <2>1. \A q : Head(signals) # <<"processScheduled", q>>
        BY <1>u, <1>s, SignalCases
    <2> QED
        BY <1>s, <2>1 DEF Queued
<1>a. \A q \in Proc : (Active(q)' <=> Active(q)) /\ (Started(q)' <=> Started(q))
    BY <1>u, <1>q DEF Active, Started
<1>c. /\ cached' \in [TmpFile -> {Nothing} \cup Proc]
      /\ \A h \in TmpFile : cached'[h] = cached[h] \/ cached'[h] = Nothing
    BY <1>f, <1>u DEF AgentTypeOK
<1>1. AgentTypeOK'
    BY <1>f, <1>u, <1>s, <1>c DEF AgentTypeOK
<1>2. QueueInv'
    <2>1. \A q \in Proc : Queued(q)' => pstate'[q] = "scheduled" /\ ~Active(q)'
        BY <1>f, <1>u, <1>q, <1>a DEF QueueInv
    <2>2. ASSUME NEW i \in 1 .. Len(signals'), NEW j \in 1 .. Len(signals'),
                 signals'[i] = signals'[j], signals'[i][1] = "processScheduled"
          PROVE  i = j
        <3>1. /\ i + 1 \in 1 .. Len(signals) /\ j + 1 \in 1 .. Len(signals)
              /\ signals'[i] = signals[i + 1] /\ signals'[j] = signals[j + 1]
            BY <1>s
        <3>2. i + 1 = j + 1
            BY <1>f, <2>2, <3>1 DEF QueueInv
        <3> QED
            BY <3>2
    <2> QED
        BY <2>1, <2>2 DEF QueueInv
<1>3. MetaInv'
    BY <1>f, <1>u DEF MetaInv
<1>4. FreshInv'
    <2>1. \A q \in Proc : q # Nothing
        BY FilesAssumption
    <2> QED
        BY <1>f, <1>u, <1>q, <1>a, <1>c, <2>1 DEF FreshInv
<1>5. JobInv'
    BY <1>f, <1>u DEF JobInv, GoodFor
<1>6. SeenInv'
    BY <1>f, <1>u DEF SeenInv, GoodFor
<1>7. OrderInv'
    <2>1. ASSUME NEW a \in Proc, NEW b \in Proc, NEW g \in TmpFile,
                 Started(a)', Queued(b)' \/ Active(b)',
                 g \in DOMAIN meta[a], g \in DOMAIN meta[b]
          PROVE  meta[a][g].iseq <= meta[b][g].iseq
        BY <1>f, <1>q, <1>a, <2>1 DEF OrderInv
    <2>2. ASSUME NEW i \in 1 .. Len(signals'), NEW j \in 1 .. Len(signals'),
                 NEW a \in Proc, NEW b \in Proc, NEW g \in TmpFile, i < j,
                 signals'[i] = <<"processScheduled", a>>, signals'[j] = <<"processScheduled", b>>,
                 g \in DOMAIN meta[a], g \in DOMAIN meta[b]
          PROVE  meta[a][g].iseq <= meta[b][g].iseq
        <3>1. /\ i + 1 \in 1 .. Len(signals) /\ signals[i + 1] = <<"processScheduled", a>>
              /\ j + 1 \in 1 .. Len(signals) /\ signals[j + 1] = <<"processScheduled", b>>
              /\ i + 1 < j + 1
            BY <1>s, <2>2
        <3> QED
            BY <1>f, <2>2, <3>1 DEF OrderInv
    <2>3. meta' = meta
        BY <1>u
    <2> QED
        BY <2>1, <2>2, <2>3 DEF OrderInv
<1>8. CacheInv'
    <2>1. /\ \A h \in TmpFile : cached[h] # Nothing => cached[h] \in Proc
          /\ \A q \in Proc, h \in TmpFile : inst[q][h] # Nothing => inst[q][h] \in Proc
        BY <1>f DEF AgentTypeOK
    <2> QED
        BY <1>f, <1>u, <1>a, <1>c, <2>1 DEF CacheInv
<1> QED
    BY <1>1, <1>2, <1>3, <1>4, <1>5, <1>6, <1>7, <1>8 DEF AllAgentInv, AgentInv

-----------------------------------------------------------------------------
(* Theorems                                                                *)

\* The invariant holds to begin with.
LEMMA FilesInitInv ==
    ASSUME FilesInit
    PROVE  FilesInv
<1> USE DEF FilesInit
<1>e. <<>> \in Seq(Byte) /\ Len(<<>>) = 0 /\ <<>> \in Seq(Signal)
    BY EmptySeq
<1>1. TransferTypeOK
    <2>1. hostfile \in Seq(Byte)
        BY FilesAssumption
    <2>2. copy \in Copy
        BY <1>e DEF CopyIdle, Copy
    <2> QED
        BY <1>e, <2>1, <2>2 DEF TransferTypeOK, MFile, Upload
<1>2. AgentTypeOK
    <2>1. job \in Job
        BY <1>e DEF NoJob, Job
    <2>2. \A p \in Proc : DOMAIN meta[p] = {}
        OBVIOUS
    <2> QED
        BY <1>e, <2>1, <2>2 DEF AgentTypeOK, ProcState
<1>3. UploadInv
    <2>1. Cat(<<>>, <<>>) = <<>>
        BY <1>e, CatProperties
    <2> QED
        BY <1>e, <2>1, FilesAssumption DEF UploadInv
<1>4. CopyInv
    BY DEF CopyInv, CopyIdle
<1>5. job.step = "idle" /\ \A p \in Proc : ~Queued(p)
    BY <1>e DEF NoJob, Queued, InQueue
<1>6. QueueInv /\ MetaInv /\ JobInv
    BY <1>e, <1>5 DEF QueueInv, MetaInv, JobInv
<1>7. FreshInv
    BY FilesAssumption DEF FreshInv
<1>8. SeenInv
    BY DEF SeenInv, GoodFor
<1>9. OrderInv
    <2>1. \A p \in Proc : ~Started(p)
        BY DEF Started
    <2> QED
        BY <1>e, <2>1 DEF OrderInv
<1>10. CacheInv
    BY DEF CacheInv
<1> QED
    BY <1>1, <1>2, <1>3, <1>4, <1>6, <1>7, <1>8, <1>9, <1>10 DEF FilesInv, FilesTypeOK, AgentInv

\* The files of the master only grow.
LEMMA MFilesOnlyGrow ==
    ASSUME TransferTypeOK, UploadInv, FilesNext
    PROVE  MFilesGrow
<1>1. /\ mfile \in [TmpFile -> MFile] /\ mfile' \in [TmpFile -> MFile]
      /\ \A f \in TmpFile : mfile[f].iseq <= mfile'[f].iseq /\ Prefix(mfile[f].data, mfile'[f].data)
    BY UploadStepInv DEF TransferTypeOK
<1> QED
    BY <1>1 DEF MFilesGrow, MFile

\* Every step keeps the invariant.
LEMMA FilesNextInv ==
    ASSUME FilesInv, FilesNext
    PROVE  FilesInv'
<1>f. /\ TransferTypeOK /\ UploadInv /\ CopyInv /\ AllAgentInv /\ mfile \in [TmpFile -> MFile]
    BY DEF FilesInv, FilesTypeOK, AllAgentInv, TransferTypeOK
<1>1. TransferTypeOK' /\ UploadInv' /\ CopyInv'
    <2>1. mfile' \in [TmpFile -> MFile] /\ upload' \in [TmpFile -> Upload] /\ UploadInv'
        BY <1>f, UploadStepInv
    <2>2. hostfile' \in Seq(Byte) /\ copy' \in Copy /\ CopyInv'
        BY <1>f, CopyStepInv
    <2> QED
        BY <2>1, <2>2 DEF TransferTypeOK
<1>2. AllAgentInv'
    <2>1. MFilesGrow
        BY <1>f, MFilesOnlyGrow
    <2>2. CASE AgentStep
        BY <1>f, <2>2, StartProcessInv, AttachInv, DownloadInv, EndOfStart, DiscardInv DEF AgentStep
    <2>3. CASE UploadStep
        <3>1. ASSUME NEW f \in TmpFile, CreateTempfile(f) \/ UploadChunk(f) \/ UploadDone(f)
              PROVE  UNCHANGED <<signals, meta, cacheVars, job, pstate, seen>>
            BY <3>1 DEF CreateTempfile, UploadChunk, UploadDone
        <3> QED
            BY <1>f, <2>1, <2>3, <3>1, AgentKept, DeleteFileInv, ScheduleInv DEF UploadStep
    <2>4. CASE \E p \in Proc : ProcessExit(p)
        BY <1>f, <2>4, ProcessExitInv
    <2>5. CASE CopyNext
        <3>1. UNCHANGED <<signals, meta, cacheVars, job, pstate, seen>>
            BY <2>5 DEF CopyNext, CopyStep, StartAgentUpload, AgentUpload, AgentUploadDone,
                   StartAgentDownload, AgentDownload, AgentDownloadDone, HostFileChanges
        <3> QED
            BY <1>f, <2>1, <3>1, AgentKept
    <2> QED
        BY <2>2, <2>3, <2>4, <2>5 DEF FilesNext, MasterFilesNext
<1> QED
    BY <1>1, <1>2 DEF FilesInv, FilesTypeOK, AllAgentInv

\* A step that changes no variable keeps the invariant.
LEMMA FilesStutter ==
    ASSUME FilesInv, UNCHANGED filesVars
    PROVE  FilesInv'
<1>u. /\ mfile' = mfile /\ upload' = upload /\ hostfile' = hostfile /\ copy' = copy
      /\ UNCHANGED <<signals, meta, cacheVars, job, pstate, seen>>
    BY DEF filesVars
<1>1. TransferTypeOK' /\ UploadInv' /\ CopyInv'
    BY <1>u DEF FilesInv, FilesTypeOK, TransferTypeOK, UploadInv, CopyInv
<1>2. MFilesGrow
    BY <1>u, PrefixReflexive DEF FilesInv, FilesTypeOK, TransferTypeOK, MFile, MFilesGrow
<1>3. AllAgentInv'
    BY <1>u, <1>2, AgentKept DEF FilesInv, FilesTypeOK, AllAgentInv
<1> QED
    BY <1>1, <1>3 DEF FilesInv, FilesTypeOK, AllAgentInv

\* The inductive invariant of uploads, the agent's cache and copies holds in
\* every reachable state.
THEOREM FilesInvariant == FilesSpec => []FilesInv
<1>1. FilesInit => FilesInv
    BY FilesInitInv
<1>2. FilesInv /\ [FilesNext]_filesVars => FilesInv'
    BY FilesNextInv, FilesStutter
<1> QED
    BY <1>1, <1>2, PTL DEF FilesSpec

\* What a process finds in a file it may read is nothing, or a prefix of the
\* master's file that is no shorter than the file was when the process was
\* scheduled, for any interleaving of appends, downloads and deletions.
THEOREM SeenIsAlwaysNewEnough == FilesSpec => []SeenIsNewEnough
<1>1. FilesInv => SeenIsNewEnough
    <2> SUFFICES ASSUME FilesInv, NEW p \in Proc, NEW f \in TmpFile \cap ReadOnly,
                        seen[p][f] # Nothing
                 PROVE  IsPrefix(seen[p][f], mfile[f].data) /\ Len(seen[p][f]) >= meta[p][f].len
        BY DEF SeenIsNewEnough
    <2>1. GoodFor(p, f, seen[p][f]) /\ f \in DOMAIN meta[p]
        BY DEF FilesInv, AgentInv, SeenInv
    <2>2. /\ seen[p][f] \in Seq(Byte) /\ mfile[f].data \in Seq(Byte) /\ meta[p][f].len \in Nat
        BY <2>1 DEF FilesInv, FilesTypeOK, TransferTypeOK, AgentTypeOK, MFile
    <2>3. Len(seen[p][f]) \in Nat
        BY <2>2, LenProperties
    <2> QED
        BY <2>1, <2>2, <2>3, PrefixIff DEF GoodFor
<1> QED
    BY <1>1, FilesInvariant, PTL

\* An upload that ends well has put all of the source on the master and one
\* that fails a prefix of it, never more than the limit; a host file that nobody
\* changes is downloaded as it is.
THEOREM TransfersAreAlwaysExact == FilesSpec => []TransfersAreExact
<1>1. FilesInv => UploadIsComplete
    <2> SUFFICES ASSUME FilesInv, NEW f \in TmpFile
                 PROVE  /\ upload[f].state = "done" => mfile[f].data = upload[f].src
                        /\ IsPrefix(mfile[f].data, upload[f].src)
                        /\ Len(mfile[f].data) <= SizeMax
        BY DEF UploadIsComplete
    <2>1. /\ mfile[f].data \in Seq(Byte) /\ upload[f].rest \in Seq(Byte) /\ upload[f].src \in Seq(Byte)
        BY DEF FilesInv, FilesTypeOK, TransferTypeOK, MFile, Upload
    <2>2. /\ Cat(mfile[f].data, upload[f].rest) = upload[f].src
          /\ Len(mfile[f].data) <= SizeMax
          /\ upload[f].state = "done" => upload[f].rest = <<>>
        BY DEF FilesInv, UploadInv
    <2>3. /\ Prefix(mfile[f].data, Cat(mfile[f].data, upload[f].rest))
          /\ Cat(mfile[f].data, <<>>) = mfile[f].data
        BY <2>1, CatProperties
    <2> QED
        BY <2>1, <2>2, <2>3, PrefixIff
<1>2. FilesInv => HostDownloadIsExact
    <2> SUFFICES ASSUME FilesInv, copy.op = "downloaded", copy.changed = 0
                 PROVE  copy.got = copy.from
        BY DEF HostDownloadIsExact
    <2>1. copy.got \in Seq(Byte) /\ copy.from \in Seq(Byte)
        BY DEF FilesInv, FilesTypeOK, TransferTypeOK, Copy
    <2>2. Len(copy.got) = Len(copy.from) /\ Prefix(copy.got, copy.from)
        BY DEF FilesInv, CopyInv
    <2> QED
        BY <2>1, <2>2, SeqEqual DEF Prefix
<1>3. FilesInv => TransfersAreExact
    BY <1>1, <1>2 DEF TransfersAreExact
<1> QED
    BY <1>3, FilesInvariant, PTL

\* A running process loses a file only to another process, whose version is no
\* older than its own and newer than the one the cached structure was made for.
THEOREM LossOnlyToNewer == FilesSpec => LostOnlyToNewer
<1> DEFINE Loss == \A p \in Proc, f \in TmpFile :
          pstate[p] = "running" /\ seen[p][f] # Nothing /\ seen'[p][f] = Nothing =>
              /\ job.proc # p
              /\ meta[job.proc][f].iseq >= meta[p][f].iseq
              /\ meta[job.proc][f].iseq > iseq[cached[f]][f]
<1>1. ASSUME FilesInv, [FilesNext]_filesVars
      PROVE  Loss
    <2> SUFFICES ASSUME NEW p \in Proc, NEW f \in TmpFile,
                        pstate[p] = "running", seen[p][f] # Nothing, seen'[p][f] = Nothing
                 PROVE  /\ job.proc # p
                        /\ meta[job.proc][f].iseq >= meta[p][f].iseq
                        /\ meta[job.proc][f].iseq > iseq[cached[f]][f]
        OBVIOUS
    <2>f. /\ AgentTypeOK /\ QueueInv /\ JobInv /\ SeenInv /\ OrderInv /\ CacheInv
          /\ \A q \in Proc : Active(q) => Started(q)
        <3>1. AllAgentInv
            BY <1>1 DEF FilesInv, FilesTypeOK, AllAgentInv
        <3> QED
            BY <3>1, AgentFacts
    <2>1. RunProcess \/ \E h \in TmpFile : Attach(h)
        <3>1. seen' # seen
            OBVIOUS
        <3> QED
            BY <1>1, <3>1 DEF FilesNext, MasterFilesNext, AgentStep, UploadStep, CopyNext, CopyStep,
               StartProcess, Download, DownloadFails, DiscardCachedFile, Schedule, ProcessExit,
               CreateTempfile, UploadChunk, UploadDone, DeleteFile, StartAgentUpload, AgentUpload,
               AgentUploadDone, StartAgentDownload, AgentDownload, AgentDownloadDone,
               HostFileChanges, filesVars
    <2>2. ~RunProcess
        <3> SUFFICES ASSUME RunProcess PROVE FALSE
            OBVIOUS
        <3>1. job.proc \in Proc /\ pstate[job.proc] = "scheduled"
            BY <2>f DEF RunProcess, JobInv
        <3>2. seen'[p] = seen[p]
            BY <2>f, <3>1 DEF RunProcess, AgentTypeOK
        <3> QED
            BY <3>2
    <2>3. PICK h \in TmpFile : Attach(h)
        BY <2>1, <2>2
    <2>4. job.step = "attach" /\ h \in job.todo
        BY <2>3 DEF Attach
    <2>5. /\ job.proc \in Proc /\ pstate[job.proc] = "scheduled" /\ h \in DOMAIN meta[job.proc]
          /\ iseq[job.proc][h] = meta[job.proc][h].iseq /\ Active(job.proc)
        BY <2>f, <2>4 DEF JobInv, Active
    <2>6. /\ cached[h] # Nothing /\ iseq[cached[h]][h] # iseq[job.proc][h]
          /\ inst[cached[h]][h] # Nothing
          /\ seen' = [seen EXCEPT ![inst[cached[h]][h]][h] = Nothing]
        BY <2>3 DEF Attach, drop_cache
    <2>7. cached[h] \in Proc /\ inst[cached[h]][h] \in Proc
        BY <2>f, <2>6 DEF AgentTypeOK
    <2>8. h = f /\ inst[cached[h]][h] = p
        <3>1. seen \in [Proc -> [TmpFile -> {Nothing} \cup Seq(Byte)]]
            BY <2>f DEF AgentTypeOK
        <3> QED
            BY <2>6, <2>7, <3>1
    <2>9. /\ Started(cached[f]) /\ f \in DOMAIN meta[cached[f]]
          /\ iseq[cached[f]][f] = meta[cached[f]][f].iseq
          /\ Started(p) /\ f \in DOMAIN meta[p]
        BY <2>f, <2>6, <2>7, <2>8 DEF CacheInv
    <2>10. /\ meta[p][f].iseq <= meta[job.proc][f].iseq
           /\ meta[cached[f]][f].iseq <= meta[job.proc][f].iseq
        BY <2>f, <2>5, <2>7, <2>8, <2>9 DEF OrderInv
    <2>11. /\ meta[p][f].iseq \in Nat /\ meta[job.proc][f].iseq \in Nat
           /\ meta[cached[f]][f].iseq \in Nat
        BY <2>f, <2>5, <2>7, <2>8, <2>9 DEF AgentTypeOK
    <2> QED
        BY <2>5, <2>6, <2>8, <2>9, <2>10, <2>11
<1>2. FilesInv /\ [FilesNext]_filesVars => [Loss]_filesVars
    BY <1>1
<1>3. LostOnlyToNewer <=> [][Loss]_filesVars
    BY DEF LostOnlyToNewer
<1> QED
    BY <1>2, <1>3, FilesInvariant, PTL DEF FilesSpec
=============================================================================
