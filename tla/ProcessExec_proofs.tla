------------------------ MODULE ProcessExec_proofs ------------------------
(***************************************************************************)
(* Proofs about ProcessExec: what a client is told about a process is true *)
(* and the output it finds is complete, for any number of processes,       *)
(* clients and chunks of output.                                           *)
(***************************************************************************)
EXTENDS ProcessExec, TLAPS, SequenceTheorems

-----------------------------------------------------------------------------
(* The inductive invariant *)

IsScheduled(m, p) == m.type = "processScheduled" /\ m.p = p
Scheduled(p) == \E j \in DOMAIN agentq : IsScheduled(agentq[j], p)
ScheduledOnce(p) ==
    \A i, j \in DOMAIN agentq :
        IsScheduled(agentq[i], p) /\ IsScheduled(agentq[j], p) => i = j

ReplyQueued == \E j \in DOMAIN agentq : agentq[j].type = "reply"
OneReply ==
    \A i, j \in DOMAIN agentq : agentq[i].type = "reply" /\ agentq[j].type = "reply" => i = j

\* A process is scheduled once, and the agent gets to it before anything else
\* happens to it.
StartOK(p) ==
    /\ ScheduledOnce(p)
    /\ Scheduled(p) \/ starting = p =>
          proc[p].obj # "none" /\ os[p].st = "none" /\ proc[p].exit = None
    /\ starting = p => ~Scheduled(p)
    /\ proc[p].obj = "none" => os[p].st = "none" /\ proc[p].exit = None

StartInv == \A p \in Proc : StartOK(p)

\* What a process wrote is in its pipe, in the buffer being filled or in the
\* full ones.
OsOK(p) ==
    /\ os[p].how = None <=> os[p].st \in {"none", "forked", "running"}
    /\ os[p].st \in {"none", "forked"} => os[p].written = NoBytes
    /\ \A s \in Stream :
          ctx[p].chain[s] + ctx[p].wbuf[s] + os[p].pipe[s] = os[p].written[s]
    /\ os[p].st = "reaped" => ctx[p].wbuf = NoBytes /\ os[p].pipe = NoBytes

OsInv == \A p \in Proc : OsOK(p)

\* The agent makes one call at a time, and reports an exit status once.
RepInv ==
    /\ OneReply
    /\ ReplyQueued => rep.waiting
    /\ rep.waiting => rep.p # None /\ rep.step \in {"refresh", "stdout", "stderr", "exit"}
    /\ rep.p # None =>
          /\ os[rep.p].st = "reaped"
          /\ proc[rep.p].exit # None =>
                \/ rep.step = "free"
                \/ rep.step = "exit" /\ rep.waiting

\* The stream was uploaded, if the object was there to take it.
Uploaded(r, s) ==
    \/ s = "stdout" /\ (r.step \in {"stderr", "exit"} \/ (r.step = "stdout" /\ r.waiting))
    \/ s = "stderr" /\ (r.step = "exit" \/ (r.step = "stderr" /\ r.waiting))

FileInv ==
    /\ \A p \in Proc : os[p].st # "reaped" => proc[p].file = NoBytes
    /\ rep.p # None /\ Live(rep.p) /\ rep.step # "free" =>
          \A s \in Stream :
              proc[rep.p].file[s] =
                  IF Uploaded(rep, s) THEN Kept(ctx[rep.p].chain[s]) ELSE 0

\* What the files of a process can hold of its output.
KeptOf(bytes) == [s \in Stream |-> Kept(bytes[s])]

\* The exit status that the master has is that of the process, and comes with
\* all the output that fits into the files.
TrueHow(p) == IF os[p].how = None THEN "nonstarter" ELSE os[p].how

ExitOK(p) ==
    proc[p].exit # None =>
        /\ os[p].st \in {"none", "reaped"}
        /\ proc[p].exit.how = TrueHow(p)
        /\ proc[p].exit.bytes = proc[p].file
        /\ proc[p].file = KeptOf(os[p].written)

ExitInv == \A p \in Proc : ExitOK(p)

\* Nobody is told anything else.
Told(i, p) == i # None => p # None /\ i = proc[p].exit

QueueOK(q) ==
    \A j \in DOMAIN q : q[j].type = "processExited" => Told(q[j].info, q[j].p)

NothingYet(rec) ==
    /\ rec.info = None /\ rec.cached = None /\ rec.result = None
    /\ rec.spurious = {} /\ rec.wq = "none" /\ ~rec.got

ClientOK(rec) ==
    /\ \A e \in rec.spurious : Told(e.info, e.p)
    /\ Told(rec.info, rec.p)
    /\ Told(rec.cached, rec.p)
    /\ rec.result # TimedOut => Told(rec.result, rec.p)
    /\ rec.pc = "idle" => NothingYet(rec)
    /\ rec.pc \notin {"idle", "failed"} => rec.p # None
    /\ rec.wq = "done" => rec.info # None
    /\ rec.pc = "fetch" => rec.result # None
    /\ rec.got => rec.pc \in {"delete", "done"}
    /\ rec.pc \in {"delete", "done"} /\ rec.got /\ rec.result # TimedOut =>
          rec.result # None /\ rec.output = KeptOf(os[rec.p].written)

ClientInv == \A c \in Client : QueueOK(clientq[c]) /\ ClientOK(client[c])

ServerInv == StartInv /\ OsInv /\ RepInv /\ FileInv /\ ExitInv

ExecInv == TypeOK /\ ServerInv /\ ClientInv

-----------------------------------------------------------------------------
(* Files *)

\* A file holds no more than was uploaded, and nothing when nothing was.
LEMMA KeptFacts ==
    /\ Kept(0) = 0
    /\ \A n \in 0 .. MaxOut : Kept(n) \in 0 .. MaxOut
    /\ KeptOf(NoBytes) = NoBytes
    /\ \A b \in Bytes : KeptOf(b) \in Bytes
<1>1. FileMax \in Nat /\ Cap \in Nat \ {0} /\ MaxOut \in Nat
    BY ExecAssumption
<1>2. FileMax % Cap \in 0 .. (Cap - 1) /\ FileMax % Cap <= FileMax
    BY <1>1
<1>3. Kept(0) = 0
    BY <1>1 DEF Kept
<1>4. ASSUME NEW n \in 0 .. MaxOut
      PROVE  Kept(n) \in 0 .. MaxOut
    BY <1>1, <1>2 DEF Kept
<1>5. KeptOf(NoBytes) = NoBytes
    BY <1>3 DEF KeptOf, NoBytes
<1>6. ASSUME NEW b \in Bytes
      PROVE  KeptOf(b) \in Bytes
    BY <1>4 DEF KeptOf, Bytes
<1> QED
    BY <1>3, <1>4, <1>5, <1>6

-----------------------------------------------------------------------------
(* Queues *)

\* What is in a queue after a message was added.
LEMMA Appended ==
    ASSUME NEW S, NEW q \in Seq(S), NEW m \in S
    PROVE  /\ Append(q, m) \in Seq(S)
           /\ DOMAIN q \subseteq DOMAIN Append(q, m)
           /\ \A i \in DOMAIN q : Append(q, m)[i] = q[i]
           /\ \A i \in DOMAIN Append(q, m) \ DOMAIN q : Append(q, m)[i] = m
           /\ \A i, j \in DOMAIN Append(q, m) \ DOMAIN q : i = j
<1> DEFINE a == Append(q, m)
<1>1. Len(q) \in Nat /\ DOMAIN q = 1 .. Len(q)
    BY LenProperties
<1>2. /\ a \in Seq(S) /\ Len(a) = Len(q) + 1
      /\ \A i \in 1 .. Len(q) : a[i] = q[i]
      /\ a[Len(q) + 1] = m
    BY AppendProperties
<1>3. DOMAIN a = 1 .. (Len(q) + 1)
    BY <1>2, LenProperties
<1> HIDE DEF a
<1>4. \A i \in DOMAIN a \ DOMAIN q : i = Len(q) + 1
    BY <1>1, <1>3
<1>5. DOMAIN q \subseteq DOMAIN a
    BY <1>1, <1>3
<1>6. /\ a \in Seq(S)
      /\ DOMAIN q \subseteq DOMAIN a
      /\ \A i \in DOMAIN q : a[i] = q[i]
      /\ \A i \in DOMAIN a \ DOMAIN q : a[i] = m
      /\ \A i, j \in DOMAIN a \ DOMAIN q : i = j
    BY <1>1, <1>2, <1>4, <1>5
<1> QED
    BY <1>6 DEF a

\* What is in a queue after the first message was taken.
LEMMA Taken ==
    ASSUME NEW S, NEW q \in Seq(S), q # <<>>
    PROVE  /\ Tail(q) \in Seq(S)
           /\ 1 \in DOMAIN q /\ Head(q) = q[1] /\ Head(q) \in S
           /\ \A i \in DOMAIN Tail(q) :
                 i \in Nat /\ i + 1 \in DOMAIN q /\ i + 1 # 1 /\ Tail(q)[i] = q[i + 1]
<1> DEFINE a == Tail(q)
<1>1. Len(q) \in Nat /\ DOMAIN q = 1 .. Len(q) /\ Len(q) # 0
    BY LenProperties, EmptySeq
<1>2. /\ a \in Seq(S) /\ Len(a) = Len(q) - 1
      /\ \A i \in 1 .. Len(a) : a[i] = q[i + 1]
      /\ Head(q) = q[1] /\ Head(q) \in S
    BY HeadTailProperties
<1>3. DOMAIN a = 1 .. (Len(q) - 1)
    BY <1>2, LenProperties
<1> HIDE DEF a
<1>4. /\ 1 \in DOMAIN q
      /\ \A i \in DOMAIN a : i \in Nat /\ i + 1 \in DOMAIN q /\ i + 1 # 1 /\ i \in 1 .. Len(a)
    BY <1>1, <1>2, <1>3
<1>5. /\ a \in Seq(S)
      /\ \A i \in DOMAIN a : i \in Nat /\ i + 1 \in DOMAIN q /\ i + 1 # 1 /\ a[i] = q[i + 1]
    BY <1>2, <1>4
<1> QED
    BY <1>2, <1>4, <1>5 DEF a

AgentGets(m) == agentq' \in {agentq, Append(agentq, m)}
AgentTakes == agentq # <<>> /\ agentq' = Tail(agentq)

\* A message to the agent, which may be lost.
LEMMA AgentQueueGrows ==
    ASSUME TypeOK, NEW m \in AgentMessage, AgentGets(m)
    PROVE  /\ agentq' \in Seq(AgentMessage)
           /\ \A p \in Proc : Scheduled(p)' => Scheduled(p) \/ IsScheduled(m, p)
           /\ \A p \in Proc : ScheduledOnce(p) /\ (IsScheduled(m, p) => ~Scheduled(p))
                                 => ScheduledOnce(p)'
           /\ ReplyQueued' => ReplyQueued \/ m.type = "reply"
           /\ OneReply /\ (m.type = "reply" => ~ReplyQueued) => OneReply'
<1>1. agentq \in Seq(AgentMessage)
    BY DEF TypeOK
<1> DEFINE a == Append(agentq, m)
           new == DOMAIN a \ DOMAIN agentq
<1>2. /\ a \in Seq(AgentMessage)
      /\ DOMAIN agentq \subseteq DOMAIN a
      /\ \A i \in DOMAIN agentq : a[i] = agentq[i]
      /\ \A i \in new : a[i] = m
      /\ \A i, j \in new : i = j
    BY <1>1, Appended
<1>3. agentq' = agentq \/ agentq' = a
    BY DEF AgentGets
<1> HIDE DEF a
<1>4. CASE agentq' = agentq
    BY <1>1, <1>4 DEF Scheduled, ScheduledOnce, ReplyQueued, OneReply
<1>5. CASE agentq' = a
    <2>1. \A i \in DOMAIN agentq' : \/ i \in DOMAIN agentq /\ agentq'[i] = agentq[i]
                                    \/ i \in new /\ agentq'[i] = m
        BY <1>2, <1>5
    <2> HIDE DEF new
    <2>2. \A p \in Proc : Scheduled(p)' => Scheduled(p) \/ IsScheduled(m, p)
        BY <2>1 DEF Scheduled
    <2>3. ASSUME NEW p \in Proc, ScheduledOnce(p), IsScheduled(m, p) => ~Scheduled(p)
          PROVE  ScheduledOnce(p)'
        BY <1>2, <2>1, <2>3 DEF ScheduledOnce, Scheduled
    <2>4. ReplyQueued' => ReplyQueued \/ m.type = "reply"
        BY <2>1 DEF ReplyQueued
    <2>5. ASSUME OneReply, m.type = "reply" => ~ReplyQueued
          PROVE  OneReply'
        BY <1>2, <2>1, <2>5 DEF OneReply, ReplyQueued
    <2> QED
        BY <1>2, <1>5, <2>2, <2>3, <2>4, <2>5
<1> QED
    BY <1>3, <1>4, <1>5

\* The agent takes a message.
LEMMA AgentQueueShrinks ==
    ASSUME TypeOK, AgentTakes
    PROVE  /\ agentq' \in Seq(AgentMessage)
           /\ Head(agentq) \in AgentMessage
           /\ \A p \in Proc : IsScheduled(Head(agentq), p) => Scheduled(p)
           /\ \A p \in Proc : Scheduled(p)' => Scheduled(p)
           /\ \A p \in Proc : ScheduledOnce(p) =>
                 /\ ScheduledOnce(p)'
                 /\ IsScheduled(Head(agentq), p) => ~Scheduled(p)'
           /\ Head(agentq).type = "reply" => ReplyQueued
           /\ ReplyQueued' => ReplyQueued
           /\ OneReply => OneReply' /\ (Head(agentq).type = "reply" => ~ReplyQueued')
<1>1. agentq \in Seq(AgentMessage) /\ agentq # <<>>
    BY DEF TypeOK, AgentTakes
<1> DEFINE a == Tail(agentq)
           h == Head(agentq)
<1>2. /\ a \in Seq(AgentMessage)
      /\ 1 \in DOMAIN agentq /\ h = agentq[1] /\ h \in AgentMessage
      /\ \A i \in DOMAIN a :
            i \in Nat /\ i + 1 \in DOMAIN agentq /\ i + 1 # 1 /\ a[i] = agentq[i + 1]
    BY <1>1, Taken
<1>3. agentq' = a
    BY DEF AgentTakes
<1> HIDE DEF a, h
<1>4. \A i \in DOMAIN agentq' :
            i \in Nat /\ i + 1 \in DOMAIN agentq /\ i + 1 # 1 /\ agentq'[i] = agentq[i + 1]
    BY <1>2, <1>3
<1>5. \A p \in Proc : (IsScheduled(h, p) => Scheduled(p)) /\ (Scheduled(p)' => Scheduled(p))
    BY <1>2, <1>4 DEF Scheduled
<1>6. ASSUME NEW p \in Proc, ScheduledOnce(p)
      PROVE  ScheduledOnce(p)' /\ (IsScheduled(h, p) => ~Scheduled(p)')
    <2>1. ScheduledOnce(p)'
        BY <1>4, <1>6 DEF ScheduledOnce
    <2>2. IsScheduled(h, p) => ~Scheduled(p)'
        BY <1>2, <1>4, <1>6 DEF ScheduledOnce, Scheduled
    <2> QED
        BY <2>1, <2>2
<1>7. (h.type = "reply" => ReplyQueued) /\ (ReplyQueued' => ReplyQueued)
    BY <1>2, <1>4 DEF ReplyQueued
<1>8. ASSUME OneReply
      PROVE  OneReply' /\ (h.type = "reply" => ~ReplyQueued')
    <2>1. OneReply'
        BY <1>4, <1>8 DEF OneReply
    <2>2. h.type = "reply" => ~ReplyQueued'
        BY <1>2, <1>4, <1>8 DEF OneReply, ReplyQueued
    <2> QED
        BY <2>1, <2>2
<1> QED
    BY <1>2, <1>3, <1>5, <1>6, <1>7, <1>8 DEF h
-----------------------------------------------------------------------------
(* The clients *)

\* An exit status that is known does not change, and the process does not write
\* any more.
ExitsKept ==
    \A p \in Proc : proc[p].exit # None =>
        proc'[p].exit = proc[p].exit /\ os'[p].written = os[p].written

\* What a client was told stays true.
LEMMA ClientsKept ==
    ASSUME TypeOK, ClientInv, ExitsKept, client' = client, clientq' = clientq
    PROVE  ClientInv'
<1> SUFFICES ASSUME NEW c \in Client
             PROVE  QueueOK(clientq[c])' /\ ClientOK(client[c])'
    BY DEF ClientInv
<1> DEFINE rec == client[c]
<1>1. rec \in ClientRec /\ clientq[c] \in Seq(ClientMessage)
    BY DEF TypeOK
<1>2. QueueOK(clientq[c]) /\ ClientOK(rec)
    BY DEF ClientInv
<1>3. \A i, p : p \in Proc \cup {None} /\ Told(i, p) => Told(i, p)'
    BY DEF Told, ExitsKept
<1>4. QueueOK(clientq[c])'
    <2> SUFFICES ASSUME NEW j \in DOMAIN clientq[c], clientq[c][j].type = "processExited"
                 PROVE  Told(clientq[c][j].info, clientq[c][j].p)'
        BY DEF QueueOK
    <2>1. clientq[c][j] \in ClientMessage
        BY <1>1, ElementOfSeq, LenProperties
    <2>2. clientq[c][j].p \in Proc
        BY <2>1 DEF ClientMessage
    <2> QED
        BY <1>2, <2>2 DEF QueueOK, Told, ExitsKept
<1>5. ClientOK(client[c])'
    <2>1. \A e \in rec.spurious : e.p \in Proc
        BY <1>1 DEF ClientRec
    <2>2. rec.p \in Proc \cup {None}
        BY <1>1 DEF ClientRec
    <2> QED
        BY <1>1, <1>2, <2>1, <2>2 DEF ClientOK, Told, ExitsKept, NothingYet
<1> QED
    BY <1>4, <1>5

\* The parts that are not the clients' stay.
LEMMA ServerKept ==
    ASSUME ServerInv, UNCHANGED <<proc, agentq, starting, ctx, rep, os>>
    PROVE  ServerInv'
<1>1. StartInv'
    BY DEF ServerInv, StartInv, StartOK, Scheduled, ScheduledOnce
<1>2. OsInv'
    BY DEF ServerInv, OsInv, OsOK
<1>3. RepInv'
    BY DEF ServerInv, RepInv, OneReply, ReplyQueued
<1>4. FileInv'
    BY DEF ServerInv, FileInv, Uploaded, Live
<1>5. ExitInv'
    BY DEF ServerInv, ExitInv, ExitOK, TrueHow
<1> QED
    BY <1>1, <1>2, <1>3, <1>4, <1>5 DEF ServerInv

ClientMoves(c, rec, q) ==
    /\ client' = [client EXCEPT ![c] = rec]
    /\ clientq' = [clientq EXCEPT ![c] = q]
    /\ UNCHANGED <<masterVars, agentVars, os>>

\* A step of one client that leaves the others and the server alone.
LEMMA ClientStep ==
    ASSUME ExecInv, NEW c \in Client,
           NEW rec \in ClientRec, NEW q \in Seq(ClientMessage), ClientMoves(c, rec, q),
           ClientOK(rec), QueueOK(q)
    PROVE  ExecInv'
<1>1. /\ UNCHANGED <<proc, ready, agentq, agentAlive, starting, ctx, rep, os>>
      /\ client' = [client EXCEPT ![c] = rec]
      /\ clientq' = [clientq EXCEPT ![c] = q]
    BY DEF ClientMoves, masterVars, agentVars
<1>2. TypeOK'
    BY <1>1 DEF ExecInv, TypeOK
<1>3. ServerInv'
    BY <1>1, ServerKept DEF ExecInv
<1>4. ClientInv'
    <2> SUFFICES ASSUME NEW d \in Client
                 PROVE  QueueOK(clientq[d])' /\ ClientOK(client[d])'
        BY DEF ClientInv
    <2>1. /\ client'[d] = IF d = c THEN rec ELSE client[d]
          /\ clientq'[d] = IF d = c THEN q ELSE clientq[d]
        BY <1>1 DEF ExecInv, TypeOK
    <2>2. QueueOK(clientq[d]) /\ ClientOK(client[d])
        BY DEF ExecInv, ClientInv
    <2>3. CASE d = c
        BY <1>1, <2>1, <2>3 DEF QueueOK, ClientOK, Told, NothingYet
    <2>4. CASE d # c
        BY <1>1, <2>1, <2>2, <2>4 DEF QueueOK, ClientOK, Told, NothingYet
    <2> QED
        BY <2>3, <2>4
<1> QED
    BY <1>2, <1>3, <1>4 DEF ExecInv

\* A reply says nothing of a process; what is left of a queue is as it was.
LEMMA ClientQueues ==
    ASSUME ExecInv, NEW c \in Client
    PROVE  /\ clientq[c] \in Seq(ClientMessage) /\ QueueOK(clientq[c])
           /\ \A ok \in BOOLEAN :
                 ReplyTo(c, ok) \in Seq(ClientMessage) /\ QueueOK(ReplyTo(c, ok))
           /\ clientq[c] # <<>> =>
                 /\ Tail(clientq[c]) \in Seq(ClientMessage) /\ QueueOK(Tail(clientq[c]))
                 /\ Head(clientq[c]) \in ClientMessage
                 /\ Head(clientq[c]).type = "processExited" =>
                       Told(Head(clientq[c]).info, Head(clientq[c]).p)
<1> DEFINE q == clientq[c]
<1>1. q \in Seq(ClientMessage) /\ QueueOK(q)
    BY DEF ExecInv, TypeOK, ClientInv
<1> HIDE DEF q
<1>2. ASSUME NEW ok \in BOOLEAN
      PROVE  ReplyTo(c, ok) \in Seq(ClientMessage) /\ QueueOK(ReplyTo(c, ok))
    <2> DEFINE m == [type |-> "reply", ok |-> ok]
               a == Append(q, m)
    <2>1. m \in ClientMessage /\ m.type # "processExited"
        BY DEF ClientMessage
    <2> HIDE DEF m
    <2>2. /\ a \in Seq(ClientMessage)
          /\ \A i \in DOMAIN q : a[i] = q[i]
          /\ \A i \in DOMAIN a \ DOMAIN q : a[i] = m
        BY <1>1, <2>1, Appended
    <2> HIDE DEF a
    <2>3. QueueOK(a)
        BY <1>1, <2>1, <2>2 DEF QueueOK
    <2>4. ReplyTo(c, ok) = a
        BY DEF ReplyTo, a, m, q
    <2> QED
        BY <2>2, <2>3, <2>4
<1>3. ASSUME q # <<>>
      PROVE  /\ Tail(q) \in Seq(ClientMessage) /\ QueueOK(Tail(q))
             /\ Head(q) \in ClientMessage
             /\ Head(q).type = "processExited" => Told(Head(q).info, Head(q).p)
    <2> DEFINE a == Tail(q)
               h == Head(q)
    <2>1. /\ a \in Seq(ClientMessage)
          /\ 1 \in DOMAIN q /\ h = q[1] /\ h \in ClientMessage
          /\ \A i \in DOMAIN a : i + 1 \in DOMAIN q /\ a[i] = q[i + 1]
        BY <1>1, <1>3, Taken
    <2> HIDE DEF a, h
    <2>2. QueueOK(a) /\ (h.type = "processExited" => Told(h.info, h.p))
        BY <1>1, <2>1 DEF QueueOK
    <2> QED
        BY <2>1, <2>2 DEF a, h
<1> QED
    BY <1>1, <1>2, <1>3 DEF q
\* The entry for process p in the wait queue: what it holds is the exit status.
LEMMA WaitEntry ==
    ASSUME NEW rec \in ClientRec, rec.p \in Proc, ClientOK(rec)
    PROVE  /\ process_wait(rec) \in ClientRec
           /\ process_wait(rec).p = rec.p
           /\ process_wait(rec).cached = rec.cached /\ process_wait(rec).result = rec.result
           /\ process_wait(rec).got = rec.got /\ process_wait(rec).output = rec.output
           /\ Told(process_wait(rec).info, rec.p)
           /\ process_wait(rec).wq = "done" => process_wait(rec).info # None
           /\ \A e \in process_wait(rec).spurious : Told(e.info, e.p)
<1> DEFINE seen == {e \in rec.spurious : e.p = rec.p}
           first == CHOOSE e \in seen : TRUE
<1>1. CASE seen # {}
    <2>1. first \in seen
        BY <1>1
    <2>2. first.info \in ExitInfo /\ first.p = rec.p /\ first \in rec.spurious
        BY <2>1 DEF ClientRec
    <2>3. first.info # None /\ Told(first.info, rec.p)
        BY <2>2, NoneAssumption DEF ClientOK
    <2> DEFINE left == rec.spurious \ seen
    <2>4. process_wait(rec) =
              [rec EXCEPT !.wq = "done", !.info = first.info, !.spurious = left]
        BY <1>1 DEF process_wait
    <2>5. left \subseteq rec.spurious /\ left \in SUBSET [p : Proc, info : ExitInfo]
        BY DEF ClientRec
    <2> HIDE DEF first, left, seen
    <2>6. [rec EXCEPT !.wq = "done", !.info = first.info, !.spurious = left] \in ClientRec
        BY <2>2, <2>5 DEF ClientRec
    <2> QED
        BY <2>3, <2>4, <2>5, <2>6 DEF ClientOK, ClientRec
<1>2. CASE seen = {}
    <2>1. process_wait(rec) = [rec EXCEPT !.wq = "linked"]
        BY <1>2 DEF process_wait
    <2>2. [rec EXCEPT !.wq = "linked"] \in ClientRec
        BY DEF ClientRec
    <2> QED
        BY <2>1, <2>2 DEF ClientOK, ClientRec
<1> QED
    BY <1>1, <1>2

\* A signal is for the process the client waits for, or it is collected.
LEMMA SignalHeard ==
    ASSUME NEW rec \in ClientRec, ClientOK(rec), rec.pc \notin {"idle", "delete", "done"},
           NEW m \in ClientMessage, m.type = "processExited", Told(m.info, m.p)
    PROVE  Signalled(rec, m) \in ClientRec /\ ClientOK(Signalled(rec, m))
<1>1. m.p \in Proc /\ m.info \in ExitInfo
    BY DEF ClientMessage
<1>2. m.info # None
    BY <1>1, NoneAssumption
<1>3. CASE rec.wq # "none" /\ rec.p = m.p
    <2> DEFINE new == [rec EXCEPT !.wq = "done", !.info = m.info]
    <2>1. Signalled(rec, m) = new
        BY <1>3 DEF Signalled
    <2>2. new \in ClientRec
        BY <1>1 DEF ClientRec
    <2>3. ClientOK(new)
        BY <1>2, <1>3 DEF ClientOK, ClientRec, NothingYet
    <2> QED
        BY <2>1, <2>2, <2>3
<1>4. CASE ~(rec.wq # "none" /\ rec.p = m.p) /\ CollectsSpurious(rec)
    <2> DEFINE e == [p |-> m.p, info |-> m.info]
               more == rec.spurious \cup {e}
               new == [rec EXCEPT !.spurious = more]
    <2>1. Signalled(rec, m) = new
        BY <1>4 DEF Signalled
    <2>2. more \in SUBSET [p : Proc, info : ExitInfo]
        BY <1>1 DEF ClientRec
    <2>3. \A x \in more : Told(x.info, x.p)
        BY DEF ClientOK
    <2> HIDE DEF more
    <2>4. new \in ClientRec
        BY <2>2 DEF ClientRec
    <2>5. ClientOK(new)
        BY <2>3 DEF ClientOK, ClientRec, NothingYet
    <2> QED
        BY <2>1, <2>4, <2>5
<1>5. CASE ~(rec.wq # "none" /\ rec.p = m.p) /\ ~CollectsSpurious(rec)
    BY <1>5 DEF Signalled
<1> QED
    BY <1>3, <1>4, <1>5

\* What the invariant says of one client.
LEMMA ClientFacts ==
    ASSUME ExecInv, NEW c \in Client
    PROVE  /\ client[c] \in ClientRec
           /\ ClientOK(client[c])
           /\ client[c].pc \notin {"idle", "failed"} => client[c].p \in Proc
BY DEF ExecInv, TypeOK, ClientInv, ClientOK, ClientRec

\* A client dispatches a processExited signal.
LEMMA ClientSignalStep ==
    ASSUME ExecInv, NEW c \in Client, ClientSignal(c)
    PROVE  ExecInv'
<1> DEFINE rec == Signalled(client[c], Head(clientq[c]))
           q == Tail(clientq[c])
<1>1. rec \in ClientRec /\ ClientOK(rec)
    BY ClientFacts, ClientQueues, SignalHeard DEF ClientSignal
<1>2. q \in Seq(ClientMessage) /\ QueueOK(q)
    BY ClientQueues DEF ClientSignal
<1>3. ClientMoves(c, rec, q)
    BY DEF ClientSignal, Set, ClientMoves
<1> HIDE DEF rec, q
<1> QED
    BY <1>1, <1>2, <1>3, ClientStep

\* A client gets the reply to Host.run.
LEMMA ClientRunReplyStep ==
    ASSUME ExecInv, NEW c \in Client, ClientRunReply(c)
    PROVE  ExecInv'
<1> DEFINE rec == [client[c] EXCEPT !.pc = "ran"]
           q == Tail(clientq[c])
<1>1. rec \in ClientRec
    BY ClientFacts DEF ClientRec, ClientPc
<1>2. ClientOK(rec)
    BY ClientFacts DEF ClientRunReply, ClientOK, ClientRec
<1>3. q \in Seq(ClientMessage) /\ QueueOK(q)
    BY ClientQueues DEF ClientRunReply
<1>4. ClientMoves(c, rec, q)
    BY DEF ClientRunReply, Set, ClientMoves
<1> HIDE DEF rec, q
<1> QED
    BY <1>1, <1>2, <1>3, <1>4, ClientStep
\* host_run installs its wait queue entry.
LEMMA ClientRanStep ==
    ASSUME ExecInv, NEW c \in Client, ClientRan(c)
    PROVE  ExecInv'
<1> DEFINE w == process_wait(client[c])
           rec == [w EXCEPT !.pc = "refresh1"]
           q == ReplyTo(c, Live(client[c].p))
<1>1. client[c] \in ClientRec /\ ClientOK(client[c]) /\ client[c].p \in Proc
    BY ClientFacts DEF ClientRan
<1>2. /\ w \in ClientRec
      /\ w.p = client[c].p /\ w.cached = client[c].cached /\ w.result = client[c].result
      /\ w.got = client[c].got
      /\ Told(w.info, client[c].p) /\ (w.wq = "done" => w.info # None)
      /\ \A e \in w.spurious : Told(e.info, e.p)
    BY <1>1, WaitEntry
<1>3. q \in Seq(ClientMessage) /\ QueueOK(q)
    BY ClientQueues DEF Live
<1>4. ClientMoves(c, rec, q)
    BY DEF ClientRan, Set, ClientMoves
<1> HIDE DEF w, q
<1>5. rec \in ClientRec
    BY <1>2 DEF ClientRec, ClientPc
<1>6. ClientOK(rec)
    BY <1>1, <1>2, ExecAssumption DEF ClientRan, ClientOK, ClientRec
<1> HIDE DEF rec
<1> QED
    BY <1>3, <1>4, <1>5, <1>6, ClientStep

\* host_run has its reply and drops what it collected.
LEMMA ClientStartedStep ==
    ASSUME ExecInv, NEW c \in Client, ClientStarted(c)
    PROVE  ExecInv'
<1> DEFINE pc == IF Head(clientq[c]).ok THEN "started" ELSE "failed"
           rec == [client[c] EXCEPT !.pc = pc, !.spurious = {}]
           q == Tail(clientq[c])
<1>1. client[c] \in ClientRec /\ ClientOK(client[c]) /\ client[c].p \in Proc
    BY ClientFacts DEF ClientStarted
<1>2. q \in Seq(ClientMessage) /\ QueueOK(q)
    BY ClientQueues DEF ClientStarted
<1>3. ClientMoves(c, rec, q)
    BY DEF ClientStarted, Set, ClientMoves
<1>4. pc \in {"started", "failed"}
    OBVIOUS
<1> HIDE DEF pc, q
<1>5. rec \in ClientRec
    BY <1>1, <1>4 DEF ClientRec, ClientPc
<1>6. ClientOK(rec)
    BY <1>1, <1>4, NoneAssumption, ExecAssumption DEF ClientStarted, ClientOK, ClientRec
<1> HIDE DEF rec
<1> QED
    BY <1>2, <1>3, <1>5, <1>6, ClientStep

\* run-command waits, or does not.
LEMMA ClientWaitsStep ==
    ASSUME ExecInv, NEW c \in Client, ClientWaits(c)
    PROVE  ExecInv'
<1>1. PICK pc \in {"waiting", "done"} : Set(c, [client[c] EXCEPT !.pc = pc])
    BY DEF ClientWaits
<1> DEFINE rec == [client[c] EXCEPT !.pc = pc]
           q == clientq[c]
<1>2. client[c] \in ClientRec /\ ClientOK(client[c]) /\ client[c].p \in Proc
    BY ClientFacts DEF ClientWaits
<1>3. q \in Seq(ClientMessage) /\ QueueOK(q)
    BY ClientQueues
<1>4. ClientMoves(c, rec, q)
    BY <1>1 DEF ClientWaits, Set, ClientMoves, ExecInv, TypeOK
<1>5. rec \in ClientRec
    BY <1>2 DEF ClientRec, ClientPc
<1>6. ClientOK(rec)
    BY <1>2, ExecAssumption DEF ClientWaits, ClientOK, ClientRec
<1> HIDE DEF rec, q
<1> QED
    BY <1>3, <1>4, <1>5, <1>6, ClientStep

\* wait-command finds its process.
LEMMA ClientLookupStep ==
    ASSUME ExecInv, NEW c \in Client, NEW p \in Proc, ClientLookup(c, p)
    PROVE  ExecInv'
<1> DEFINE rec == [client[c] EXCEPT !.pc = "looked", !.p = p]
           q == clientq[c]
<1>1. client[c] \in ClientRec /\ ClientOK(client[c])
    BY ClientFacts
<1>2. q \in Seq(ClientMessage) /\ QueueOK(q)
    BY ClientQueues
<1>3. ClientMoves(c, rec, q)
    BY DEF ClientLookup, Set, ClientMoves, ExecInv, TypeOK
<1>4. rec \in ClientRec
    BY <1>1 DEF ClientRec, ClientPc
<1>5. ClientOK(rec)
    BY <1>1, ExecAssumption DEF ClientLookup, ClientOK, ClientRec, NothingYet, Told
<1> HIDE DEF rec, q
<1> QED
    BY <1>2, <1>3, <1>4, <1>5, ClientStep

\* wait-command subscribes and installs its wait queue entry.
LEMMA ClientInsertStep ==
    ASSUME ExecInv, NEW c \in Client, ClientInsert(c)
    PROVE  ExecInv'
<1> DEFINE w == process_wait(client[c])
           rec == [w EXCEPT !.pc = "inserted", !.subscribed = TRUE]
           q == clientq[c]
<1>1. client[c] \in ClientRec /\ ClientOK(client[c]) /\ client[c].p \in Proc
    BY ClientFacts DEF ClientInsert
<1>2. /\ w \in ClientRec
      /\ w.p = client[c].p /\ w.cached = client[c].cached /\ w.result = client[c].result
      /\ w.got = client[c].got
      /\ Told(w.info, client[c].p) /\ (w.wq = "done" => w.info # None)
      /\ \A e \in w.spurious : Told(e.info, e.p)
    BY <1>1, WaitEntry
<1>3. q \in Seq(ClientMessage) /\ QueueOK(q)
    BY ClientQueues
<1>4. ClientMoves(c, rec, q)
    BY DEF ClientInsert, Set, ClientMoves, ExecInv, TypeOK
<1> HIDE DEF w, q
<1>5. rec \in ClientRec
    BY <1>2 DEF ClientRec, ClientPc
<1>6. ClientOK(rec)
    BY <1>1, <1>2, ExecAssumption DEF ClientInsert, ClientOK, ClientRec
<1> HIDE DEF rec
<1> QED
    BY <1>3, <1>4, <1>5, <1>6, ClientStep

\* wait-command reads the properties of the process object.
LEMMA ClientRefreshStep ==
    ASSUME ExecInv, NEW c \in Client, ClientRefresh(c)
    PROVE  ExecInv'
<1> DEFINE p == client[c].p
           cached == IF Live(p) THEN proc[p].exit ELSE client[c].cached
           rec == [client[c] EXCEPT !.pc = "refresh2", !.cached = cached]
           q == ReplyTo(c, Live(p))
<1>1. client[c] \in ClientRec /\ ClientOK(client[c]) /\ p \in Proc
    BY ClientFacts DEF ClientRefresh
<1>2. q \in Seq(ClientMessage) /\ QueueOK(q)
    BY ClientQueues DEF Live
<1>3. ClientMoves(c, rec, q)
    BY DEF ClientRefresh, Set, ClientMoves
<1>4. cached \in ExitInfo \cup {None} /\ Told(cached, p)
    <2>1. proc[p].exit \in ExitInfo \cup {None}
        BY <1>1 DEF ExecInv, TypeOK, ProcRec
    <2>2. client[c].cached \in ExitInfo \cup {None} /\ Told(client[c].cached, p)
        BY <1>1 DEF ClientRec, ClientOK
    <2> QED
        BY <1>1, <2>1, <2>2, ExecAssumption DEF Told
<1> HIDE DEF cached, q
<1>5. rec \in ClientRec
    BY <1>1, <1>4 DEF ClientRec, ClientPc
<1>6. ClientOK(rec)
    BY <1>1, <1>4, ExecAssumption DEF ClientRefresh, ClientOK, ClientRec
<1> HIDE DEF rec
<1> QED
    BY <1>2, <1>3, <1>5, <1>6, ClientStep

\* The properties tell that the process has ended, or the client waits.
LEMMA ClientRefreshedStep ==
    ASSUME ExecInv, NEW c \in Client, ClientRefreshed(c)
    PROVE  ExecInv'
<1> DEFINE rec == IF client[c].cached # None
                  THEN [client[c] EXCEPT !.pc = "fetch", !.result = client[c].cached]
                  ELSE [client[c] EXCEPT !.pc = "waiting"]
           q == Tail(clientq[c])
<1>1. client[c] \in ClientRec /\ ClientOK(client[c]) /\ client[c].p \in Proc
    BY ClientFacts DEF ClientRefreshed
<1>2. q \in Seq(ClientMessage) /\ QueueOK(q)
    BY ClientQueues DEF ClientRefreshed
<1>3. ClientMoves(c, rec, q)
    BY DEF ClientRefreshed, Set, ClientMoves
<1>4. rec \in ClientRec
    BY <1>1 DEF ClientRec, ClientPc
<1>5. ClientOK(rec)
    BY <1>1, ExecAssumption DEF ClientRefreshed, ClientOK, ClientRec
<1> HIDE DEF rec, q
<1> QED
    BY <1>2, <1>3, <1>4, <1>5, ClientStep

\* The alarm has gone off.
LEMMA ClientTimeoutStep ==
    ASSUME ExecInv, NEW c \in Client, ClientTimeout(c)
    PROVE  ExecInv'
<1> DEFINE rec == [client[c] EXCEPT !.pc = "fetch", !.result = TimedOut]
           q == clientq[c]
<1>1. client[c] \in ClientRec /\ ClientOK(client[c]) /\ client[c].p \in Proc
    BY ClientFacts DEF ClientTimeout
<1>2. q \in Seq(ClientMessage) /\ QueueOK(q)
    BY ClientQueues
<1>3. ClientMoves(c, rec, q)
    BY DEF ClientTimeout, Set, ClientMoves, ExecInv, TypeOK
<1>4. rec \in ClientRec
    BY <1>1 DEF ClientRec, ClientPc
<1>5. ClientOK(rec)
    BY <1>1, NoneAssumption, ExecAssumption DEF ClientTimeout, ClientOK, ClientRec, TimedOut
<1> HIDE DEF rec, q
<1> QED
    BY <1>2, <1>3, <1>4, <1>5, ClientStep

\* The process is done.
LEMMA ClientDoneStep ==
    ASSUME ExecInv, NEW c \in Client, ClientDone(c)
    PROVE  ExecInv'
<1> DEFINE pc == IF Live(client[c].p) THEN "fetch" ELSE "failed"
           rec == [client[c] EXCEPT !.wq = "none", !.result = client[c].info, !.pc = pc]
           q == clientq[c]
<1>1. client[c] \in ClientRec /\ ClientOK(client[c]) /\ client[c].p \in Proc
    BY ClientFacts DEF ClientDone
<1>2. q \in Seq(ClientMessage) /\ QueueOK(q)
    BY ClientQueues
<1>3. ClientMoves(c, rec, q)
    BY DEF ClientDone, Set, ClientMoves, ExecInv, TypeOK
<1>4. pc \in {"fetch", "failed"}
    OBVIOUS
<1> HIDE DEF pc
<1>5. rec \in ClientRec
    BY <1>1, <1>4 DEF ClientRec, ClientPc
<1>6. ClientOK(rec)
    BY <1>1, <1>4 DEF ClientDone, ClientOK, ClientRec
<1> HIDE DEF rec, q
<1> QED
    BY <1>2, <1>3, <1>5, <1>6, ClientStep

\* The client downloads the output.
LEMMA ClientFetchStep ==
    ASSUME ExecInv, NEW c \in Client, ClientFetch(c)
    PROVE  ExecInv'
<1> DEFINE p == client[c].p
           output == [s \in Stream |->
                         IF Live(p) /\ client[c].result.bytes[s] > 0 THEN proc[p].file[s] ELSE 0]
           rec == [client[c] EXCEPT !.pc = "delete", !.got = Live(p), !.output = output]
           q == clientq[c]
<1>1. /\ client[c] \in ClientRec /\ ClientOK(client[c]) /\ p \in Proc
      /\ client[c].pc = "fetch" /\ client[c].result # None
    BY ClientFacts DEF ClientFetch, ClientOK
<1>2. q \in Seq(ClientMessage) /\ QueueOK(q)
    BY ClientQueues
<1>3. ClientMoves(c, rec, q)
    BY DEF ClientFetch, Set, ClientMoves, ExecInv, TypeOK
<1>4. proc[p].file \in Bytes /\ os[p].written \in Bytes
    BY <1>1 DEF ExecInv, TypeOK, ProcRec, OsRec
<1>5. output \in Bytes
    BY <1>4, ExecAssumption DEF Bytes
<1>6. Live(p) \in BOOLEAN
    BY DEF Live
<1>7. Live(p) /\ client[c].result # TimedOut => output = KeptOf(os[p].written)
    <2> SUFFICES ASSUME Live(p), client[c].result # TimedOut
                 PROVE  output = KeptOf(os[p].written)
        OBVIOUS
    <2>1. client[c].result = proc[p].exit /\ proc[p].exit # None
        BY <1>1 DEF ClientOK, Told
    <2>2. proc[p].exit.bytes = proc[p].file /\ proc[p].file = KeptOf(os[p].written)
        BY <1>1, <2>1 DEF ExecInv, ServerInv, ExitInv, ExitOK
    <2>3. \A s \in Stream : output[s] = proc[p].file[s]
        BY <1>4, <2>1, <2>2 DEF Bytes
    <2>4. output = proc[p].file
        BY <1>4, <1>5, <2>3 DEF Bytes
    <2> QED
        BY <2>2, <2>4
<1> HIDE DEF output
<1>8. rec \in ClientRec
    BY <1>1, <1>5, <1>6 DEF ClientRec, ClientPc
<1>9. ClientOK(rec)
    BY <1>1, <1>6, <1>7 DEF ClientOK, ClientRec
<1> HIDE DEF rec, q
<1> QED
    BY <1>2, <1>3, <1>8, <1>9, ClientStep
-----------------------------------------------------------------------------
(* The operating system *)

\* What the invariant says of one process.
LEMMA ProcFacts ==
    ASSUME ExecInv, NEW p \in Proc
    PROVE  /\ proc[p] \in ProcRec /\ os[p] \in OsRec /\ ctx[p] \in CtxRec
           /\ StartOK(p) /\ OsOK(p) /\ ExitOK(p)
           /\ os[p].st # "reaped" => proc[p].file = NoBytes
BY DEF ExecInv, TypeOK, ServerInv, StartInv, OsInv, ExitInv, FileInv

OsMoves(p, rec) ==
    /\ os' = [os EXCEPT ![p] = rec]
    /\ UNCHANGED <<masterVars, agentVars, clientVars>>

\* A process that was started and has not been reaped goes on.
LEMMA OsStep ==
    ASSUME ExecInv, NEW p \in Proc, NEW rec \in OsRec, OsMoves(p, rec),
           os[p].st \in {"forked", "running"}, rec.st \in {"running", "exited", "crashed"},
           rec.how = None <=> rec.st = "running",
           \A s \in Stream : ctx[p].chain[s] + ctx[p].wbuf[s] + rec.pipe[s] = rec.written[s]
    PROVE  ExecInv'
<1>1. /\ UNCHANGED <<proc, ready, agentq, agentAlive, starting, ctx, rep, client, clientq>>
      /\ os' = [os EXCEPT ![p] = rec]
    BY DEF OsMoves, masterVars, agentVars, clientVars
<1>2. TypeOK'
    BY <1>1 DEF ExecInv, TypeOK
<1>3. \A r \in Proc : os'[r] = IF r = p THEN rec ELSE os[r]
    BY <1>1 DEF ExecInv, TypeOK
<1>4. /\ proc[p].exit = None /\ ~Scheduled(p) /\ starting # p /\ proc[p].obj # "none"
      /\ proc[p].file = NoBytes
    BY ProcFacts DEF StartOK, ExitOK
<1>5. rep.p # p
    BY ExecAssumption DEF ExecInv, ServerInv, RepInv
<1>6. StartInv'
    <2> SUFFICES ASSUME NEW r \in Proc
                 PROVE  StartOK(r)'
        BY DEF StartInv
    <2> QED
        BY <1>1, <1>3, <1>4, ProcFacts DEF StartOK, Scheduled, ScheduledOnce
<1>7. OsInv'
    <2> SUFFICES ASSUME NEW r \in Proc
                 PROVE  OsOK(r)'
        BY DEF OsInv
    <2> QED
        BY <1>1, <1>3, ProcFacts DEF OsOK
<1>8. RepInv'
    BY <1>1, <1>3, <1>5 DEF ExecInv, ServerInv, RepInv, TypeOK, RepRec, OneReply, ReplyQueued
<1>9. FileInv'
    BY <1>1, <1>3, <1>4, <1>5 DEF ExecInv, ServerInv, FileInv, Live, Uploaded
<1>10. ExitInv'
    <2> SUFFICES ASSUME NEW r \in Proc
                 PROVE  ExitOK(r)'
        BY DEF ExitInv
    <2> QED
        BY <1>1, <1>3, <1>4, ProcFacts DEF ExitOK, TrueHow
<1>11. ClientInv'
    <2>1. ExitsKept
        BY <1>1, <1>3, <1>4 DEF ExitsKept
    <2> QED
        BY <1>1, <2>1, ClientsKept DEF ExecInv
<1> QED
    BY <1>2, <1>6, <1>7, <1>8, <1>9, <1>10, <1>11 DEF ExecInv, ServerInv

\* The child executes the program.
LEMMA ChildSetsidStep ==
    ASSUME ExecInv, NEW p \in Proc, ChildSetsid(p)
    PROVE  ExecInv'
<1> DEFINE rec == [os[p] EXCEPT !.st = "running"]
<1>1. os[p] \in OsRec /\ OsOK(p)
    BY ProcFacts
<1>2. rec \in OsRec
    BY <1>1 DEF OsRec
<1>3. rec.st = "running" /\ rec.how = None
    BY <1>1 DEF OsRec, OsOK, ChildSetsid
<1>4. \A s \in Stream : ctx[p].chain[s] + ctx[p].wbuf[s] + rec.pipe[s] = rec.written[s]
    BY <1>1 DEF OsRec, OsOK
<1>5. OsMoves(p, rec) /\ os[p].st = "forked"
    BY DEF ChildSetsid, OsMoves
<1> HIDE DEF rec
<1> QED
    BY <1>2, <1>3, <1>4, <1>5, OsStep

\* The program writes a chunk.
LEMMA ChildWriteStep ==
    ASSUME ExecInv, NEW p \in Proc, NEW s \in Stream, ChildWrite(p, s)
    PROVE  ExecInv'
<1> DEFINE written == [os[p].written EXCEPT ![s] = @ + 1]
           pipe == [os[p].pipe EXCEPT ![s] = @ + 1]
           rec == [os[p] EXCEPT !.written = written, !.pipe = pipe]
<1>1. /\ os[p] \in OsRec /\ OsOK(p) /\ ctx[p] \in CtxRec
      /\ os[p].written \in Bytes /\ os[p].pipe \in Bytes
      /\ ctx[p].chain \in Bytes /\ ctx[p].wbuf \in Bytes
    BY ProcFacts DEF OsRec, CtxRec
<1>2. os[p].written["stdout"] + os[p].written["stderr"] < MaxOut
    BY DEF ChildWrite
<1>3. \A r \in Stream : /\ os[p].written[r] \in Nat /\ os[p].pipe[r] \in Nat
                        /\ ctx[p].chain[r] \in Nat /\ ctx[p].wbuf[r] \in Nat
                        /\ ctx[p].chain[r] + ctx[p].wbuf[r] + os[p].pipe[r] = os[p].written[r]
    BY <1>1, ExecAssumption DEF Bytes, OsOK
<1>4. os[p].written[s] + 1 \in 0 .. MaxOut /\ os[p].pipe[s] + 1 \in 0 .. MaxOut
    BY <1>2, <1>3, ExecAssumption DEF Stream
<1>5. written \in Bytes /\ pipe \in Bytes
    BY <1>1, <1>4 DEF Bytes
<1>6. \A r \in Stream : /\ written[r] = IF r = s THEN os[p].written[r] + 1 ELSE os[p].written[r]
                        /\ pipe[r] = IF r = s THEN os[p].pipe[r] + 1 ELSE os[p].pipe[r]
    BY <1>1 DEF Bytes
<1>7. \A r \in Stream : ctx[p].chain[r] + ctx[p].wbuf[r] + pipe[r] = written[r]
    BY <1>3, <1>6
<1>8. OsMoves(p, rec) /\ os[p].st = "running"
    BY <1>1 DEF ChildWrite, OsMoves, ExecInv, TypeOK, OsRec
<1> HIDE DEF written, pipe
<1>9. rec \in OsRec /\ rec.st = "running" /\ rec.how = None /\ rec.written = written
      /\ rec.pipe = pipe
    BY <1>1, <1>5, <1>8 DEF OsRec, OsOK
<1> HIDE DEF rec
<1> QED
    BY <1>7, <1>8, <1>9, OsStep

\* The program ends.
LEMMA ChildExitStep ==
    ASSUME ExecInv, NEW p \in Proc, ChildExit(p)
    PROVE  ExecInv'
<1>1. PICK how \in {"exited", "crashed"} : os' = [os EXCEPT ![p].st = how, ![p].how = how]
    BY DEF ChildExit
<1> DEFINE rec == [os[p] EXCEPT !.st = how, !.how = how]
<1>2. os[p] \in OsRec /\ OsOK(p)
    BY ProcFacts
<1>3. rec \in OsRec
    BY <1>2 DEF OsRec
<1>4. rec.st \in {"exited", "crashed"} /\ rec.how # None
    BY <1>2, NoneAssumption DEF OsRec
<1>5. \A s \in Stream : ctx[p].chain[s] + ctx[p].wbuf[s] + rec.pipe[s] = rec.written[s]
    BY <1>2 DEF OsRec, OsOK
<1>6. OsMoves(p, rec) /\ os[p].st = "running"
    BY <1>1, <1>2 DEF ChildExit, OsMoves, ExecInv, TypeOK, OsRec
<1> HIDE DEF rec
<1> QED
    BY <1>3, <1>4, <1>5, <1>6, OsStep
-----------------------------------------------------------------------------
(* The agent: start and output *)

\* The agent takes up a process.
LEMMA HandleScheduledStep ==
    ASSUME ExecInv, HandleScheduled
    PROVE  ExecInv'
<1>1. /\ AgentTakes /\ starting = None /\ starting' = Head(agentq).p
      /\ UNCHANGED <<proc, ready, agentAlive, ctx, rep, os, client, clientq>>
      /\ Head(agentq).type = "processScheduled"
    BY DEF HandleScheduled, AgentTakes, AgentFree, masterVars, clientVars
<1>2. PICK p \in Proc : p = Head(agentq).p /\ IsScheduled(Head(agentq), p)
    BY <1>1, AgentQueueShrinks DEF ExecInv, AgentMessage, IsScheduled
<1>3. /\ agentq' \in Seq(AgentMessage)
      /\ Scheduled(p) /\ (ScheduledOnce(p) => ~Scheduled(p)')
      /\ \A r \in Proc : (Scheduled(r)' => Scheduled(r)) /\ (ScheduledOnce(r) => ScheduledOnce(r)')
      /\ (ReplyQueued' => ReplyQueued) /\ (OneReply => OneReply')
    BY <1>1, <1>2, AgentQueueShrinks DEF ExecInv
<1>4. TypeOK'
    BY <1>1, <1>2, <1>3 DEF ExecInv, TypeOK
<1>5. StartInv'
    <2> SUFFICES ASSUME NEW r \in Proc
                 PROVE  StartOK(r)'
        BY DEF StartInv
    <2> QED
        BY <1>1, <1>2, <1>3, ProcFacts DEF StartOK
<1>6. OsInv' /\ ExitInv' /\ FileInv'
    BY <1>1 DEF ExecInv, ServerInv, OsInv, OsOK, ExitInv, ExitOK, TrueHow, FileInv, Live, Uploaded
<1>7. RepInv'
    BY <1>1, <1>3 DEF ExecInv, ServerInv, RepInv
<1>8. ClientInv'
    BY <1>1, ClientsKept DEF ExecInv, ExitsKept
<1> QED
    BY <1>4, <1>5, <1>6, <1>7, <1>8 DEF ExecInv, ServerInv

\* The child is forked.
LEMMA AgentStartStep ==
    ASSUME ExecInv, AgentStart
    PROVE  ExecInv'
<1> DEFINE p == starting
<1>1. /\ p # None /\ starting' = None
      /\ UNCHANGED <<proc, ready, agentq, agentAlive, rep, client, clientq>>
      /\ ctx' = [ctx EXCEPT ![p].active = TRUE]
      /\ os' = [os EXCEPT ![p].st = "forked"]
    BY DEF AgentStart, masterVars, clientVars
<1>2. p \in Proc
    BY <1>1 DEF ExecInv, TypeOK
<1>3. /\ os[p].st = "none" /\ proc[p].exit = None /\ proc[p].obj # "none"
      /\ ~Scheduled(p) /\ proc[p].file = NoBytes
    BY <1>2, ProcFacts DEF StartOK
<1>4. rep.p # p
    BY <1>2, <1>3, ExecAssumption DEF ExecInv, ServerInv, RepInv
<1>5. /\ \A r \in Proc \ {p} : os'[r] = os[r] /\ ctx'[r] = ctx[r]
      /\ os'[p] = [os[p] EXCEPT !.st = "forked"]
      /\ ctx'[p] = [ctx[p] EXCEPT !.active = TRUE]
    BY <1>1, <1>2 DEF ExecInv, TypeOK
<1>6. /\ os'[p].st = "forked" /\ os'[p].how = os[p].how /\ os'[p].written = os[p].written
      /\ os'[p].pipe = os[p].pipe
      /\ ctx'[p].chain = ctx[p].chain /\ ctx'[p].wbuf = ctx[p].wbuf
      /\ os'[p] \in OsRec /\ ctx'[p] \in CtxRec
    BY <1>2, <1>5, ProcFacts DEF OsRec, CtxRec
<1>7. TypeOK'
    BY <1>1, <1>2, <1>6 DEF ExecInv, TypeOK, OsRec, CtxRec
<1> HIDE DEF p
<1>8. StartInv'
    <2> SUFFICES ASSUME NEW r \in Proc
                 PROVE  StartOK(r)'
        BY DEF StartInv
    <2>1. starting' # r
        BY <1>1, ExecAssumption
    <2> QED
        BY <1>1, <1>3, <1>5, <2>1, ProcFacts DEF StartOK, Scheduled, ScheduledOnce
<1>9. OsInv'
    <2> SUFFICES ASSUME NEW r \in Proc
                 PROVE  OsOK(r)'
        BY DEF OsInv
    <2>1. CASE r = p
        BY <1>2, <1>3, <1>6, <2>1, ProcFacts DEF OsOK
    <2>2. CASE r # p
        BY <1>5, <2>2, ProcFacts DEF OsOK
    <2> QED
        BY <2>1, <2>2
<1>10. RepInv'
    BY <1>1, <1>4, <1>5 DEF ExecInv, ServerInv, RepInv, TypeOK, RepRec, OneReply, ReplyQueued
<1>11. FileInv'
    BY <1>1, <1>3, <1>4, <1>5 DEF ExecInv, ServerInv, FileInv, TypeOK, RepRec, Live, Uploaded
<1>12. ExitInv'
    <2> SUFFICES ASSUME NEW r \in Proc
                 PROVE  ExitOK(r)'
        BY DEF ExitInv
    <2> QED
        BY <1>1, <1>3, <1>5, ProcFacts DEF ExitOK, TrueHow
<1>13. ClientInv'
    <2>1. ExitsKept
        BY <1>1, <1>3, <1>5 DEF ExitsKept
    <2> QED
        BY <1>1, <2>1, ClientsKept DEF ExecInv
<1> QED
    BY <1>7, <1>8, <1>9, <1>10, <1>11, <1>12, <1>13 DEF ExecInv, ServerInv

\* Output arrives at the agent.
LEMMA AgentReadStep ==
    ASSUME ExecInv, NEW p \in Proc, NEW s \in Stream, AgentRead(p, s)
    PROVE  ExecInv'
<1> DEFINE total == ctx[p].wbuf[s] + os[p].pipe[s]
           rest == total % Cap
           chain == [ctx[p].chain EXCEPT ![s] = @ + (total - rest)]
           wbuf == [ctx[p].wbuf EXCEPT ![s] = rest]
           pipe == [os[p].pipe EXCEPT ![s] = 0]
           crec == [ctx[p] EXCEPT !.chain = chain, !.wbuf = wbuf]
           orec == [os[p] EXCEPT !.pipe = pipe]
<1>1. /\ os[p] \in OsRec /\ OsOK(p) /\ ctx[p] \in CtxRec
      /\ os[p].written \in Bytes /\ os[p].pipe \in Bytes
      /\ ctx[p].chain \in Bytes /\ ctx[p].wbuf \in Bytes
    BY ProcFacts DEF OsRec, CtxRec
<1>2. \A r \in Stream : /\ os[p].written[r] \in 0 .. MaxOut /\ os[p].pipe[r] \in Nat
                        /\ ctx[p].chain[r] \in Nat /\ ctx[p].wbuf[r] \in Nat
                        /\ ctx[p].chain[r] + ctx[p].wbuf[r] + os[p].pipe[r] = os[p].written[r]
    BY <1>1, ExecAssumption DEF Bytes, OsOK
<1>3. total \in Nat /\ rest \in Nat /\ rest <= total
    <2>1. total \in Nat
        BY <1>2
    <2> HIDE DEF total
    <2> QED
        BY <2>1, ExecAssumption
<1>4. /\ UNCHANGED <<proc, ready, agentq, agentAlive, starting, rep, client, clientq>>
      /\ rep.p = None /\ os[p].pipe[s] > 0
      /\ ctx' = [ctx EXCEPT ![p] = crec]
      /\ os' = [os EXCEPT ![p] = orec]
    <2>1. Recv(ctx[p], os[p].pipe, s) = crec
        BY <1>1 DEF Recv, CtxRec
    <2>2. os' = [os EXCEPT ![p] = orec]
        BY DEF AgentRead, ExecInv, TypeOK, OsRec
    <2>3. ctx' = [ctx EXCEPT ![p] = crec]
        BY <2>1 DEF AgentRead
    <2> QED
        BY <2>2, <2>3 DEF AgentRead, masterVars, clientVars
<1>5. \A r \in Stream : /\ chain[r] = IF r = s THEN ctx[p].chain[r] + (total - rest) ELSE ctx[p].chain[r]
                        /\ wbuf[r] = IF r = s THEN rest ELSE ctx[p].wbuf[r]
                        /\ pipe[r] = IF r = s THEN 0 ELSE os[p].pipe[r]
    BY <1>1 DEF Bytes
<1>6. \A r \in Stream : chain[r] + wbuf[r] + pipe[r] = os[p].written[r]
                        /\ chain[r] \in Nat /\ wbuf[r] \in Nat /\ pipe[r] \in Nat
    <2>1. total = ctx[p].wbuf[s] + os[p].pipe[s]
        OBVIOUS
    <2> HIDE DEF total, rest, chain, wbuf, pipe
    <2> QED
        BY <1>2, <1>3, <1>5, <2>1
<1>7. chain \in Bytes /\ wbuf \in Bytes /\ pipe \in Bytes
    <2>1. \A r \in Stream : chain[r] \in 0 .. MaxOut /\ wbuf[r] \in 0 .. MaxOut
                            /\ pipe[r] \in 0 .. MaxOut
        <3> HIDE DEF chain, wbuf, pipe
        <3> QED
            BY <1>2, <1>6, ExecAssumption
    <2>2. DOMAIN chain = Stream /\ DOMAIN wbuf = Stream /\ DOMAIN pipe = Stream
        BY <1>1 DEF Bytes
    <2>3. /\ chain = [r \in Stream |-> chain[r]]
          /\ wbuf = [r \in Stream |-> wbuf[r]]
          /\ pipe = [r \in Stream |-> pipe[r]]
        BY <1>1 DEF Bytes
    <2> HIDE DEF chain, wbuf, pipe
    <2> QED
        BY <2>1, <2>3 DEF Bytes
<1>8. os[p].st # "reaped"
    BY <1>1, <1>4 DEF OsOK, NoBytes
<1> HIDE DEF total, rest, chain, wbuf, pipe
<1>9. /\ crec \in CtxRec /\ crec.chain = chain /\ crec.wbuf = wbuf
      /\ orec \in OsRec /\ orec.pipe = pipe /\ orec.st = os[p].st /\ orec.how = os[p].how
      /\ orec.written = os[p].written
    BY <1>1, <1>7 DEF CtxRec, OsRec
<1> HIDE DEF crec, orec
<1>10. TypeOK'
    BY <1>4, <1>9 DEF ExecInv, TypeOK
<1>11. \A r \in Proc : /\ os'[r] = IF r = p THEN orec ELSE os[r]
                       /\ ctx'[r] = IF r = p THEN crec ELSE ctx[r]
    BY <1>4 DEF ExecInv, TypeOK
<1>12. StartInv'
    <2> SUFFICES ASSUME NEW r \in Proc
                 PROVE  StartOK(r)'
        BY DEF StartInv
    <2> QED
        BY <1>4, <1>9, <1>11, ProcFacts DEF StartOK, Scheduled, ScheduledOnce
<1>13. OsInv'
    <2> SUFFICES ASSUME NEW r \in Proc
                 PROVE  OsOK(r)'
        BY DEF OsInv
    <2>1. CASE r = p
        BY <1>1, <1>6, <1>8, <1>9, <1>11, <2>1 DEF OsOK
    <2>2. CASE r # p
        BY <1>11, <2>2, ProcFacts DEF OsOK
    <2> QED
        BY <2>1, <2>2
<1>14. RepInv'
    BY <1>4, <1>9, <1>11 DEF ExecInv, ServerInv, RepInv, TypeOK, RepRec, OneReply, ReplyQueued
<1>15. FileInv'
    BY <1>4, <1>8, <1>9, <1>11 DEF ExecInv, ServerInv, FileInv, Live
<1>16. ExitInv'
    <2> SUFFICES ASSUME NEW r \in Proc
                 PROVE  ExitOK(r)'
        BY DEF ExitInv
    <2> QED
        BY <1>4, <1>9, <1>11, ProcFacts DEF ExitOK, TrueHow
<1>17. ClientInv'
    <2>1. ExitsKept
        BY <1>4, <1>9, <1>11 DEF ExitsKept
    <2> QED
        BY <1>4, <2>1, ClientsKept DEF ExecInv
<1> QED
    BY <1>10, <1>12, <1>13, <1>14, <1>15, <1>16, <1>17 DEF ExecInv, ServerInv

\* A dead child is reaped and its buffers are flushed.
LEMMA ReapStep ==
    ASSUME ExecInv, NEW p \in Proc, Reap(p)
    PROVE  ExecInv'
<1> DEFINE chain == [s \in Stream |-> ctx[p].chain[s] + ctx[p].wbuf[s] + os[p].pipe[s]]
           crec == [ctx[p] EXCEPT !.chain = chain, !.wbuf = NoBytes]
           orec == [os[p] EXCEPT !.st = "reaped", !.pipe = NoBytes]
<1>1. /\ os[p] \in OsRec /\ OsOK(p) /\ ctx[p] \in CtxRec /\ os[p].written \in Bytes
    BY ProcFacts DEF OsRec, CtxRec
<1>2. /\ UNCHANGED <<proc, ready, agentq, agentAlive, starting, client, clientq>>
      /\ rep.p = None /\ os[p].st \in {"exited", "crashed"}
      /\ rep' = [p |-> p, step |-> "eventlog", waiting |-> FALSE]
      /\ ctx' = [ctx EXCEPT ![p] = crec]
      /\ os' = [os EXCEPT ![p] = orec]
    <2>1. Flush(ctx[p], os[p].pipe) = crec
        BY DEF Flush
    <2>2. os' = [os EXCEPT ![p] = orec]
        BY DEF Reap, ExecInv, TypeOK, OsRec
    <2>3. ctx' = [ctx EXCEPT ![p] = crec]
        BY <2>1 DEF Reap
    <2> QED
        BY <2>2, <2>3 DEF Reap, masterVars, clientVars
<1>3. chain = os[p].written
    BY <1>1 DEF OsOK, Bytes
<1>4. NoBytes \in Bytes
    BY ExecAssumption DEF NoBytes, Bytes
<1> HIDE DEF chain
<1>5. /\ crec \in CtxRec /\ crec.chain = os[p].written /\ crec.wbuf = NoBytes
      /\ orec \in OsRec /\ orec.pipe = NoBytes /\ orec.st = "reaped" /\ orec.how = os[p].how
      /\ orec.written = os[p].written
    BY <1>1, <1>3, <1>4 DEF CtxRec, OsRec
<1>6. proc[p].exit = None /\ proc[p].file = NoBytes /\ ~Scheduled(p) /\ starting # p
      /\ proc[p].obj # "none"
    BY <1>2, ProcFacts DEF ExitOK, StartOK
<1>7. ~rep.waiting /\ ~ReplyQueued
    BY <1>2 DEF ExecInv, ServerInv, RepInv
<1> HIDE DEF crec, orec
<1>8. \A r \in Proc : /\ os'[r] = IF r = p THEN orec ELSE os[r]
                      /\ ctx'[r] = IF r = p THEN crec ELSE ctx[r]
    BY <1>2 DEF ExecInv, TypeOK
<1>9. rep' \in RepRec /\ rep'.p = p /\ rep'.step = "eventlog" /\ ~rep'.waiting
    BY <1>2 DEF RepRec, RepStep
<1>10. TypeOK'
    BY <1>2, <1>5, <1>9 DEF ExecInv, TypeOK
<1>11. StartInv'
    <2> SUFFICES ASSUME NEW r \in Proc
                 PROVE  StartOK(r)'
        BY DEF StartInv
    <2> QED
        BY <1>2, <1>6, <1>8, ProcFacts DEF StartOK, Scheduled, ScheduledOnce
<1>12. OsInv'
    <2> SUFFICES ASSUME NEW r \in Proc
                 PROVE  OsOK(r)'
        BY DEF OsInv
    <2>1. CASE r = p
        <3>1. os[p].how # None
            BY <1>1, <1>2 DEF OsOK
        <3>2. \A s \in Stream : crec.chain[s] + crec.wbuf[s] + orec.pipe[s] = orec.written[s]
            BY <1>1, <1>5, ExecAssumption DEF NoBytes, Bytes
        <3> QED
            BY <1>5, <1>8, <2>1, <3>1, <3>2 DEF OsOK
    <2>2. CASE r # p
        BY <1>8, <2>2, ProcFacts DEF OsOK
    <2> QED
        BY <2>1, <2>2
<1>13. RepInv'
    BY <1>2, <1>5, <1>6, <1>7, <1>8, <1>9 DEF ExecInv, ServerInv, RepInv, OneReply, ReplyQueued
<1>14. FileInv'
    <2>1. \A r \in Proc : os'[r].st # "reaped" => proc'[r].file = NoBytes
        BY <1>2, <1>5, <1>8, ProcFacts
    <2>2. \A s \in Stream : proc'[p].file[s] = 0 /\ ~Uploaded(rep', s)
        BY <1>2, <1>6, <1>9 DEF Uploaded, NoBytes
    <2> QED
        BY <1>9, <2>1, <2>2 DEF FileInv
<1>15. ExitInv'
    <2> SUFFICES ASSUME NEW r \in Proc
                 PROVE  ExitOK(r)'
        BY DEF ExitInv
    <2> QED
        BY <1>2, <1>6, <1>8, ProcFacts DEF ExitOK, TrueHow
<1>16. ClientInv'
    <2>1. ExitsKept
        BY <1>2, <1>5, <1>8 DEF ExitsKept
    <2> QED
        BY <1>2, <2>1, ClientsKept DEF ExecInv
<1> QED
    BY <1>10, <1>11, <1>12, <1>13, <1>14, <1>15, <1>16 DEF ExecInv, ServerInv
-----------------------------------------------------------------------------
(* The exit status *)

\* Nothing but the exit status of process p changes on the master.
OnlyExit(p) ==
    /\ \A r \in Proc : proc'[r].obj = proc[r].obj /\ proc'[r].file = proc[r].file
    /\ \A r \in Proc \ {p} : proc'[r] = proc[r]
    /\ proc'[p].exit # None => Live(p)

\* Process.setExitInfo: the exit status is that of the process, everybody who
\* subscribed is told so.
LEMMA ExitInfoSet ==
    ASSUME ExecInv, NEW p \in Proc, NEW how \in {"exited", "crashed", "nonstarter"},
           SetExitInfo(p, how), client' = client, os' = os, proc[p].exit = None,
           how = TrueHow(p), os[p].st \in {"none", "reaped"},
           Live(p) => proc[p].file = KeptOf(os[p].written)
    PROVE  /\ proc' \in [Proc -> ProcRec]
           /\ clientq' \in [Client -> Seq(ClientMessage)]
           /\ OnlyExit(p) /\ ExitInv' /\ ClientInv'
<1>1. CASE ~Live(p)
    <2>1. UNCHANGED <<proc, clientq>>
        BY <1>1 DEF SetExitInfo
    <2>2. ExitInv'
        BY <2>1 DEF ExecInv, ServerInv, ExitInv, ExitOK, TrueHow
    <2>3. ClientInv'
        <3>1. ExitsKept
            BY <2>1 DEF ExitsKept
        <3> QED
            BY <2>1, <3>1, ClientsKept DEF ExecInv
    <2> QED
        BY <2>1, <2>2, <2>3 DEF ExecInv, TypeOK, OnlyExit
<1>2. CASE Live(p)
    <2> DEFINE info == [how |-> how, bytes |-> proc[p].file]
               m == [type |-> "processExited", p |-> p, info |-> info]
    <2>1. /\ proc' = [proc EXCEPT ![p].exit = info]
          /\ clientq' = [c \in Client |-> IF client[c].subscribed
                                          THEN Append(clientq[c], m) ELSE clientq[c]]
        BY <1>2 DEF SetExitInfo, Broadcast
    <2>2. proc[p] \in ProcRec /\ proc \in [Proc -> ProcRec]
        BY DEF ExecInv, TypeOK
    <2>3. info \in ExitInfo /\ info.how = how /\ info.bytes = proc[p].file
        BY <2>2 DEF ProcRec, ExitInfo
    <2>4. m \in ClientMessage /\ m.p = p /\ m.info = info
        BY <2>3 DEF ClientMessage
    <2>5. info # None
        BY <2>3, NoneAssumption
    <2> HIDE DEF info, m
    <2>6. /\ proc'[p] = [proc[p] EXCEPT !.exit = info]
          /\ \A r \in Proc \ {p} : proc'[r] = proc[r]
          /\ DOMAIN proc' = Proc
        BY <2>1, <2>2
    <2>7. proc'[p] \in ProcRec /\ proc'[p].exit = info /\ proc'[p].obj = proc[p].obj
          /\ proc'[p].file = proc[p].file
        BY <2>2, <2>3, <2>6 DEF ProcRec
    <2>8. proc' \in [Proc -> ProcRec]
        BY <2>1, <2>2, <2>3 DEF ProcRec
    <2>9. OnlyExit(p)
        BY <1>2, <2>6, <2>7 DEF OnlyExit
    <2>10. ExitInv'
        <3> SUFFICES ASSUME NEW r \in Proc
                     PROVE  ExitOK(r)'
            BY DEF ExitInv
        <3>1. CASE r = p
            BY <1>2, <2>3, <2>7, <3>1 DEF ExitOK, TrueHow
        <3>2. CASE r # p
            BY <2>6, <3>2, ProcFacts DEF ExitOK, TrueHow
        <3> QED
            BY <3>1, <3>2
    <2>11. ASSUME NEW c \in Client
           PROVE  clientq'[c] \in Seq(ClientMessage) /\ QueueOK(clientq[c])' /\ ClientOK(client[c])'
        <3> DEFINE a == Append(clientq[c], m)
        <3>1. clientq[c] \in Seq(ClientMessage) /\ QueueOK(clientq[c]) /\ client[c] \in ClientRec
              /\ ClientOK(client[c])
            BY ClientQueues, ClientFacts
        <3>2. /\ a \in Seq(ClientMessage)
              /\ DOMAIN clientq[c] \subseteq DOMAIN a
              /\ \A i \in DOMAIN clientq[c] : a[i] = clientq[c][i]
              /\ \A i \in DOMAIN a \ DOMAIN clientq[c] : a[i] = m
            BY <2>4, <3>1, Appended
        <3> HIDE DEF a
        <3>3. clientq'[c] = a \/ clientq'[c] = clientq[c]
            BY <2>1 DEF a
        <3>4. clientq'[c] \in Seq(ClientMessage)
            BY <3>1, <3>2, <3>3
        <3>5. \A j \in DOMAIN clientq'[c] : \/ clientq'[c][j] = m
                                            \/ j \in DOMAIN clientq[c] /\ clientq'[c][j] = clientq[c][j]
            BY <3>2, <3>3
        <3>6. \A j \in DOMAIN clientq[c] :
                  clientq[c][j].type = "processExited" => clientq[c][j].p \in Proc
            <4>1. \A j \in DOMAIN clientq[c] : clientq[c][j] \in ClientMessage
                BY <3>1, ElementOfSeq, LenProperties
            <4> QED
                BY <4>1 DEF ClientMessage
        <3>7. QueueOK(clientq[c])'
            <4> SUFFICES ASSUME NEW j \in DOMAIN clientq'[c],
                                clientq'[c][j].type = "processExited"
                         PROVE  Told(clientq[c][j].info, clientq[c][j].p)'
                BY DEF QueueOK
            <4>1. CASE clientq'[c][j] = m
                BY <2>4, <2>7, <4>1, ExecAssumption DEF Told
            <4>2. CASE j \in DOMAIN clientq[c] /\ clientq'[c][j] = clientq[c][j]
                <5>1. /\ clientq[c][j].p \in Proc
                      /\ Told(clientq[c][j].info, clientq[c][j].p)
                    BY <3>1, <3>6, <4>2 DEF QueueOK
                <5> QED
                    BY <2>6, <4>2, <5>1 DEF Told
            <4> QED
                BY <3>5, <4>1, <4>2
        <3>8. ClientOK(client[c])'
            <4>1. \A e \in client[c].spurious : e.p \in Proc
                BY <3>1 DEF ClientRec
            <4>2. client[c].p \in Proc \cup {None}
                BY <3>1 DEF ClientRec
            <4> QED
                BY <2>6, <3>1, <4>1, <4>2 DEF ClientOK, Told, NothingYet
        <3> QED
            BY <3>4, <3>7, <3>8
    <2>12. ClientInv'
        BY <2>11 DEF ClientInv
    <2>13. clientq' \in [Client -> Seq(ClientMessage)]
        BY <2>1, <2>11
    <2> QED
        BY <2>8, <2>9, <2>10, <2>12, <2>13
<1> QED
    BY <1>1, <1>2

\* The program could not be run.
LEMMA AgentStartFailsStep ==
    ASSUME ExecInv, AgentStartFails
    PROVE  ExecInv'
<1>1. PICK p \in Proc : p = starting
    BY DEF AgentStartFails, ExecInv, TypeOK
<1>2. /\ SetExitInfo(p, "nonstarter") /\ starting' = None
      /\ UNCHANGED <<ready, agentq, agentAlive, ctx, rep, os, client>>
    BY <1>1 DEF AgentStartFails
<1>3. /\ os[p].st = "none" /\ proc[p].exit = None /\ proc[p].obj # "none"
      /\ ~Scheduled(p) /\ proc[p].file = NoBytes /\ os[p].written = NoBytes
      /\ os[p].how = None
    BY <1>1, ProcFacts DEF StartOK, OsOK
<1>4. rep.p # p
    BY <1>3, ExecAssumption DEF ExecInv, ServerInv, RepInv
<1>5. /\ proc' \in [Proc -> ProcRec]
      /\ clientq' \in [Client -> Seq(ClientMessage)]
      /\ OnlyExit(p) /\ ExitInv' /\ ClientInv'
    <2>1. TrueHow(p) = "nonstarter"
        BY <1>3 DEF TrueHow
    <2>2. proc[p].file = KeptOf(os[p].written)
        BY <1>3, KeptFacts
    <2> QED
        BY <1>2, <1>3, <2>1, <2>2, ExitInfoSet
<1>6. TypeOK'
    BY <1>2, <1>5 DEF ExecInv, TypeOK
<1>7. StartInv'
    <2> SUFFICES ASSUME NEW r \in Proc
                 PROVE  StartOK(r)'
        BY DEF StartInv
    <2>1. starting' # r
        BY <1>2, ExecAssumption
    <2> QED
        BY <1>2, <1>3, <1>5, <2>1, ProcFacts DEF StartOK, Scheduled, ScheduledOnce, OnlyExit
<1>8. OsInv'
    BY <1>2 DEF ExecInv, ServerInv, OsInv, OsOK
<1>9. RepInv'
    BY <1>2, <1>4, <1>5 DEF ExecInv, ServerInv, RepInv, TypeOK, RepRec, OneReply, ReplyQueued,
                            OnlyExit
<1>10. FileInv'
    BY <1>2, <1>5 DEF ExecInv, ServerInv, FileInv, TypeOK, RepRec, Live, Uploaded, OnlyExit
<1> QED
    BY <1>5, <1>6, <1>7, <1>8, <1>9, <1>10 DEF ExecInv, ServerInv

\* The agent has reported the exit status and waits for the reply.
LEMMA ReportExitStep ==
    ASSUME ExecInv, ReportExit
    PROVE  ExecInv'
<1> DEFINE ok == Live(rep.p)
           m == [type |-> "reply", ok |-> ok]
<1>1. PICK p \in Proc : p = rep.p
    BY DEF ReportExit, ExecInv, TypeOK, RepRec
<1>2. /\ rep.step = "exit" /\ ~rep.waiting
      /\ SetExitInfo(p, os[p].how)
      /\ rep' = [rep EXCEPT !.waiting = TRUE]
      /\ agentq' = Append(agentq, m)
      /\ UNCHANGED <<ready, agentAlive, starting, ctx, os, client>>
    BY <1>1 DEF ReportExit, Called
<1>3. /\ os[p].st = "reaped" /\ proc[p].exit = None /\ ~ReplyQueued /\ OneReply
    BY <1>1, <1>2, ExecAssumption DEF ExecInv, ServerInv, RepInv
<1>4. os[p].how \in {"exited", "crashed"} /\ TrueHow(p) = os[p].how
    BY <1>3, ProcFacts DEF OsOK, OsRec, TrueHow
<1>5. Live(p) => proc[p].file = KeptOf(os[p].written)
    <2> SUFFICES ASSUME Live(p)
                 PROVE  proc[p].file = KeptOf(os[p].written)
        OBVIOUS
    <2>1. \A s \in Stream : proc[p].file[s] = Kept(ctx[p].chain[s])
        <3>1. \A s \in Stream : Uploaded(rep, s)
            BY <1>2 DEF Uploaded, Stream
        <3> QED
            BY <1>1, <1>2, <3>1, ExecAssumption DEF ExecInv, ServerInv, FileInv
    <2>2. /\ ctx[p].chain \in Bytes /\ os[p].written \in Bytes /\ proc[p].file \in Bytes
          /\ OsOK(p)
        BY ProcFacts DEF ProcRec, OsRec, CtxRec
    <2>3. \A s \in Stream : ctx[p].chain[s] = os[p].written[s]
        BY <1>3, <2>2, ExecAssumption DEF OsOK, NoBytes, Bytes
    <2> QED
        BY <2>1, <2>2, <2>3 DEF Bytes, KeptOf
<1>6. /\ proc' \in [Proc -> ProcRec]
      /\ clientq' \in [Client -> Seq(ClientMessage)]
      /\ OnlyExit(p) /\ ExitInv' /\ ClientInv'
    BY <1>2, <1>3, <1>4, <1>5, ExitInfoSet
<1>7. m \in AgentMessage /\ m.type = "reply"
    BY DEF AgentMessage, Live
<1> HIDE DEF m
<1>8. /\ agentq' \in Seq(AgentMessage)
      /\ \A r \in Proc : (Scheduled(r)' => Scheduled(r)) /\ (ScheduledOnce(r) => ScheduledOnce(r)')
      /\ OneReply'
    <2>1. AgentGets(m)
        BY <1>2 DEF AgentGets
    <2>2. \A r \in Proc : ~IsScheduled(m, r)
        BY <1>7 DEF IsScheduled
    <2> QED
        BY <1>3, <1>7, <2>1, <2>2, AgentQueueGrows DEF ExecInv
<1>9. rep' \in RepRec /\ rep'.p = p /\ rep'.step = "exit" /\ rep'.waiting
    BY <1>1, <1>2 DEF ExecInv, TypeOK, RepRec
<1>10. TypeOK'
    BY <1>2, <1>6, <1>8, <1>9 DEF ExecInv, TypeOK
<1>11. StartInv'
    <2> SUFFICES ASSUME NEW r \in Proc
                 PROVE  StartOK(r)'
        BY DEF StartInv
    <2> QED
        BY <1>2, <1>3, <1>6, <1>8, ProcFacts DEF StartOK, OnlyExit
<1>12. OsInv'
    BY <1>2 DEF ExecInv, ServerInv, OsInv, OsOK
<1>13. RepInv'
    BY <1>2, <1>3, <1>8, <1>9, ExecAssumption DEF RepInv
<1>14. FileInv'
    <2>1. \A r \in Proc : os'[r].st # "reaped" => proc'[r].file = NoBytes
        BY <1>2, <1>6, ProcFacts DEF OnlyExit
    <2>2. \A s \in Stream : Uploaded(rep', s) /\ Uploaded(rep, s)
        BY <1>2, <1>9 DEF Uploaded, Stream
    <2>3. Live(p) => \A s \in Stream : proc[p].file[s] = Kept(ctx[p].chain[s])
        BY <1>1, <1>2, <2>2, ExecAssumption DEF ExecInv, ServerInv, FileInv
    <2>4. Live(p)' => \A s \in Stream : proc'[p].file[s] = Kept(ctx'[p].chain[s])
        BY <1>2, <1>6, <2>3 DEF Live, OnlyExit
    <2> QED
        BY <1>9, <2>1, <2>2, <2>4 DEF FileInv, Live
<1> QED
    BY <1>6, <1>10, <1>11, <1>12, <1>13, <1>14 DEF ExecInv, ServerInv
-----------------------------------------------------------------------------
(* The agent: kill and report *)

\* The process was deleted on the master: its program is killed.
LEMMA HandleDeletedStep ==
    ASSUME ExecInv, HandleDeleted
    PROVE  ExecInv'
<1>1. /\ AgentTakes /\ Head(agentq).type = "deleted"
      /\ UNCHANGED <<proc, ready, agentAlive, starting, rep, client, clientq>>
    BY DEF HandleDeleted, AgentTakes, masterVars, clientVars
<1>2. PICK p \in Proc : p = Head(agentq).p
    BY <1>1, AgentQueueShrinks DEF ExecInv, AgentMessage
<1>3. /\ agentq' \in Seq(AgentMessage)
      /\ \A r \in Proc : (Scheduled(r)' => Scheduled(r)) /\ (ScheduledOnce(r) => ScheduledOnce(r)')
      /\ (ReplyQueued' => ReplyQueued) /\ (OneReply => OneReply')
    BY <1>1, AgentQueueShrinks DEF ExecInv
<1> DEFINE killed == [os[p] EXCEPT !.st = "crashed", !.how = "crashed"]
           dropped == [ctx[p] EXCEPT !.deleted_on_master = TRUE]
<1>4. /\ os' = os \/ (os[p].st = "running" /\ os' = [os EXCEPT ![p] = killed])
      /\ ctx' = ctx \/ ctx' = [ctx EXCEPT ![p] = dropped]
    BY <1>2 DEF HandleDeleted, Kill, ExecInv, TypeOK
<1>5. /\ os[p] \in OsRec /\ ctx[p] \in CtxRec /\ OsOK(p)
    BY ProcFacts
<1>6. /\ killed \in OsRec /\ killed.st = "crashed" /\ killed.how = "crashed"
      /\ killed.written = os[p].written /\ killed.pipe = os[p].pipe
      /\ dropped \in CtxRec /\ dropped.chain = ctx[p].chain /\ dropped.wbuf = ctx[p].wbuf
    BY <1>5 DEF OsRec, CtxRec
<1>7. os[p].st = "running" => /\ proc[p].exit = None /\ ~Scheduled(p) /\ starting # p
                              /\ proc[p].obj # "none" /\ proc[p].file = NoBytes /\ rep.p # p
    BY ProcFacts, ExecAssumption DEF ExitOK, StartOK, ExecInv, ServerInv, RepInv
<1> HIDE DEF killed, dropped
<1>8. \A r \in Proc : /\ ctx'[r].chain = ctx[r].chain /\ ctx'[r].wbuf = ctx[r].wbuf
                      /\ os'[r] = os[r] \/ (r = p /\ os[p].st = "running" /\ os'[r] = killed)
    BY <1>4, <1>6 DEF ExecInv, TypeOK
<1>9. \A r \in Proc : os'[r].written = os[r].written /\ os'[r].pipe = os[r].pipe
    BY <1>6, <1>8
<1>10. TypeOK'
    BY <1>1, <1>3, <1>4, <1>6 DEF ExecInv, TypeOK
<1>11. StartInv'
    <2> SUFFICES ASSUME NEW r \in Proc
                 PROVE  StartOK(r)'
        BY DEF StartInv
    <2> QED
        BY <1>1, <1>3, <1>7, <1>8, ProcFacts DEF StartOK
<1>12. OsInv'
    <2> SUFFICES ASSUME NEW r \in Proc
                 PROVE  OsOK(r)'
        BY DEF OsInv
    <2>1. CASE os'[r] = os[r]
        BY <1>8, <2>1, ProcFacts DEF OsOK
    <2>2. CASE r = p /\ os[p].st = "running" /\ os'[r] = killed
        BY <1>5, <1>6, <1>8, <2>2, NoneAssumption DEF OsOK
    <2> QED
        BY <1>8, <2>1, <2>2
<1>13. RepInv'
    BY <1>1, <1>3, <1>7, <1>8 DEF ExecInv, ServerInv, RepInv, TypeOK, RepRec
<1>14. FileInv'
    <2>1. \A r \in Proc : os'[r].st # "reaped" => proc'[r].file = NoBytes
        BY <1>1, <1>7, <1>8, ProcFacts
    <2> QED
        BY <1>1, <1>8, <2>1 DEF ExecInv, ServerInv, FileInv, TypeOK, RepRec, Live, Uploaded
<1>15. ExitInv'
    <2> SUFFICES ASSUME NEW r \in Proc
                 PROVE  ExitOK(r)'
        BY DEF ExitInv
    <2> QED
        BY <1>1, <1>7, <1>8, ProcFacts DEF ExitOK, TrueHow
<1>16. ClientInv'
    <2>1. ExitsKept
        BY <1>1, <1>9 DEF ExitsKept
    <2> QED
        BY <1>1, <2>1, ClientsKept DEF ExecInv
<1> QED
    BY <1>10, <1>11, <1>12, <1>13, <1>14, <1>15, <1>16 DEF ExecInv, ServerInv

\* Nothing of the master, the processes and the clients changes.
OnlyAgent ==
    /\ UNCHANGED <<proc, ready, agentAlive, os, client, clientq>>
    /\ \A p \in Proc : ctx'[p].chain = ctx[p].chain /\ ctx'[p].wbuf = ctx[p].wbuf

\* What a step of the agent's own leaves as it was.
LEMMA AgentOnlyStep ==
    ASSUME ExecInv, OnlyAgent, starting' \in {starting, None},
           \A p \in Proc : (Scheduled(p)' => Scheduled(p)) /\ (ScheduledOnce(p) => ScheduledOnce(p)')
    PROVE  StartInv' /\ OsInv' /\ ExitInv' /\ ClientInv'
<1>1. StartInv'
    <2> SUFFICES ASSUME NEW r \in Proc
                 PROVE  StartOK(r)'
        BY DEF StartInv
    <2>1. starting' = r => starting = r
        BY ExecAssumption
    <2> QED
        BY <2>1, ProcFacts DEF StartOK, OnlyAgent
<1>2. OsInv'
    BY DEF OnlyAgent, ExecInv, ServerInv, OsInv, OsOK
<1>3. ExitInv'
    BY DEF OnlyAgent, ExecInv, ServerInv, ExitInv, ExitOK, TrueHow
<1>4. ClientInv'
    <2>1. ExitsKept
        BY DEF ExitsKept, OnlyAgent
    <2> QED
        BY <2>1, ClientsKept DEF ExecInv, OnlyAgent
<1> QED
    BY <1>1, <1>2, <1>3, <1>4

\* The events are pushed.
LEMMA ReportEventlogStep ==
    ASSUME ExecInv, ReportEventlog
    PROVE  ExecInv'
<1> DEFINE step == IF ctx[rep.p].deleted_on_master THEN "free" ELSE "refresh"
<1>1. /\ UNCHANGED <<proc, ready, agentq, agentAlive, starting, ctx, os, client, clientq>>
      /\ rep.step = "eventlog" /\ rep.p # None
      /\ rep' = [rep EXCEPT !.step = step]
    BY DEF ReportEventlog, masterVars, clientVars
<1>2. rep \in RepRec /\ ~rep.waiting
    BY <1>1 DEF ExecInv, TypeOK, ServerInv, RepInv
<1>3. step \in {"free", "refresh"}
    OBVIOUS
<1> HIDE DEF step
<1>4. rep' \in RepRec /\ rep'.p = rep.p /\ rep'.step = step /\ ~rep'.waiting
    BY <1>1, <1>2, <1>3 DEF RepRec, RepStep
<1>5. TypeOK'
    BY <1>1, <1>4 DEF ExecInv, TypeOK
<1>6. StartInv' /\ OsInv' /\ ExitInv' /\ ClientInv'
    <2>1. OnlyAgent
        BY <1>1 DEF OnlyAgent
    <2>2. \A p \in Proc : Scheduled(p)' = Scheduled(p) /\ ScheduledOnce(p)' = ScheduledOnce(p)
        BY <1>1 DEF Scheduled, ScheduledOnce
    <2> QED
        BY <1>1, <2>1, <2>2, AgentOnlyStep
<1>7. RepInv'
    BY <1>1, <1>2, <1>3, <1>4 DEF ExecInv, ServerInv, RepInv, OneReply, ReplyQueued
<1>8. FileInv'
    BY <1>1, <1>2, <1>3, <1>4 DEF ExecInv, ServerInv, FileInv, Live, Uploaded
<1> QED
    BY <1>5, <1>6, <1>7, <1>8 DEF ExecInv, ServerInv

\* The context is freed.
LEMMA ReportFreeStep ==
    ASSUME ExecInv, ReportFree
    PROVE  ExecInv'
<1>1. /\ UNCHANGED <<proc, ready, agentq, agentAlive, starting, os, client, clientq>>
      /\ rep.step = "free" /\ rep.p # None
      /\ rep' = NoReport
      /\ ctx' = [ctx EXCEPT ![rep.p].active = FALSE]
    BY DEF ReportFree, masterVars, clientVars
<1>2. rep \in RepRec /\ ~rep.waiting /\ ~ReplyQueued /\ rep.p \in Proc
    BY <1>1 DEF ExecInv, TypeOK, ServerInv, RepInv, RepRec
<1>3. rep' \in RepRec /\ rep'.p = None /\ ~rep'.waiting
    BY <1>1 DEF RepRec, RepStep, NoReport
<1>4. ctx' \in [Proc -> CtxRec]
    BY <1>1, <1>2 DEF ExecInv, TypeOK, CtxRec
<1>5. \A p \in Proc : ctx'[p].chain = ctx[p].chain /\ ctx'[p].wbuf = ctx[p].wbuf
    BY <1>1, <1>2 DEF ExecInv, TypeOK, CtxRec
<1>6. TypeOK'
    BY <1>1, <1>3, <1>4 DEF ExecInv, TypeOK
<1>7. StartInv' /\ OsInv' /\ ExitInv' /\ ClientInv'
    <2>1. OnlyAgent
        BY <1>1, <1>5 DEF OnlyAgent
    <2>2. \A p \in Proc : Scheduled(p)' = Scheduled(p) /\ ScheduledOnce(p)' = ScheduledOnce(p)
        BY <1>1 DEF Scheduled, ScheduledOnce
    <2> QED
        BY <1>1, <2>1, <2>2, AgentOnlyStep
<1>8. RepInv'
    BY <1>1, <1>2, <1>3 DEF ExecInv, ServerInv, RepInv, OneReply, ReplyQueued
<1>9. FileInv'
    BY <1>1, <1>3 DEF ExecInv, ServerInv, FileInv
<1> QED
    BY <1>6, <1>7, <1>8, <1>9 DEF ExecInv, ServerInv

\* The agent dies.
LEMMA AgentDiesStep ==
    ASSUME ExecInv, AgentDies
    PROVE  ExecInv'
<1>1. /\ UNCHANGED <<proc, ready, os, client, clientq>>
      /\ agentAlive' = FALSE /\ agentq' = <<>> /\ starting' = None
      /\ rep' = NoReport
      /\ ctx' = [p \in Proc |-> [ctx[p] EXCEPT !.active = FALSE]]
    BY DEF AgentDies, masterVars, clientVars
<1>2. rep' \in RepRec /\ rep'.p = None /\ ~rep'.waiting
    BY <1>1 DEF RepRec, RepStep, NoReport
<1>3. \A p \in Proc : /\ ctx'[p] \in CtxRec
                      /\ ctx'[p].chain = ctx[p].chain /\ ctx'[p].wbuf = ctx[p].wbuf
    BY <1>1 DEF ExecInv, TypeOK, CtxRec
<1>4. ctx' \in [Proc -> CtxRec]
    BY <1>1, <1>3
<1>5. TypeOK'
    <2>1. agentq' \in Seq(AgentMessage)
        BY <1>1, EmptySeq
    <2> HIDE DEF AgentMessage
    <2> QED
        BY <1>1, <1>2, <1>4, <2>1 DEF ExecInv, TypeOK
<1>6. DOMAIN agentq' = {}
    BY <1>1
<1>7. StartInv'
    <2> SUFFICES ASSUME NEW r \in Proc
                 PROVE  StartOK(r)'
        BY DEF StartInv
    <2> QED
        BY <1>1, <1>6, ProcFacts, ExecAssumption DEF StartOK, Scheduled, ScheduledOnce
<1>8. OsInv' /\ ExitInv'
    BY <1>1, <1>3 DEF ExecInv, ServerInv, OsInv, OsOK, ExitInv, ExitOK, TrueHow
<1>9. ClientInv'
    <2>1. ExitsKept
        BY <1>1 DEF ExitsKept
    <2> QED
        BY <1>1, <2>1, ClientsKept DEF ExecInv
<1>10. RepInv'
    BY <1>2, <1>6 DEF RepInv, OneReply, ReplyQueued
<1>11. FileInv'
    BY <1>1, <1>2 DEF ExecInv, ServerInv, FileInv
<1> QED
    BY <1>5, <1>7, <1>8, <1>9, <1>10, <1>11 DEF ExecInv, ServerInv

\* The agent's call of the master that leaves the reply in its queue.
LEMMA CalledStep ==
    ASSUME ExecInv, NEW ok \in BOOLEAN, Called(ok), ~rep.waiting
    PROVE  /\ agentq' \in Seq(AgentMessage)
           /\ \A r \in Proc : (Scheduled(r)' => Scheduled(r)) /\ (ScheduledOnce(r) => ScheduledOnce(r)')
           /\ OneReply'
           /\ rep' \in RepRec /\ rep'.p = rep.p /\ rep'.step = rep.step /\ rep'.waiting
<1> DEFINE m == [type |-> "reply", ok |-> ok]
<1>1. m \in AgentMessage /\ m.type = "reply"
    BY DEF AgentMessage
<1>2. AgentGets(m) /\ rep' = [rep EXCEPT !.waiting = TRUE]
    BY DEF Called, AgentGets
<1> HIDE DEF m
<1>3. ~ReplyQueued /\ OneReply
    BY DEF ExecInv, ServerInv, RepInv
<1>4. \A r \in Proc : ~IsScheduled(m, r)
    BY <1>1 DEF IsScheduled
<1>5. rep' \in RepRec /\ rep'.p = rep.p /\ rep'.step = rep.step /\ rep'.waiting
    BY <1>2 DEF ExecInv, TypeOK, RepRec
<1> QED
    BY <1>1, <1>2, <1>3, <1>4, <1>5, AgentQueueGrows DEF ExecInv
\* The agent looks whether the object is there.
LEMMA ReportRefreshStep ==
    ASSUME ExecInv, ReportRefresh
    PROVE  ExecInv'
<1>1. /\ UNCHANGED <<proc, ready, agentAlive, starting, ctx, os, client, clientq>>
      /\ rep.step = "refresh" /\ ~rep.waiting /\ rep.p # None
      /\ Called(Live(rep.p))
    BY DEF ReportRefresh, masterVars, clientVars
<1>2. /\ agentq' \in Seq(AgentMessage)
      /\ \A r \in Proc : (Scheduled(r)' => Scheduled(r)) /\ (ScheduledOnce(r) => ScheduledOnce(r)')
      /\ OneReply'
      /\ rep' \in RepRec /\ rep'.p = rep.p /\ rep'.step = "refresh" /\ rep'.waiting
    BY <1>1, CalledStep DEF Live
<1>3. TypeOK'
    BY <1>1, <1>2 DEF ExecInv, TypeOK
<1>4. StartInv' /\ OsInv' /\ ExitInv' /\ ClientInv'
    <2>1. OnlyAgent
        BY <1>1 DEF OnlyAgent
    <2> QED
        BY <1>1, <1>2, <2>1, AgentOnlyStep
<1>5. RepInv'
    BY <1>1, <1>2 DEF ExecInv, ServerInv, RepInv
<1>6. FileInv'
    BY <1>1, <1>2 DEF ExecInv, ServerInv, FileInv, Live, Uploaded
<1> QED
    BY <1>3, <1>4, <1>5, <1>6 DEF ExecInv, ServerInv

\* A file of the object takes what the agent uploads.
LEMMA ReportUploadStep ==
    ASSUME ExecInv, ReportUpload
    PROVE  ExecInv'
<1>1. PICK p \in Proc, s \in Stream : p = rep.p /\ s = rep.step
    BY DEF ReportUpload, ExecInv, TypeOK, RepRec
<1>2. /\ UNCHANGED <<ready, agentAlive, starting, ctx, os, client, clientq>>
      /\ ~rep.waiting
      /\ \/ /\ ctx[p].chain[s] = 0
            /\ rep' = [rep EXCEPT !.step = AfterStep(s, TRUE)]
            /\ UNCHANGED <<proc, agentq>>
         \/ /\ Called(Live(p) /\ ctx[p].chain[s] <= FileMax)
            /\ proc' = IF Live(p) THEN [proc EXCEPT ![p].file[s] = Kept(ctx[p].chain[s])]
                    ELSE proc
    BY <1>1 DEF ReportUpload, clientVars
<1>3. /\ proc[p] \in ProcRec /\ ctx[p] \in CtxRec /\ rep \in RepRec
      /\ proc[p].file \in Bytes /\ ctx[p].chain \in Bytes
      /\ os[p].st = "reaped" /\ proc[p].exit = None
    BY <1>1, ProcFacts, ExecAssumption
       DEF ProcRec, CtxRec, Stream, ExecInv, TypeOK, ServerInv, RepInv
<1>4. Live(p) => \A t \in Stream :
          proc[p].file[t] = IF Uploaded(rep, t) THEN Kept(ctx[p].chain[t]) ELSE 0
    BY <1>1, ExecAssumption DEF Stream, ExecInv, ServerInv, FileInv
<1>5. CASE /\ ctx[p].chain[s] = 0
           /\ rep' = [rep EXCEPT !.step = AfterStep(s, TRUE)]
           /\ UNCHANGED <<proc, agentq>>
    <2>1. AfterStep(s, TRUE) = IF s = "stdout" THEN "stderr" ELSE "exit"
        BY DEF AfterStep, Stream
    <2>2. /\ rep' \in RepRec /\ rep'.p = p /\ ~rep'.waiting
          /\ rep'.step = IF s = "stdout" THEN "stderr" ELSE "exit"
        BY <1>1, <1>2, <1>3, <1>5, <2>1 DEF RepRec, RepStep
    <2>3. TypeOK'
        BY <1>2, <1>5, <2>2 DEF ExecInv, TypeOK
    <2>4. StartInv' /\ OsInv' /\ ExitInv' /\ ClientInv'
        <3>1. OnlyAgent
            BY <1>2, <1>5 DEF OnlyAgent
        <3>2. \A r \in Proc : Scheduled(r)' = Scheduled(r) /\ ScheduledOnce(r)' = ScheduledOnce(r)
            BY <1>5 DEF Scheduled, ScheduledOnce
        <3> QED
            BY <1>2, <3>1, <3>2, AgentOnlyStep
    <2>5. RepInv'
        BY <1>1, <1>2, <1>3, <1>5, <2>2 DEF ExecInv, ServerInv, RepInv, OneReply, ReplyQueued
    <2>6. FileInv'
        <3>1. \A t \in Stream : Uploaded(rep, t)' <=> Uploaded(rep, t) \/ t = s
            BY <1>1, <1>2, <2>2 DEF Uploaded, Stream
        <3>2. Live(p) => \A t \in Stream :
                  proc'[p].file[t] = IF Uploaded(rep, t)' THEN Kept(ctx'[p].chain[t]) ELSE 0
            BY <1>2, <1>4, <1>5, <3>1, KeptFacts
        <3>3. Live(p)' = Live(p)
            BY <1>5 DEF Live
        <3>4. \A r \in Proc : os'[r].st # "reaped" => proc'[r].file = NoBytes
            BY <1>2, <1>5, ProcFacts
        <3> QED
            BY <2>2, <3>2, <3>3, <3>4 DEF FileInv, Live
    <2> QED
        BY <2>3, <2>4, <2>5, <2>6 DEF ExecInv, ServerInv
<1>6. CASE /\ Called(Live(p) /\ ctx[p].chain[s] <= FileMax)
           /\ proc' = IF Live(p) THEN [proc EXCEPT ![p].file[s] = Kept(ctx[p].chain[s])]
                    ELSE proc
    <2> DEFINE file == IF Live(p) THEN [proc[p].file EXCEPT ![s] = Kept(ctx[p].chain[s])]
                   ELSE proc[p].file
               prec == [proc[p] EXCEPT !.file = file]
    <2>1. /\ agentq' \in Seq(AgentMessage)
          /\ \A r \in Proc : (Scheduled(r)' => Scheduled(r)) /\ (ScheduledOnce(r) => ScheduledOnce(r)')
          /\ OneReply'
          /\ rep' \in RepRec /\ rep'.p = p /\ rep'.step = s /\ rep'.waiting
        BY <1>1, <1>2, <1>6, CalledStep DEF Live
    <2>2. file \in Bytes
        BY <1>3, KeptFacts DEF Bytes
    <2>3. proc' = [proc EXCEPT ![p] = prec]
        BY <1>3, <1>6 DEF ExecInv, TypeOK, ProcRec
    <2>4. Live(p) => \A t \in Stream :
              file[t] = IF t = s THEN Kept(ctx[p].chain[t]) ELSE proc[p].file[t]
        BY <1>3 DEF Bytes
    <2> HIDE DEF file
    <2>5. prec \in ProcRec /\ prec.obj = proc[p].obj /\ prec.exit = proc[p].exit /\ prec.file = file
        BY <1>3, <2>2 DEF ProcRec
    <2> HIDE DEF prec
    <2>6. \A r \in Proc : proc'[r] = IF r = p THEN prec ELSE proc[r]
        BY <2>3 DEF ExecInv, TypeOK
    <2>7. TypeOK'
        BY <1>2, <2>1, <2>3, <2>5 DEF ExecInv, TypeOK
    <2>8. StartInv'
        <3> SUFFICES ASSUME NEW r \in Proc
                     PROVE  StartOK(r)'
            BY DEF StartInv
        <3> QED
            BY <1>2, <2>1, <2>5, <2>6, ProcFacts DEF StartOK
    <2>9. OsInv'
        BY <1>2 DEF ExecInv, ServerInv, OsInv, OsOK
    <2>10. RepInv'
        BY <1>2, <1>3, <2>1, <2>5, <2>6, ExecAssumption DEF Stream, RepInv
    <2>11. FileInv'
        <3>1. \A r \in Proc : os'[r].st # "reaped" => proc'[r].file = NoBytes
            BY <1>2, <1>3, <2>6, ProcFacts
        <3>2. \A t \in Stream : Uploaded(rep, t)' <=> Uploaded(rep, t) \/ t = s
            BY <1>1, <1>2, <2>1 DEF Uploaded, Stream
        <3>3. Live(p)' => \A t \in Stream :
                  proc'[p].file[t] = IF Uploaded(rep, t)' THEN Kept(ctx'[p].chain[t]) ELSE 0
            BY <1>2, <1>4, <2>4, <2>5, <2>6, <3>2 DEF Live
        <3> QED
            BY <2>1, <3>1, <3>3 DEF FileInv, Live
    <2>12. ExitInv'
        <3> SUFFICES ASSUME NEW r \in Proc
                     PROVE  ExitOK(r)'
            BY DEF ExitInv
        <3> QED
            BY <1>2, <1>3, <2>5, <2>6, ProcFacts DEF ExitOK, TrueHow
    <2>13. ClientInv'
        <3>1. ExitsKept
            BY <1>2, <2>5, <2>6 DEF ExitsKept
        <3> QED
            BY <1>2, <3>1, ClientsKept DEF ExecInv
    <2> QED
        BY <2>7, <2>8, <2>9, <2>10, <2>11, <2>12, <2>13 DEF ExecInv, ServerInv
<1> QED
    BY <1>2, <1>5, <1>6

\* The reply is here, and the report goes on.
LEMMA ReportReplyStep ==
    ASSUME ExecInv, ReportReply
    PROVE  ExecInv'
<1> DEFINE step == AfterStep(rep.step, Head(agentq).ok)
<1>1. /\ UNCHANGED <<proc, ready, agentAlive, starting, ctx, os, client, clientq>>
      /\ AgentTakes /\ Head(agentq).type = "reply"
      /\ rep' = [rep EXCEPT !.step = step, !.waiting = FALSE]
    BY DEF ReportReply, AgentTakes, masterVars, clientVars
<1>2. /\ agentq' \in Seq(AgentMessage)
      /\ \A r \in Proc : (Scheduled(r)' => Scheduled(r)) /\ (ScheduledOnce(r) => ScheduledOnce(r)')
      /\ OneReply' /\ ~ReplyQueued' /\ ReplyQueued
    BY <1>1, AgentQueueShrinks DEF ExecInv, ServerInv, RepInv
<1>3. /\ rep \in RepRec /\ rep.waiting /\ rep.p # None
      /\ rep.step \in {"refresh", "stdout", "stderr", "exit"}
    BY <1>2 DEF ExecInv, TypeOK, ServerInv, RepInv
<1>4. step \in CASE rep.step = "refresh" -> {"stdout", "free"}
                 [] rep.step = "stdout" -> {"stderr"}
                 [] rep.step = "stderr" -> {"exit"}
                 [] OTHER -> {"free"}
    BY <1>3 DEF AfterStep
<1> HIDE DEF step
<1>5. step \in {"stdout", "stderr", "exit", "free"} /\ (rep.step = "exit" => step = "free")
    BY <1>3, <1>4
<1>6. rep' \in RepRec /\ rep'.p = rep.p /\ rep'.step = step /\ ~rep'.waiting
    BY <1>1, <1>3, <1>5 DEF RepRec, RepStep
<1>7. TypeOK'
    BY <1>1, <1>2, <1>6 DEF ExecInv, TypeOK
<1>8. StartInv' /\ OsInv' /\ ExitInv' /\ ClientInv'
    <2>1. OnlyAgent
        BY <1>1 DEF OnlyAgent
    <2> QED
        BY <1>1, <1>2, <2>1, AgentOnlyStep
<1>9. RepInv'
    BY <1>1, <1>2, <1>3, <1>5, <1>6 DEF ExecInv, ServerInv, RepInv
<1>10. FileInv'
    <2>1. step # "free" => \A s \in Stream : Uploaded(rep, s)' <=> Uploaded(rep, s)
        BY <1>3, <1>4, <1>6 DEF Uploaded, Stream
    <2> QED
        BY <1>1, <1>3, <1>6, <2>1 DEF ExecInv, ServerInv, FileInv, Live
<1> QED
    BY <1>7, <1>8, <1>9, <1>10 DEF ExecInv, ServerInv
-----------------------------------------------------------------------------
(* The master *)

\* The master sees that the agent is gone.
LEMMA HostDisconnectedStep ==
    ASSUME ExecInv, HostDisconnected
    PROVE  ExecInv'
<1>1. /\ UNCHANGED <<proc, agentq, agentAlive, starting, ctx, rep, os, client, clientq>>
      /\ ready' = FALSE
    BY DEF HostDisconnected, agentVars, clientVars
<1>2. TypeOK'
    BY <1>1 DEF ExecInv, TypeOK
<1>3. ServerInv'
    BY <1>1, ServerKept DEF ExecInv
<1>4. ClientInv'
    BY <1>1, ClientsKept DEF ExecInv, ExitsKept
<1> QED
    BY <1>2, <1>3, <1>4 DEF ExecInv

\* Deleting a process object changes neither its exit status nor its output.
LEMMA DeletedProcess ==
    ASSUME ExecInv, NEW p \in Proc, DeleteProcess(p), Live(p),
           UNCHANGED <<ready, agentAlive, starting, ctx, rep, os>>
    PROVE  /\ proc' \in [Proc -> ProcRec] /\ agentq' \in Seq(AgentMessage)
           /\ ServerInv' /\ ExitsKept
<1> DEFINE m == [type |-> "deleted", p |-> p]
           prec == [proc[p] EXCEPT !.obj = "deleted"]
<1>1. m \in AgentMessage /\ m.type = "deleted"
    BY DEF AgentMessage
<1>2. AgentGets(m) /\ proc' = [proc EXCEPT ![p] = prec]
    BY DEF DeleteProcess, ToAgent, AgentGets
<1> HIDE DEF m
<1>3. /\ agentq' \in Seq(AgentMessage)
      /\ \A r \in Proc : (Scheduled(r)' => Scheduled(r)) /\ (ScheduledOnce(r) => ScheduledOnce(r)')
      /\ (ReplyQueued' => ReplyQueued) /\ (OneReply => OneReply')
    <2>1. \A r \in Proc : ~IsScheduled(m, r)
        BY <1>1 DEF IsScheduled
    <2> QED
        BY <1>1, <1>2, <2>1, AgentQueueGrows DEF ExecInv
<1>4. /\ prec \in ProcRec /\ prec.obj = "deleted"
      /\ prec.exit = proc[p].exit /\ prec.file = proc[p].file
    BY ProcFacts DEF ProcRec
<1> HIDE DEF prec
<1>5. /\ proc' \in [Proc -> ProcRec]
      /\ \A r \in Proc : proc'[r] = IF r = p THEN prec ELSE proc[r]
    BY <1>2, <1>4 DEF ExecInv, TypeOK
<1>6. \A r \in Proc : proc'[r].exit = proc[r].exit /\ proc'[r].file = proc[r].file
    BY <1>4, <1>5
<1>7. StartInv'
    <2> SUFFICES ASSUME NEW r \in Proc
                 PROVE  StartOK(r)'
        BY DEF StartInv
    <2> QED
        BY <1>3, <1>4, <1>5, ProcFacts DEF StartOK
<1>8. OsInv'
    BY DEF ExecInv, ServerInv, OsInv, OsOK
<1>9. RepInv'
    BY <1>3, <1>6 DEF ExecInv, ServerInv, RepInv, TypeOK, RepRec
<1>10. FileInv'
    <2>1. \A r \in Proc : os'[r].st # "reaped" => proc'[r].file = NoBytes
        BY <1>6, ProcFacts
    <2>2. \A r \in Proc : Live(r)' => Live(r)
        BY <1>4, <1>5 DEF Live
    <2>3. rep.p # None => rep.p \in Proc
        BY DEF ExecInv, TypeOK, RepRec
    <2> QED
        BY <1>6, <2>1, <2>2, <2>3 DEF ExecInv, ServerInv, FileInv, Uploaded, Live
<1>11. ExitInv'
    BY <1>6 DEF ExecInv, ServerInv, ExitInv, ExitOK, TrueHow
<1>12. ExitsKept
    BY <1>6 DEF ExitsKept
<1> QED
    BY <1>3, <1>5, <1>7, <1>8, <1>9, <1>10, <1>11, <1>12 DEF ServerInv

\* Another program deletes the process object.
LEMMA OtherDeleteStep ==
    ASSUME ExecInv, NEW p \in Proc, OtherDelete(p)
    PROVE  ExecInv'
<1>1. /\ DeleteProcess(p) /\ Live(p)
      /\ UNCHANGED <<ready, agentAlive, starting, ctx, rep, os, client, clientq>>
    BY DEF OtherDelete, clientVars
<1>2. /\ proc' \in [Proc -> ProcRec] /\ agentq' \in Seq(AgentMessage)
      /\ ServerInv' /\ ExitsKept
    BY <1>1, DeletedProcess
<1>3. TypeOK'
    BY <1>1, <1>2 DEF ExecInv, TypeOK
<1>4. ClientInv'
    BY <1>1, <1>2, ClientsKept DEF ExecInv
<1> QED
    BY <1>2, <1>3, <1>4 DEF ExecInv

\* One client goes on while the master and the agent do, too.
OneClient(c, rec, q) ==
    /\ client' = [client EXCEPT ![c] = rec]
    /\ clientq' = [clientq EXCEPT ![c] = q]

\* The clients after such a step.
LEMMA ClientAlong ==
    ASSUME ExecInv, ExitsKept, NEW c \in Client, NEW rec \in ClientRec,
           NEW q \in Seq(ClientMessage), OneClient(c, rec, q), ClientOK(rec), QueueOK(q)
    PROVE  ClientInv' /\ client' \in [Client -> ClientRec]
           /\ clientq' \in [Client -> Seq(ClientMessage)]
<1>1. /\ client' = [client EXCEPT ![c] = rec]
      /\ clientq' = [clientq EXCEPT ![c] = q]
    BY DEF OneClient
<1>2. /\ client' \in [Client -> ClientRec]
      /\ clientq' \in [Client -> Seq(ClientMessage)]
    BY <1>1 DEF ExecInv, TypeOK
<1>3. ASSUME NEW d \in Client
      PROVE  QueueOK(clientq[d])' /\ ClientOK(client[d])'
    <2>1. /\ client'[d] \in ClientRec /\ clientq'[d] \in Seq(ClientMessage)
          /\ client'[d] = rec \/ client'[d] = client[d]
          /\ clientq'[d] = q \/ clientq'[d] = clientq[d]
        BY <1>1, <1>2 DEF ExecInv, TypeOK
    <2>2. QueueOK(clientq[d]) /\ ClientOK(client[d])
        BY DEF ExecInv, ClientInv
    <2>3. \A j \in DOMAIN clientq'[d] :
              clientq'[d][j].type = "processExited" => clientq'[d][j].p \in Proc
        <3>1. \A j \in DOMAIN clientq'[d] : clientq'[d][j] \in ClientMessage
            BY <2>1, ElementOfSeq, LenProperties
        <3> QED
            BY <3>1 DEF ClientMessage
    <2>4. QueueOK(clientq[d])'
        <3>1. \A j \in DOMAIN clientq'[d] : clientq'[d][j].type = "processExited" =>
                  Told(clientq'[d][j].info, clientq'[d][j].p)
            BY <2>1, <2>2 DEF QueueOK
        <3> QED
            BY <2>3, <3>1 DEF QueueOK, Told, ExitsKept
    <2>5. ClientOK(client[d])'
        <3>1. \A e \in client'[d].spurious : e.p \in Proc
            BY <2>1 DEF ClientRec
        <3>2. client'[d].p \in Proc \cup {None}
            BY <2>1 DEF ClientRec
        <3>3. ClientOK(client'[d])
            BY <2>1, <2>2
        <3> QED
            BY <3>1, <3>2, <3>3 DEF ClientOK, Told, ExitsKept, NothingYet
    <2> QED
        BY <2>4, <2>5
<1> QED
    BY <1>2, <1>3 DEF ClientInv

\* The client deletes the process it has fetched the output of.
LEMMA ClientDeleteStep ==
    ASSUME ExecInv, NEW c \in Client, ClientDelete(c)
    PROVE  ExecInv'
<1> DEFINE rec == [client[c] EXCEPT !.pc = "done"]
           q == clientq[c]
<1>1. PICK p \in Proc : p = client[c].p
    BY ClientFacts DEF ClientDelete
<1>2. /\ UNCHANGED <<ready, agentAlive, starting, ctx, rep, os, clientq>>
      /\ \/ DeleteProcess(p) /\ Live(p)
         \/ UNCHANGED <<proc, agentq>>
    BY <1>1 DEF ClientDelete
<1>3. client[c] \in ClientRec /\ ClientOK(client[c]) /\ client[c].pc = "delete"
    BY ClientFacts DEF ClientDelete
<1>4. rec \in ClientRec
    BY <1>3 DEF ClientRec, ClientPc
<1>5. ClientOK(rec)
    BY <1>3 DEF ClientOK, ClientRec
<1>6. q \in Seq(ClientMessage) /\ QueueOK(q)
    BY ClientQueues
<1>7. OneClient(c, rec, q)
    BY DEF ClientDelete, Set, OneClient, ExecInv, TypeOK
<1> HIDE DEF rec, q
<1>8. /\ proc' \in [Proc -> ProcRec] /\ agentq' \in Seq(AgentMessage)
      /\ ServerInv' /\ ExitsKept
    <2>1. CASE DeleteProcess(p) /\ Live(p)
        BY <1>2, <2>1, DeletedProcess
    <2>2. CASE UNCHANGED <<proc, agentq>>
        BY <1>2, <2>2, ServerKept DEF ExecInv, TypeOK, ExitsKept
    <2> QED
        BY <1>2, <2>1, <2>2
<1>9. ClientInv' /\ client' \in [Client -> ClientRec]
      /\ clientq' \in [Client -> Seq(ClientMessage)]
    BY <1>4, <1>5, <1>6, <1>7, <1>8, ClientAlong
<1>10. TypeOK'
    BY <1>2, <1>8, <1>9 DEF ExecInv, TypeOK
<1> QED
    BY <1>8, <1>9, <1>10 DEF ExecInv

\* Host.run creates the process object and schedules it.
LEMMA ClientRunStep ==
    ASSUME ExecInv, NEW c \in Client, NEW p \in Proc, ClientRun(c, p)
    PROVE  ExecInv'
<1>1. client[c] \in ClientRec /\ ClientOK(client[c]) /\ client[c].pc = "idle"
      /\ NothingYet(client[c])
    BY ClientFacts DEF ClientRun, ClientOK
<1>2. CASE ~ready
    <2> DEFINE rec == [client[c] EXCEPT !.pc = "failed"]
               q == clientq[c]
    <2>1. rec \in ClientRec
        BY <1>1 DEF ClientRec, ClientPc
    <2>2. ClientOK(rec)
        BY <1>1 DEF ClientOK, ClientRec, NothingYet
    <2>3. q \in Seq(ClientMessage) /\ QueueOK(q)
        BY ClientQueues
    <2>4. ClientMoves(c, rec, q)
        BY <1>2 DEF ClientRun, Set, ClientMoves, masterVars, agentVars, ExecInv, TypeOK
    <2> HIDE DEF rec, q
    <2> QED
        BY <2>1, <2>2, <2>3, <2>4, ClientStep
<1>3. CASE ready
    <2> DEFINE rec == [client[c] EXCEPT !.pc = "run", !.p = p, !.subscribed = TRUE]
               q == ReplyTo(c, TRUE)
               m == [type |-> "processScheduled", p |-> p]
               prec == [proc[p] EXCEPT !.obj = "live"]
    <2>1. /\ UNCHANGED <<ready, agentAlive, starting, ctx, rep, os>>
          /\ proc[p].obj = "none"
          /\ proc' = [proc EXCEPT ![p] = prec]
          /\ AgentGets(m) /\ OneClient(c, rec, q)
        BY <1>3 DEF ClientRun, Set, ToAgent, AgentGets, OneClient
    <2>2. rec \in ClientRec
        BY <1>1 DEF ClientRec, ClientPc
    <2>3. ClientOK(rec)
        BY <1>1, ExecAssumption, NoneAssumption DEF ClientOK, ClientRec, NothingYet, Told
    <2>4. q \in Seq(ClientMessage) /\ QueueOK(q)
        BY ClientQueues
    <2>5. m \in AgentMessage /\ m.type = "processScheduled" /\ m.p = p
        BY DEF AgentMessage
    <2>6. /\ prec \in ProcRec /\ prec.obj = "live"
          /\ prec.exit = proc[p].exit /\ prec.file = proc[p].file
        BY ProcFacts DEF ProcRec
    <2>7. os[p].st = "none" /\ proc[p].exit = None /\ ~Scheduled(p) /\ starting # p
        BY <2>1, ProcFacts DEF StartOK
    <2>8. rep.p # p
        BY <2>7, ExecAssumption DEF ExecInv, ServerInv, RepInv
    <2> HIDE DEF rec, q, m, prec
    <2>9. \A r \in Proc : IsScheduled(m, r) <=> r = p
        BY <2>5 DEF IsScheduled
    <2>10. /\ agentq' \in Seq(AgentMessage)
           /\ \A r \in Proc : Scheduled(r)' => Scheduled(r) \/ r = p
           /\ \A r \in Proc : ScheduledOnce(r) => ScheduledOnce(r)'
           /\ (ReplyQueued' => ReplyQueued) /\ (OneReply => OneReply')
        BY <2>1, <2>5, <2>7, <2>9, AgentQueueGrows DEF ExecInv
    <2>11. /\ proc' \in [Proc -> ProcRec]
           /\ \A r \in Proc : proc'[r] = IF r = p THEN prec ELSE proc[r]
        BY <2>1, <2>6 DEF ExecInv, TypeOK
    <2>12. \A r \in Proc : proc'[r].exit = proc[r].exit /\ proc'[r].file = proc[r].file
        BY <2>6, <2>11
    <2>13. StartInv'
        <3> SUFFICES ASSUME NEW r \in Proc
                     PROVE  StartOK(r)'
            BY DEF StartInv
        <3>1. CASE r = p
            BY <2>1, <2>6, <2>7, <2>10, <2>11, <3>1, ProcFacts DEF StartOK
        <3>2. CASE r # p
            BY <2>1, <2>10, <2>11, <3>2, ProcFacts DEF StartOK
        <3> QED
            BY <3>1, <3>2
    <2>14. OsInv'
        BY <2>1 DEF ExecInv, ServerInv, OsInv, OsOK
    <2>15. RepInv'
        BY <2>1, <2>10, <2>12 DEF ExecInv, ServerInv, RepInv, TypeOK, RepRec
    <2>16. FileInv'
        <3>1. \A r \in Proc : os'[r].st # "reaped" => proc'[r].file = NoBytes
            BY <2>1, <2>12, ProcFacts
        <3>2. rep.p # None => rep.p \in Proc /\ proc'[rep.p] = proc[rep.p]
            BY <2>8, <2>11 DEF ExecInv, TypeOK, RepRec
        <3> QED
            BY <2>1, <3>1, <3>2 DEF ExecInv, ServerInv, FileInv, Uploaded, Live
    <2>17. ExitInv'
        BY <2>1, <2>12 DEF ExecInv, ServerInv, ExitInv, ExitOK, TrueHow
    <2>18. ExitsKept
        BY <2>1, <2>12 DEF ExitsKept
    <2>19. ClientInv' /\ client' \in [Client -> ClientRec]
           /\ clientq' \in [Client -> Seq(ClientMessage)]
        BY <2>1, <2>2, <2>3, <2>4, <2>18, ClientAlong
    <2>20. TypeOK'
        BY <2>1, <2>10, <2>11, <2>19 DEF ExecInv, TypeOK
    <2> QED
        BY <2>13, <2>14, <2>15, <2>16, <2>17, <2>19, <2>20 DEF ExecInv, ServerInv
<1> QED
    BY <1>2, <1>3 DEF ExecInv, TypeOK

-----------------------------------------------------------------------------
(* The theorems *)

\* The invariant holds before anything has been run.
LEMMA NothingHappened == Init => ExecInv
<1> SUFFICES ASSUME Init
             PROVE  ExecInv
    OBVIOUS
<1>1. NoBytes \in Bytes
    BY ExecAssumption DEF NoBytes, Bytes
<1>2. TypeOK
    <2>1. <<>> \in Seq(AgentMessage) /\ <<>> \in Seq(ClientMessage)
        BY EmptySeq
    <2>2. rep \in RepRec
        BY DEF Init, RepRec, NoReport, RepStep
    <2>3. proc \in [Proc -> ProcRec] /\ ctx \in [Proc -> CtxRec] /\ os \in [Proc -> OsRec]
        BY <1>1 DEF Init, ProcRec, CtxRec, OsRec
    <2>4. client \in [Client -> ClientRec]
        BY <1>1 DEF Init, ClientRec, ClientPc
    <2> HIDE DEF AgentMessage, ClientMessage
    <2> QED
        BY <2>1, <2>2, <2>3, <2>4 DEF Init, TypeOK
<1>3. StartInv
    <2>1. DOMAIN agentq = {} /\ \A p \in Proc : starting # p
        BY ExecAssumption DEF Init
    <2>2. \A p \in Proc : proc[p].obj = "none" /\ proc[p].exit = None /\ os[p].st = "none"
        BY DEF Init
    <2> QED
        BY <2>1, <2>2 DEF StartInv, StartOK, Scheduled, ScheduledOnce
<1>4. OsInv
    <2>1. \A p \in Proc : /\ os[p].how = None /\ os[p].st = "none"
                          /\ os[p].written = NoBytes /\ os[p].pipe = NoBytes
                          /\ ctx[p].chain = NoBytes /\ ctx[p].wbuf = NoBytes
        BY DEF Init
    <2>2. \A s \in Stream : NoBytes[s] + NoBytes[s] + NoBytes[s] = NoBytes[s]
        BY DEF NoBytes
    <2> QED
        BY <2>1, <2>2 DEF OsInv, OsOK
<1>5. RepInv
    BY DEF Init, RepInv, NoReport, OneReply, ReplyQueued
<1>6. FileInv
    BY DEF Init, FileInv, NoReport
<1>7. ExitInv
    BY DEF Init, ExitInv, ExitOK
<1>8. ClientInv
    BY DEF Init, ClientInv, QueueOK, ClientOK, NothingYet, Told
<1> QED
    BY <1>2, <1>3, <1>4, <1>5, <1>6, <1>7, <1>8 DEF ExecInv, ServerInv

\* Every step keeps the invariant.
LEMMA ExecStep == ExecInv /\ [Next]_vars => ExecInv'
<1> SUFFICES ASSUME ExecInv, [Next]_vars
             PROVE  ExecInv'
    OBVIOUS
<1>1. CASE UNCHANGED vars
    <2>1. UNCHANGED <<proc, ready, agentq, agentAlive, starting, ctx, rep, os, client, clientq>>
        BY <1>1 DEF vars
    <2>2. TypeOK'
        BY <2>1 DEF ExecInv, TypeOK
    <2>3. ServerInv' /\ ClientInv'
        BY <2>1, ServerKept, ClientsKept DEF ExecInv, ExitsKept
    <2> QED
        BY <2>2, <2>3 DEF ExecInv
<1>2. CASE OsNext
    BY <1>2, ChildSetsidStep, ChildExitStep, ChildWriteStep DEF OsNext
<1>3. CASE AgentNext
    BY <1>3, HandleScheduledStep, AgentStartStep, AgentStartFailsStep, HandleDeletedStep,
       ReapStep, AgentReadStep, ReportEventlogStep, ReportRefreshStep, ReportUploadStep,
       ReportExitStep, ReportReplyStep, ReportFreeStep DEF AgentNext
<1>4. CASE ClientNext
    BY <1>4, ClientRunStep, ClientLookupStep, ClientSignalStep, ClientRunReplyStep,
       ClientRanStep, ClientStartedStep, ClientWaitsStep, ClientInsertStep,
       ClientRefreshStep, ClientRefreshedStep, ClientTimeoutStep, ClientDoneStep,
       ClientFetchStep, ClientDeleteStep DEF ClientNext
<1>5. CASE AgentDies \/ HostDisconnected \/ \E p \in Proc : OtherDelete(p)
    BY <1>5, AgentDiesStep, HostDisconnectedStep, OtherDeleteStep
<1> QED
    BY <1>1, <1>2, <1>3, <1>4, <1>5 DEF Next

\* The invariant of process execution.
THEOREM ExecInvariant == Spec => []ExecInv
BY NothingHappened, ExecStep, PTL DEF Spec

\* What a client is told about the end of a process is what the agent reported,
\* and that is how the process ended (__ni_testbus_process_signal,
\* ni_testbus_wait_for_process, Process.setExitInfo).
THEOREM ResultsAreTrue == Spec => []ResultIsTrue
<1>1. ExecInv => ResultIsTrue
    <2> SUFFICES ASSUME ExecInv, NEW c \in Client, client[c].result \notin {None, TimedOut}
                 PROVE  /\ client[c].result = proc[client[c].p].exit
                        /\ client[c].result.how = TrueHow(client[c].p)
        BY DEF ResultIsTrue, TrueHow
    <2>1. client[c].p \in Proc /\ client[c].result = proc[client[c].p].exit
          /\ proc[client[c].p].exit # None
        BY ClientFacts DEF ClientOK, Told, ClientRec
    <2> QED
        BY <2>1, ProcFacts DEF ExitOK
<1> QED
    BY <1>1, ExecInvariant, PTL

\* A client that has been told how a process ended downloads all that the
\* process wrote and a file can hold, and of more than that the full buffers that
\* fit (__ni_testbus_process_notify uploads before it reports, Tmpfile.append,
\* __do_wait_command).
THEOREM OutputIsComplete == Spec => []OutputComplete
<1>1. ExecInv => OutputComplete
    BY DEF ExecInv, ClientInv, ClientOK, OutputComplete, KeptOf, Kept
<1> QED
    BY <1>1, ExecInvariant, PTL
=============================================================================
