----------------------------- MODULE ProcessExec -----------------------------
(***************************************************************************)
(* Running a process on a host: a client calls Host.run, the master        *)
(* creates the process object and signals the agent, the agent forks,      *)
(* collects the output, and reports the exit status; the master broadcasts *)
(* it to the clients that wait (testbus/calls.c, server/dbus-host.c,       *)
(* server/dbus-process.c, agent/command.c, dborb/process.c).               *)
(*                                                                         *)
(* The bus keeps the order of what the master sends to one peer: signals   *)
(* and replies arrive in one FIFO queue per client and per agent.  A call  *)
(* is handled by the master in one step and leaves a reply in the caller's *)
(* queue; the caller dispatches the signals that arrive before the reply,  *)
(* and some of those behind it, before it goes on                          *)
(* (ni_dbus_connection_call).                                              *)
(***************************************************************************)
EXTENDS Naturals, Sequences

CONSTANTS
    Proc,           \* process objects; each is created by one call of Host.run
    Client,         \* client programs: run-command or wait-command
    TimedClients,   \* the clients that wait with a timeout
    MaxOut,         \* bound: chunks a process writes to its two streams
    Cap,            \* chunks that fit into one output buffer (4096 bytes)
    FileMax,        \* chunks a file on the master may have (NI_TESTBUS_TMPFILE_SIZE_MAX)
    None

ASSUME ExecAssumption ==
    /\ MaxOut \in Nat
    /\ Cap \in Nat \ {0}
    /\ FileMax \in Nat
    /\ TimedClients \subseteq Client
    /\ None \notin Proc

VARIABLES
    proc,           \* master: the process objects
    ready,          \* master: host->ready
    agentq,         \* signals and replies on their way to the agent
    agentAlive,
    starting,       \* agent: process whose processScheduled is being handled
    ctx,            \* agent: ni_testbus_active_processes and their buffers
    rep,            \* agent: the exit report in progress
    os,             \* the operating system's view of the processes
    client,         \* the clients
    clientq         \* signals and replies on their way to each client

vars == <<proc, ready, agentq, agentAlive, starting, ctx, rep, os, client, clientq>>
masterVars == <<proc, ready>>
agentVars == <<agentq, agentAlive, starting, ctx, rep>>
clientVars == <<client, clientq>>

-----------------------------------------------------------------------------
(* Types *)

Stream == {"stdout", "stderr"}
Bytes == [Stream -> 0 .. MaxOut]
NoBytes == [s \in Stream |-> 0]

\* ni_process_exit_info_t; bytes is filled in by the master.
ExitInfo == [how : {"exited", "crashed", "nonstarter"}, bytes : Bytes]
TimedOut == [how |-> "timedout", bytes |-> NoBytes]

\* None is no exit status, and no way for a process to end.
ASSUME NoneAssumption ==
    /\ None \notin ExitInfo \cup {TimedOut}
    /\ None \notin {"exited", "crashed"}

ProcRec == [obj : {"none", "live", "deleted"}, exit : ExitInfo \cup {None}, file : Bytes]

\* The context of a started process; chain holds the full output buffers and
\* wbuf the one being filled.
CtxRec == [active : BOOLEAN, deleted_on_master : BOOLEAN, chain : Bytes, wbuf : Bytes]

OsRec == [st : {"none", "forked", "running", "exited", "crashed", "reaped"},
          how : {"exited", "crashed", None}, pipe : Bytes, written : Bytes]

RepStep == {"eventlog", "refresh", "stdout", "stderr", "exit", "free"}
RepRec == [p : Proc \cup {None}, step : RepStep, waiting : BOOLEAN]

ClientPc == {"idle", "run", "ran", "refresh1", "started", "looked", "inserted",
             "refresh2", "waiting", "fetch", "delete", "done", "failed"}

\* wq is the wait queue entry for process p, spurious the exit signals collected
\* while run() is in progress, cached the exit-info property of the proxy object.
ClientRec == [pc : ClientPc, p : Proc \cup {None}, subscribed : BOOLEAN,
              wq : {"none", "linked", "done"}, info : ExitInfo \cup {None},
              spurious : SUBSET [p : Proc, info : ExitInfo],
              cached : ExitInfo \cup {None},
              result : ExitInfo \cup {TimedOut, None}, output : Bytes, got : BOOLEAN]

AgentMessage == [type : {"processScheduled", "deleted"}, p : Proc]
           \cup [type : {"reply"}, ok : BOOLEAN]

ClientMessage == [type : {"processExited"}, p : Proc, info : ExitInfo]
            \cup [type : {"reply"}, ok : BOOLEAN]

TypeOK ==
    /\ proc \in [Proc -> ProcRec]
    /\ ready \in BOOLEAN
    /\ agentq \in Seq(AgentMessage)
    /\ agentAlive \in BOOLEAN
    /\ starting \in Proc \cup {None}
    /\ ctx \in [Proc -> CtxRec]
    /\ rep \in RepRec
    /\ os \in [Proc -> OsRec]
    /\ client \in [Client -> ClientRec]
    /\ clientq \in [Client -> Seq(ClientMessage)]

NoReport == [p |-> None, step |-> "free", waiting |-> FALSE]

Init ==
    /\ proc = [p \in Proc |-> [obj |-> "none", exit |-> None, file |-> NoBytes]]
    /\ ready = TRUE
    /\ agentq = <<>>
    /\ agentAlive = TRUE
    /\ starting = None
    /\ ctx = [p \in Proc |-> [active |-> FALSE, deleted_on_master |-> FALSE,
                              chain |-> NoBytes, wbuf |-> NoBytes]]
    /\ rep = NoReport
    /\ os = [p \in Proc |-> [st |-> "none", how |-> None, pipe |-> NoBytes,
                             written |-> NoBytes]]
    /\ client = [c \in Client |->
          [pc |-> "idle", p |-> None, subscribed |-> FALSE, wq |-> "none",
           info |-> None, spurious |-> {}, cached |-> None, result |-> None,
           output |-> NoBytes, got |-> FALSE]]
    /\ clientq = [c \in Client |-> <<>>]

-----------------------------------------------------------------------------
(* The master *)

Live(p) == proc[p].obj = "live"

\* The queues after a broadcast of processExited to the clients that subscribed.
Broadcast(q, p, info) ==
    [c \in Client |->
        IF client[c].subscribed
        THEN Append(q[c], [type |-> "processExited", p |-> p, info |-> info])
        ELSE q[c]]

\* Process.setExitInfo: fill in the sizes of the output files, save the exit
\* info and broadcast it.
SetExitInfo(p, how) ==
    LET info == [how |-> how, bytes |-> proc[p].file] IN
    IF Live(p)
    THEN /\ proc' = [proc EXCEPT ![p].exit = info]
         /\ clientq' = Broadcast(clientq, p, info)
    ELSE UNCHANGED <<proc, clientq>>

ToAgent(m) == IF agentAlive THEN Append(agentq, m) ELSE agentq

\* The master sees the agent's bus name vanish.
HostDisconnected ==
    /\ ready
    /\ ~agentAlive
    /\ ready' = FALSE
    /\ UNCHANGED <<proc, agentVars, os, clientVars>>

\* Container.delete of a process, or of the command that owns it.
DeleteProcess(p) ==
    /\ proc' = [proc EXCEPT ![p].obj = "deleted"]
    /\ agentq' = ToAgent([type |-> "deleted", p |-> p])

-----------------------------------------------------------------------------
(* The operating system *)

\* The child becomes the leader of its process group and executes the program.
ChildSetsid(p) ==
    /\ os[p].st = "forked"
    /\ os' = [os EXCEPT ![p].st = "running"]
    /\ UNCHANGED <<masterVars, agentVars, clientVars>>

ChildWrite(p, s) ==
    /\ os[p].st = "running"
    /\ os[p].written["stdout"] + os[p].written["stderr"] < MaxOut
    /\ os' = [os EXCEPT ![p].written[s] = @ + 1, ![p].pipe[s] = @ + 1]
    /\ UNCHANGED <<masterVars, agentVars, clientVars>>

ChildExit(p) ==
    /\ os[p].st = "running"
    /\ \E how \in {"exited", "crashed"} :
          os' = [os EXCEPT ![p].st = how, ![p].how = how]
    /\ UNCHANGED <<masterVars, agentVars, clientVars>>

-----------------------------------------------------------------------------
(* The agent *)

\* Nothing of the agent runs while a processScheduled signal is being handled:
\* calls made from a signal handler do not dispatch.
AgentFree == agentAlive /\ starting = None

\* ni_process_kill signals the process group, which the child creates itself.
Kill(rec) == IF rec.st = "running" THEN [rec EXCEPT !.st = "crashed", !.how = "crashed"]
             ELSE rec

HandleScheduled ==
    /\ AgentFree
    /\ agentq # <<>>
    /\ Head(agentq).type = "processScheduled"
    /\ agentq' = Tail(agentq)
    /\ starting' = Head(agentq).p
    /\ UNCHANGED <<masterVars, agentAlive, ctx, rep, os, clientVars>>

\* __ni_testbus_process_run: the files are attached and the child is forked.
AgentStart ==
    /\ agentAlive
    /\ starting # None
    /\ ctx' = [ctx EXCEPT ![starting].active = TRUE]
    /\ os' = [os EXCEPT ![starting].st = "forked"]
    /\ starting' = None
    /\ UNCHANGED <<masterVars, agentq, agentAlive, rep, clientVars>>

\* A file cannot be attached, or the program cannot be run.
AgentStartFails ==
    /\ agentAlive
    /\ starting # None
    /\ SetExitInfo(starting, "nonstarter")
    /\ starting' = None
    /\ UNCHANGED <<ready, agentq, agentAlive, ctx, rep, os, client>>

\* ni_testbus_agent_discard_process.
HandleDeleted ==
    /\ AgentFree
    /\ agentq # <<>>
    /\ Head(agentq).type = "deleted"
    /\ agentq' = Tail(agentq)
    /\ LET p == Head(agentq).p IN
       IF ctx[p].active
       THEN /\ ctx' = [ctx EXCEPT ![p].deleted_on_master = TRUE]
            /\ os' = [os EXCEPT ![p] = Kill(@)]
       ELSE UNCHANGED <<ctx, os>>
    /\ UNCHANGED <<masterVars, agentAlive, starting, rep, clientVars>>

\* __ni_process_output_recv reads until the socket is empty; full buffers are
\* handed to the read callback, the rest stays in wbuf.
Recv(rec, pipe, s) ==
    LET total == rec.wbuf[s] + pipe[s] IN
    [rec EXCEPT !.chain[s] = @ + (total - (total % Cap)), !.wbuf[s] = total % Cap]

\* __ni_process_flush_buffer of both streams.
Flush(rec, pipe) ==
    [rec EXCEPT !.chain = [s \in Stream |-> rec.chain[s] + rec.wbuf[s] + pipe[s]],
                !.wbuf = NoBytes]

AgentRead(p, s) ==
    /\ AgentFree
    /\ rep.p = None
    /\ ctx[p].active
    /\ os[p].pipe[s] > 0
    /\ ctx' = [ctx EXCEPT ![p] = Recv(@, os[p].pipe, s)]
    /\ os' = [os EXCEPT ![p].pipe[s] = 0]
    /\ UNCHANGED <<masterVars, agentq, agentAlive, starting, rep, clientVars>>

\* ni_process_reap_children finds a dead child: its buffers are flushed and the
\* exit callback runs.  Pushing the event log dispatches signals.
Reap(p) ==
    /\ AgentFree
    /\ rep.p = None
    /\ os[p].st \in {"exited", "crashed"}
    /\ os' = [os EXCEPT ![p].st = "reaped", ![p].pipe = NoBytes]
    /\ ctx' = [ctx EXCEPT ![p] = Flush(@, os[p].pipe)]
    /\ rep' = [p |-> p, step |-> "eventlog", waiting |-> FALSE]
    /\ UNCHANGED <<masterVars, agentq, agentAlive, starting, clientVars>>

\* Mutant: the exit status is reported before the output.
AfterStep_ExitFirst(step, ok) ==
    CASE step = "refresh" -> IF ok THEN "exit" ELSE "free"
      [] step = "exit" -> "stdout"
      [] step = "stdout" -> "stderr"
      [] step = "stderr" -> "free"

\* __ni_testbus_process_notify; a failing upload is only logged, and the exit is
\* reported all the same.
AfterStep(step, ok) ==
    CASE step = "refresh" -> IF ok THEN "stdout" ELSE "free"
      [] step = "stdout" -> "stderr"
      [] step = "stderr" -> "exit"
      [] step = "exit" -> "free"

\* One call to the master; the reply joins the agent's queue.
Called(ok) ==
    /\ rep' = [rep EXCEPT !.waiting = TRUE]
    /\ agentq' = Append(agentq, [type |-> "reply", ok |-> ok])

\* The events are pushed; then a process deleted on the master is dropped.
ReportEventlog ==
    /\ AgentFree /\ rep.p # None
    /\ rep.step = "eventlog"
    /\ rep' = [rep EXCEPT !.step = IF ctx[rep.p].deleted_on_master THEN "free" ELSE "refresh"]
    /\ UNCHANGED <<masterVars, agentq, agentAlive, starting, ctx, os, clientVars>>

ReportRefresh ==
    /\ AgentFree /\ rep.p # None
    /\ rep.step = "refresh" /\ ~rep.waiting
    /\ Called(Live(rep.p))
    /\ UNCHANGED <<masterVars, agentAlive, starting, ctx, os, clientVars>>

\* What is on the master when n chunks were uploaded buffer by buffer: Tmpfile.append
\* refuses the buffer that would make the file too big, and the upload ends there.
Kept(n) == IF n <= FileMax THEN n ELSE FileMax - (FileMax % Cap)

\* ni_testbus_agent_upload_output; nothing is done without output.
ReportUpload ==
    /\ AgentFree /\ rep.p # None
    /\ rep.step \in Stream /\ ~rep.waiting
    /\ LET p == rep.p
           s == rep.step IN
       IF ctx[p].chain[s] = 0
       THEN /\ rep' = [rep EXCEPT !.step = AfterStep(s, TRUE)]
            /\ UNCHANGED <<proc, agentq>>
       ELSE /\ Called(Live(p) /\ ctx[p].chain[s] <= FileMax)
            /\ proc' = IF Live(p) THEN [proc EXCEPT ![p].file[s] = Kept(ctx[p].chain[s])]
                       ELSE proc
    /\ UNCHANGED <<ready, agentAlive, starting, ctx, os, clientVars>>

ReportExit ==
    /\ AgentFree /\ rep.p # None
    /\ rep.step = "exit" /\ ~rep.waiting
    /\ Called(Live(rep.p))
    /\ SetExitInfo(rep.p, os[rep.p].how)
    /\ UNCHANGED <<ready, agentAlive, starting, ctx, os, client>>

ReportReply ==
    /\ AgentFree
    /\ agentq # <<>>
    /\ Head(agentq).type = "reply"
    /\ agentq' = Tail(agentq)
    /\ rep' = [rep EXCEPT !.step = AfterStep(@, Head(agentq).ok), !.waiting = FALSE]
    /\ UNCHANGED <<masterVars, agentAlive, starting, ctx, os, clientVars>>

\* Mutant: the context of a process deleted on the master is not freed.
ReportFree_Leak ==
    /\ AgentFree /\ rep.p # None
    /\ rep.step = "free"
    /\ ctx' = IF ctx[rep.p].deleted_on_master THEN ctx
              ELSE [ctx EXCEPT ![rep.p].active = FALSE]
    /\ rep' = NoReport
    /\ UNCHANGED <<masterVars, agentq, agentAlive, starting, os, clientVars>>

\* __ni_testbus_process_context_free and ni_process_free.
ReportFree ==
    /\ AgentFree /\ rep.p # None
    /\ rep.step = "free"
    /\ ctx' = [ctx EXCEPT ![rep.p].active = FALSE]
    /\ rep' = NoReport
    /\ UNCHANGED <<masterVars, agentq, agentAlive, starting, os, clientVars>>

AgentDies ==
    /\ agentAlive
    /\ agentAlive' = FALSE
    /\ agentq' = <<>>
    /\ starting' = None
    /\ rep' = NoReport
    /\ ctx' = [p \in Proc |-> [ctx[p] EXCEPT !.active = FALSE]]
    /\ UNCHANGED <<masterVars, os, clientVars>>

-----------------------------------------------------------------------------
(* The clients *)

Set(c, rec) == client' = [client EXCEPT ![c] = rec]

\* A client whose call waits for its reply, or who has just got it.
ReplyTo(c, ok) == Append(clientq[c], [type |-> "reply", ok |-> ok])

\* run-command: subscribe to the process signals, then Host.run creates the
\* process and signals the agent.
ClientRun(c, p) ==
    /\ client[c].pc = "idle"
    /\ proc[p].obj = "none"
    /\ IF ready
       THEN /\ Set(c, [client[c] EXCEPT !.pc = "run", !.p = p, !.subscribed = TRUE])
            /\ proc' = [proc EXCEPT ![p].obj = "live"]
            /\ agentq' = ToAgent([type |-> "processScheduled", p |-> p])
            /\ clientq' = [clientq EXCEPT ![c] = ReplyTo(c, TRUE)]
       ELSE /\ Set(c, [client[c] EXCEPT !.pc = "failed"])
            /\ UNCHANGED <<proc, agentq, clientq>>
    /\ UNCHANGED <<ready, agentAlive, starting, ctx, rep, os>>

\* Exit signals of unknown processes are collected during host_run only.
CollectsSpurious(rec) == rec.pc \in {"run", "ran", "refresh1"}

\* Mutant: exit signals that no wait queue entry asks for are always dropped.
Signalled_NoSpurious(rec, m) ==
    IF rec.wq # "none" /\ rec.p = m.p
    THEN [rec EXCEPT !.wq = "done", !.info = m.info]
    ELSE rec

\* __ni_testbus_process_signal.
Signalled(rec, m) ==
    IF rec.wq # "none" /\ rec.p = m.p
    THEN [rec EXCEPT !.wq = "done", !.info = m.info]
    ELSE IF CollectsSpurious(rec)
    THEN [rec EXCEPT !.spurious = @ \cup {[p |-> m.p, info |-> m.info]}]
    ELSE rec

ClientSignal(c) ==
    /\ clientq[c] # <<>>
    /\ Head(clientq[c]).type = "processExited"
    /\ client[c].pc \in {"run", "ran", "refresh1", "refresh2", "waiting"}
    /\ Set(c, Signalled(client[c], Head(clientq[c])))
    /\ clientq' = [clientq EXCEPT ![c] = Tail(@)]
    /\ UNCHANGED <<masterVars, agentVars, os>>

\* The reply to Host.run is here; signals behind it may be dispatched first.
ClientRunReply(c) ==
    /\ client[c].pc = "run"
    /\ clientq[c] # <<>>
    /\ Head(clientq[c]).type = "reply"
    /\ Set(c, [client[c] EXCEPT !.pc = "ran"])
    /\ clientq' = [clientq EXCEPT ![c] = Tail(@)]
    /\ UNCHANGED <<masterVars, agentVars, os>>

\* Mutant: the object path of a collected signal is not compared.
process_wait_AnyPath(rec) ==
    IF rec.spurious # {}
    THEN [rec EXCEPT !.wq = "done", !.info = (CHOOSE e \in rec.spurious : TRUE).info]
    ELSE [rec EXCEPT !.wq = "linked"]

\* __ni_testbus_process_wait: an entry of the spurious queue, or a new one.
process_wait(rec) ==
    LET seen == {e \in rec.spurious : e.p = rec.p} IN
    IF seen # {}
    THEN [rec EXCEPT !.wq = "done", !.info = (CHOOSE e \in seen : TRUE).info,
                     !.spurious = @ \ seen]
    ELSE [rec EXCEPT !.wq = "linked"]

\* host_run installs the wait queue entry and refreshes the process object.
ClientRan(c) ==
    /\ client[c].pc = "ran"
    /\ Set(c, [process_wait(client[c]) EXCEPT !.pc = "refresh1"])
    /\ clientq' = [clientq EXCEPT ![c] = ReplyTo(c, Live(client[c].p))]
    /\ UNCHANGED <<masterVars, agentVars, os>>

ClientStarted(c) ==
    /\ client[c].pc = "refresh1"
    /\ clientq[c] # <<>>
    /\ Head(clientq[c]).type = "reply"
    /\ Set(c, [client[c] EXCEPT !.pc = IF Head(clientq[c]).ok THEN "started" ELSE "failed",
                                !.spurious = {}])
    /\ clientq' = [clientq EXCEPT ![c] = Tail(@)]
    /\ UNCHANGED <<masterVars, agentVars, os>>

\* run-command waits, or with --no-wait leaves the process in the background.
ClientWaits(c) ==
    /\ client[c].pc = "started"
    /\ \E pc \in {"waiting", "done"} : Set(c, [client[c] EXCEPT !.pc = pc])
    /\ UNCHANGED <<masterVars, agentVars, os, clientq>>

\* wait-command makes a proxy for the given path: no call, and no check that the
\* process object still exists.
ClientLookup(c, p) ==
    /\ client[c].pc = "idle"
    /\ proc[p].obj # "none"
    /\ Set(c, [client[c] EXCEPT !.pc = "looked", !.p = p])
    /\ UNCHANGED <<masterVars, agentVars, os, clientq>>

\* ni_testbus_wait_for_process without a wait queue entry: subscribe and insert
\* one, then refresh the object.
ClientInsert(c) ==
    /\ client[c].pc = "looked"
    /\ Set(c, [process_wait(client[c]) EXCEPT !.pc = "inserted", !.subscribed = TRUE])
    /\ UNCHANGED <<masterVars, agentVars, os, clientq>>

ClientRefresh(c) ==
    /\ client[c].pc = "inserted"
    /\ LET p == client[c].p IN
       /\ Set(c, [client[c] EXCEPT !.pc = "refresh2",
                                   !.cached = IF Live(p) THEN proc[p].exit ELSE @])
       /\ clientq' = [clientq EXCEPT ![c] = ReplyTo(c, Live(p))]
    /\ UNCHANGED <<masterVars, agentVars, os>>

ClientRefreshed(c) ==
    /\ client[c].pc = "refresh2"
    /\ clientq[c] # <<>>
    /\ Head(clientq[c]).type = "reply"
    /\ Set(c, IF client[c].cached # None
              THEN [client[c] EXCEPT !.pc = "fetch", !.result = client[c].cached]
              ELSE [client[c] EXCEPT !.pc = "waiting"])
    /\ clientq' = [clientq EXCEPT ![c] = Tail(@)]
    /\ UNCHANGED <<masterVars, agentVars, os>>

\* The loop of ni_testbus_wait_for_process: the alarm has gone off.
ClientTimeout(c) ==
    /\ client[c].pc = "waiting"
    /\ c \in TimedClients
    /\ Set(c, [client[c] EXCEPT !.pc = "fetch", !.result = TimedOut])
    /\ UNCHANGED <<masterVars, agentVars, os, clientq>>

\* The process is done: the entry is freed and the object refreshed.
ClientDone(c) ==
    /\ client[c].pc = "waiting"
    /\ client[c].wq = "done"
    /\ Set(c, [client[c] EXCEPT !.wq = "none", !.result = client[c].info,
                                !.pc = IF Live(client[c].p) THEN "fetch" ELSE "failed"])
    /\ UNCHANGED <<masterVars, agentVars, os, clientq>>

\* __do_wait_command downloads the streams the exit info announces, then
\* deletes the process.
ClientFetch(c) ==
    /\ client[c].pc = "fetch"
    /\ LET p == client[c].p IN
       Set(c, [client[c] EXCEPT !.pc = "delete", !.got = Live(p),
                 !.output = [s \in Stream |->
                     IF Live(p) /\ client[c].result.bytes[s] > 0 THEN proc[p].file[s] ELSE 0]])
    /\ UNCHANGED <<masterVars, agentVars, os, clientq>>

ClientDelete(c) ==
    /\ client[c].pc = "delete"
    /\ Set(c, [client[c] EXCEPT !.pc = "done"])
    /\ IF Live(client[c].p) THEN DeleteProcess(client[c].p) ELSE UNCHANGED <<proc, agentq>>
    /\ UNCHANGED <<ready, agentAlive, starting, ctx, rep, os, clientq>>

\* Another program deletes the process object, its command or its test.
OtherDelete(p) ==
    /\ Live(p)
    /\ DeleteProcess(p)
    /\ UNCHANGED <<ready, agentAlive, starting, ctx, rep, os, clientVars>>

-----------------------------------------------------------------------------

OsNext ==
    \E p \in Proc : \/ ChildSetsid(p) \/ ChildExit(p)
                    \/ \E s \in Stream : ChildWrite(p, s)

AgentNext ==
    \/ HandleScheduled \/ AgentStart \/ AgentStartFails \/ HandleDeleted
    \/ \E p \in Proc : Reap(p) \/ \E s \in Stream : AgentRead(p, s)
    \/ ReportEventlog \/ ReportRefresh \/ ReportUpload \/ ReportExit
    \/ ReportReply \/ ReportFree

ClientNext ==
    \E c \in Client :
        \/ \E p \in Proc : ClientRun(c, p) \/ ClientLookup(c, p)
        \/ ClientSignal(c) \/ ClientRunReply(c) \/ ClientRan(c) \/ ClientStarted(c)
        \/ ClientWaits(c) \/ ClientInsert(c) \/ ClientRefresh(c) \/ ClientRefreshed(c)
        \/ ClientTimeout(c) \/ ClientDone(c) \/ ClientFetch(c) \/ ClientDelete(c)

Next ==
    \/ OsNext \/ AgentNext \/ ClientNext
    \/ AgentDies \/ HostDisconnected
    \/ \E p \in Proc : OtherDelete(p)

Spec == Init /\ [][Next]_vars

\* The clients run on and dispatch what arrives.
ClientFairness(c) ==
    /\ WF_vars(ClientSignal(c)) /\ WF_vars(ClientRunReply(c)) /\ WF_vars(ClientRan(c))
    /\ WF_vars(ClientStarted(c)) /\ WF_vars(ClientWaits(c)) /\ WF_vars(ClientInsert(c))
    /\ WF_vars(ClientRefresh(c)) /\ WF_vars(ClientRefreshed(c))
    /\ WF_vars(ClientDone(c))

\* The agent's loop goes round while it is alive, and the programs terminate.
AgentFairness ==
    /\ WF_vars(HandleScheduled \/ HandleDeleted \/ ReportReply)
    /\ WF_vars(AgentStart \/ AgentStartFails)
    /\ WF_vars(ReportEventlog \/ ReportRefresh \/ ReportUpload \/ ReportExit \/ ReportFree)
    /\ \A p \in Proc : /\ WF_vars(Reap(p))
                       /\ WF_vars(ChildSetsid(p))
                       /\ WF_vars(ChildExit(p))

FairSpec == Spec /\ AgentFairness /\ \A c \in Client : ClientFairness(c)

-----------------------------------------------------------------------------
(* Properties *)

\* A client that was told how a process ended was told what the agent reported,
\* and that is what happened to the process.
ResultIsTrue ==
    \A c \in Client :
        LET r == client[c].result
            p == client[c].p IN
        r \notin {None, TimedOut} =>
            /\ r = proc[p].exit
            /\ r.how = IF os[p].how = None THEN "nonstarter" ELSE os[p].how

\* A client that has been told the exit status finds all that the process wrote to
\* a stream, if a file on the master can hold it.  Of a longer stream it finds the
\* full buffers that fit and nothing else; nothing in the exit status says that
\* the rest is missing.
OutputComplete ==
    \A c \in Client :
        /\ client[c].pc \in {"delete", "done"}
        /\ client[c].got
        /\ client[c].result # TimedOut
        => \A s \in Stream :
              LET written == os[client[c].p].written[s] IN
              client[c].output[s] = IF written <= FileMax THEN written
                                    ELSE FileMax - (FileMax % Cap)

\* A client waiting for a process gets its status, unless the process object is
\* deleted or the agent dies.
WaitReturns ==
    \A c \in Client :
        client[c].pc = "waiting"
            ~> \/ client[c].pc # "waiting"
               \/ proc[client[c].p].obj = "deleted"
               \/ ~agentAlive

\* The agent gives up the context of every process that has ended.
ContextsFreed ==
    \A p \in Proc :
        os[p].st = "reaped" ~> ~ctx[p].active
=============================================================================
