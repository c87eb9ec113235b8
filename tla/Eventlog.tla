------------------------------ MODULE Eventlog ------------------------------
(***************************************************************************)
(* Events of a host: the agent follows the system log with a file monitor  *)
(* (dborb/monitor.c), keeps what it finds in its event log and pushes it   *)
(* to the master when a process ends (agent/monitor.c, agent/command.c);   *)
(* the master keeps a log per host (server/dbus-eventlog.c) that clients   *)
(* read and purge (client/main.c, do_get_events).                          *)
(*                                                                         *)
(* Syslogd appends to the file and logrotate replaces or truncates it at   *)
(* any time, also between two system calls of the monitor.  A byte is      *)
(* identified by its number in the order of writing.                       *)
(***************************************************************************)
EXTENDS Naturals, Sequences

CONSTANTS
    MaxBytes,       \* bound: bytes written to the system log
    MaxInodes,      \* bound: files that exist under its name one after the other
    MaxRuns,        \* bound: processes run on the host
    MaxIncidents,   \* bound: removals and truncations of the file, crashes of the
                    \* agent, releases of the host and runs of get-events, together
    None

ASSUME EventlogAssumption ==
    /\ {MaxBytes, MaxInodes, MaxRuns, MaxIncidents} \subseteq Nat
    /\ MaxInodes > 0
    /\ None \notin Nat

VARIABLES
    content,        \* the bytes of every file
    path,           \* the file that has the name, or None
    wfd,            \* the file syslogd writes to
    nbytes, ninodes,
    truncated,      \* the files that have been truncated
    inc,            \* the incarnation of the agent
    pc,             \* where the agent is
    caller,         \* who polls: the timer or the exit callback of a process
    fd, st_size,    \* the monitor's file, None when closed, and statbuf.st_size
    now_size,       \* the size fstat has just returned
    alog,           \* the agent's event log
    masterq,        \* the agent's calls on their way to the master
    mlog,           \* host->eventlog, or None
    child, runs,    \* the process the agent runs
    client,         \* testbus get-events --purge
    incidents,
    epoch,          \* history: how often the master replaced mlog
    received,       \* history: the bytes added to mlog, in order
    skipped,        \* history: bytes that were in the file when an agent started
    due             \* history: bytes the report of the process has to follow

fileVars == <<content, path, wfd, nbytes, ninodes, truncated>>
monVars == <<caller, fd, st_size, now_size>>
childVars == <<child, runs>>
clientVars == <<client, incidents>>
histVars == <<epoch, received, skipped, due>>
vars == <<fileVars, inc, pc, monVars, alog, masterq, mlog, childVars, clientVars,
          histVars>>

-----------------------------------------------------------------------------
(* Types *)

Byte == 1 .. MaxBytes
Inode == 1 .. MaxInodes
Event == [sequence : Nat, data : Seq(Byte)]
Log == [consumed : Nat, seqno : Nat, events : Seq(Event)]

ASSUME LogAssumption == None \notin Log

BytesOf(s) == {s[i] : i \in DOMAIN s}

\* "grown" .. "fresh" are the system calls of ni_filemon_check_for_events.
AgentPc == {"down", "registering", "setup", "idle", "grown", "stat", "gone",
            "replaced", "reopen", "fresh", "flush", "adding", "report"}

Message == [type : {"register"}, inc : Nat]
      \cup [type : {"add"}, inc : Nat, event : Event]

\* shown: the events printed; hadLog and epoch tell what they were read from.
ClientRec == [pc : {"idle", "purge"}, seq_seen : Nat, shown : SUBSET Nat,
              hadLog : BOOLEAN, epoch : Nat]

\* What the assertion in ni_eventlog_pending_count says of a log.
LogOK(log) == log \in Log /\ log.consumed <= Len(log.events)

EventlogTypeOK ==
    /\ content \in [Inode -> Seq(Byte)]
    /\ path \in Inode \cup {None}
    /\ wfd \in Inode
    /\ nbytes \in 0 .. MaxBytes
    /\ ninodes \in 1 .. MaxInodes
    /\ truncated \subseteq Inode
    /\ inc \in Nat
    /\ pc \in AgentPc
    /\ caller \in {"timer", "exit"}
    /\ fd \in Inode \cup {None}
    /\ st_size \in Nat /\ now_size \in Nat
    /\ LogOK(alog)
    /\ masterq \in Seq(Message)
    /\ mlog # None => LogOK(mlog)
    /\ child \in {"none", "running", "exited", "reported"}
    /\ runs \in 0 .. MaxRuns
    /\ client \in ClientRec
    /\ incidents \in 0 .. MaxIncidents
    /\ epoch \in Nat
    /\ received \in Seq(Byte)
    /\ skipped \subseteq Byte /\ due \subseteq Byte

-----------------------------------------------------------------------------
(* ni_eventlog_t *)

ni_eventlog_new == [consumed |-> 0, seqno |-> 1, events |-> <<>>]

add_event(log, data) ==
    [log EXCEPT !.events = Append(@, [sequence |-> log.seqno, data |-> data]),
                !.seqno = @ + 1]

pending_count(log) == Len(log.events) - log.consumed

\* Mutant: stops one event too late.
consume_upto_Late(log, seq) ==
    [log EXCEPT !.consumed =
        CHOOSE n \in @ .. Len(log.events) :
            /\ \A i \in @ + 1 .. n : log.events[i].sequence <= seq + 1
            /\ n < Len(log.events) => seq + 1 < log.events[n + 1].sequence]

\* Everything before the first pending event with a higher number is consumed.
consume_upto(log, seq) ==
    [log EXCEPT !.consumed =
        CHOOSE n \in @ .. Len(log.events) :
            /\ \A i \in @ + 1 .. n : log.events[i].sequence <= seq
            /\ n < Len(log.events) => seq < log.events[n + 1].sequence]

\* ni_eventlog_flush, and ni_eventlog_prune, which warns as well.
ni_eventlog_flush(log) == [log EXCEPT !.events = <<>>, !.consumed = 0]

\* The numbers of the events a client can still read.
PendingSeqs(log) ==
    IF log = None THEN {}
    ELSE {log.events[i].sequence : i \in log.consumed + 1 .. Len(log.events)}

Register(n) == [type |-> "register", inc |-> n]
NoReader == [pc |-> "idle", seq_seen |-> 0, shown |-> {}, hadLog |-> FALSE, epoch |-> 0]

Init ==
    /\ content = [i \in Inode |-> <<>>]
    /\ path = 1 /\ wfd = 1
    /\ nbytes = 0 /\ ninodes = 1 /\ truncated = {}
    /\ inc = 1 /\ pc = "registering"
    /\ caller = "timer" /\ fd = None /\ st_size = 0 /\ now_size = 0
    /\ alog = ni_eventlog_new
    /\ masterq = <<Register(1)>>
    /\ mlog = None
    /\ child = "none" /\ runs = 0
    /\ client = NoReader /\ incidents = 0
    /\ epoch = 0 /\ received = <<>>
    /\ skipped = {} /\ due = {}

-----------------------------------------------------------------------------
(* Syslogd and logrotate *)

Incident ==
    /\ incidents < MaxIncidents
    /\ incidents' = incidents + 1

SyslogWrite ==
    /\ nbytes < MaxBytes
    /\ nbytes' = nbytes + 1
    /\ content' = [content EXCEPT ![wfd] = Append(@, nbytes + 1)]
    /\ UNCHANGED <<path, wfd, ninodes, truncated, inc, pc, monVars, alog, masterq, mlog,
                   childVars, clientVars, histVars>>

\* The file loses its name.  Nobody owes the bytes of a file that was not open.
RemoveFile ==
    /\ path # None
    /\ Incident
    /\ path' = None
    /\ due' = IF path = fd THEN due ELSE due \ BytesOf(content[path])
    /\ UNCHANGED <<content, wfd, nbytes, ninodes, truncated, inc, pc, monVars, alog,
                   masterq, mlog, childVars, client, epoch, received, skipped>>

CreateFile ==
    /\ path = None
    /\ ninodes < MaxInodes
    /\ ninodes' = ninodes + 1
    /\ path' = ninodes + 1
    /\ UNCHANGED <<content, wfd, nbytes, truncated, inc, pc, monVars, alog, masterq,
                   mlog, childVars, clientVars, histVars>>

SyslogReopen ==
    /\ path # None
    /\ wfd' = path
    /\ UNCHANGED <<content, path, nbytes, ninodes, truncated, inc, pc, monVars, alog,
                   masterq, mlog, childVars, clientVars, histVars>>

TruncateFile ==
    /\ path # None
    /\ path \notin truncated
    /\ Incident
    /\ truncated' = truncated \cup {path}
    /\ content' = [content EXCEPT ![path] = <<>>]
    /\ due' = due \ BytesOf(content[path])
    /\ UNCHANGED <<path, wfd, nbytes, ninodes, inc, pc, monVars, alog, masterq, mlog,
                   childVars, client, epoch, received, skipped>>

-----------------------------------------------------------------------------
(* The agent: start and file monitor *)

\* ni_filemon_open: the result of open and fstat.
filemon_open(f) ==
    /\ fd' = f
    /\ st_size' = IF f = None THEN st_size ELSE Len(content[f])

\* ni_filemon_log_data: at most to - from bytes, less when the file ends before.
log_data(from, to) ==
    add_event(alog, SubSeq(content[fd], from + 1,
                           IF to < Len(content[fd]) THEN to ELSE Len(content[fd])))

\* The monitor is created: what is in the file already is not logged.
InitMonitors ==
    /\ pc = "setup"
    /\ pc' = "idle"
    /\ alog' = ni_eventlog_new
    /\ filemon_open(path)
    /\ skipped' = skipped \cup (IF path = None THEN {} ELSE BytesOf(content[path]))
    /\ UNCHANGED <<fileVars, inc, caller, now_size, masterq, mlog, childVars,
                   clientVars, epoch, received, due>>

\* After the poll the exit callback flushes; the timer does so depending on a
\* result that ni_testbus_agent_monitors_poll leaves uninitialized, for no monitor
\* has its push flag set.
AfterPoll(who) == IF who = "exit" THEN {"flush"} ELSE {"idle", "flush"}

\* ni_filemon_check_for_events: open a file that was not there, or fstat.
Poll(who) ==
    /\ caller' = who
    /\ \/ /\ fd = None
          /\ filemon_open(path)
          /\ pc' \in IF path = None THEN AfterPoll(who) ELSE {"fresh"}
          /\ UNCHANGED now_size
       \/ /\ fd # None
          /\ now_size' = Len(content[fd])
          /\ pc' = IF st_size < now_size' THEN "grown" ELSE "stat"
          /\ st_size' = IF st_size < now_size' THEN st_size ELSE now_size'
          /\ UNCHANGED fd
    /\ UNCHANGED <<fileVars, inc, alog, masterq, mlog, childVars, clientVars, histVars>>

\* The timer has registered its successor before it polls: it never stops.
PollTimeout ==
    /\ pc = "idle"
    /\ Poll("timer")

LogGrown ==
    /\ pc = "grown"
    /\ alog' = log_data(st_size, now_size)
    /\ st_size' = now_size
    /\ pc' = "stat"
    /\ UNCHANGED <<fileVars, inc, caller, fd, now_size, masterq, mlog, childVars,
                   clientVars, histVars>>

\* stat(pathname): is it still the file that is open?
StatPath ==
    /\ pc = "stat"
    /\ pc' \in IF path = fd THEN AfterPoll(caller)
               ELSE IF path = None THEN {"gone"} ELSE {"replaced"}
    /\ UNCHANGED <<fileVars, inc, monVars, alog, masterq, mlog, childVars, clientVars,
                   histVars>>

\* Mutant: the file is closed without a look at its end.
LogRest_CloseOnly ==
    /\ pc \in {"gone", "replaced"}
    /\ fd' = None
    /\ pc' \in IF pc = "gone" THEN AfterPoll(caller) ELSE {"reopen"}
    /\ UNCHANGED <<fileVars, inc, caller, st_size, now_size, alog, masterq, mlog,
                   childVars, clientVars, histVars>>

\* Read the old file to its end and close it.
LogRest ==
    /\ pc \in {"gone", "replaced"}
    /\ alog' = log_data(st_size, Len(content[fd]))
    /\ fd' = None
    /\ pc' \in IF pc = "gone" THEN AfterPoll(caller) ELSE {"reopen"}
    /\ UNCHANGED <<fileVars, inc, caller, st_size, now_size, masterq, mlog, childVars,
                   clientVars, histVars>>

\* The new file may be gone again.
Reopen ==
    /\ pc = "reopen"
    /\ filemon_open(path)
    /\ pc' \in IF path = None THEN AfterPoll(caller) ELSE {"fresh"}
    /\ UNCHANGED <<fileVars, inc, caller, now_size, alog, masterq, mlog, childVars,
                   clientVars, histVars>>

LogFresh ==
    /\ pc = "fresh"
    /\ alog' = log_data(0, st_size)
    /\ pc' \in AfterPoll(caller)
    /\ UNCHANGED <<fileVars, inc, monVars, masterq, mlog, childVars, clientVars,
                   histVars>>

-----------------------------------------------------------------------------
(* The agent: processes and pushing of events *)

StartProcess ==
    /\ pc \in AgentPc \ {"down", "registering", "setup"}
    /\ child \in {"none", "reported"}
    /\ runs < MaxRuns
    /\ child' = "running"
    /\ runs' = runs + 1
    /\ due' = {}
    /\ UNCHANGED <<fileVars, inc, pc, monVars, alog, masterq, mlog, clientVars, epoch,
                   received, skipped>>

\* What is in the log file now has to be in the event log when the end of the
\* process is reported.
ProcessExit ==
    /\ child = "running"
    /\ child' = "exited"
    /\ due' = IF path = None \/ path \in truncated THEN {}
              ELSE BytesOf(content[path]) \ skipped
    /\ UNCHANGED <<fileVars, inc, pc, monVars, alog, masterq, mlog, runs, clientVars,
                   epoch, received, skipped>>

\* Mutant: the events found so far are pushed without another poll.
ExitNotify_NoPoll ==
    /\ pc = "idle"
    /\ child = "exited"
    /\ caller' = "exit"
    /\ pc' = "flush"
    /\ UNCHANGED <<fileVars, inc, fd, st_size, now_size, alog, masterq, mlog, childVars,
                   clientVars, histVars>>

\* __ni_testbus_process_exit_notify begins with a poll.
ExitNotify ==
    /\ pc = "idle"
    /\ child = "exited"
    /\ Poll("exit")

\* ni_testbus_agent_eventlog_flush: one call of Eventlog.add per event.
PushEvent ==
    /\ pc = "flush"
    /\ pending_count(alog) > 0
    /\ alog' = [alog EXCEPT !.consumed = @ + 1]
    /\ masterq' = Append(masterq, [type |-> "add", inc |-> inc,
                                   event |-> alog.events[alog.consumed + 1]])
    /\ pc' = "adding"
    /\ UNCHANGED <<fileVars, inc, monVars, mlog, childVars, clientVars, histVars>>

\* Mutant: after the last event the callback returns to the main loop.
FlushDone_Returns ==
    /\ pc = "flush"
    /\ pending_count(alog) = 0
    /\ alog' = ni_eventlog_flush(alog)
    /\ pc' = "idle"
    /\ UNCHANGED <<fileVars, inc, monVars, masterq, mlog, childVars, clientVars, histVars>>

FlushDone ==
    /\ pc = "flush"
    /\ pending_count(alog) = 0
    /\ alog' = ni_eventlog_flush(alog)
    /\ pc' = IF caller = "exit" THEN "report" ELSE "idle"
    /\ UNCHANGED <<fileVars, inc, monVars, masterq, mlog, childVars, clientVars,
                   histVars>>

\* __ni_testbus_process_notify; ProcessExec has the details.
ReportExit ==
    /\ pc = "report"
    /\ pc' = "idle"
    /\ child' = "reported"
    /\ UNCHANGED <<fileVars, inc, monVars, alog, masterq, mlog, runs, clientVars,
                   histVars>>

\* The agent dies, and its process and events with it.
AgentCrash ==
    /\ pc # "down"
    /\ Incident
    /\ pc' = "down"
    /\ fd' = None
    /\ alog' = ni_eventlog_new
    /\ child' = "none"
    /\ due' = {}
    /\ UNCHANGED <<fileVars, inc, caller, st_size, now_size, masterq, mlog, runs,
                   client, epoch, received, skipped>>

AgentStart ==
    /\ pc = "down"
    /\ inc' = inc + 1
    /\ pc' = "registering"
    /\ masterq' = Append(masterq, Register(inc + 1))
    /\ UNCHANGED <<fileVars, monVars, alog, mlog, childVars, clientVars, histVars>>

-----------------------------------------------------------------------------
(* The master *)

\* __ni_objectmodel_get_eventlog with write access.
get_eventlog == IF mlog = None THEN ni_eventlog_new ELSE mlog

\* Mutant: the log of the previous agent stays.
HandleRegister_KeepsLog ==
    /\ masterq # <<>>
    /\ Head(masterq).type = "register"
    /\ masterq' = Tail(masterq)
    /\ epoch' = epoch + 1
    /\ pc' = IF pc = "registering" /\ Head(masterq).inc = inc THEN "setup" ELSE pc
    /\ UNCHANGED <<fileVars, inc, monVars, alog, mlog, childVars, clientVars, received,
                   skipped, due>>

\* createHost or reconnect: __ni_testbus_host_set_agent frees the log.
HandleRegister ==
    /\ masterq # <<>>
    /\ Head(masterq).type = "register"
    /\ masterq' = Tail(masterq)
    /\ mlog' = None
    /\ epoch' = epoch + 1
    /\ pc' = IF pc = "registering" /\ Head(masterq).inc = inc THEN "setup" ELSE pc
    /\ UNCHANGED <<fileVars, inc, monVars, alog, childVars, clientVars, received,
                   skipped, due>>

\* Eventlog.add, and the reply the agent waits for.
HandleAdd ==
    /\ masterq # <<>>
    /\ Head(masterq).type = "add"
    /\ masterq' = Tail(masterq)
    /\ mlog' = [get_eventlog EXCEPT !.events = Append(@, Head(masterq).event)]
    /\ received' = received \o Head(masterq).event.data
    /\ pc' = IF pc = "adding" /\ Head(masterq).inc = inc THEN "flush" ELSE pc
    /\ UNCHANGED <<fileVars, inc, monVars, alog, childVars, clientVars, epoch, skipped,
                   due>>

\* ni_testbus_host_release, when the test that has claimed the host is deleted.
HostRelease ==
    /\ Incident
    /\ mlog' = IF mlog = None THEN None ELSE ni_eventlog_flush(mlog)
    /\ UNCHANGED <<fileVars, inc, pc, monVars, alog, masterq, childVars, client,
                   histVars>>

-----------------------------------------------------------------------------
(* testbus get-events --purge *)

MaxOf(S) == IF S = {} THEN 0 ELSE CHOOSE m \in S : \A n \in S : n <= m

\* What a variable that was never set may hold: purge nothing, the first event,
\* everything.
Garbage == {0, 1, 2^30}

\* show_events prints what the refresh has returned.  Without a log it returns
\* early and leaves seq_seen uninitialized.
ShowEvents ==
    /\ client.pc = "idle"
    /\ Incident
    /\ \E seq \in IF mlog = None THEN Garbage ELSE {MaxOf(PendingSeqs(mlog))} :
          client' = [pc |-> IF seq = 0 THEN "idle" ELSE "purge", seq_seen |-> seq,
                     shown |-> PendingSeqs(mlog), hadLog |-> mlog # None,
                     epoch |-> epoch]
    /\ UNCHANGED <<fileVars, inc, pc, monVars, alog, masterq, mlog, childVars,
                   histVars>>

\* Eventlog.purge; do_get_events never asks for 0, which would flush the log.
Purge ==
    /\ client.pc = "purge"
    /\ client' = [client EXCEPT !.pc = "idle"]
    /\ mlog' = IF client.seq_seen = 0 THEN ni_eventlog_flush(get_eventlog)
               ELSE consume_upto(get_eventlog, client.seq_seen)
    /\ UNCHANGED <<fileVars, inc, pc, monVars, alog, masterq, childVars, incidents,
                   histVars>>

-----------------------------------------------------------------------------

AgentStep ==
    \/ InitMonitors
    \/ LogGrown \/ StatPath \/ LogRest \/ Reopen \/ LogFresh
    \/ PushEvent \/ FlushDone \/ ReportExit

Next ==
    \/ SyslogWrite \/ RemoveFile \/ CreateFile \/ SyslogReopen \/ TruncateFile
    \/ AgentStep \/ PollTimeout \/ ExitNotify
    \/ StartProcess \/ ProcessExit
    \/ AgentCrash \/ AgentStart
    \/ HandleRegister \/ HandleAdd \/ HostRelease
    \/ ShowEvents \/ Purge

Spec == Init /\ [][Next]_vars

\* Agent and master run on, and time passes; the end of a process is seen in the
\* main loop, which also runs the timer, so it cannot be overtaken forever.
FairSpec ==
    /\ Spec
    /\ WF_vars(AgentStep)
    /\ WF_vars(HandleRegister)
    /\ WF_vars(HandleAdd)
    /\ WF_vars(PollTimeout)
    /\ SF_vars(ExitNotify)

-----------------------------------------------------------------------------
(* Properties *)

\* The numbers of the events in the master's log follow each other, over crashes
\* and restarts of the agent: the warning "lost event(s)" in Eventlog.add is never
\* printed.
NoGaps ==
    mlog # None =>
        \A i \in 1 .. Len(mlog.events) - 1 :
            mlog.events[i + 1].sequence = mlog.events[i].sequence + 1

\* Events carry the bytes of the system log in the order of writing and no byte
\* twice, whatever happens to the file between two system calls of
\* ni_filemon_check_for_events.
LoggedInOrder ==
    \A i \in 1 .. Len(received) - 1 : received[i] < received[i + 1]

\* The log on the master is what the monitor saw: in order, once, and numbered
\* without gaps, across restarts of the agent and messages that are on their way.
LogIsSound == NoGaps /\ LoggedInOrder

\* When the end of a process is reported, the master has what was in the log file
\* at that end, except for a file that was truncated (what is written below the
\* old size is not noticed), or replaced before the monitor has seen it
\* (__ni_testbus_process_exit_notify polls, flushes, reports).
LoggedBeforeReport ==
    child = "reported" => due \subseteq BytesOf(received)

\* A purge takes only events that were shown, unless the agent, and with it the
\* log, changed between reading and purging, or there was no log to read.
PurgeTakesShown ==
    [][client.pc = "purge" /\ client'.pc = "idle" /\ client.hadLog
       /\ client.epoch = epoch
       => PendingSeqs(mlog) \ PendingSeqs(mlog') \subseteq client.shown]_vars

Noticed ==
    BytesOf(received) \cup
    UNION {BytesOf(alog.events[i].data) : i \in DOMAIN alog.events}

\* A byte in the file that the monitor has open and that still has its name gets
\* into an event, also when the file is replaced before the next poll, unless it
\* is cut off or the agent dies.
WritesAreNoticed ==
    \A b \in Byte :
        (/\ path # None /\ path = fd /\ path \notin truncated
         /\ b \in BytesOf(content[path]))
            ~> (\/ b \in Noticed \cup skipped
                \/ \A i \in Inode : b \notin BytesOf(content[i])
                \/ pc = "down")

\* The end of every process is reported while the agent lives.
ExitIsReported == child = "exited" ~> child \in {"reported", "none"}
=============================================================================
