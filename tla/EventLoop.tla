------------------------------ MODULE EventLoop ------------------------------
(***************************************************************************)
(* The event loop of the agent: dborb/socket.c, dborb/timer.c, the queue   *)
(* of child processes of dborb/process.c and the D-Bus connection of       *)
(* dborb/dbus-connection.c as the loop drives it.                          *)
(*                                                                         *)
(* The loop builds the array for poll() from the table of sockets, fires   *)
(* timers, polls, reaps children and then walks the table.  Timers, exit   *)
(* callbacks and messages all may make synchronous D-Bus calls; the        *)
(* messages that arrive while such a call waits for its reply are          *)
(* dispatched before the call returns, so that processes are started and   *)
(* sockets appear and disappear in the middle of every phase.              *)
(***************************************************************************)
EXTENDS Integers, Sequences, SequencesExt, FiniteSets

CONSTANTS
    Proc,       \* processes; each stands for its stdout socket as well
    Bus,        \* the socket of the D-Bus connection
    None,       \* an empty slot of the table of sockets
    Period,     \* interval of the monitor timer
    NoForkFor,  \* processes for which fork() may fail
    Deleted     \* processes the master may delete

ASSUME EventLoopAssumption ==
    /\ Period \in Nat \ {0} /\ NoForkFor \subseteq Proc /\ Deleted \subseteq Proc
    /\ Bus \notin Proc /\ None \notin Proc /\ None # Bus

VARIABLES
    pc,      \* phase of the loop
    ret,     \* where the dispatching of messages returns to
    sk,      \* slots: the table of sockets, ref: their reference counts
    pfd,     \* the sockets poll() was asked about, by position
    rev,     \* what poll() said about them
    idx,     \* position of the walk over the table
    tmo,     \* timeout given to poll(); -1: none
    timer,   \* time until the monitor timer expires
    inbox,   \* messages in the socket of the connection
    queue,   \* messages libdbus has read and not dispatched
    unsent,  \* messages the master has not sent yet
    kid,     \* the child: none, running, zombie, gone
    held,    \* processes whose pipe a grandchild keeps open
    pb,      \* processes with pb->socket set
    heap,    \* the ni_process_t: none, live, freed
    waitq,   \* __ni_process_queue
    sig,     \* __sigchld_received
    intr,    \* a signal arrived during poll()
    exiting  \* the process whose exit callback runs

kernel == <<inbox, unsent, kid, held>>
poll == <<pfd, rev, idx, tmo>>
children == <<pb, heap, waitq, exiting>>
loopVars == <<pc, ret, sk, pfd, rev, idx, tmo, timer, inbox, queue, unsent,
          kid, held, pb, heap, waitq, sig, intr, exiting>>

Sock == Proc \cup {Bus}
Message == ({"run"} \X Proc) \cup ({"del"} \X Deleted)

-----------------------------------------------------------------------------
(* The table of sockets                                                    *)

Active(k, s) == s \in ToSet(k.slots)

\* Append to the table, which keeps a reference.
activate(k, s) ==
    IF Active(k, s) THEN k
    ELSE [slots |-> Append(k.slots, s), ref |-> [k.ref EXCEPT ![s] = @ + 1]]

\* A count of zero is the freed socket.
release(k, s) == [k EXCEPT !.ref[s] = @ - 1]

\* Mutant: the slot is removed from the table at once.
DeactivateShifts(k, s) ==
    IF Active(k, s)
    THEN release([k EXCEPT !.slots = SelectSeq(@, LAMBDA t : t # s)], s)
    ELSE k

\* The slot is cleared, never removed: positions are stable during a walk.
deactivate(k, s) ==
    IF Active(k, s)
    THEN release([k EXCEPT !.slots = [i \in DOMAIN @ |-> IF @[i] = s THEN None ELSE @[i]]], s)
    ELSE k

socket_close(k, s) == release(deactivate(k, s), s)

\* A new socket for the output of a process, held by pb->socket.
connect_output(k, p) == [k EXCEPT !.ref[p] = 1]

\* After the fork the parent watches the output.
attach_parent(k, p) == activate(connect_output(k, p), p)

\* What is left of the sockets of a process when it is freed.
buffer_reset(k, p) == IF p \in pb THEN socket_close(k, p) ELSE k

\* On hangup the socket is closed, unless that has happened already.
io_hangup(k, p) == IF p \in pb THEN socket_close(k, p) ELSE k

\* What poll() can report: a pipe whose writers are gone is readable as well.
Eof(p) == kid[p] \in {"zombie", "gone"} /\ p \notin held
Ready(s) ==
    IF s = Bus THEN IF inbox # <<>> THEN {"in"} ELSE {}
    ELSE IF Eof(s) THEN {"in", "hup"} ELSE {}

-----------------------------------------------------------------------------
\* The sockets that are left move up over the empty slots.
compact(slots) ==
    LET kept == {i \in DOMAIN slots : slots[i] # None}
        Place(i) == Cardinality({j \in kept : j <= i})
    IN  [k \in 1 .. Cardinality(kept) |-> slots[CHOOSE i \in kept : Place(i) = k]]

\* Only the connection: in the table and held by two watches.
NoSockets == [slots |-> <<Bus>>, ref |-> [s \in Sock |-> IF s = Bus THEN 3 ELSE 0]]

LoopInit ==
    /\ pc = "main" /\ ret = "main"
    /\ sk = NoSockets
    /\ pfd = <<>> /\ rev = <<>> /\ idx = 0 /\ tmo = -1 /\ timer = Period
    /\ inbox = <<>> /\ queue = <<>> /\ unsent = Message
    /\ kid = [p \in Proc |-> "none"] /\ held = {}
    /\ pb = {} /\ heap = [p \in Proc |-> "none"] /\ waitq = <<>>
    /\ sig = FALSE /\ intr = FALSE /\ exiting = None

-----------------------------------------------------------------------------
(* Phases of ni_socket_wait and of the main loop around it                 *)

\* While a call waits for its reply libdbus reads n messages into its queue.
Fetch(n) ==
    /\ queue' = queue \o SubSeq(inbox, 1, n)
    /\ inbox' = SubSeq(inbox, n + 1, Len(inbox))

\* Mutant: the call returns without dispatching what it has read.
CallWithoutDispatch(back) ==
    /\ \E n \in 0 .. Len(inbox) : Fetch(n)
    /\ pc' = back /\ UNCHANGED ret

\* A synchronous call made outside of the dispatching: whatever was read is
\* dispatched before the call returns to "back".
SyncCall(back) ==
    /\ \E n \in 0 .. Len(inbox) : Fetch(n)
    /\ pc' = "dispatching" /\ ret' = back

\* The monitor timer registers itself anew and polls; events are pushed to
\* the master with a synchronous call.
FireTimer ==
    /\ pc \in {"main", "prep", "post"} /\ timer = 0
    /\ timer' = Period
    /\ \/ UNCHANGED <<pc, ret, queue, inbox>>
       \/ SyncCall(pc)
    /\ UNCHANGED <<sk, poll, unsent, kid, held, children, sig, intr>>

\* No timer is due: its time left is the timeout.
NextTimeout ==
    /\ timer > 0
    /\ \/ pc = "main" /\ pc' = "top" /\ tmo' = timer
       \/ pc = "prep" /\ pc' = "poll" /\ tmo' = IF timer < tmo THEN timer ELSE tmo
       \/ pc = "post" /\ pc' = "main" /\ UNCHANGED tmo
    /\ UNCHANGED <<ret, sk, pfd, rev, idx, timer, kernel, queue, children, sig, intr>>

\* Remove the empty slots and build the array for poll().
Prepare ==
    /\ pc = "top"
    /\ sk' = [sk EXCEPT !.slots = compact(@)]
    /\ pfd' = compact(sk.slots)
    /\ pc' = "prep"
    /\ UNCHANGED <<ret, rev, idx, tmo, timer, kernel, queue, children, sig, intr>>

\* Mutant: children are reaped only when poll() was interrupted.
PollReturnsNoReap ==
    /\ pc = "poll"
    /\ tmo = 0 \/ \E i \in DOMAIN pfd : Ready(pfd[i]) # {}
    /\ rev' = [i \in DOMAIN pfd |-> Ready(pfd[i])]
    /\ idx' = 1 /\ pc' = "walk" /\ intr' = FALSE /\ tmo' = -1
    /\ UNCHANGED <<ret, sk, pfd, timer, kernel, queue, children, sig>>

PollReturns ==
    /\ pc = "poll"
    /\ \/ tmo = 0
       \/ \E i \in DOMAIN pfd : Ready(pfd[i]) # {}
    /\ rev' = [i \in DOMAIN pfd |-> Ready(pfd[i])]
    /\ idx' = 1 /\ pc' = "reap" /\ intr' = FALSE /\ tmo' = -1
    /\ UNCHANGED <<ret, sk, pfd, timer, kernel, queue, children, sig>>

\* EINTR: children are reaped and the wait is over.
PollInterrupted ==
    /\ pc = "poll" /\ intr
    /\ pc' = "reap" /\ pfd' = <<>> /\ tmo' = -1
    /\ UNCHANGED <<ret, sk, rev, idx, timer, kernel, queue, children, sig, intr>>

AfterReap == IF intr THEN "main" ELSE "walk"

\* The flag is cleared before the first waitpid().
ReapChildren ==
    /\ pc = "reap"
    /\ sig' = FALSE
    /\ pc' = IF sig THEN "waitpid" ELSE AfterReap
    /\ intr' = (sig /\ intr)
    /\ UNCHANGED <<ret, sk, poll, timer, kernel, queue, children>>

NoMoreChildren ==
    /\ pc = "waitpid" /\ \A p \in Proc : kid[p] # "zombie"
    /\ pc' = AfterReap /\ intr' = FALSE
    /\ UNCHANGED <<ret, sk, poll, timer, kernel, queue, children, sig>>

\* The walk over the queue reads every process up to the one it looks for.
Walked(p) ==
    LET at == {i \in DOMAIN waitq : waitq[i] = p}
    IN  {waitq[i] : i \in {j \in DOMAIN waitq : \A k \in at : j <= k}}

\* Mutant: the process stays on the queue.
WaitpidKeepsQueued(p) ==
    /\ pc = "waitpid" /\ kid[p] = "zombie"
    /\ kid' = [kid EXCEPT ![p] = "gone"] /\ exiting' = p /\ pc' = "exit"
    /\ UNCHANGED <<ret, sk, poll, timer, inbox, unsent, queue, held, pb, heap, waitq, sig, intr>>

\* waitpid() returns p: unlinked from the queue, output flushed, exit callback.
\* A freed process met by the walk may have any contents.
Waitpid(p) ==
    /\ pc = "waitpid" /\ kid[p] = "zombie"
    /\ kid' = [kid EXCEPT ![p] = "gone"]
    /\ \/ /\ \E i \in DOMAIN waitq : waitq[i] = p /\ waitq' = RemoveAt(waitq, i)
          /\ exiting' = p /\ pc' = "exit"
       \/ /\ \E q \in Walked(p) : heap[q] = "freed"
          /\ pc' = "undefined" /\ UNCHANGED <<waitq, exiting>>
    /\ UNCHANGED <<ret, sk, poll, timer, inbox, unsent, queue, held, pb, heap, sig, intr>>

\* The exit callback reports to the master ...
ExitCallback ==
    /\ pc = "exit" /\ SyncCall("exited")
    /\ UNCHANGED <<sk, poll, timer, unsent, kid, held, children, sig, intr>>

\* ... and frees the process with its sockets.
ExitFree ==
    /\ pc = "exited"
    /\ sk' = buffer_reset(sk, exiting)
    /\ pb' = pb \ {exiting} /\ heap' = [heap EXCEPT ![exiting] = "freed"]
    /\ pc' = "waitpid" /\ exiting' = None
    /\ UNCHANGED <<ret, poll, timer, kernel, queue, waitq, sig, intr>>

-----------------------------------------------------------------------------
(* The walk over the table of sockets                                      *)

\* The next socket is skipped if it was deactivated meanwhile.
WalkSkip ==
    /\ pc = "walk" /\ idx <= Len(pfd) /\ sk.slots[idx] = None
    /\ idx' = idx + 1
    /\ UNCHANGED <<pc, ret, sk, pfd, rev, tmo, timer, kernel, queue, children, sig, intr>>

\* Output of a process is read; on hangup its socket is closed.
WalkOutput ==
    /\ pc = "walk" /\ idx <= Len(pfd) /\ sk.slots[idx] \in Proc
    /\ LET p == sk.slots[idx]
           hup == "hup" \in rev[idx]
           k == [sk EXCEPT !.ref[p] = @ + 1]
       IN  /\ pb' = IF hup THEN pb \ {p} ELSE pb
           /\ sk' = release(IF hup THEN io_hangup(k, p) ELSE k, p)
    /\ idx' = idx + 1
    /\ UNCHANGED <<pc, ret, pfd, rev, tmo, timer, inbox, unsent, queue, kid, held, heap, waitq, exiting, sig, intr>>

\* The connection is readable: libdbus reads, then everything is dispatched.
WalkBus ==
    /\ pc = "walk" /\ idx <= Len(pfd) /\ sk.slots[idx] = Bus
    /\ IF rev[idx] = {}
       THEN idx' = idx + 1 /\ UNCHANGED <<pc, ret, sk, queue, inbox>>
       ELSE /\ \E n \in (IF inbox = <<>> THEN 0 ELSE 1) .. Len(inbox) : Fetch(n)
            /\ sk' = [sk EXCEPT !.ref[Bus] = @ + 1]
            /\ pc' = "dispatching" /\ ret' = "received" /\ UNCHANGED idx
    /\ UNCHANGED <<pfd, rev, tmo, timer, unsent, kid, held, children, sig, intr>>

Received ==
    /\ pc = "received"
    /\ sk' = release(sk, Bus) /\ idx' = idx + 1 /\ pc' = "walk"
    /\ UNCHANGED <<ret, pfd, rev, tmo, timer, kernel, queue, children, sig, intr>>

WalkDone ==
    /\ pc = "walk" /\ idx > Len(pfd)
    /\ pc' = "post" /\ pfd' = <<>> /\ rev' = <<>> /\ idx' = 0
    /\ UNCHANGED <<ret, sk, tmo, timer, kernel, queue, children, sig, intr>>

-----------------------------------------------------------------------------
(* Messages                                                                *)

\* A new process is the first of the queue.
add_waitq(p) == <<p>> \o waitq

\* The files are downloaded with synchronous calls; what arrives meanwhile is
\* queued and dispatched after this message.
HandleRun ==
    /\ pc = "dispatching" /\ queue # <<>> /\ Head(queue)[1] = "run"
    /\ \E n \in 0 .. Len(inbox) :
          /\ queue' = Tail(queue) \o SubSeq(inbox, 1, n)
          /\ inbox' = SubSeq(inbox, n + 1, Len(inbox))
    /\ LET p == Head(queue)[2] IN
       \/ \* not executable, no pipe: freed before it was queued
          /\ heap' = [heap EXCEPT ![p] = "freed"]
          /\ UNCHANGED <<sk, kid, pb, waitq>>
       \/ \* fork fails: queued, then freed
          /\ p \in NoForkFor
          /\ waitq' = add_waitq(p)
          /\ heap' = [heap EXCEPT ![p] = "freed"]
          /\ UNCHANGED <<sk, kid, pb>>
       \/ /\ waitq' = add_waitq(p)
          /\ heap' = [heap EXCEPT ![p] = "live"]
          /\ kid' = [kid EXCEPT ![p] = "running"]
          /\ sk' = attach_parent(sk, p) /\ pb' = pb \cup {p}
    /\ UNCHANGED <<pc, ret, poll, timer, unsent, held, exiting, sig, intr>>

\* The process was deleted on the master: the local process is killed.
HandleDelete ==
    /\ pc = "dispatching" /\ queue # <<>> /\ Head(queue)[1] = "del"
    /\ LET p == Head(queue)[2]
           kill == kid[p] = "running" /\ heap[p] = "live"
       IN  /\ kid' = IF kill THEN [kid EXCEPT ![p] = "zombie"] ELSE kid
           /\ sig' = (sig \/ kill)
    /\ queue' = Tail(queue)
    /\ UNCHANGED <<pc, ret, sk, poll, timer, inbox, unsent, held, children, intr>>

Dispatched ==
    /\ pc = "dispatching" /\ queue = <<>>
    /\ pc' = ret /\ ret' = "main"
    /\ UNCHANGED <<sk, poll, timer, kernel, queue, children, sig, intr>>

-----------------------------------------------------------------------------
(* The kernel and the master                                               *)

MasterSends(m) ==
    /\ m \in unsent /\ (m[1] = "del" => <<"run", m[2]>> \notin unsent)
    /\ inbox' = Append(inbox, m) /\ unsent' = unsent \ {m}
    /\ UNCHANGED <<pc, ret, sk, poll, timer, queue, kid, held, children, sig, intr>>

\* The child ends; a grandchild may keep the pipe open.  The signal sets the
\* flag, and only if the loop is in poll() does it wake the loop.
KidExits(p) ==
    /\ kid[p] = "running"
    /\ kid' = [kid EXCEPT ![p] = "zombie"]
    /\ held' \in {held, held \cup {p}}
    /\ sig' = TRUE /\ intr' = (intr \/ pc = "poll")
    /\ UNCHANGED <<pc, ret, sk, poll, timer, inbox, queue, unsent, children>>

Tick ==
    /\ timer > 0 /\ pc \in {"main", "prep", "poll"} /\ (pc = "poll" => tmo > 0)
    /\ timer' = timer - 1
    /\ tmo' = IF pc = "poll" THEN tmo - 1 ELSE tmo
    /\ UNCHANGED <<pc, ret, sk, pfd, rev, idx, kernel, queue, children, sig, intr>>

-----------------------------------------------------------------------------
LoopStep ==
    \/ FireTimer \/ NextTimeout \/ Prepare \/ PollReturns \/ PollInterrupted
    \/ ReapChildren \/ NoMoreChildren \/ ExitCallback \/ ExitFree
    \/ \E p \in Proc : Waitpid(p)
    \/ WalkSkip \/ WalkOutput \/ WalkBus \/ Received \/ WalkDone
    \/ HandleRun \/ HandleDelete \/ Dispatched

Environment ==
    \/ \E m \in Message : MasterSends(m)
    \/ \E p \in Proc : KidExits(p)

LoopNext == LoopStep \/ Environment \/ Tick

LoopSpec == LoopInit /\ [][LoopNext]_loopVars

\* The loop runs, time passes while it sleeps, and the timer's callback does
\* not take as long as its period again and again.
LoopFairness == WF_loopVars(LoopStep) /\ WF_loopVars(Tick) /\ SF_loopVars(NextTimeout)

-----------------------------------------------------------------------------
(* Properties                                                              *)

\* Whatever exit callbacks and messages do to the table of sockets between poll()
\* and the end of the walk of ni_socket_wait, what poll() reported at a position
\* is never applied to another socket than the one it was asked about, and the
\* references are exact: one for the slot, one for pb->socket (two watches for
\* the connection), one while the walk is at the socket, so that no socket is
\* freed while it is in the table and none is leaked.
EventsReachTheirSocket ==
    /\ pc \in {"reap", "waitpid", "exit", "exited", "walk", "received"} =>
          \A i \in DOMAIN pfd :
              i >= idx => i \in DOMAIN sk.slots /\ sk.slots[i] \in {None, pfd[i]}
    /\ \A s \in Sock :
          sk.ref[s] = Cardinality({i \in DOMAIN sk.slots : sk.slots[i] = s})
                      + (IF s = Bus THEN 2 ELSE IF s \in pb THEN 1 ELSE 0)
                      + (IF s = Bus /\ (pc = "received" \/ (pc = "dispatching" /\ ret = "received"))
                         THEN 1 ELSE 0)

\* A child's process object is on the queue from the fork until the exit
\* callback, and a freed one is on it only when fork() had failed for it.
WaitQueueSound ==
    \A p \in Proc :
        /\ kid[p] \in {"running", "zombie"} => p \in ToSet(waitq) /\ heap[p] = "live"
        /\ p \in ToSet(waitq) /\ heap[p] = "freed" => p \in NoForkFor

\* A child that ended is reaped, even if SIGCHLD came just before poll() and a
\* grandchild holds its pipe, unless the queue holds a freed process.
ChildrenAreReaped ==
    \A p \in Proc :
        kid[p] = "zombie" ~> kid[p] = "gone" \/ \E q \in ToSet(waitq) : heap[q] = "freed"

\* Every message of the master is handled, also one that was read while a
\* synchronous call waited for its reply: poll() would not report it any more.
MessagesAreHandled ==
    \A m \in Message :
        m \in ToSet(inbox) ~> (m \notin ToSet(inbox) \cup ToSet(queue)) \/ pc = "undefined"
=============================================================================
