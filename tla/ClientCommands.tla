--------------------------- MODULE ClientCommands ---------------------------
(***************************************************************************)
(* Commands of the client program that take several calls to the master    *)
(* (src/client/main.c, src/testbus/calls.c), one client among others: run- *)
(* command and delete --name.  Between two calls of the client any other   *)
(* client may call the master (Containers!Next).                           *)
(***************************************************************************)
EXTENDS Containers

VARIABLE client

cvars == <<heap, client>>

ClientRec == [pc   : {"idle", "create", "refresh", "script", "stdout", "run", "wait", "delproc", "delcmd",
                      "find", "del"},
              host : Host \cup {None}, ctx : Container \cup {None}, name : Name \cup {None},
              cmd  : Command \cup {None}, proc : Process \cup {None}, obj : Object \cup {None}]

Idle == [pc |-> "idle", host |-> None, ctx |-> None, name |-> None,
         cmd |-> None, proc |-> None, obj |-> None]

CInit == Init /\ client = Idle

Paths(c) == {c.host, c.ctx, c.cmd, c.proc, c.obj} \ {None}

\* One call of the client: the trashcan is emptied, the call handled, and
\* the client keeps the paths it still uses.
Call(h, c) == /\ client' = c
              /\ heap' = [h EXCEPT !.known = Paths(c)]

Swept == garbage_collect(heap)

-----------------------------------------------------------------------------
(* run-command *)

\* The host, and the context when one is given, are looked up and refreshed.
RunBegin(x, c) ==
  /\ client.pc = "idle" /\ Called(heap, x)
  /\ "commands" \in Features(c) /\ (Called(heap, c) \/ c = x)
  /\ Call(Swept, [Idle EXCEPT !.pc = "create", !.host = x, !.ctx = c])

\* A failed createCommand leaves no command object, and the client goes on.
RunCreate ==
  /\ client.pc = "create"
  /\ IF Called(heap, client.ctx)
     THEN /\ Fresh(Swept, Command) # {}
          /\ Call(createCommand(Swept, client.ctx),
                  [client EXCEPT !.pc = "refresh", !.cmd = Pick(Swept, Command)])
     ELSE Call(Swept, [client EXCEPT !.pc = "stdout"])

\* The new command is looked up; by then another client may have deleted it.
RunRefresh ==
  /\ client.pc = "refresh"
  /\ Call(Swept, IF Called(heap, client.cmd) THEN [client EXCEPT !.pc = "script"]
                 ELSE [client EXCEPT !.pc = "stdout", !.cmd = None])

\* --send-script: an unreadable script ends the command here.
RunScript ==
  /\ client.pc = "script"
  /\ \/ Call(heap, Idle)
     \/ Call(heap, [client EXCEPT !.pc = "stdout"])

\* Without a command object the file is created in the global context.
RunStdout(n) ==
  /\ client.pc = "stdout"
  /\ LET above == IF client.cmd = None THEN Global ELSE client.cmd
         next  == IF client.cmd = None THEN Idle ELSE [client EXCEPT !.pc = "run"]
     IN  IF Called(heap, above)
         THEN /\ Fresh(Swept, File) # {}
              /\ Call(createFile(Swept, above, n, TRUE), next)
         ELSE Call(Swept, next)

\* Refused when the host is not ready, is gone, or the command is gone.
RunRun ==
  /\ client.pc = "run"
  /\ \/ /\ Called(heap, client.host) /\ Reachable(Swept, client.cmd)
        /\ RoomToRun(Swept, client.cmd, client.host)
        /\ Call(run(Swept, client.host, client.cmd),
                [client EXCEPT !.pc = "wait", !.proc = Pick(Swept, Process)])
     \/ Call(Swept, Idle)

\* The process object is looked up again; --nowait ends here as well.
RunNoWait == /\ client.pc = "wait"
             /\ Call(Swept, Idle)

\* The wait ends with an exit status, or fails: then only the command is deleted.
RunWait == /\ client.pc = "wait"
           /\ \E pc \in {"delproc", "delcmd"} : Call(heap, [client EXCEPT !.pc = pc])

RunDeleteProcess ==
  /\ client.pc = "delproc"
  /\ Call(IF Called(heap, client.proc) THEN delete(Swept, client.proc) ELSE Swept,
          [client EXCEPT !.pc = "delcmd"])

\* Mutant: the process is deleted, its command is not.
RunForgetsCommand ==
  /\ client.pc = "delcmd"
  /\ Call(Swept, [Idle EXCEPT !.cmd = client.cmd, !.proc = client.proc])

RunDeleteCommand ==
  /\ client.pc = "delcmd"
  /\ Call(IF Called(heap, client.cmd) THEN delete(Swept, client.cmd) ELSE Swept,
          [Idle EXCEPT !.cmd = client.cmd, !.proc = client.proc])

-----------------------------------------------------------------------------
(* delete --name, without a class: find a child of that name, delete it, again *)

DeleteBegin(c, n) ==
  /\ client.pc = "idle" /\ Called(heap, c)
  /\ Call(Swept, [Idle EXCEPT !.pc = "find", !.ctx = c, !.name = n])

DeleteFind ==
  /\ client.pc = "find"
  /\ LET found == IF Called(heap, client.ctx) THEN find_child(Swept, client.ctx, client.name) ELSE {}
     IN  IF found = {} THEN Call(Swept, Idle)
         ELSE \E x \in found : Call(Swept, [client EXCEPT !.pc = "del", !.obj = x])

\* A file has no delete method: its proxy sends nothing and the loop goes on.
DeleteObject ==
  /\ client.pc = "del"
  /\ Call(CASE client.obj \in File      -> heap
             [] Called(heap, client.obj) -> delete(Swept, client.obj)
             [] OTHER                    -> Swept,
          [client EXCEPT !.pc = "find", !.obj = None])

-----------------------------------------------------------------------------
ClientStep == \/ RunCreate \/ RunRefresh \/ RunScript \/ (\E n \in Name : RunStdout(n)) \/ RunRun
              \/ RunNoWait \/ RunWait \/ RunDeleteProcess \/ RunDeleteCommand
              \/ DeleteFind \/ DeleteObject

Others == Next /\ UNCHANGED client

CNext == /\ ~ heap.stray
         /\ \/ \E x \in Host, c \in Host \cup Test : RunBegin(x, c)
            \/ \E c \in Test \cup {Global}, n \in Name : DeleteBegin(c, n)
            \/ ClientStep
            \/ Others

CSpec == CInit /\ [][CNext]_cvars

(***************************************************************************)
(* A run-command that went to its end has removed its command and its      *)
(* process, whatever other clients deleted meanwhile.                      *)
(***************************************************************************)
RunCleansUp ==
  client.pc = "idle" /\ client.cmd # None =>
     \A x \in {client.cmd, client.proc} : heap.ref[x] = 0 /\ ~ Reachable(heap, x)
=============================================================================
