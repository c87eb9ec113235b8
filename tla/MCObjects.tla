----------------------------- MODULE MCObjects -----------------------------
(***************************************************************************)
(* What the master publishes: its containers and the commands of a client  *)
(* that use them, files on their way through it, files of the host itself, *)
(* and the proxies a client keeps.  They do not meet each other: which of  *)
(* them a behaviour is about is chosen in the initial state.               *)
(***************************************************************************)
EXTENDS ClientCommands, DBusProxies, Files, TLC

VARIABLE task

---------------------------------------------------------------------------
(* A host below the root with a process in it.  The root has no class; the *)
(* two classes are derived from one, which has no object of its own; and   *)
(* all but the interface of processes offer one method.                    *)

MCUp == ("host" :> "root") @@ ("proc" :> "host")
MCSuper == ("container" :> Nil) @@ ("hostclass" :> "container") @@ ("procclass" :> "container")
MCClassOf == ("root" :> "anonymous") @@ ("host" :> "hostclass") @@ ("proc" :> "procclass")
MCCompatible == ("Container" :> "container") @@ ("Host" :> "hostclass")
                @@ ("Process" :> "procclass") @@ ("Fileset" :> Nil) @@ ("Hostset" :> Nil)
MCFeatureServices == ("root" :> <<"Fileset", "Hostset">>) @@ ("host" :> <<"Fileset">>)
                     @@ ("proc" :> <<>>)
MCMethods == [s \in Interface |-> IF s = "Process" THEN {} ELSE {"delete"}]
Registered == <<"Container", "Host", "Process", "Fileset", "Hostset">>

\* Where the services of no class stand in the registry does not matter.
ClasslessLast == \A i \in DOMAIN registry :
                    Compatible[registry[i]] = Nil => registry[i] = Registered[i]

---------------------------------------------------------------------------
(* Files: two chunks, and more than the limit. *)

MCSource == {<<1, 2, 3>>, <<1, 2, 3, 4, 5>>}
MCHostData == {<<>>, <<1, 2>>, <<1, 2, 3>>}

---------------------------------------------------------------------------
ProxiesIdle ==
    /\ registry = Registered /\ obj = <<>> /\ proxy = <<>> /\ inq = <<>>
    /\ call = NoCall(0) /\ ran = Nil /\ res = NoCall(0)

FilesIdle == FilesInit /\ hostfile = <<>>

MCInit ==
    \/ task = "containers" /\ CInit /\ ProxiesIdle /\ FilesIdle
    \/ task = "proxies" /\ CInit /\ ProxiesInit /\ ClasslessLast /\ FilesIdle
    \/ task = "files" /\ CInit /\ ProxiesIdle /\ FilesIdle
    \/ task = "copy" /\ CInit /\ ProxiesIdle /\ FilesInit

MCNext ==
    \/ task = "containers" /\ CNext /\ UNCHANGED <<task, proxyVars, filesVars>>
    \/ task = "proxies" /\ ProxiesNext /\ UNCHANGED <<task, cvars, filesVars>>
    \/ task = "files" /\ MasterFilesNext /\ UNCHANGED <<task, cvars, proxyVars>>
    \/ task = "copy" /\ CopyNext /\ UNCHANGED <<task, cvars, proxyVars>>

MCSpec == MCInit /\ [][MCNext]_<<task, cvars, proxyVars, filesVars>>
=============================================================================
