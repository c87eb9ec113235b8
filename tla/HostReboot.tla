----------------------------- MODULE HostReboot -----------------------------
(***************************************************************************)
(* "testbus reboot": a client that reboots hosts through the registry and  *)
(* waits for them to come back (client/main.c, testbus/calls.c), composed  *)
(* with HostRegistry.  Each remote call of the client is a step of its     *)
(* own; agents and master run in between.                                  *)
(***************************************************************************)
EXTENDS HostRegistry, Integers

CONSTANTS
    Targets,        \* the hosts named on the command line
    Options         \* the option combinations tried: [wait, timeout]

\* timeout is -1 when the option is not given, else its value.
ASSUME OptionsAssumption ==
    /\ Targets \subseteq Host
    /\ IsFiniteSet(Targets)
    /\ Options \subseteq [wait : BOOLEAN, timeout : Nat \cup {-1}]

VARIABLES
    opts,           \* the options of the running command, or None
    phase,          \* where the command is
    target,         \* per host: cached generation, host_gen, flags
    polling,        \* hosts still to be looked at in this pass of the wait loop
    nfailed,        \* hosts whose generation could not be read in this pass
    timer           \* the client_timeout; "due" once its time is up, "expired"
                    \* once its callback ran

rebootVars == <<opts, phase, target, polling, nfailed, timer>>
allVars == <<vars, rebootVars>>

\* genAtRequest and holders are history: the generation of the host, and the
\* agents that had registered for it, at the moment Host.reboot was handled.
TargetRec == [cached : Nat, host_gen : Nat, ready : BOOLEAN, requested : BOOLEAN,
              genAtRequest : Nat, holders : SUBSET Agent]

Phase == {"idle", "refresh", "request", "wait", "pause", "back", "failed",
          "gaveup", "refused", "done"}

RebootTypeOK ==
    /\ opts \in Options \cup {None}
    /\ phase \in Phase
    /\ target \in [Targets -> TargetRec]
    /\ polling \subseteq Targets
    /\ nfailed \in 0 .. Cardinality(Targets)
    /\ timer \in {"none", "armed", "due", "expired"}

RebootInit ==
    /\ Init
    /\ opts = None
    /\ phase = "idle"
    /\ target = [h \in Targets |->
          [cached |-> 0, host_gen |-> 0, ready |-> FALSE, requested |-> FALSE,
           genAtRequest |-> 0, holders |-> {}]]
    /\ polling = {}
    /\ nfailed = 0
    /\ timer = "none"

-----------------------------------------------------------------------------

\* do_reboot checks the options.
DoReboot(o) ==
    /\ phase = "idle"
    /\ opts' = o
    /\ phase' = IF o.timeout # 0 /\ ~o.wait THEN "refused" ELSE "refresh"
    /\ polling' = Targets
    /\ UNCHANGED <<vars, target, nfailed, timer>>

\* get_and_refresh_object caches the properties of one host after the other.
Refresh(h) ==
    /\ phase = "refresh"
    /\ h \in polling
    /\ IF host[h].registered
       THEN /\ target' = [target EXCEPT ![h].cached = host[h].generation]
            /\ polling' = IF polling = {h} THEN Targets ELSE polling \ {h}
            /\ phase' = IF polling = {h} THEN "request" ELSE phase
       ELSE /\ phase' = "failed"
            /\ UNCHANGED <<target, polling>>
    /\ UNCHANGED <<vars, opts, nfailed, timer>>

\* ni_testbus_client_host_shutdown: host_gen comes from the cached properties,
\* then Host.reboot is called.  A failing call does not end the command.
RequestReboot(h) ==
    /\ phase = "request"
    /\ h \in polling
    /\ target' = [target EXCEPT ![h] =
          [@ EXCEPT !.host_gen = target[h].cached, !.requested = host[h].registered,
                    !.genAtRequest = host[h].generation,
                    !.holders = {a \in Agent : agent[a].path = h}]]
    /\ IF host[h].registered THEN HostShutdown(h) ELSE UNCHANGED vars
    /\ polling' = IF polling = {h} THEN Targets ELSE polling \ {h}
    /\ phase' = IF polling # {h} THEN phase ELSE IF opts.wait THEN "wait" ELSE "done"
    /\ timer' = IF phase' = "wait" /\ opts.timeout >= 0 THEN "armed" ELSE timer
    /\ UNCHANGED <<opts, nfailed>>

\* One host in one pass of ni_testbus_client_host_wait_for_reboot.
PollHost(h) ==
    /\ phase = "wait"
    /\ h \in polling
    /\ polling' = polling \ {h}
    /\ IF target[h].ready
       THEN UNCHANGED <<target, nfailed>>
       ELSE IF ~host[h].registered
       THEN nfailed' = nfailed + 1 /\ UNCHANGED target
       ELSE /\ target' = IF host[h].generation > target[h].host_gen
                         THEN [target EXCEPT ![h].ready = TRUE,
                                             ![h].host_gen = host[h].generation]
                         ELSE target
            /\ UNCHANGED nfailed
    /\ UNCHANGED <<vars, opts, phase, timer>>

\* The end of a pass: done, failed, or ni_testbus_client_timeout_busywait, which
\* returns FALSE without a running timer.
EndPass ==
    LET nready == Cardinality({h \in Targets : target[h].ready})
        nhosts == Cardinality(Targets) IN
    /\ phase = "wait"
    /\ polling = {}
    /\ phase' = IF nready >= nhosts THEN "back"
                ELSE IF nfailed + nready >= nhosts THEN "failed"
                ELSE IF timer \in {"none", "expired"} THEN "gaveup"
                ELSE "pause"
    /\ polling' = Targets
    /\ nfailed' = 0
    /\ UNCHANGED <<vars, opts, target, timer>>

TimeIsUp ==
    /\ timer = "armed"
    /\ timer' = "due"
    /\ UNCHANGED <<vars, opts, phase, target, polling, nfailed>>

\* Mutant: timers that are due are not fired.
Wakeup_NoTimers ==
    /\ phase = "pause"
    /\ phase' = "wait"
    /\ UNCHANGED <<vars, opts, target, polling, nfailed, timer>>

\* ni_socket_wait returns on a signal, on the timer, or after a second, and
\* fires the timers that are due.
Wakeup ==
    /\ phase = "pause"
    /\ phase' = "wait"
    /\ timer' = IF timer = "due" THEN "expired" ELSE timer
    /\ UNCHANGED <<vars, opts, target, polling, nfailed>>

RebootNext ==
    \/ Next /\ UNCHANGED rebootVars
    \/ \E o \in Options : DoReboot(o)
    \/ \E h \in Targets : Refresh(h) \/ RequestReboot(h) \/ PollHost(h)
    \/ EndPass
    \/ TimeIsUp
    \/ Wakeup

RebootSpec == RebootInit /\ [][RebootNext]_allVars

\* The client runs on and time passes; agents and master need not.
FairReboot ==
    /\ RebootSpec
    /\ WF_allVars(\E h \in Targets : PollHost(h))
    /\ WF_allVars(EndPass)
    /\ WF_allVars(TimeIsUp)
    /\ WF_allVars(Wakeup)

-----------------------------------------------------------------------------
(* Properties *)

\* When the cached generation was current, a host reported as back has been
\* announced by an agent that registered after the request.
BackMeansNewAgent ==
    \A h \in Targets :
        /\ target[h].ready
        /\ target[h].requested
        /\ target[h].cached = target[h].genAtRequest
        => \E a \in Agent \ target[h].holders :
              agent[a].path = h /\ agent[a].pc \in {"serving", "dead", "gone"}

\* The wait ends, whatever agents and master do: the hosts are back, none can be
\* asked, the time is up, or there is no timer to wait with.
WaitEnds == phase = "wait" ~> phase \in {"back", "failed", "gaveup"}
=============================================================================
