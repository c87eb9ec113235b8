--------------------------- MODULE MCProcessExec ---------------------------
(* Instances of ProcessExec for model checking. *)
EXTENDS ProcessExec, FiniteSets, TLC

\* Processes are only compared for equality.
ProcSymmetry == Permutations(Proc)

\* Bound: either one process, which writes, or several that write nothing.
NoOutput == \A p \in Proc : os[p].written = NoBytes
Bounded == NoOutput \/ Cardinality({p \in Proc : proc[p].obj # "none"}) <= 1

MCNext == Next /\ Bounded'
MCSpec == Init /\ [][MCNext]_vars
=============================================================================
