----------------------------- MODULE ObjectTree -----------------------------
(***************************************************************************)
(* What the master promises its clients about the objects they see.  A     *)
(* plain object (test, command, process, file) needs other objects and     *)
(* ends with the first of them that ends.  A shared object (a host) is     *)
(* held by the global list and by the tests that claimed it, and ends when *)
(* the last holder lets go.  Nothing else ends with a deletion.            *)
(***************************************************************************)
EXTENDS Naturals, FiniteSets

CONSTANTS Global, Plain, Shared

VARIABLES objs, needs, held

vars == <<objs, needs, held>>

\* S and all the objects that cannot outlive it.
Doomed(S) ==
  LET o == objs  n == needs  h == held
      Step[k \in 0..Cardinality(o)] ==
        IF k = 0 THEN S
        ELSE LET T == Step[k-1]
             IN  T \cup {y \in o \cap Plain  : n[y] \cap T # {}}
                   \cup {y \in o \cap Shared : h[y] # {} /\ h[y] \subseteq T}
  IN  Step[Cardinality(o)]

Init == /\ objs = {}
        /\ needs = [x \in Plain |-> {}]
        /\ held = [x \in Shared |-> {}]

\* The objects of D end, and with them their entries.
End(D) == LET n == needs  h == held IN
          /\ objs' = objs \ D
          /\ needs' = [x \in Plain |-> IF x \in D THEN {} ELSE n[x]]
          /\ held' = [x \in Shared |-> IF x \in D THEN {} ELSE h[x] \ D]

\* Objects are created (a process comes with its output files) below objects
\* that exist.
Create == /\ objs \subseteq objs' /\ objs' # objs
          /\ \A x \in Plain  : IF x \in objs' \ objs
                               THEN needs'[x] # {} /\ needs'[x] \subseteq objs' \cup {Global}
                               ELSE needs'[x] = needs[x]
          /\ \A x \in Shared : held'[x] = IF x \in objs' \ objs THEN {Global} ELSE held[x]

Claim(x, c) == held' = [held EXCEPT ![x] = @ \cup {c}]

\* The global list lets go of a host that others hold.
Unlist(x) == Global \in held[x] /\ held' = [held EXCEPT ![x] = @ \ {Global}]

\* An object ends: it is deleted, or a host that nobody else holds is unlisted.
Delete(x) == End(Doomed({x}))

Next == \/ Create
        \/ /\ UNCHANGED <<objs, needs>>
           /\ \E x \in objs \cap Shared : Unlist(x) \/ \E c \in objs \cup {Global} : Claim(x, c)
        \/ \E x \in objs \ objs' : Delete(x)

Spec == Init /\ [][Next]_vars
=============================================================================
