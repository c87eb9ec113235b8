----------------------------- MODULE Containers -----------------------------
(***************************************************************************)
(* The objects the master keeps: hosts, tests, commands, processes and     *)
(* files below the global context, with their reference counts, the array  *)
(* that holds each of them, the owner whose end releases them, and the     *)
(* D-Bus object through which clients reach them (src/server/container.c   *)
(* and the modules around it; src/dborb/dbus-object.c, dbus-server.c).     *)
(*                                                                         *)
(* The heap is one record, so that the C functions, which call each other  *)
(* recursively while they tear objects down, are operators from heap to    *)
(* heap.  An object is allocated while its reference count is positive;    *)
(* its identifier may be used again once nothing of it is left.            *)
(***************************************************************************)
EXTENDS Naturals, SequencesExt, FiniteSetsExt

CONSTANTS Host, Test, Command, Process, File,  \* identifiers
          Global,                              \* the global context
          Name,                                \* names of tests and files
          Role,                                \* roles of hosts in a context
          HostHome, FileHome,                  \* contexts hosts are claimed for and files created in (bounds)
          None

VARIABLE heap

Child     == Host \cup Test \cup Command \cup Process
Container == Child \cup {Global}
Object    == Container \cup File

Kind(x) == CASE x \in Host    -> "hosts"     [] x \in Test    -> "tests"
             [] x \in Command -> "commands"  [] x \in Process -> "processes"
             [] x \in File    -> "files"     [] OTHER         -> "global"

\* The arrays a container of each kind has: the features of its ops.
Features(x) ==
  CASE Kind(x) = "global"                 -> {"hosts", "tests", "commands", "processes", "files"}
    [] Kind(x) = "hosts"                  -> {"commands", "processes", "files"}
    [] Kind(x) = "tests"                  -> {"hosts", "tests", "commands", "files"}
    [] Kind(x) \in {"commands", "processes"} -> {"files"}
    [] OTHER                              -> {}

HeapRec ==
  [ref    : [Object -> Nat],                          \* 0: not allocated
   parent : [Object -> Container \cup {None}],
   owner  : [Object -> Container \cup {None}],
   cmd    : [Process -> Command \cup {None}],
   role   : [Host -> Role \cup {None}],
   name   : [Test \cup File -> Name \cup {None}],
   write  : [File -> BOOLEAN],                        \* NI_TESTBUS_FILE_WRITE
   arr    : [Container -> [{"hosts", "tests", "commands", "processes", "files"} -> Seq(Object)]],
   obj    : [Object -> {"none", "linked", "trash"}],  \* the D-Bus object
   up     : [Object -> Container \cup {None}],        \* its D-Bus parent; None is the root
   known  : SUBSET Object,                            \* paths a client holds: not given out again
   failed : BOOLEAN,                                  \* an assertion failed or freed memory was used in a teardown
   stray  : BOOLEAN]                                  \* a call went on with an object that had just been freed

Empty == [k \in {"hosts", "tests", "commands", "processes", "files"} |-> <<>>]

HeapInit ==
  [ref    |-> [x \in Object |-> IF x = Global THEN 1 ELSE 0],
   parent |-> [x \in Object |-> None],
   owner  |-> [x \in Object |-> None],
   cmd    |-> [p \in Process |-> None],
   role   |-> [x \in Host |-> None],
   name   |-> [x \in Test \cup File |-> None],
   write  |-> [f \in File |-> FALSE],
   arr    |-> [c \in Container |-> Empty],
   obj    |-> [x \in Object |-> IF x = Global THEN "linked" ELSE "none"],
   up     |-> [x \in Object |-> None],
   known  |-> {},
   failed |-> FALSE,
   stray  |-> FALSE]

-----------------------------------------------------------------------------
(* References, arrays, teardown *)

ni_assert(h, P) == IF P THEN h ELSE [h EXCEPT !.failed = TRUE]

Get(h, x) == [ni_assert(h, h.ref[x] > 0) EXCEPT !.ref[x] = @ + 1]

file_put(h, f) ==
  IF h.ref[f] = 0 THEN ni_assert(h, FALSE)
  ELSE [h EXCEPT !.ref[f]   = @ - 1,
                 !.name[f]  = IF h.ref[f] = 1 THEN None ELSE @,
                 !.write[f] = h.ref[f] > 1 /\ @]

array_append(h, c, x) ==
  [Get(h, x) EXCEPT !.arr[c][Kind(x)] = Append(@, x)]

\* Objects listed by all_children, in its order: hosts, tests, commands, processes.
all_children(h, c) ==
  h.arr[c].hosts \o h.arr[c].tests \o h.arr[c].commands \o h.arr[c].processes

RECURSIVE Reachable(_, _), InTrash(_, _)

\* ni_objectmodel_object_by_path walks down from the root: it finds an object
\* only when every object above it is still linked.
Reachable(h, x) == /\ h.obj[x] = "linked"
                   /\ h.up[x] # None => Reachable(h, h.up[x])

\* The object leaves the tree and waits in the trashcan, its children with it.
container_unregister(h, x) ==
  IF Reachable(h, x) THEN [h EXCEPT !.obj[x] = "trash"] ELSE h

file_array_destroy(h, c) ==
  [FoldLeft(file_put, h, h.arr[c].files) EXCEPT !.arr[c].files = <<>>]

RECURSIVE Put(_, _), Destroy(_, _), release_owned(_, _, _)

\* Takes the first entry for x out of parent's array and drops its reference.
array_remove(h, c, x) ==
  IF ~ Contains(h.arr[c][Kind(x)], x) THEN h
  ELSE Put([h EXCEPT !.arr[c][Kind(x)] = RemoveFirst(@, x),
                     !.parent[x] = IF x \in Host /\ @ = c THEN None ELSE @], x)

command_array_destroy(h, c) ==
  LET PutLast(g, x) == Put([g EXCEPT !.arr[c].commands = Front(@), !.parent[x] = None], x)
  IN  FoldLeft(PutLast, h, Reverse(h.arr[c].commands))

process_array_destroy(h, c) ==
  LET PutOne(g, x) == Put([g EXCEPT !.parent[x] = None], x)
  IN  FoldLeft(PutOne, [h EXCEPT !.arr[c].processes = <<>>], Reverse(h.arr[c].processes))

test_array_destroy(h, c) ==
  LET PutOne(g, x) == Put([g EXCEPT !.parent[x] = None], x)
  IN  FoldLeft(PutOne, [h EXCEPT !.arr[c].tests = <<>>], Reverse(h.arr[c].tests))

\* A host loses its role when its owner is the container, and its parent always.
host_array_destroy(h, c) ==
  LET PutLast(g, x) ==
        Put([g EXCEPT !.arr[c].hosts = Front(@), !.parent[x] = None,
                      !.role[x]  = IF g.owner[x] = c THEN None ELSE @,
                      !.owner[x] = IF @ = c THEN None ELSE @], x)
  IN  FoldLeft(PutLast, h, Reverse(h.arr[c].hosts))

Put(h, x) ==
  CASE h.ref[x] = 0 -> ni_assert(h, FALSE)
    [] h.ref[x] > 1 -> [h EXCEPT !.ref[x] = @ - 1]
    [] h.ref[x] = 1 ->
         [Destroy([ni_assert(h, h.parent[x] = None) EXCEPT !.owner[x] = None], x)
            EXCEPT !.ref[x] = 0]

host_destroy(h, x) == [h EXCEPT !.role[x] = None]

\* Mutant: the process forgets its command without dropping the reference.
ProcessDestroyKeepsRef(h, p) == [h EXCEPT !.cmd[p] = None]

process_destroy(h, p) ==
  IF h.cmd[p] = None THEN h ELSE [Put(h, h.cmd[p]) EXCEPT !.cmd[p] = None]

OpsDestroy(h, x) == CASE x \in Host    -> host_destroy(h, x)
                      [] x \in Process -> process_destroy(h, x)
                      [] OTHER         -> h

\* What the owner's end does to a child: a host becomes free again, a command
\* or a process is destroyed.  Tests have no release operation.
OpsRelease(h, x) == CASE x \in Host                -> [h EXCEPT !.role[x] = None]
                      [] x \in Command \cup Process -> Destroy(h, x)
                      [] OTHER                     -> h

release_owned(h, c, owner) ==
  LET kids == all_children(h, c)
      Visit(g, x) ==
        LET r == IF g.owner[x] = owner THEN OpsRelease([g EXCEPT !.owner[x] = None], x) ELSE g
        IN  IF r.ref[x] > 1 THEN release_owned(r, x, owner) ELSE r
  IN  FoldLeft(Put, FoldLeft(Visit, FoldLeft(Get, h, kids), kids), kids)

\* Mutant: only the objects inside the container are released, not those elsewhere.
DestroyReleasesInside(h, x) ==
  LET h1 == IF h.parent[x] = None THEN h
            ELSE array_remove([h EXCEPT !.parent[x] = None], h.parent[x], x)
      h2 == OpsDestroy(release_owned(h1, x, x), x)
      h3 == process_array_destroy(command_array_destroy(h2, x), x)
      h4 == file_array_destroy(test_array_destroy(host_array_destroy(h3, x), x), x)
  IN  container_unregister(h4, x)

Destroy(h, x) ==
  LET h1 == IF h.parent[x] = None THEN h
            ELSE array_remove([h EXCEPT !.parent[x] = None], h.parent[x], x)
      h2 == OpsDestroy(release_owned(release_owned(h1, Global, x), x, x), x)
      h3 == process_array_destroy(command_array_destroy(h2, x), x)
      h4 == file_array_destroy(test_array_destroy(host_array_destroy(h3, x), x), x)
      h5 == IF x \in Test THEN [h4 EXCEPT !.name[x] = None] ELSE h4
  IN  container_unregister(h5, x)

\* Whatever lies below a trashed object is freed with it; a file object gives
\* its reference back, a container object only forgets its path.
InTrash(h, x) == \/ h.obj[x] = "trash"
                 \/ h.obj[x] = "linked" /\ h.up[x] # None /\ InTrash(h, h.up[x])

Trashed(h) == {x \in Object : InTrash(h, x)}

garbage_collect(h) ==
  LET gone == Trashed(h)
      Drop(f, g) == file_put(g, f)
      h1 == FoldSet(Drop, h, gone \cap File)
  IN  IF gone = {} THEN h ELSE
      [ni_assert(h1, \A x \in gone \cap Container : h.obj[x] = "linked" => h.ref[x] > 0)
         EXCEPT !.obj = [x \in Object |-> IF x \in gone THEN "none" ELSE @[x]],
                !.up  = [x \in Object |-> IF x \in gone THEN None ELSE @[x]]]

-----------------------------------------------------------------------------
(* Creation and lookup *)

Fresh(h, S) == {x \in S : h.ref[x] = 0 /\ h.obj[x] = "none" /\ x \notin h.known}
Pick(h, S)  == CHOOSE x \in Fresh(h, S) : TRUE

container_init(h, x, parent) ==
  Put(array_append([h EXCEPT !.ref[x] = 1, !.parent[x] = parent], parent, x), x)

container_wrap(h, x, above) == [h EXCEPT !.obj[x] = "linked", !.up[x] = above]

file_new(h, f, c, n, w) ==
  file_put(array_append([h EXCEPT !.ref[f] = 1, !.name[f] = n, !.write[f] = w], c, f), f)

file_wrap(h, f, above) == [Get(h, f) EXCEPT !.obj[f] = "linked", !.up[f] = above]

\* A container and the containers above it, the nearest first.
RECURSIVE Chain(_, _)
Chain(h, c) == IF h.parent[c] = None THEN <<c>> ELSE <<c>> \o Chain(h, h.parent[c])

get_test_by_name(h, c, n) == {t \in ToSet(h.arr[c].tests) : h.name[t] = n}
get_file_by_name(h, c, n) == {f \in ToSet(h.arr[c].files) : h.name[f] = n}
get_host_by_role(h, c, r) ==
  {x \in UNION {ToSet(h.arr[d].hosts) : d \in ToSet(Chain(h, c))} : h.role[x] = r}

\* Container.getChildByName without a class: the file of that name, or the test.
find_child(h, c, n) == IF get_file_by_name(h, c, n) # {} THEN get_file_by_name(h, c, n)
                       ELSE get_test_by_name(h, c, n)

merge_files(h, p, c) ==
  LET MergeFile(g, f) ==
        IF get_file_by_name(g, p, g.name[f]) # {} THEN g
        ELSE [Get(g, f) EXCEPT !.arr[p].files = Append(@, f)]
  IN  FoldLeft(LAMBDA g, d : FoldLeft(MergeFile, g, g.arr[d].files), h, Chain(h, c))

\* Every output file the process inherited is replaced by a file of its own.
process_finalize(h, p) ==
  LET Instantiate(g, f) ==
        LET new == Pick(g, File)
            g1  == file_new(g, new, p, g.name[f], TRUE)
        IN  file_wrap([file_put(g1, f) EXCEPT !.arr[p].files = RemoveFirst(@, f)], new, p)
  IN  FoldLeft(Instantiate, h, SelectSeq(h.arr[p].files, LAMBDA f : h.write[f]))

process_new(h, p, host, c) ==
  [container_init([Get(h, c) EXCEPT !.cmd[p] = c], p, host) EXCEPT !.owner[p] = c]
-----------------------------------------------------------------------------
(* The method calls.  Each first empties the trashcan, then finds its object. *)

Init == heap = HeapInit

createHost(h) ==
  LET x == Pick(h, Host) IN container_wrap(container_init(h, x, Global), x, None)

removeHost(h, x) == array_remove(h, Global, x)

addHost(h, c, x, r) ==
  IF get_host_by_role(h, c, r) # {} \/ ~ Reachable(h, x)
     \/ (h.role[x] # None /\ ~ (h.role[x] = r /\ h.owner[x] = c))
  THEN h ELSE array_append([h EXCEPT !.role[x] = r, !.owner[x] = c], c, x)

createTest(h, c, n) ==
  IF get_test_by_name(h, c, n) # {} THEN h
  ELSE LET x == Pick(h, Test)
       IN  [container_wrap(container_init(h, x, c), x, c) EXCEPT !.name[x] = n]

createCommand(h, c) ==
  LET x == Pick(h, Command)
  IN  [container_wrap(container_init(h, x, c), x, c) EXCEPT !.owner[x] = c]

createFile(h, c, n, w) ==
  IF get_file_by_name(h, c, n) # {} THEN h
  ELSE LET f == Pick(h, File) IN file_wrap(file_new(h, f, c, n, w), f, c)

run(h, x, c) ==
  LET p  == Pick(h, Process)
      h1 == merge_files(merge_files(process_new(h, p, x, c), p, c), p, x)
  IN  process_finalize(container_wrap(h1, p, x), p)

delete(h, x) == IF x = Global \/ h.parent[x] = None THEN h
                ELSE Put(Destroy(Get(h, x), x), x)

\* A call reaches x when x is registered and does not go with the trashcan.
Called(h, x) == x = Global \/ (h.obj[x] = "linked" /\ ~ InTrash(h, x))

CreateHost == /\ Fresh(heap, Host) # {}
              /\ heap' = createHost(garbage_collect(heap))

RemoveHost(x) == /\ Contains(heap.arr[Global].hosts, x)
                 /\ heap.obj[x] = "linked"
                 /\ heap' = removeHost(garbage_collect(heap), x)

AddHost(c, x, r) == /\ "hosts" \in Features(c) /\ Called(heap, c)
                    /\ x \in Host /\ heap.obj[x] = "linked"
                    /\ heap' = addHost(garbage_collect(heap), c, x, r)

CreateTest(c, n) == /\ "tests" \in Features(c) /\ Called(heap, c) /\ Fresh(heap, Test) # {}
                    /\ heap' = createTest(garbage_collect(heap), c, n)

CreateCommand(c) == /\ "commands" \in Features(c) /\ Called(heap, c) /\ Fresh(heap, Command) # {}
                    /\ heap' = createCommand(garbage_collect(heap), c)

CreateFile(c, n, w) == /\ Called(heap, c) /\ Fresh(heap, File) # {}
                       /\ heap' = createFile(garbage_collect(heap), c, n, w)

\* The bound: there are identifiers left for the process and its output files.
RoomToRun(h, c, x) ==
  /\ Fresh(h, Process) # {}
  /\ LET seen == UNION {ToSet(h.arr[d].files) : d \in ToSet(Chain(h, c)) \cup ToSet(Chain(h, x))}
     IN  Cardinality(Fresh(h, File)) >= Cardinality({f \in seen : h.write[f]})

Run(x, c) == /\ x \in Host /\ Called(heap, x) /\ Called(heap, c) /\ RoomToRun(heap, c, x)
             /\ heap' = run(garbage_collect(heap), x, c)

Delete(x) == /\ Called(heap, x) /\ x # Global
             /\ heap' = delete(garbage_collect(heap), x)

\* A call to a file below a trashed object: the path of the file is still
\* registered, so the call is dispatched to it; emptying the trashcan frees it,
\* and the dispatcher goes on to read it.  What comes of that is not defined.
CallFreed(f) == /\ heap.obj[f] = "linked" /\ InTrash(heap, f)
                /\ heap' = [garbage_collect(heap) EXCEPT !.stray = TRUE]

\* The main loop empties the trashcan before it waits.
Collect == /\ Trashed(heap) # {}
           /\ heap' = garbage_collect(heap)

Next == /\ ~ heap.stray
        /\ \/ CreateHost
           \/ \E x \in Host : RemoveHost(x)
           \/ \E x \in Host, c \in HostHome, r \in Role : AddHost(c, x, r)
           \/ \E c \in Test \cup {Global}, n \in Name : CreateTest(c, n)
           \/ \E c \in Host \cup Test \cup {Global} : CreateCommand(c)
           \/ \E c \in FileHome, n \in Name, w \in BOOLEAN : CreateFile(c, n, w)
           \/ \E x \in Host, c \in Command : Run(x, c)
           \/ \E x \in Child : Delete(x)
           \/ \E f \in File : CallFreed(f)
           \/ Collect

Spec == Init /\ [][Next]_heap

-----------------------------------------------------------------------------
Occurrences(h, x) ==
  MapThenSumSet(LAMBDA c : Cardinality({i \in DOMAIN h.arr[c][Kind(x)] : h.arr[c][Kind(x)][i] = x}),
                Container)

(***************************************************************************)
(* Between two calls the reference count of every object is the number of  *)
(* places that hold it: arrays, processes of a command, and for a file its *)
(* D-Bus object.  One put too many frees an object that is still listed;   *)
(* one too few keeps it, and its D-Bus object, forever.                    *)
(***************************************************************************)
RefsExact ==
  \A x \in Child \cup File :
     heap.ref[x] = Occurrences(heap, x) + Cardinality({p \in Process : heap.cmd[p] = x})
                   + (IF x \in File /\ heap.obj[x] # "none" THEN 1 ELSE 0)

(***************************************************************************)
(* No assertion of container.c and file.c fails and nothing freed is       *)
(* touched while objects are torn down (a call for an object that is freed *)
(* under it is another matter: NoCallToFreed); the handle of every         *)
(* registered object, and every parent, owner and command pointer, is      *)
(* allocated; and only file objects are ever left below an object that was *)
(* unregistered.                                                           *)
(***************************************************************************)
NothingDangles ==
  /\ ~ heap.failed
  /\ \A x \in Child : heap.obj[x] = "linked" => heap.ref[x] > 0
  /\ \A x \in Child : heap.ref[x] > 0 =>
        \A y \in {heap.parent[x], heap.owner[x]} \ {None} : heap.ref[y] > 0
  /\ \A p \in Process : heap.cmd[p] # None => heap.ref[heap.cmd[p]] > 0
  /\ \A x \in Trashed(heap) : heap.obj[x] = "trash" \/ x \in File

(***************************************************************************)
(* An output file belongs to one process: no other process, no command and *)
(* no test lists it (Host.run gives every process output files of its own, *)
(* so that one command can run on several hosts at once).                  *)
(***************************************************************************)
OutputNotShared ==
  \A p \in Process : \A f \in ToSet(heap.arr[p].files) :
     heap.write[f] => /\ heap.obj[f] # "none" /\ heap.up[f] = p
                      /\ \A c \in Container \ {p} : ~ Contains(heap.arr[c].files, f)

(***************************************************************************)
(* Who holds what is exact in the heap of the master, however creations,   *)
(* deletions, claims and runs of several clients follow each other.        *)
(***************************************************************************)
OwnershipSound == RefsExact /\ NothingDangles /\ OutputNotShared

(***************************************************************************)
(* The dispatcher of a call clears away objects nobody uses any more       *)
(* ("Clean out deceased objects", dbus-server.c), not the one the call is  *)
(* for.                                                                    *)
(***************************************************************************)
NoCallToFreed == ~ heap.stray

(***************************************************************************)
(* What clients may rely on is the tree of ObjectTree: a deletion takes    *)
(* with it exactly the objects that need what was deleted.                 *)
(***************************************************************************)
Tree == INSTANCE ObjectTree WITH
          Plain  <- Test \cup Command \cup Process \cup File,
          Shared <- Host,
          objs   <- {x \in Object \ {Global} : Reachable(heap, x)},
          needs  <- [x \in Test \cup Command \cup Process \cup File |->
                       IF ~ Reachable(heap, x) THEN {}
                       ELSE {heap.up[x]} \cup (IF x \in Process THEN {heap.cmd[x]} ELSE {})],
          held   <- [x \in Host |-> IF ~ Reachable(heap, x) THEN {}
                       ELSE {c \in Container : Contains(heap.arr[c].hosts, x)}]

TreeSpec == Tree!Spec
=============================================================================
