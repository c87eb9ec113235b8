------------------------ MODULE DBusProxies_proofs ------------------------
(***************************************************************************)
(* Proofs about the objects of a server and the proxies a client keeps of  *)
(* them: a refresh leaves the client with what the server answered, calls  *)
(* reach the most specific interface, and only a reply takes a proxy away; *)
(* for any tree of paths, any classes and any interfaces.                  *)
(***************************************************************************)
EXTENDS DBusProxies, TLAPS, SequenceTheorems, FiniteSetTheorems, WellFoundedInduction

-----------------------------------------------------------------------------
(* The inductive invariant                                                  *)

Services(q) == {q[i] : i \in DOMAIN q}

\* The interfaces that the object at p is published with.
Offered(p) ==
    {"ObjectManager", "Introspectable"}
    \cup {s \in Interface : Fits(p, s)}
    \cup {s \in {"Properties"} : \E t \in HasProperty : Fits(p, t)}

\* The interfaces of no class are listed after those that have one, and in the
\* order of the table of p.
Precedes(p, s, t) == Compatible[s] = Nil \/ Compatible[t] = Nil => Prevails(p, s, t)
InOrder(q, p) ==
    \A i, j \in DOMAIN q :
        i <= j /\ q[i] \in Interface /\ q[j] \in Interface => Precedes(p, q[i], q[j])

ObjectRec == [class : Class \cup {anonymous}, interfaces : Seq(Service),
              value : [Interface -> Value \cup {Nil}]]
ProxyRec == [class : Class \cup {anonymous}, interfaces : Seq(Service),
             cached : [Interface -> Value \cup {Nil}], stale : BOOLEAN]

Published(o, p) ==
    /\ o \in ObjectRec /\ o.class = ClassOf[p]
    /\ Services(o.interfaces) = Offered(p) /\ InOrder(o.interfaces, p)

\* The client knows nothing of the object but its path, or all its interfaces.
Known(o, p) ==
    /\ o \in ProxyRec
    /\ \/ o.class = anonymous /\ o.interfaces = <<>>
       \/ /\ o.class = ClassOf[p]
          /\ Services(o.interfaces) = Offered(p) /\ InOrder(o.interfaces, p)

\* The server's tree has no holes.
ObjectInv ==
    /\ registry \in Seq(Interface) /\ Services(registry) = Interface
    /\ DOMAIN obj \subseteq Path
    /\ \A p \in DOMAIN obj : /\ p # Root => Up[p] \in DOMAIN obj
                             /\ Published(obj[p], p)

KnownInv ==
    /\ DOMAIN proxy \subseteq Path
    /\ \A p \in DOMAIN proxy : Known(proxy[p], p)

\* The entries of a reply are those of the object at p.
Entry == [service : Service, value : Value \cup {Nil}]
Describes(es, p) ==
    /\ es \in Seq(Entry)
    /\ {es[i].service : i \in DOMAIN es} = Offered(p)
    /\ \A i \in DOMAIN es : es[i].service \notin HasProperty => es[i].value = Nil
    /\ \A i, j \in DOMAIN es : es[i].service = es[j].service => es[i].value = es[j].value
    /\ \A i, j \in DOMAIN es :
          i <= j /\ es[i].service \in Interface /\ es[j].service \in Interface
            => Precedes(p, es[i].service, es[j].service)

\* A reply tells of a part of the tree without holes, from p downwards.
Tells(told, p) ==
    /\ DOMAIN told \subseteq Subtree(p) /\ p \in DOMAIN told
    /\ \A q \in DOMAIN told : /\ Above[q] \cap Subtree(p) \subseteq DOMAIN told
                              /\ Describes(told[q], q)

\* Of the interfaces of the object at p that offer method m, s is the one to call.
MostSpecific(s, m, p) ==
    /\ s \in Interface /\ Fits(p, s) /\ m \in Methods[s]
    /\ \A t \in Interface : m \in Methods[t] /\ Fits(p, t) => Prevails(p, s, t)

Requests == [op : {"refresh", "getall", "get", "call"}, n : Nat, path : Path,
             service : Service, method : Method \cup {"GetManagedObjects", "GetAll", "Get"},
             arg : Interface \cup {Nil}, reply : {Nil}]

WellFormed(m) ==
    /\ m.op = "refresh" => m.service = "ObjectManager" /\ m.method = "GetManagedObjects"
    /\ m.op = "getall" => m.service = "Properties" /\ m.method = "GetAll" /\ m.arg \in HasProperty
    /\ m.op = "get" => m.method = "Get"
    /\ m.op = "call" => m.method \in Method /\ MostSpecific(m.service, m.method, m.path)

\* The server's answer to a request.
Answers(r, m) ==
    /\ m.op = "refresh" /\ r.ok => Tells(r.data, m.path)
    /\ m.op = "getall" /\ r.ok => r.data \in Value \cup {Nil}
    /\ m.op = "call" /\ ~r.ok => r.data = "UnknownObject"

\* The client waits for an answer to request m; r is the answer, if it has come.
\* A request in the queue with the same number is this one, and all proxies
\* below the one that is refreshed are marked.
Awaits(m, r) ==
    /\ call = [m EXCEPT !.reply = r]
    /\ m \in Requests /\ WellFormed(m) /\ m.n = res.n + 1 /\ m.path \in DOMAIN proxy
    /\ r # Nil => Answers(r, m)
    /\ \A i \in DOMAIN inq : inq[i].n = m.n => inq[i] = m
    /\ m.op = "refresh" =>
          \A q \in DOMAIN proxy \cap Subtree(m.path) : q # m.path => proxy[q].stale

CallInv ==
    /\ inq \in Seq(Requests)
    /\ \A i \in DOMAIN inq : /\ WellFormed(inq[i])
                             /\ inq[i].n <= (IF Waiting THEN res.n + 1 ELSE res.n)
    /\ res.n \in Nat
    /\ Waiting => \E m, r : Awaits(m, r)

ProxiesInv ==
    /\ ObjectInv /\ KnownInv /\ CallInv
    /\ MirrorsReply /\ CallReachesMostSpecific

-----------------------------------------------------------------------------
(* Recursive functions                                                      *)

\* What holds of 0 and is handed on from each number to the next holds up to n.
HandedOn(S, n) == 0 \in S /\ \A i \in 1 .. n : i - 1 \in S => i \in S

\* Induction up to n.
LEMMA UpTo ==
    ASSUME NEW n \in Nat, NEW S, HandedOn(S, n)
    PROVE  0 .. n \subseteq S
<1> USE DEF HandedOn
<1>1. SUFFICES ASSUME NEW T, T = {i \in Nat : i <= n /\ i \notin S}, T # {}
               PROVE  FALSE
    <2>1. PICK T : T = {i \in Nat : i <= n /\ i \notin S}
        OBVIOUS
    <2>2. T = {}
        BY <1>1, <2>1
    <2> QED
        BY <2>1, <2>2
<1>2. PICK R : R = OpToRel(<, Nat)
    OBVIOUS
<1>3. IsWellFoundedOn(R, Nat)
    BY <1>2, NatLessThanWellFounded
<1>4. T \subseteq Nat
    BY <1>1
<1>5. PICK x \in T : \A y \in T : ~(<<y, x>> \in R)
    BY <1>1, <1>3, <1>4, WFMin
<1>6. x \in Nat /\ x # 0 /\ x <= n /\ x \notin S
    BY <1>1, <1>5
<1>7. x - 1 \in Nat /\ x - 1 < x /\ x - 1 \in T
    BY <1>1, <1>6
<1>8. <<x - 1, x>> \in R
    BY <1>2, <1>6, <1>7 DEF OpToRel
<1> QED
    BY <1>5, <1>7, <1>8

\* A value, and m steps that each make a value of the one before.
Steps(X, b, step, m) ==
    \E g \in [0 .. m -> X] : g[0] = b /\ \A i \in 1 .. m : g[i] = step[i][g[i - 1]]

\* What is made in m - 1 steps is made on in one more.
LEMMA OneMoreStep ==
    ASSUME NEW n \in Nat, NEW X, NEW b \in X, NEW step \in [1 .. n -> [X -> X]],
           NEW m \in 1 .. n, Steps(X, b, step, m - 1)
    PROVE  Steps(X, b, step, m)
<1>1. PICK g \in [0 .. m - 1 -> X] :
          g[0] = b /\ \A i \in 1 .. m - 1 : g[i] = step[i][g[i - 1]]
    BY DEF Steps
<1>2. PICK h : h = [i \in 0 .. m |-> IF i = m THEN step[m][g[m - 1]] ELSE g[i]]
    OBVIOUS
<1>3. m \in Nat /\ m # 0 /\ m - 1 \in 0 .. m - 1
    OBVIOUS
<1>4. step[m][g[m - 1]] \in X
    BY <1>1, <1>3
<1>5. h \in [0 .. m -> X]
    BY <1>1, <1>2, <1>3, <1>4
<1>6. h[0] = b
    BY <1>1, <1>2, <1>3
<1>7. \A i \in 1 .. m : h[i] = step[i][h[i - 1]]
    BY <1>1, <1>2, <1>3
<1> QED
    BY <1>5, <1>6, <1>7 DEF Steps

\* Any number of steps can be made.
LEMMA Iteration ==
    ASSUME NEW n \in Nat, NEW X, NEW b \in X, NEW step \in [1 .. n -> [X -> X]]
    PROVE  Steps(X, b, step, n)
<1>1. PICK S : S = {m \in 0 .. n : Steps(X, b, step, m)}
    OBVIOUS
<1>2. 0 \in S
    <2>1. PICK g : g = [i \in 0 .. 0 |-> b]
        OBVIOUS
    <2>2. g \in [0 .. 0 -> X] /\ g[0] = b /\ \A i \in 1 .. 0 : g[i] = step[i][g[i - 1]]
        BY <2>1
    <2>3. 0 \in 0 .. n
        OBVIOUS
    <2> QED
        BY <1>1, <2>2, <2>3 DEF Steps
<1>3. \A m \in 1 .. n : m - 1 \in S => m \in S
    BY <1>1, OneMoreStep
<1>4. HandedOn(S, n)
    BY <1>2, <1>3 DEF HandedOn
<1>5. 0 .. n \subseteq S /\ n \in 0 .. n
    BY <1>4, UpTo
<1> QED
    BY <1>1, <1>5

-----------------------------------------------------------------------------
(* Paths and classes                                                        *)

Closed(S, U, next) == \A z \in S \cap DOMAIN next : next[z] \in U => next[z] \in S

\* From is the least closed set.
LEMMA FromFacts ==
    ASSUME NEW U, NEW next, NEW x \in U
    PROVE  /\ From(x, U, next) \in SUBSET U /\ x \in From(x, U, next)
           /\ Closed(From(x, U, next), U, next)
    BY DEF From, Closed

\* Every closed set that has x has all that is reached from x.
LEMMA FromLeast ==
    ASSUME NEW U, NEW next, NEW x, NEW S \in SUBSET U, x \in S, Closed(S, U, next)
    PROVE  From(x, U, next) \subseteq S
    BY DEF From, Closed

\* What is reached from what is reached is reached.
LEMMA FromTrans ==
    ASSUME NEW U, NEW next, NEW x \in U, NEW y \in From(x, U, next)
    PROVE  From(y, U, next) \subseteq From(x, U, next)
    BY FromFacts, FromLeast

\* What is reached is x itself or is reached from the next of x.
LEMMA FromNext ==
    ASSUME NEW U, NEW next, NEW x \in U, NEW y \in From(x, U, next), y # x
    PROVE  x \in DOMAIN next /\ next[x] \in U /\ y \in From(next[x], U, next)
<1>1. CASE x \in DOMAIN next /\ next[x] \in U
    <2>1. PICK S : S = {x} \cup From(next[x], U, next)
        OBVIOUS
    <2>2. /\ From(next[x], U, next) \in SUBSET U /\ next[x] \in From(next[x], U, next)
          /\ Closed(From(next[x], U, next), U, next)
        BY <1>1, FromFacts
    <2>3. S \in SUBSET U /\ x \in S /\ Closed(S, U, next)
        BY <2>1, <2>2 DEF Closed
    <2>4. y \in S
        BY <2>3, FromLeast
    <2> QED
        BY <1>1, <2>1, <2>4
<1>2. CASE ~(x \in DOMAIN next /\ next[x] \in U)
    <2>1. {x} \in SUBSET U /\ x \in {x} /\ Closed({x}, U, next)
        BY <1>2 DEF Closed
    <2>2. y \in {x}
        BY <2>1, FromLeast
    <2> QED
        BY <2>2
<1> QED
    BY <1>1, <1>2

\* Two that are reached are reached one from the other.
LEMMA FromChain ==
    ASSUME NEW U, NEW next, NEW x \in U, NEW y \in From(x, U, next), NEW z \in From(x, U, next)
    PROVE  y \in From(z, U, next) \/ z \in From(y, U, next)
<1>1. PICK F : F = From(x, U, next)
    OBVIOUS
<1>2. F \in SUBSET U /\ x \in F /\ Closed(F, U, next)
    BY <1>1, FromFacts
<1>3. PICK S : S = {u \in F : u \in From(z, U, next) \/ z \in From(u, U, next)}
    OBVIOUS
<1>4. S \in SUBSET U /\ x \in S
    BY <1>1, <1>2, <1>3
<1>5. ASSUME NEW u \in S, u \in DOMAIN next, next[u] \in U
      PROVE  next[u] \in S
    <2>1. next[u] \in F
        BY <1>2, <1>3, <1>5 DEF Closed
    <2>2. CASE u \in From(z, U, next)
        <3>1. z \in U
            BY <1>1, <1>2
        <3>2. Closed(From(z, U, next), U, next)
            BY <3>1, FromFacts
        <3>3. next[u] \in From(z, U, next)
            BY <1>5, <2>2, <3>2 DEF Closed
        <3> QED
            BY <1>3, <2>1, <3>3
    <2>3. CASE z \in From(u, U, next) /\ z # u
        <3>1. u \in U
            BY <1>2, <1>3, <1>5
        <3>2. z \in From(next[u], U, next)
            BY <2>3, <3>1, FromNext
        <3> QED
            BY <1>3, <2>1, <3>2
    <2>4. z \in U
        BY <1>1, <1>2
    <2>5. CASE z = u
        <3>1. u \in From(z, U, next)
            BY <2>4, <2>5, FromFacts
        <3> QED
            BY <2>2, <3>1
    <2> QED
        BY <1>3, <1>5, <2>2, <2>3, <2>5
<1>6. Closed(S, U, next)
    BY <1>5 DEF Closed
<1>7. y \in S
    BY <1>4, <1>6, FromLeast
<1> QED
    BY <1>3, <1>7

\* The paths above a path.
LEMMA AboveFacts ==
    ASSUME NEW p \in Path
    PROVE  /\ Above[p] \subseteq Path /\ p \in Above[p]
           /\ p # Root => Up[p] \in Above[p]
           /\ \A q \in Above[p] : Above[q] \subseteq Above[p]
           /\ p \in Above[Root] => p = Root
<1>1. \A q \in Path : Above[q] = From(q, Path, Up)
    BY DEF Above
<1>2. Above[p] \in SUBSET Path /\ p \in Above[p] /\ Closed(Above[p], Path, Up)
    BY <1>1, FromFacts
<1>3. p # Root => Up[p] \in Above[p]
    BY <1>2, ClassesAssumption DEF Closed
<1>4. \A q \in Above[p] : Above[q] \subseteq Above[p]
    BY <1>1, <1>2, FromTrans
<1>5. ASSUME p \in Above[Root], p # Root
      PROVE  FALSE
    <2>1. Root \in Path /\ Root \notin DOMAIN Up
        BY ClassesAssumption
    <2>2. p \in From(Root, Path, Up)
        BY <1>1, <1>5, <2>1
    <2> QED
        BY <1>5, <2>1, <2>2, FromNext
<1> QED
    BY <1>2, <1>3, <1>4, <1>5

\* A part of the tree that has, with each path, the one above it.
LEMMA HoleFree ==
    ASSUME NEW D \in SUBSET Path, \A q \in D : q # Root => Up[q] \in D, NEW p \in D
    PROVE  Above[p] \subseteq D
<1>1. Closed(D, Path, Up)
    BY ClassesAssumption DEF Closed
<1>2. Above[p] = From(p, Path, Up)
    BY DEF Above
<1> QED
    BY <1>1, <1>2, FromLeast

\* The classes above a class are in a row.
LEMMA SubclassFacts ==
    ASSUME NEW c \in Class
    PROVE  /\ class_is_subclass(c, c)
           /\ \A d : class_is_subclass(c, d) => d \in Class
           /\ \A d, e : class_is_subclass(c, d) /\ class_is_subclass(d, e) => class_is_subclass(c, e)
           /\ \A d, e : class_is_subclass(c, d) /\ class_is_subclass(c, e)
                            => class_is_subclass(d, e) \/ class_is_subclass(e, d)
<1>1. \A d \in Class : Superclasses[d] = From(d, Class, Super)
    BY DEF Superclasses
<1>2. Superclasses[c] \in SUBSET Class /\ c \in Superclasses[c]
    BY <1>1, FromFacts
<1>3. \A d \in Superclasses[c] : Superclasses[d] \subseteq Superclasses[c]
    BY <1>1, <1>2, FromTrans
<1>4. \A d \in Superclasses[c], e \in Superclasses[c] :
          d \in Superclasses[e] \/ e \in Superclasses[d]
    BY <1>1, <1>2, FromChain
<1> QED
    BY <1>2, <1>3, <1>4 DEF class_is_subclass

-----------------------------------------------------------------------------
(* Interfaces of an object                                                  *)

\* v is q followed by services of T that are not in q.
Extends(q, v, T) ==
    /\ Len(q) <= Len(v) /\ \A i \in 1 .. Len(q) : v[i] = q[i]
    /\ \A i \in Len(q) + 1 .. Len(v) : v[i] \in T \ Services(q)

\* r is o with the services in T bound in addition.
Gains(o, r, T) ==
    /\ r.interfaces \in Seq(Service)
    /\ Services(r.interfaces) = Services(o.interfaces) \cup T
    /\ r = [o EXCEPT !.interfaces = r.interfaces]
    /\ Extends(o.interfaces, r.interfaces, T)

\* What is bound with service s.
Brings(s) == {s} \cup {t \in {"Properties"} : s \in HasProperty}

\* What is gained changes no other field.
LEMMA GainsType ==
    ASSUME NEW o, NEW r, NEW T, Gains(o, r, T)
    PROVE  /\ o \in ObjectRec => r \in ObjectRec /\ r.class = o.class /\ r.value = o.value
           /\ o \in ProxyRec => /\ r \in ProxyRec /\ r.class = o.class
                                /\ r.cached = o.cached /\ r.stale = o.stale
    BY DEF Gains, ObjectRec, ProxyRec

\* Two extensions make one.
LEMMA ExtendsTrans ==
    ASSUME NEW q \in Seq(Service), NEW v \in Seq(Service), NEW w \in Seq(Service),
           NEW T, NEW W, Extends(q, v, T), Extends(v, w, W)
    PROVE  Extends(q, w, T \cup W)
<1>1. PICK k \in Nat, m \in Nat, n \in Nat :
          /\ k = Len(q) /\ m = Len(v) /\ n = Len(w)
          /\ DOMAIN q = 1 .. k /\ DOMAIN v = 1 .. m
    <2>1. Len(q) \in Nat /\ Len(v) \in Nat /\ Len(w) \in Nat
        OBVIOUS
    <2>2. DOMAIN q = 1 .. Len(q) /\ DOMAIN v = 1 .. Len(v)
        OBVIOUS
    <2> QED
        BY <2>1, <2>2
<1>2. /\ k <= m /\ \A i \in 1 .. k : v[i] = q[i]
      /\ \A i \in k + 1 .. m : v[i] \in T \ Services(q)
    BY <1>1 DEF Extends
<1>3. /\ m <= n /\ \A i \in 1 .. m : w[i] = v[i]
      /\ \A i \in m + 1 .. n : w[i] \in W \ Services(v)
    BY <1>1 DEF Extends
<1>4. Services(q) \subseteq Services(v)
    BY <1>1, <1>2 DEF Services
<1>5. k <= n /\ \A i \in 1 .. k : i \in 1 .. m /\ w[i] = q[i]
    BY <1>1, <1>2, <1>3
<1>6. ASSUME NEW i \in k + 1 .. n
      PROVE  w[i] \in (T \cup W) \ Services(q)
    <2>1. CASE i <= m
        <3>1. i \in 1 .. m /\ i \in k + 1 .. m
            BY <1>1, <2>1
        <3> QED
            BY <1>2, <1>3, <3>1
    <2>2. CASE i > m
        <3>1. i \in m + 1 .. n
            BY <1>1, <2>2
        <3> QED
            BY <1>3, <1>4, <3>1
    <2> QED
        BY <1>1, <2>1, <2>2
<1> QED
    BY <1>1, <1>5, <1>6 DEF Extends

\* What is gained in two steps is gained.
LEMMA GainsTrans ==
    ASSUME NEW o, o \in ObjectRec \/ o \in ProxyRec, NEW r, NEW t, NEW T, NEW W,
           Gains(o, r, T), Gains(r, t, W)
    PROVE  Gains(o, t, T \cup W)
<1>1. /\ o.interfaces \in Seq(Service) /\ r.interfaces \in Seq(Service)
      /\ t.interfaces \in Seq(Service)
    BY DEF Gains, ObjectRec, ProxyRec
<1>2. Extends(o.interfaces, t.interfaces, T \cup W)
    BY <1>1, ExtendsTrans DEF Gains
<1>3. Services(t.interfaces) = Services(o.interfaces) \cup (T \cup W)
    BY DEF Gains
<1>4. t = [o EXCEPT !.interfaces = t.interfaces]
    <2>1. CASE o \in ObjectRec
        BY <2>1 DEF Gains, ObjectRec
    <2>2. CASE o \in ProxyRec
        BY <2>2 DEF Gains, ProxyRec
    <2> QED
        BY <2>1, <2>2
<1> QED
    BY <1>1, <1>2, <1>3, <1>4 DEF Gains

\* An object gains nothing by staying as it is.
LEMMA GainsNothing ==
    ASSUME NEW o, o \in ObjectRec \/ o \in ProxyRec, NEW T, T \subseteq Services(o.interfaces)
    PROVE  Gains(o, o, T)
<1>1. o.interfaces \in Seq(Service) /\ o = [o EXCEPT !.interfaces = o.interfaces]
    BY DEF ObjectRec, ProxyRec
<1>2. Extends(o.interfaces, o.interfaces, T)
    <2>1. PICK q, n : q = o.interfaces /\ n \in Nat /\ n = Len(q)
        BY <1>1
    <2>2. n + 1 .. n = {}
        BY <2>1
    <2> QED
        BY <2>1, <2>2 DEF Extends
<1> QED
    BY <1>1, <1>2 DEF Gains

\* The order is kept by a service that comes after those that are there.
LEMMA OrderKept ==
    ASSUME NEW p, NEW q \in Seq(Service), NEW v \in Seq(Service), NEW s,
           InOrder(q, p), Extends(q, v, Brings(s)),
           s \in Interface => Precedes(p, s, s),
           s \in Services(q) \/ \A t \in Services(q) \cap Interface :
                                    s \in Interface => Precedes(p, t, s)
    PROVE  InOrder(v, p)
<1>1. PICK m, n : /\ m \in Nat /\ n \in Nat /\ m = Len(q) /\ n = Len(v) /\ m <= n
                  /\ DOMAIN q = 1 .. m /\ DOMAIN v = 1 .. n
    BY DEF Extends
<1>2. /\ \A i \in 1 .. m : v[i] = q[i]
      /\ \A i \in m + 1 .. n : v[i] \in Brings(s) \ Services(q)
    BY <1>1 DEF Extends
<1>3. "Properties" \notin Interface
    BY ClassesAssumption DEF Standard
<1>4. \A i \in m + 1 .. n : v[i] \in Interface => v[i] = s /\ s \notin Services(q)
    BY <1>2, <1>3 DEF Brings
<1>5. SUFFICES ASSUME NEW i \in 1 .. n, NEW j \in 1 .. n, i <= j,
                      v[i] \in Interface, v[j] \in Interface
               PROVE  Precedes(p, v[i], v[j])
    BY <1>1 DEF InOrder
<1>6. CASE j <= m
    <2>1. i \in 1 .. m /\ j \in 1 .. m /\ v[i] = q[i] /\ v[j] = q[j]
        BY <1>1, <1>2, <1>5, <1>6
    <2> QED
        BY <1>1, <1>5, <2>1 DEF InOrder
<1>7. CASE j > m
    <2>1. v[j] = s /\ s \notin Services(q)
        BY <1>1, <1>4, <1>5, <1>7
    <2>2. CASE i <= m
        <3>1. i \in DOMAIN q /\ v[i] = q[i]
            BY <1>1, <1>2, <2>2
        <3>2. v[i] \in Services(q)
            BY <3>1 DEF Services
        <3> QED
            BY <1>5, <2>1, <3>2
    <2>3. CASE i > m
        <3>1. v[i] = s
            BY <1>1, <1>4, <1>5, <2>3
        <3> QED
            BY <1>5, <2>1, <3>1
    <2> QED
        BY <1>1, <2>2, <2>3
<1> QED
    BY <1>1, <1>6, <1>7

\* A service is bound once.
LEMMA BindFacts ==
    ASSUME NEW o, o \in ObjectRec \/ o \in ProxyRec, NEW s \in Service
    PROVE  Gains(o, bind(o, s), {s})
<1>1. PICK q : q = o.interfaces
    OBVIOUS
<1>2. q \in Seq(Service)
    BY <1>1 DEF ObjectRec, ProxyRec
<1>3. CASE get_service(o, s)
    <2>1. s \in Services(q) /\ bind(o, s) = o
        BY <1>1, <1>3 DEF get_service, Services, bind
    <2> QED
        BY <1>1, <2>1, GainsNothing
<1>4. CASE ~get_service(o, s)
    <2>1. PICK v : v = Append(q, s)
        OBVIOUS
    <2>2. /\ v \in Seq(Service) /\ DOMAIN v = 1 .. Len(q) + 1 /\ DOMAIN q = 1 .. Len(q)
          /\ v[Len(q) + 1] = s /\ \A i \in DOMAIN q : v[i] = q[i]
        BY <1>2, <2>1
    <2>3. Services(v) = Services(q) \cup {s}
        BY <1>2, <2>2 DEF Services
    <2>4. PICK r : r = [o EXCEPT !.interfaces = v]
        OBVIOUS
    <2>5. bind(o, s) = r
        BY <1>1, <1>4, <2>1, <2>4 DEF bind
    <2>6. r.interfaces = v
        BY <2>4 DEF ObjectRec, ProxyRec
    <2>7. s \notin Services(q)
        BY <1>1, <1>4 DEF Services, get_service
    <2>8. Extends(q, v, {s})
        <3>1. PICK n : n \in Nat /\ n = Len(q) /\ Len(v) = n + 1 /\ v[n + 1] = s
            BY <1>2, <2>1
        <3>2. \A i \in n + 1 .. n + 1 : i = n + 1
            BY <3>1
        <3>3. \A i \in 1 .. n : v[i] = q[i]
            BY <2>2, <3>1
        <3> QED
            BY <2>7, <3>1, <3>2, <3>3 DEF Extends
    <2> QED
        BY <1>1, <2>2, <2>3, <2>4, <2>5, <2>6, <2>8 DEF Gains
<1> QED
    BY <1>3, <1>4

\* A service is registered with the interface of its properties.
LEMMA RegisterFacts ==
    ASSUME NEW o, o \in ObjectRec \/ o \in ProxyRec, NEW s \in Service,
           s \in Interface /\ Compatible[s] # Nil => class_is_subclass(o.class, Compatible[s])
    PROVE  Gains(o, register_service(o, s), Brings(s))
<1>0. ~(CompatibleWith(s) # Nil /\ ~class_is_subclass(o.class, CompatibleWith(s)))
    BY DEF CompatibleWith, Service
<1>1. CASE s \in HasProperty
    <2>1. PICK x : x = bind(o, s)
        OBVIOUS
    <2>2. Gains(o, x, {s})
        BY <2>1, BindFacts
    <2>3. x \in ObjectRec \/ x \in ProxyRec
        BY <2>2, GainsType
    <2>4. "Properties" \in Service
        BY DEF Service, Standard
    <2>5. Gains(x, bind(x, "Properties"), {"Properties"})
        BY <2>3, <2>4, BindFacts
    <2>6. Gains(o, bind(x, "Properties"), {s} \cup {"Properties"})
        BY <2>2, <2>5, GainsTrans
    <2>7. Brings(s) = {s} \cup {"Properties"}
        BY <1>1 DEF Brings
    <2>8. register_service(o, s) = bind(x, "Properties")
        BY <1>0, <1>1, <2>1 DEF register_service
    <2> QED
        BY <2>6, <2>7, <2>8
<1>2. CASE s \notin HasProperty
    <2>1. Brings(s) = {s} /\ register_service(o, s) = bind(o, s)
        BY <1>0, <1>2 DEF Brings, register_service
    <2> QED
        BY <2>1, BindFacts
<1> QED
    BY <1>1, <1>2

-----------------------------------------------------------------------------
(* Publishing an object                                                     *)

\* What those of the first n services of q that are in S bring.
Brought(q, S, n) == {t \in Service : \E i \in 1 .. n : q[i] \in S /\ t \in Brings(q[i])}

\* Services of q in S, for an object of class c, or of no class.
FitFor(q, S, c) ==
    \A i \in DOMAIN q : q[i] \in S /\ Compatible[q[i]] # Nil => class_is_subclass(c, Compatible[q[i]])

Registers(f, o, q, S) ==
    f = [n \in 0 .. Len(q) |->
            IF n = 0 THEN o
            ELSE IF q[n] \in S THEN register_service(f[n - 1], q[n]) ELSE f[n - 1]]

\* Registering keeps objects objects.
LEMMA RegisterObject ==
    ASSUME NEW o \in ObjectRec, NEW s \in Interface
    PROVE  register_service(o, s) \in ObjectRec
<1>1. s \in Service /\ s \notin Standard /\ CompatibleWith(s) = Compatible[s]
    BY ClassesAssumption DEF Service, CompatibleWith
<1>2. CASE Compatible[s] = Nil \/ class_is_subclass(o.class, Compatible[s])
    <2>1. Gains(o, register_service(o, s), Brings(s))
        BY <1>1, <1>2, RegisterFacts
    <2> QED
        BY <2>1, GainsType
<1>3. CASE ~(Compatible[s] = Nil \/ class_is_subclass(o.class, Compatible[s]))
    BY <1>1, <1>3 DEF register_service
<1> QED
    BY <1>2, <1>3

\* The walk over a sequence of services is well defined.
LEMMA Registering ==
    ASSUME NEW o \in ObjectRec, NEW q \in Seq(Interface), NEW S
    PROVE  \E f : Registers(f, o, q, S) /\ register_services(o, q, S) = f[Len(q)]
<1>1. PICK n : n \in Nat /\ n = Len(q)
    OBVIOUS
<1>2. PICK step : step = [i \in 1 .. n |-> [x \in ObjectRec |->
                             IF q[i] \in S THEN register_service(x, q[i]) ELSE x]]
    OBVIOUS
<1>3. \A i \in 1 .. n : q[i] \in Interface
    BY <1>1
<1>4. step \in [1 .. n -> [ObjectRec -> ObjectRec]]
    BY <1>2, <1>3, RegisterObject
<1>5. Steps(ObjectRec, o, step, n)
    BY <1>1, <1>4, Iteration
<1>6. PICK f : /\ f \in [0 .. n -> ObjectRec] /\ f[0] = o
               /\ \A i \in 1 .. n : f[i] = step[i][f[i - 1]]
    BY <1>5 DEF Steps
<1>7. \A i \in 1 .. n : f[i] = IF q[i] \in S THEN register_service(f[i - 1], q[i]) ELSE f[i - 1]
    <2>1. \A i \in 1 .. n : i - 1 \in 0 .. n /\ f[i - 1] \in ObjectRec
        BY <1>1, <1>6
    <2> QED
        BY <1>2, <1>6, <2>1
<1>8. Registers(f, o, q, S)
    BY <1>1, <1>6, <1>7 DEF Registers
<1> QED
    BY <1>8 DEF register_services, Registers

\* All of them are bound, and the order is kept if they come after what is bound
\* already and one after the other.
LEMMA RegisteringFacts ==
    ASSUME NEW o \in ObjectRec, NEW q \in Seq(Interface), NEW S, FitFor(q, S, o.class),
           NEW p, InOrder(o.interfaces, p),
           \A i \in DOMAIN q, t \in Services(o.interfaces) \cap Interface :
                q[i] \in S => Precedes(p, t, q[i]),
           \A i, j \in DOMAIN q :
                i <= j /\ q[i] \in S /\ q[j] \in S => Precedes(p, q[i], q[j])
    PROVE  /\ Gains(o, register_services(o, q, S), Brought(q, S, Len(q)))
           /\ InOrder(register_services(o, q, S).interfaces, p)
<1>1. PICK f : Registers(f, o, q, S) /\ register_services(o, q, S) = f[Len(q)]
    BY Registering
<1>2. PICK N : N \in Nat /\ N = Len(q) /\ DOMAIN q = 1 .. N
    OBVIOUS
<1>3. PICK G : G = {n \in 0 .. N : /\ Gains(o, f[n], Brought(q, S, n))
                                   /\ InOrder(f[n].interfaces, p)}
    OBVIOUS
<1>4. 0 \in G
    <2>1. f[0] = o /\ Brought(q, S, 0) = {} /\ 0 \in 0 .. N
        BY <1>1, <1>2 DEF Registers, Brought
    <2> QED
        BY <1>3, <2>1, GainsNothing
<1>5. ASSUME NEW n \in 1 .. N, n - 1 \in G
      PROVE  n \in G
    <2>1. PICK x, s : x = f[n - 1] /\ s = q[n]
        OBVIOUS
    <2>2. /\ s \in Interface /\ s \in Service /\ n \in 0 .. N /\ n \in DOMAIN q
          /\ f[n] = IF s \in S THEN register_service(x, s) ELSE x
        BY <1>1, <1>2, <1>5, <2>1 DEF Registers, Service
    <2>3. /\ Gains(o, x, Brought(q, S, n - 1)) /\ x \in ObjectRec /\ x.class = o.class
          /\ InOrder(x.interfaces, p)
        BY <1>3, <1>5, <2>1, GainsType
    <2>4. CASE s \in S
        <3>1. Gains(x, f[n], Brings(s))
            <4>1. Compatible[s] # Nil => class_is_subclass(x.class, Compatible[s])
                BY <2>1, <2>2, <2>3, <2>4 DEF FitFor
            <4> QED
                BY <2>2, <2>3, <2>4, <4>1, RegisterFacts
        <3>2. Gains(o, f[n], Brought(q, S, n - 1) \cup Brings(s))
            BY <2>3, <3>1, GainsTrans
        <3>3. Brings(s) \subseteq Service
            BY <2>2 DEF Brings, Service, Standard
        <3>4. Brought(q, S, n) = Brought(q, S, n - 1) \cup Brings(s)
            BY <1>2, <1>5, <2>1, <2>4, <3>3 DEF Brought
        <3>5. \A t \in Services(x.interfaces) \cap Interface : Precedes(p, t, s)
            <4>1. TAKE t \in Services(x.interfaces) \cap Interface
            <4>2. t \in Services(o.interfaces) \/ t \in Brought(q, S, n - 1)
                BY <2>3 DEF Gains
            <4>3. CASE t \in Services(o.interfaces)
                BY <2>1, <2>2, <2>4, <4>3
            <4>4. CASE t \in Brought(q, S, n - 1)
                <5>1. PICK i \in 1 .. n - 1 : q[i] \in S /\ t \in Brings(q[i])
                    BY <4>4 DEF Brought
                <5>2. t = q[i]
                    BY <4>1, <5>1, ClassesAssumption DEF Brings, Standard
                <5>3. i \in DOMAIN q /\ i <= n
                    BY <1>2, <5>1
                <5> QED
                    BY <2>1, <2>2, <2>4, <5>1, <5>2, <5>3
            <4> QED
                BY <4>2, <4>3, <4>4
        <3>6. Precedes(p, s, s)
            BY <1>2, <2>1, <2>2, <2>4
        <3>7. /\ x.interfaces \in Seq(Service) /\ f[n].interfaces \in Seq(Service)
              /\ Extends(x.interfaces, f[n].interfaces, Brings(s))
            BY <2>3, <3>1 DEF Gains, ObjectRec
        <3>8. InOrder(f[n].interfaces, p)
            BY <2>3, <3>5, <3>6, <3>7, OrderKept
        <3> QED
            BY <1>3, <2>2, <3>2, <3>4, <3>8
    <2>5. CASE s \notin S
        <3>1. f[n] = x
            BY <2>2, <2>5
        <3>2. Brought(q, S, n) = Brought(q, S, n - 1)
            BY <1>2, <1>5, <2>1, <2>5 DEF Brought
        <3> QED
            BY <1>3, <2>2, <2>3, <3>1, <3>2
    <2> QED
        BY <2>4, <2>5
<1>6. HandedOn(G, N)
    BY <1>4, <1>5 DEF HandedOn
<1>7. N \in G
    BY <1>2, <1>6, UpTo
<1> QED
    BY <1>1, <1>2, <1>3, <1>7

\* All services of q in S, and the interface of their properties, are brought.
LEMMA BroughtFacts ==
    ASSUME NEW q \in Seq(Interface), NEW S
    PROVE  Brought(q, S, Len(q)) =
               (Services(q) \cap S)
               \cup {t \in {"Properties"} : \E s \in HasProperty : s \in Services(q) \cap S}
<1>1. PICK N : N \in Nat /\ N = Len(q) /\ DOMAIN q = 1 .. N
    OBVIOUS
<1>2. \A i \in 1 .. N : q[i] \in Interface
    BY <1>1
<1>3. Interface \subseteq Service /\ "Properties" \in Service
    BY DEF Service, Standard
<1>4. ASSUME NEW t \in Brought(q, S, N)
      PROVE  \/ t \in Services(q) \cap S
             \/ t = "Properties" /\ \E s \in HasProperty : s \in Services(q) \cap S
    <2>1. PICK i \in 1 .. N : q[i] \in S /\ t \in Brings(q[i])
        BY <1>4 DEF Brought
    <2>2. q[i] \in Services(q) \cap S
        BY <1>1, <2>1 DEF Services
    <2>3. t = q[i] \/ (t = "Properties" /\ q[i] \in HasProperty)
        BY <2>1 DEF Brings
    <2> QED
        BY <2>2, <2>3
<1>5. ASSUME NEW s \in Services(q) \cap S
      PROVE  s \in Brought(q, S, N) /\ (s \in HasProperty => "Properties" \in Brought(q, S, N))
    <2>1. PICK i \in 1 .. N : q[i] = s
        BY <1>1, <1>5 DEF Services
    <2>2. s \in Brings(s) /\ (s \in HasProperty => "Properties" \in Brings(s)) /\ s \in Service
        BY <1>2, <1>3, <2>1 DEF Brings
    <2> QED
        BY <1>3, <1>5, <2>1, <2>2 DEF Brought
<1> QED
    BY <1>1, <1>4, <1>5

\* A new object of the server, before its interfaces for its class are bound.
LEMMA BareObject ==
    ASSUME NEW p \in Path
    PROVE  LET bare == [class |-> ClassOf[p], interfaces |-> <<>>,
                        value |-> [s \in Interface |-> Nil]]
               y == register_service(register_service(bare, "ObjectManager"), "Introspectable")
           IN  /\ y \in ObjectRec /\ y.class = ClassOf[p]
               /\ Services(y.interfaces) = {"ObjectManager", "Introspectable"}
<1>1. PICK c : c = ClassOf[p]
    OBVIOUS
<1>2. c \in Class \cup {anonymous}
    BY <1>1, ClassesAssumption
<1>3. PICK bare : bare = [class |-> c, interfaces |-> <<>>, value |-> [s \in Interface |-> Nil]]
    OBVIOUS
<1>4. bare \in ObjectRec /\ Services(bare.interfaces) = {} /\ bare.class = c
    BY <1>2, <1>3 DEF ObjectRec, Services
<1>5. PICK x : x = register_service(bare, "ObjectManager")
    OBVIOUS
<1>6. PICK y : y = register_service(x, "Introspectable")
    OBVIOUS
<1>7. /\ "ObjectManager" \in Service /\ "ObjectManager" \notin Interface
      /\ "Introspectable" \in Service /\ "Introspectable" \notin Interface
    BY ClassesAssumption DEF Service, Standard
<1>8. Brings("ObjectManager") = {"ObjectManager"} /\ Brings("Introspectable") = {"Introspectable"}
    BY <1>7, ClassesAssumption DEF Brings
<1>9. Gains(bare, x, {"ObjectManager"}) /\ x \in ObjectRec /\ x.class = c
    <2>1. Gains(bare, x, Brings("ObjectManager"))
        BY <1>4, <1>5, <1>7, RegisterFacts
    <2> QED
        BY <1>4, <1>8, <2>1, GainsType
<1>10. Gains(x, y, {"Introspectable"}) /\ y \in ObjectRec /\ y.class = c
    <2>1. Gains(x, y, Brings("Introspectable"))
        BY <1>6, <1>7, <1>9, RegisterFacts
    <2> QED
        BY <1>8, <1>9, <2>1, GainsType
<1>11. Services(y.interfaces) = {"ObjectManager", "Introspectable"}
    BY <1>4, <1>9, <1>10 DEF Gains
<1> QED
    BY <1>1, <1>3, <1>5, <1>6, <1>10, <1>11

\* A new object of the server.
LEMMA NewObjectFacts ==
    ASSUME registry \in Seq(Interface), Services(registry) = Interface, NEW p \in Path
    PROVE  Published(NewObject(p), p)
<1>1. PICK c : c = ClassOf[p]
    OBVIOUS
<1>2. PICK K : K = {s \in Interface : class_is_subclass(c, Compatible[s])}
    OBVIOUS
<1>3. \A s \in K : s \in Interface /\ Compatible[s] # Nil
    <2>1. \A d : class_is_subclass(c, d) => d \in Class
        BY SubclassFacts DEF class_is_subclass
    <2> QED
        BY <1>2, <2>1, ClassesAssumption
<1>4. PICK F : F = FeatureServices[p]
    OBVIOUS
<1>5. F \in Seq(Interface) /\ \A i \in DOMAIN F : F[i] \in Interface /\ Compatible[F[i]] = Nil
    <2>1. F \in Seq({s \in Interface : Compatible[s] = Nil})
        BY <1>4, ClassesAssumption
    <2> QED
        BY <2>1
<1>6. PICK y : /\ y = LET bare == [class |-> ClassOf[p], interfaces |-> <<>>,
                                   value |-> [s \in Interface |-> Nil]]
                      IN  register_service(register_service(bare, "ObjectManager"),
                                           "Introspectable")
    OBVIOUS
<1>7. /\ y \in ObjectRec /\ y.class = c
      /\ Services(y.interfaces) = {"ObjectManager", "Introspectable"}
    BY <1>1, <1>6, BareObject
<1>8. InOrder(y.interfaces, p) /\ Services(y.interfaces) \cap Interface = {}
    <2>1. Services(y.interfaces) \cap Interface = {}
        BY <1>7, ClassesAssumption DEF Standard
    <2> QED
        BY <2>1 DEF InOrder, Services
<1>9. PICK z : z = bind_compatible_interfaces(y)
    OBVIOUS
<1>10. /\ Gains(y, z, Brought(registry, K, Len(registry)))
       /\ InOrder(z.interfaces, p)
    <2>1. z = register_services(y, registry, K)
        BY <1>2, <1>7, <1>9 DEF bind_compatible_interfaces
    <2>2. FitFor(registry, K, y.class)
        BY <1>2, <1>7 DEF FitFor
    <2>3. \A s \in K, t \in K : Precedes(p, s, t)
        BY <1>3 DEF Precedes
    <2> QED
        BY <1>7, <1>8, <2>1, <2>2, <2>3, RegisteringFacts
<1>11. /\ z \in ObjectRec /\ z.class = c
       /\ Services(z.interfaces) =
             {"ObjectManager", "Introspectable"} \cup K
             \cup {t \in {"Properties"} : \E s \in HasProperty : s \in K}
    <2>1. Brought(registry, K, Len(registry)) =
              K \cup {t \in {"Properties"} : \E s \in HasProperty : s \in K}
        BY <1>2, BroughtFacts
    <2> QED
        BY <1>7, <1>10, <2>1, GainsType DEF Gains
<1>12. PICK w : w = bind_container_interfaces(z, p)
    OBVIOUS
<1>13. Gains(z, w, Brought(F, Interface, Len(F))) /\ InOrder(w.interfaces, p)
    <2>1. w = register_services(z, F, Interface)
        BY <1>4, <1>12 DEF bind_container_interfaces
    <2>2. FitFor(F, Interface, z.class)
        BY <1>5 DEF FitFor
    <2>3. ASSUME NEW i \in DOMAIN F, NEW t \in Services(z.interfaces) \cap Interface
          PROVE  Precedes(p, t, F[i])
        <3>1. t \in K
            BY <1>11, <2>3, ClassesAssumption DEF Standard
        <3> QED
            BY <1>3, <1>5, <3>1 DEF Precedes, Prevails
    <2>4. ASSUME NEW i \in DOMAIN F, NEW j \in DOMAIN F, i <= j
          PROVE  Precedes(p, F[i], F[j])
        BY <1>4, <1>5, <2>4 DEF Precedes, Prevails
    <2> QED
        BY <1>5, <1>10, <1>11, <2>1, <2>2, <2>3, <2>4, RegisteringFacts
<1>14. w \in ObjectRec /\ w.class = c
    BY <1>11, <1>13, GainsType
<1>15. Services(w.interfaces) = Offered(p)
    <2>1. Brought(F, Interface, Len(F)) =
              Services(F) \cup {t \in {"Properties"} : \E s \in HasProperty : s \in Services(F)}
        <3>1. Services(F) \subseteq Interface
            BY <1>5 DEF Services
        <3> QED
            BY <1>5, <3>1, BroughtFacts
    <2>2. \A s \in Interface : Fits(p, s) <=> s \in K \/ s \in Services(F)
        <3>1. TAKE s \in Interface
        <3>2. s \in Services(F) <=> \E i \in DOMAIN F : F[i] = s
            BY DEF Services
        <3>3. CASE Compatible[s] = Nil
            BY <1>3, <1>4, <3>2, <3>3 DEF Fits
        <3>4. CASE Compatible[s] # Nil
            BY <1>1, <1>2, <1>5, <3>1, <3>2, <3>4 DEF Fits
        <3> QED
            BY <3>3, <3>4
    <2>3. K \subseteq Interface /\ Services(F) \subseteq Interface /\ HasProperty \subseteq Interface
        BY <1>3, <1>5, ClassesAssumption DEF Services
    <2>4. Services(w.interfaces) = Services(z.interfaces) \cup Brought(F, Interface, Len(F))
        BY <1>13 DEF Gains
    <2>5. K \cup Services(F) = {s \in Interface : Fits(p, s)}
        BY <2>2, <2>3
    <2>6. {t \in {"Properties"} : \E s \in HasProperty : s \in K}
              \cup {t \in {"Properties"} : \E s \in HasProperty : s \in Services(F)}
          = {t \in {"Properties"} : \E s \in HasProperty : Fits(p, s)}
        BY <2>2, <2>3
    <2> QED
        BY <1>11, <2>1, <2>4, <2>5, <2>6 DEF Offered
<1>16. NewObject(p) = w
    BY <1>6, <1>9, <1>12 DEF NewObject
<1> QED
    BY <1>1, <1>13, <1>14, <1>15, <1>16 DEF Published

-----------------------------------------------------------------------------
(* Reading a reply                                                          *)

\* What is known of the object at p while its entries are read.
Partial(o, p) ==
    /\ o \in ProxyRec
    /\ o.class = anonymous \/ class_is_subclass(ClassOf[p], o.class)
    /\ Services(o.interfaces) \subseteq Offered(p)

\* r is o after entry e of the object at p.
Takes(o, r, e, p) ==
    /\ Partial(r, p)
    /\ Services(r.interfaces) = Services(o.interfaces) \cup Brings(e.service)
    /\ Extends(o.interfaces, r.interfaces, Brings(e.service))
    /\ r.cached = IF e.value = Nil THEN o.cached ELSE [o.cached EXCEPT ![e.service] = e.value]
    /\ o.class = ClassOf[p] \/ (e.service \in Interface /\ Compatible[e.service] = ClassOf[p])
          => r.class = ClassOf[p]

\* An entry that the server may send for the object at p.
EntryOf(e, p) ==
    /\ e \in Entry /\ e.service \in Offered(p)
    /\ e.service \notin HasProperty => e.value = Nil

\* What an offered service brings is offered.
LEMMA BringsOffered ==
    ASSUME NEW p, NEW s \in Offered(p)
    PROVE  Brings(s) \subseteq Offered(p)
<1>1. s \in HasProperty => Fits(p, s)
    BY ClassesAssumption DEF Offered, Standard
<1> QED
    BY <1>1 DEF Brings, Offered

\* The client's class becomes more special, or stays, and fits the service.
LEMMA Specialise ==
    ASSUME NEW p \in Path, NEW o, Partial(o, p), NEW e, EntryOf(e, p)
    PROVE  \E k \in Class \cup {anonymous} :
              /\ k = anonymous \/ class_is_subclass(ClassOf[p], k)
              /\ e.service \in Interface /\ Compatible[e.service] # Nil
                    => class_is_subclass(k, Compatible[e.service])
              /\ o.class = ClassOf[p] \/ (e.service \in Interface /\ Compatible[e.service] = ClassOf[p])
                    => k = ClassOf[p]
              /\ managed_interface(o, e) =
                    LET bound == register_service([o EXCEPT !.class = k], e.service) IN
                    IF e.value = Nil THEN bound ELSE [bound EXCEPT !.cached[e.service] = e.value]
<1>1. PICK d : d = CompatibleWith(e.service)
    OBVIOUS
<1>2. PICK k : k = IF d = Nil \/ class_is_subclass(o.class, d) THEN o.class
                   ELSE IF o.class = anonymous \/ class_is_subclass(d, o.class) THEN d
                   ELSE Nil
    OBVIOUS
<1>3. PICK c : c = ClassOf[p] /\ c \in Class \cup {anonymous} /\ c # Nil
    BY ClassesAssumption
<1>4. \A x, y : class_is_subclass(x, y) => x \in Class /\ y \in Class
    BY SubclassFacts DEF class_is_subclass
<1>5. /\ o.class = anonymous \/ class_is_subclass(c, o.class)
      /\ o.class \in Class \cup {anonymous} /\ o.class # Nil
    BY <1>3, <1>4, ClassesAssumption DEF Partial
<1>6. CASE d = Nil
    <2>1. e.service \in Interface => Compatible[e.service] = Nil
        BY <1>1, <1>6, ClassesAssumption DEF CompatibleWith
    <2>2. k = o.class /\ k # Nil
        BY <1>2, <1>5, <1>6
    <2> QED
        BY <1>1, <1>2, <1>3, <1>5, <2>1, <2>2 DEF managed_interface
<1>7. CASE d # Nil
    <2>1. e.service \in Interface /\ d = Compatible[e.service] /\ class_is_subclass(c, d)
        <3>1. e.service \notin Standard /\ d = Compatible[e.service]
            BY <1>1, <1>7 DEF CompatibleWith
        <3>2. e.service \in Interface /\ Fits(p, e.service)
            BY <3>1 DEF EntryOf, Offered, Standard
        <3> QED
            BY <1>3, <1>7, <3>1, <3>2 DEF Fits
    <2>2. d \in Class /\ c \in Class
        BY <1>4, <2>1
    <2>3. class_is_subclass(d, d)
        BY <2>2, SubclassFacts
    <2>4. CASE o.class = anonymous
        <3>1. ~class_is_subclass(o.class, d)
            BY <2>4, ClassesAssumption DEF class_is_subclass
        <3>2. k = d /\ o.class # c
            BY <1>2, <1>7, <2>2, <2>4, <3>1, ClassesAssumption
        <3> QED
            BY <1>1, <1>2, <1>3, <1>7, <2>1, <2>2, <2>3, <3>2 DEF managed_interface
    <2>5. CASE o.class # anonymous
        <3>1. class_is_subclass(c, o.class) /\ o.class \in Class
            BY <1>5, <2>5
        <3>2. class_is_subclass(o.class, d) \/ class_is_subclass(d, o.class)
            BY <2>1, <2>2, <3>1, SubclassFacts
        <3>3. CASE class_is_subclass(o.class, d)
            <4>1. k = o.class /\ k # Nil
                BY <1>2, <1>5, <3>3
            <4>2. d = c => o.class = c
                BY <2>2, <3>1, <3>3, ClassesAssumption
            <4> QED
                BY <1>1, <1>2, <1>3, <2>1, <3>1, <3>3, <4>1, <4>2 DEF managed_interface
        <3>4. CASE ~class_is_subclass(o.class, d)
            <4>1. k = d /\ o.class # c
                BY <1>2, <1>7, <2>1, <3>2, <3>4
            <4> QED
                BY <1>1, <1>2, <1>3, <1>7, <2>1, <2>2, <2>3, <4>1 DEF managed_interface
        <3> QED
            BY <3>3, <3>4
    <2> QED
        BY <2>4, <2>5
<1> QED
    BY <1>6, <1>7

\* One entry.
LEMMA EntryFacts ==
    ASSUME NEW p \in Path, NEW o, Partial(o, p), NEW e, EntryOf(e, p)
    PROVE  Takes(o, managed_interface(o, e), e, p)
<1>1. PICK k \in Class \cup {anonymous} :
          /\ k = anonymous \/ class_is_subclass(ClassOf[p], k)
          /\ e.service \in Interface /\ Compatible[e.service] # Nil
                => class_is_subclass(k, Compatible[e.service])
          /\ o.class = ClassOf[p] \/ (e.service \in Interface /\ Compatible[e.service] = ClassOf[p])
                => k = ClassOf[p]
          /\ managed_interface(o, e) =
                LET bound == register_service([o EXCEPT !.class = k], e.service) IN
                IF e.value = Nil THEN bound ELSE [bound EXCEPT !.cached[e.service] = e.value]
    BY Specialise
<1>2. PICK x : x = [o EXCEPT !.class = k]
    OBVIOUS
<1>4. x \in ProxyRec /\ x.class = k /\ x.interfaces = o.interfaces /\ x.cached = o.cached
    BY <1>2 DEF Partial, ProxyRec
<1>5. PICK y : y = register_service(x, e.service)
    OBVIOUS
<1>6. Gains(x, y, Brings(e.service))
    <2>1. e.service \in Service
        BY DEF EntryOf, Entry
    <2> QED
        BY <1>1, <1>4, <1>5, <2>1, RegisterFacts
<1>7. /\ y \in ProxyRec /\ y.class = k /\ y.cached = o.cached
      /\ Services(y.interfaces) = Services(o.interfaces) \cup Brings(e.service)
      /\ Extends(o.interfaces, y.interfaces, Brings(e.service))
    <2>1. y \in ProxyRec /\ y.class = x.class /\ y.cached = x.cached
        BY <1>4, <1>6, GainsType
    <2> QED
        BY <1>4, <1>6, <2>1 DEF Gains
<1>8. Brings(e.service) \subseteq Offered(p)
    BY BringsOffered DEF EntryOf
<1>9. Partial(y, p)
    BY <1>1, <1>7, <1>8 DEF Partial
<1>10. CASE e.value = Nil
    <2>1. managed_interface(o, e) = y
        BY <1>1, <1>2, <1>5, <1>10
    <2> QED
        BY <1>1, <1>7, <1>9, <1>10, <2>1 DEF Takes
<1>11. CASE e.value # Nil
    <2>1. PICK v : v = [y.cached EXCEPT ![e.service] = e.value]
        OBVIOUS
    <2>2. PICK z : z = [y EXCEPT !.cached = v]
        OBVIOUS
    <2>3. managed_interface(o, e) = z
        BY <1>1, <1>2, <1>5, <1>11, <2>1, <2>2
    <2>4. e.service \in Interface /\ e.value \in Value \cup {Nil}
        BY <1>11, ClassesAssumption DEF EntryOf, Entry
    <2>5. v \in [Interface -> Value \cup {Nil}]
        BY <1>7, <2>1, <2>4 DEF ProxyRec
    <2>6. /\ z \in ProxyRec /\ z.class = k /\ z.interfaces = y.interfaces /\ z.cached = v
        BY <1>7, <2>2, <2>5 DEF ProxyRec
    <2>7. Partial(z, p)
        BY <1>7, <1>9, <2>6 DEF Partial
    <2> QED
        BY <1>1, <1>7, <1>11, <2>1, <2>3, <2>6, <2>7 DEF Takes
<1> QED
    BY <1>10, <1>11

Reads(f, o, es) ==
    f = [n \in 0 .. Len(es) |-> IF n = 0 THEN o ELSE managed_interface(f[n - 1], es[n])]

\* The walk over the entries is well defined.
LEMMA Reading ==
    ASSUME NEW p \in Path, NEW o, Partial(o, p), NEW es \in Seq(Entry),
           \A i \in DOMAIN es : EntryOf(es[i], p)
    PROVE  \E f : Reads(f, o, es) /\ managed_interfaces(o, es) = f[Len(es)]
<1>1. PICK n : n \in Nat /\ n = Len(es)
    OBVIOUS
<1>2. PICK X : X = {x \in ProxyRec : Partial(x, p)}
    OBVIOUS
<1>3. PICK step : step = [i \in 1 .. n |-> [x \in X |-> managed_interface(x, es[i])]]
    OBVIOUS
<1>4. \A i \in 1 .. n : EntryOf(es[i], p)
    BY <1>1
<1>5. \A x : x \in X <=> Partial(x, p)
    BY <1>2 DEF Partial
<1>6. \A i \in 1 .. n, x \in X : managed_interface(x, es[i]) \in X
    BY <1>4, <1>5, EntryFacts DEF Takes
<1>7. step \in [1 .. n -> [X -> X]] /\ o \in X
    BY <1>3, <1>5, <1>6
<1>8. Steps(X, o, step, n)
    BY <1>1, <1>7, Iteration
<1>9. PICK f : /\ f \in [0 .. n -> X] /\ f[0] = o
               /\ \A i \in 1 .. n : f[i] = step[i][f[i - 1]]
    BY <1>8 DEF Steps
<1>10. \A i \in 1 .. n : f[i] = managed_interface(f[i - 1], es[i])
    BY <1>1, <1>3, <1>9
<1>11. Reads(f, o, es)
    BY <1>1, <1>9, <1>10 DEF Reads
<1> QED
    BY <1>11 DEF managed_interfaces, Reads

\* What the client knows after the first n entries.
Taken(x, es, n, p) ==
    /\ Partial(x, p)
    /\ InOrder(x.interfaces, p)
    /\ \/ Services(x.interfaces) = Offered(p)
       \/ \A t \in Services(x.interfaces) \cap Interface : \E i \in 1 .. n : es[i].service = t
    /\ \A i \in 1 .. n : es[i].service \in Services(x.interfaces)
    /\ (\E i \in 1 .. n : es[i].service \in Interface /\ Compatible[es[i].service] = ClassOf[p])
          => x.class = ClassOf[p]
    /\ \A s \in Interface : (\A i \in 1 .. n : es[i].service # s) => x.cached[s] = Nil
    /\ \A i \in 1 .. n : es[i].service \in Interface => x.cached[es[i].service] = es[i].value

\* One entry more.
LEMMA TakenNext ==
    ASSUME NEW p \in Path, NEW es, Describes(es, p), NEW n \in 1 .. Len(es), NEW x, NEW y,
           Taken(x, es, n - 1, p), Takes(x, y, es[n], p)
    PROVE  Taken(y, es, n, p)
<1>1. PICK e : e = es[n]
    OBVIOUS
<1>2. es \in Seq(Entry) /\ DOMAIN es = 1 .. Len(es) /\ Len(es) \in Nat
    BY DEF Describes
<1>3. e \in Entry /\ e.service \in Service
    <2>1. n \in DOMAIN es
        BY <1>2
    <2>2. e \in Entry
        BY <1>1, <1>2, <2>1
    <2> QED
        BY <2>2 DEF Entry
<1>4. \A i \in 1 .. n : i = n \/ i \in 1 .. n - 1
    BY <1>2
<1>5. /\ Partial(y, p)
      /\ Services(y.interfaces) = Services(x.interfaces) \cup Brings(e.service)
      /\ y.cached = IF e.value = Nil THEN x.cached ELSE [x.cached EXCEPT ![e.service] = e.value]
      /\ x.class = ClassOf[p] \/ (e.service \in Interface /\ Compatible[e.service] = ClassOf[p])
            => y.class = ClassOf[p]
    BY <1>1 DEF Takes
<1>6. \A i \in 1 .. n : es[i].service \in Services(y.interfaces)
    BY <1>1, <1>4, <1>5 DEF Taken, Brings
<1>7. (\E i \in 1 .. n : es[i].service \in Interface /\ Compatible[es[i].service] = ClassOf[p])
          => y.class = ClassOf[p]
    BY <1>1, <1>4, <1>5 DEF Taken
<1>8. e.value # Nil => e.service \in HasProperty /\ e.service \in Interface
    BY <1>1, <1>2, ClassesAssumption DEF Describes
<1>9. x.cached \in [Interface -> Value \cup {Nil}]
    BY DEF Taken, Partial, ProxyRec
<1>10. \A s \in Interface : y.cached[s] = IF e.service = s /\ e.value # Nil THEN e.value ELSE x.cached[s]
    BY <1>5, <1>8, <1>9
<1>11. \A s \in Interface : (\A i \in 1 .. n : es[i].service # s) => y.cached[s] = Nil
    <2>1. n \in 1 .. n /\ \A i \in 1 .. n - 1 : i \in 1 .. n
        BY <1>2
    <2> QED
        BY <1>1, <1>10, <2>1 DEF Taken
<1>12. ASSUME NEW i \in 1 .. n, es[i].service \in Interface
       PROVE  y.cached[es[i].service] = es[i].value
    <2>1. PICK s : s = es[i].service
        OBVIOUS
    <2>2. i \in DOMAIN es /\ n \in DOMAIN es
        BY <1>2, <1>12
    <2>3. e.service = s => es[i].value = e.value
        BY <1>1, <2>1, <2>2 DEF Describes
    <2>4. CASE e.service = s /\ e.value # Nil
        BY <1>10, <1>12, <2>1, <2>3, <2>4
    <2>5. CASE e.service = s /\ e.value = Nil
        <3>1. x.cached[s] = Nil
            <4>1. CASE \E j \in 1 .. n - 1 : es[j].service = s
                <5>1. PICK j \in 1 .. n - 1 : es[j].service = s
                    BY <4>1
                <5>2. j \in DOMAIN es
                    BY <1>2, <5>1
                <5>3. es[j].value = e.value
                    BY <1>1, <2>2, <2>5, <5>1, <5>2 DEF Describes
                <5> QED
                    BY <1>12, <2>1, <2>5, <5>1, <5>3 DEF Taken
            <4>2. CASE ~\E j \in 1 .. n - 1 : es[j].service = s
                BY <1>12, <2>1, <4>2 DEF Taken
            <4> QED
                BY <4>1, <4>2
        <3> QED
            BY <1>10, <1>12, <2>1, <2>3, <2>5, <3>1
    <2>6. CASE e.service # s
        <3>1. i \in 1 .. n - 1
            BY <1>1, <1>4, <1>12, <2>1, <2>6
        <3> QED
            BY <1>10, <1>12, <2>1, <2>6, <3>1 DEF Taken
    <2> QED
        BY <2>4, <2>5, <2>6
<1>13. e.service \in Offered(p) /\ (e.service \in Interface => Precedes(p, e.service, e.service))
    <2>1. n \in DOMAIN es
        BY <1>2
    <2> QED
        BY <1>1, <1>2, <2>1 DEF Describes
<1>14. \/ e.service \in Services(x.interfaces)
       \/ \A t \in Services(x.interfaces) \cap Interface :
              e.service \in Interface => Precedes(p, t, e.service)
    <2>1. CASE Services(x.interfaces) = Offered(p)
        BY <1>13, <2>1
    <2>2. CASE \A t \in Services(x.interfaces) \cap Interface :
                   \E i \in 1 .. n - 1 : es[i].service = t
        <3>1. \A i \in 1 .. n - 1 : i \in DOMAIN es /\ n \in DOMAIN es /\ i <= n
            BY <1>2
        <3> QED
            BY <1>1, <2>2, <3>1 DEF Describes
    <2> QED
        BY <2>1, <2>2 DEF Taken
<1>15. InOrder(y.interfaces, p)
    <2>1. x.interfaces \in Seq(Service) /\ y.interfaces \in Seq(Service)
        BY <1>5 DEF Taken, Partial, ProxyRec
    <2>2. Extends(x.interfaces, y.interfaces, Brings(e.service)) /\ InOrder(x.interfaces, p)
        BY <1>1 DEF Takes, Taken
    <2> QED
        BY <1>13, <1>14, <2>1, <2>2, OrderKept
<1>16. \/ Services(y.interfaces) = Offered(p)
       \/ \A t \in Services(y.interfaces) \cap Interface : \E i \in 1 .. n : es[i].service = t
    <2>1. CASE Services(x.interfaces) = Offered(p)
        BY <1>5, <2>1 DEF Partial
    <2>2. CASE \A t \in Services(x.interfaces) \cap Interface :
                   \E i \in 1 .. n - 1 : es[i].service = t
        <3>1. \A t \in Brings(e.service) \cap Interface : t = es[n].service
            BY <1>1, ClassesAssumption DEF Brings, Standard
        <3>2. n \in 1 .. n /\ \A i \in 1 .. n - 1 : i \in 1 .. n
            BY <1>2
        <3> QED
            BY <1>5, <2>2, <3>1, <3>2
    <2> QED
        BY <2>1, <2>2 DEF Taken
<1> QED
    BY <1>5, <1>6, <1>7, <1>11, <1>12, <1>15, <1>16 DEF Taken

\* r is what a client makes of the entries es of the object at p.
Mirrors(r, es, p) ==
    /\ r \in ProxyRec /\ ~r.stale /\ r.class = ClassOf[p]
    /\ Services(r.interfaces) = Offered(p) /\ InOrder(r.interfaces, p)
    /\ \A i \in DOMAIN es : es[i].service \in Interface => r.cached[es[i].service] = es[i].value

\* An object of the reply.
LEMMA ManagedObject ==
    ASSUME NEW p \in Path, NEW o, Known(o, p), NEW es, Describes(es, p)
    PROVE  Mirrors(managed_object(o, es), es, p)
<1>1. PICK c : c = ClassOf[p]
    OBVIOUS
<1>2. c \in Class \cup {anonymous} /\ (c \in Class => class_is_subclass(c, c))
    BY <1>1, ClassesAssumption, SubclassFacts
<1>3. es \in Seq(Entry) /\ DOMAIN es = 1 .. Len(es) /\ Len(es) \in Nat
    BY DEF Describes
<1>4. \A i \in DOMAIN es : EntryOf(es[i], p)
    BY <1>3 DEF Describes, EntryOf
<1>5. PICK x : x = drop_cached(o)
    OBVIOUS
<1>6. /\ x \in ProxyRec /\ x.class = o.class /\ x.interfaces = o.interfaces
      /\ x.cached = [s \in Interface |-> Nil]
    BY <1>5 DEF Known, ProxyRec, drop_cached
<1>7. /\ Partial(x, p) /\ InOrder(x.interfaces, p)
      /\ Services(x.interfaces) = Offered(p) \/ Services(x.interfaces) = {}
    <2>1. CASE o.class = anonymous /\ o.interfaces = <<>>
        BY <1>6, <2>1 DEF Partial, Services, InOrder
    <2>2. CASE /\ o.class = ClassOf[p]
               /\ Services(o.interfaces) = Offered(p) /\ InOrder(o.interfaces, p)
        BY <1>1, <1>2, <1>6, <2>2 DEF Partial
    <2> QED
        BY <2>1, <2>2 DEF Known
<1>8. PICK f : Reads(f, x, es) /\ managed_interfaces(x, es) = f[Len(es)]
    BY <1>3, <1>4, <1>7, Reading
<1>9. PICK N : N \in Nat /\ N = Len(es)
    BY <1>3
<1>10. PICK S : S = {n \in 0 .. N : Taken(f[n], es, n, p)}
    OBVIOUS
<1>11. 0 \in S
    <2>1. f[0] = x /\ 0 \in 0 .. N
        BY <1>8, <1>9 DEF Reads
    <2>2. Taken(x, es, 0, p)
        BY <1>6, <1>7 DEF Taken
    <2> QED
        BY <1>10, <2>1, <2>2
<1>12. ASSUME NEW n \in 1 .. N, n - 1 \in S
       PROVE  n \in S
    <2>1. PICK y, z : y = f[n - 1] /\ z = f[n]
        OBVIOUS
    <2>2. Taken(y, es, n - 1, p)
        BY <1>10, <1>12, <2>1
    <2>3. z = managed_interface(y, es[n]) /\ n \in 0 .. N /\ n \in 1 .. Len(es)
        BY <1>8, <1>9, <1>12, <2>1 DEF Reads
    <2>4. Takes(y, z, es[n], p)
        <3>1. Partial(y, p) /\ EntryOf(es[n], p)
            BY <1>3, <1>4, <2>2, <2>3 DEF Taken
        <3> QED
            BY <2>3, <3>1, EntryFacts
    <2>5. Taken(z, es, n, p)
        BY <2>2, <2>3, <2>4, TakenNext
    <2> QED
        BY <1>10, <2>1, <2>3, <2>5
<1>13. HandedOn(S, N)
    BY <1>11, <1>12 DEF HandedOn
<1>14. N \in S
    BY <1>9, <1>13, UpTo
<1>15. PICK y : y = managed_interfaces(x, es)
    OBVIOUS
<1>16. Taken(y, es, N, p) /\ Partial(y, p) /\ InOrder(y.interfaces, p)
    BY <1>8, <1>9, <1>10, <1>14, <1>15 DEF Taken
<1>17. PICK r : r = [y EXCEPT !.stale = FALSE]
    OBVIOUS
<1>18. /\ r \in ProxyRec /\ r.stale = FALSE /\ r.class = y.class /\ r.interfaces = y.interfaces
       /\ r.cached = y.cached
    BY <1>16, <1>17 DEF Partial, ProxyRec
<1>19. y.class = c
    <2>1. CASE c \in Class
        <3>1. PICK s \in Interface : Compatible[s] = c
            BY <1>1, <2>1, ClassesAssumption
        <3>2. s \in Offered(p)
            <4>1. Compatible[s] # Nil
                BY <2>1, <3>1, ClassesAssumption
            <4> QED
                BY <1>1, <1>2, <2>1, <3>1, <4>1 DEF Offered, Fits
        <3>3. PICK i \in DOMAIN es : es[i].service = s
            BY <3>2 DEF Describes
        <3> QED
            BY <1>1, <1>3, <1>9, <1>16, <3>1, <3>3 DEF Taken
    <2>2. CASE c = anonymous
        <3>1. ~class_is_subclass(c, y.class)
            BY <2>2, ClassesAssumption DEF class_is_subclass
        <3> QED
            BY <1>1, <1>16, <2>2, <3>1 DEF Partial
    <2> QED
        BY <1>2, <2>1, <2>2
<1>20. Services(y.interfaces) = Offered(p)
    <2>1. \A s \in Offered(p) : \E i \in DOMAIN es : es[i].service = s
        BY DEF Describes
    <2>2. \A i \in DOMAIN es : es[i].service \in Services(y.interfaces)
        BY <1>3, <1>9, <1>16 DEF Taken
    <2> QED
        BY <1>16, <2>1, <2>2 DEF Partial
<1>21. managed_object(o, es) = r
    BY <1>5, <1>15, <1>17 DEF managed_object
<1>22. \A i \in DOMAIN es : es[i].service \in Interface => r.cached[es[i].service] = es[i].value
    BY <1>3, <1>9, <1>16, <1>18 DEF Taken
<1> QED
    BY <1>1, <1>16, <1>18, <1>19, <1>20, <1>21, <1>22 DEF Mirrors

-----------------------------------------------------------------------------
(* Choosing an interface for a method                                       *)

Candidate(t, m, p) == t \in Interface /\ m \in Methods[t] /\ Fits(p, t)

\* b is one of the first n interfaces of q, and of the candidates among them the
\* one to call.
Best(b, q, n, m, p) ==
    \/ b = "none" /\ \A i \in 1 .. n : ~Candidate(q[i], m, p)
    \/ /\ Candidate(b, m, p) /\ \E i \in 1 .. n : q[i] = b
       /\ \A i \in 1 .. n : Candidate(q[i], m, p) => Prevails(p, b, q[i])

\* Only the interfaces of the schema offer methods of objects.
LEMMA OffersMethod ==
    ASSUME NEW p, NEW s \in Offered(p), NEW m \in Method
    PROVE  m \in MethodsOf(s) <=> Candidate(s, m, p)
<1>1. CASE s \in Standard
    <2>1. s \notin Interface
        BY <1>1, ClassesAssumption
    <2>2. m \notin MethodsOf(s)
        BY <1>1, ClassesAssumption DEF MethodsOf, Standard
    <2> QED
        BY <2>1, <2>2 DEF Candidate
<1>2. CASE s \notin Standard
    <2>1. s \in Interface /\ Fits(p, s)
        BY <1>2 DEF Offered, Standard
    <2>2. MethodsOf(s) = Methods[s]
        BY <1>2 DEF MethodsOf, Standard
    <2> QED
        BY <2>1, <2>2 DEF Candidate
<1> QED
    BY <1>1, <1>2

\* Each candidate prevails over itself, and what prevails over another prevails
\* over all that the other prevails over, if it has a class.
LEMMA PrevailsFacts ==
    ASSUME NEW p \in Path, NEW m
    PROVE  /\ \A s : Candidate(s, m, p) => Prevails(p, s, s)
           /\ \A s, b, t : /\ Candidate(s, m, p) /\ Candidate(b, m, p) /\ Candidate(t, m, p)
                           /\ Compatible[s] # Nil /\ Compatible[b] # Nil
                           /\ Prevails(p, s, b) /\ Prevails(p, b, t)
                           => Prevails(p, s, t)
<1>1. ASSUME NEW s, Candidate(s, m, p)
      PROVE  Prevails(p, s, s)
    <2>1. CASE Compatible[s] = Nil
        <3>1. PICK i \in DOMAIN FeatureServices[p] : FeatureServices[p][i] = s
            BY <1>1, <2>1 DEF Candidate, Fits
        <3>2. i \in Nat
            <4>1. FeatureServices[p] \in Seq({t \in Interface : Compatible[t] = Nil})
                BY ClassesAssumption
            <4>2. DOMAIN FeatureServices[p] = 1 .. Len(FeatureServices[p])
                BY <4>1
            <4> QED
                BY <3>1, <4>2
        <3> QED
            BY <2>1, <3>1, <3>2 DEF Prevails
    <2>2. CASE Compatible[s] # Nil
        <3>1. class_is_subclass(Compatible[s], Compatible[s])
            BY <1>1, <2>2, SubclassFacts, ClassesAssumption DEF Candidate
        <3> QED
            BY <2>2, <3>1 DEF Prevails
    <2> QED
        BY <2>1, <2>2
<1>2. ASSUME NEW s, NEW b, NEW t, Candidate(s, m, p), Candidate(b, m, p), Candidate(t, m, p),
             Compatible[s] # Nil, Compatible[b] # Nil, Prevails(p, s, b), Prevails(p, b, t)
      PROVE  Prevails(p, s, t)
    <2>1. class_is_subclass(Compatible[s], Compatible[b]) /\ Compatible[s] \in Class
        BY <1>2, ClassesAssumption DEF Candidate, Prevails
    <2>2. Compatible[t] = Nil \/ class_is_subclass(Compatible[b], Compatible[t])
        BY <1>2 DEF Prevails
    <2>3. Compatible[t] = Nil \/ class_is_subclass(Compatible[s], Compatible[t])
        BY <2>1, <2>2, SubclassFacts
    <2> QED
        BY <1>2, <2>3 DEF Prevails
<1> QED
    BY <1>1, <1>2

\* Of two candidates in their order the one that prevails is taken.
LEMMA MoreSpecific ==
    ASSUME NEW p \in Path, NEW m, NEW b, NEW s, Candidate(b, m, p), Candidate(s, m, p),
           Precedes(p, b, s)
    PROVE  \/ more_specific(b, s) = b /\ Prevails(p, b, s)
           \/ /\ more_specific(b, s) = s /\ Prevails(p, s, b)
              /\ Compatible[s] # Nil /\ Compatible[b] # Nil
<1>1. b \in Interface /\ s \in Interface /\ b \notin Standard /\ s \notin Standard
    BY ClassesAssumption DEF Candidate
<1>2. b # "none" /\ b # "ambiguous"
    BY <1>1, ClassesAssumption
<1>3. CompatibleWith(b) = Compatible[b] /\ CompatibleWith(s) = Compatible[s]
    BY <1>1 DEF CompatibleWith
<1>4. CASE Compatible[b] = Nil \/ Compatible[s] = Nil
    <2>1. more_specific(b, s) = b
        BY <1>2, <1>3, <1>4 DEF more_specific
    <2> QED
        BY <1>4, <2>1 DEF Precedes
<1>5. CASE Compatible[b] # Nil /\ Compatible[s] # Nil
    <2>1. class_is_subclass(ClassOf[p], Compatible[b]) /\ class_is_subclass(ClassOf[p], Compatible[s])
        BY <1>5 DEF Candidate, Fits
    <2>2. \/ class_is_subclass(Compatible[b], Compatible[s])
          \/ class_is_subclass(Compatible[s], Compatible[b])
        BY <2>1, SubclassFacts DEF class_is_subclass
    <2> QED
        BY <1>2, <1>3, <1>5, <2>2 DEF more_specific, Prevails
<1> QED
    BY <1>4, <1>5

\* One interface more.
LEMMA BestNext ==
    ASSUME NEW p \in Path, NEW m \in Method, NEW q, InOrder(q, p), NEW n \in Nat \ {0},
           1 .. n \subseteq DOMAIN q, q[n] \in Offered(p),
           NEW b, Best(b, q, n - 1, m, p)
    PROVE  Best(IF m \in MethodsOf(q[n]) THEN more_specific(b, q[n]) ELSE b, q, n, m, p)
<1>1. PICK s : s = q[n]
    OBVIOUS
<1>2. m \in MethodsOf(s) <=> Candidate(s, m, p)
    BY <1>1, OffersMethod
<1>3. n \in 1 .. n /\ \A i \in 1 .. n : i = n \/ i \in 1 .. n - 1
    OBVIOUS
<1>4. \A i \in 1 .. n - 1 : i \in 1 .. n /\ i <= n
    OBVIOUS
<1>5. CASE ~Candidate(s, m, p)
    <2>1. Best(b, q, n, m, p)
        BY <1>1, <1>3, <1>4, <1>5 DEF Best
    <2> QED
        BY <1>1, <1>2, <1>5, <2>1
<1>6. CASE Candidate(s, m, p) /\ b = "none"
    <2>1. \A i \in 1 .. n - 1 : ~Candidate(q[i], m, p)
        BY <1>6, ClassesAssumption DEF Best, Candidate
    <2>2. more_specific(b, s) = s
        BY <1>6 DEF more_specific
    <2>3. Prevails(p, s, s)
        BY <1>6, PrevailsFacts
    <2>4. Best(s, q, n, m, p)
        BY <1>1, <1>3, <1>6, <2>1, <2>3 DEF Best
    <2> QED
        BY <1>1, <1>2, <1>6, <2>2, <2>4
<1>7. CASE Candidate(s, m, p) /\ b # "none"
    <2>1. /\ Candidate(b, m, p)
          /\ \A i \in 1 .. n - 1 : Candidate(q[i], m, p) => Prevails(p, b, q[i])
        BY <1>7 DEF Best
    <2>2. PICK k \in 1 .. n - 1 : q[k] = b
        BY <1>7 DEF Best
    <2>3. Precedes(p, b, s)
        <3>1. k \in DOMAIN q /\ n \in DOMAIN q /\ k <= n
            BY <1>3, <1>4, <2>2
        <3> QED
            BY <1>1, <1>7, <2>1, <2>2, <3>1 DEF InOrder, Candidate
    <2>4. CASE more_specific(b, s) = b /\ Prevails(p, b, s)
        <3>1. Best(b, q, n, m, p)
            BY <1>1, <1>3, <1>4, <2>1, <2>2, <2>4 DEF Best
        <3> QED
            BY <1>1, <1>2, <1>7, <2>4, <3>1
    <2>5. CASE /\ more_specific(b, s) = s /\ Prevails(p, s, b)
               /\ Compatible[s] # Nil /\ Compatible[b] # Nil
        <3>1. Prevails(p, s, s)
            BY <1>7, PrevailsFacts
        <3>2. \A i \in 1 .. n - 1 : Candidate(q[i], m, p) => Prevails(p, s, q[i])
            BY <1>7, <2>1, <2>5, PrevailsFacts
        <3>3. Best(s, q, n, m, p)
            BY <1>1, <1>3, <1>7, <3>1, <3>2 DEF Best
        <3> QED
            BY <1>1, <1>2, <1>7, <2>5, <3>3
    <2> QED
        BY <1>7, <2>1, <2>3, <2>4, <2>5, MoreSpecific
<1> QED
    BY <1>5, <1>6, <1>7

Chooses(f, q, m) ==
    f = [n \in 0 .. Len(q) |->
            IF n = 0 THEN "none"
            ELSE IF m \in MethodsOf(q[n]) THEN more_specific(f[n - 1], q[n]) ELSE f[n - 1]]

\* The walk over the interfaces is well defined.
LEMMA Choosing ==
    ASSUME NEW p, NEW m \in Method, proxy[p].interfaces \in Seq(Service)
    PROVE  \E f : /\ Chooses(f, proxy[p].interfaces, m)
                  /\ ServiceForMethod(p, m) = f[Len(proxy[p].interfaces)]
<1>1. PICK q : q = proxy[p].interfaces
    OBVIOUS
<1>2. q \in Seq(Service)
    BY <1>1
<1>3. PICK N : N \in Nat /\ N = Len(q)
    BY <1>2
<1>4. PICK X : X = Service \cup {"none", "ambiguous"}
    OBVIOUS
<1>5. PICK step : step = [i \in 1 .. N |-> [x \in X |->
                             IF m \in MethodsOf(q[i]) THEN more_specific(x, q[i]) ELSE x]]
    OBVIOUS
<1>6. \A i \in 1 .. N : q[i] \in X
    BY <1>2, <1>3, <1>4
<1>7. \A x, s : more_specific(x, s) \in {x, s, "ambiguous"}
    BY DEF more_specific
<1>8. \A i \in 1 .. N, x \in X :
          (IF m \in MethodsOf(q[i]) THEN more_specific(x, q[i]) ELSE x) \in X
    BY <1>4, <1>6, <1>7
<1>9. step \in [1 .. N -> [X -> X]] /\ "none" \in X
    BY <1>4, <1>5, <1>8
<1>10. Steps(X, "none", step, N)
    BY <1>3, <1>9, Iteration
<1>11. PICK f : /\ f \in [0 .. N -> X] /\ f[0] = "none"
                /\ \A i \in 1 .. N : f[i] = step[i][f[i - 1]]
    BY <1>10 DEF Steps
<1>12. \A i \in 1 .. N : f[i] = IF m \in MethodsOf(q[i]) THEN more_specific(f[i - 1], q[i])
                                ELSE f[i - 1]
    <2>1. \A i \in 1 .. N : i - 1 \in 0 .. N /\ f[i - 1] \in X
        BY <1>3, <1>11
    <2> QED
        BY <1>3, <1>5, <1>11, <2>1
<1>13. Chooses(f, q, m)
    BY <1>3, <1>11, <1>12 DEF Chooses
<1> QED
    BY <1>1, <1>13 DEF ServiceForMethod, Chooses, default_interface

\* The interface that the client chooses, if it knows one.
LEMMA ServiceFacts ==
    ASSUME KnownInv, NEW p \in DOMAIN proxy, NEW m \in Method
    PROVE  \/ ServiceForMethod(p, m) = "none"
           \/ MostSpecific(ServiceForMethod(p, m), m, p)
<1>1. p \in Path
    BY DEF KnownInv
<1>2. PICK q : q = proxy[p].interfaces
    OBVIOUS
<1>3. /\ q \in Seq(Service)
      /\ q = <<>> \/ (Services(q) = Offered(p) /\ InOrder(q, p))
    BY <1>2 DEF KnownInv, Known, ProxyRec
<1>4. PICK N : N \in Nat /\ N = Len(q) /\ DOMAIN q = 1 .. N
    BY <1>3
<1>5. PICK f : Chooses(f, q, m) /\ ServiceForMethod(p, m) = f[N]
    BY <1>2, <1>3, <1>4, Choosing
<1>6. CASE q = <<>>
    <2>1. N = 0
        BY <1>4, <1>6
    <2>2. f[N] = "none"
        BY <1>4, <1>5, <2>1 DEF Chooses
    <2> QED
        BY <1>5, <2>2
<1>7. CASE Services(q) = Offered(p) /\ InOrder(q, p)
    <2>1. PICK S : S = {n \in 0 .. N : Best(f[n], q, n, m, p)}
        OBVIOUS
    <2>2. 0 \in S
        BY <1>4, <1>5, <2>1 DEF Chooses, Best
    <2>3. ASSUME NEW n \in 1 .. N, n - 1 \in S
          PROVE  n \in S
        <3>1. n \in Nat \ {0} /\ n \in 0 .. N /\ n \in DOMAIN q /\ 1 .. n \subseteq DOMAIN q
            BY <1>4, <2>3
        <3>2. PICK b : b = f[n - 1]
            OBVIOUS
        <3>3. f[n] = IF m \in MethodsOf(q[n]) THEN more_specific(b, q[n]) ELSE b
            BY <1>4, <1>5, <3>1, <3>2 DEF Chooses
        <3>4. Best(b, q, n - 1, m, p)
            BY <2>1, <2>3, <3>2
        <3>5. q[n] \in Offered(p)
            BY <1>7, <3>1 DEF Services
        <3>6. Best(f[n], q, n, m, p)
            BY <1>1, <1>7, <3>1, <3>3, <3>4, <3>5, BestNext
        <3> QED
            BY <2>1, <3>1, <3>6
    <2>4. HandedOn(S, N)
        BY <2>2, <2>3 DEF HandedOn
    <2>5. N \in S
        BY <1>4, <2>4, UpTo
    <2>6. PICK s : s = ServiceForMethod(p, m)
        OBVIOUS
    <2>7. Best(s, q, N, m, p)
        BY <1>5, <2>1, <2>5, <2>6
    <2>8. CASE s # "none"
        <3>1. /\ Candidate(s, m, p)
              /\ \A i \in 1 .. N : Candidate(q[i], m, p) => Prevails(p, s, q[i])
            BY <2>7, <2>8 DEF Best
        <3>2. \A t : Candidate(t, m, p) => t \in Services(q)
            BY <1>7 DEF Candidate, Offered
        <3>3. \A t \in Services(q) : \E i \in 1 .. N : t = q[i]
            BY <1>4 DEF Services
        <3>4. \A t : Candidate(t, m, p) => Prevails(p, s, t)
            BY <3>1, <3>2, <3>3
        <3>5. MostSpecific(s, m, p)
            BY <3>1, <3>4 DEF MostSpecific, Candidate
        <3> QED
            BY <2>6, <3>5
    <2> QED
        BY <2>6, <2>8
<1> QED
    BY <1>3, <1>6, <1>7

-----------------------------------------------------------------------------
(* Answers of the server                                                    *)

\* The entries of an object.
LEMMA Entries ==
    ASSUME NEW q \in DOMAIN obj, NEW p, Published(obj[q], p)
    PROVE  Describes(properties_as_dict(q), p)
<1>1. PICK ifs, val : ifs = obj[q].interfaces /\ val = obj[q].value
    OBVIOUS
<1>2. /\ ifs \in Seq(Service) /\ val \in [Interface -> Value \cup {Nil}]
      /\ Services(ifs) = Offered(p) /\ InOrder(ifs, p)
    BY <1>1 DEF Published, ObjectRec
<1>3. PICK es : es = properties_as_dict(q)
    OBVIOUS
<1>4. /\ DOMAIN es = DOMAIN ifs
      /\ \A i \in DOMAIN ifs :
            es[i] = [service |-> ifs[i], value |-> IF ifs[i] \in HasProperty THEN val[ifs[i]] ELSE Nil]
    BY <1>1, <1>3 DEF properties_as_dict
<1>5. \A i \in DOMAIN es :
          /\ es[i].service = ifs[i]
          /\ es[i].value = IF ifs[i] \in HasProperty THEN val[ifs[i]] ELSE Nil
    BY <1>4
<1>6. es \in Seq(Entry)
    <2>1. PICK n : n \in Nat /\ n = Len(ifs) /\ DOMAIN ifs = 1 .. n
        BY <1>2
    <2>2. \A i \in 1 .. n : ifs[i] \in Service
        BY <1>2, <2>1
    <2>3. \A i \in 1 .. n : (IF ifs[i] \in HasProperty THEN val[ifs[i]] ELSE Nil) \in Value \cup {Nil}
        BY <1>2, ClassesAssumption
    <2>4. \A i \in 1 .. n : es[i] \in Entry
        BY <1>4, <2>1, <2>2, <2>3 DEF Entry
    <2>5. es = [i \in 1 .. n |-> es[i]]
        BY <1>1, <1>3, <2>1 DEF properties_as_dict
    <2> QED
        BY <2>1, <2>4, <2>5
<1>7. {es[i].service : i \in DOMAIN es} = Offered(p)
    BY <1>2, <1>4, <1>5 DEF Services
<1>8. \A i, j \in DOMAIN es :
          i <= j /\ es[i].service \in Interface /\ es[j].service \in Interface
            => Precedes(p, es[i].service, es[j].service)
    BY <1>2, <1>4, <1>5 DEF InOrder
<1> QED
    BY <1>3, <1>5, <1>6, <1>7, <1>8 DEF Describes

\* The answer to GetManagedObjects.
LEMMA Enumerated ==
    ASSUME ObjectInv, NEW p \in DOMAIN obj
    PROVE  Tells(enumerate_object(p), p)
<1>1. PICK told : told = enumerate_object(p)
    OBVIOUS
<1>2. DOMAIN told = DOMAIN obj \cap Subtree(p)
    BY <1>1 DEF enumerate_object
<1>3. DOMAIN obj \in SUBSET Path /\ \A q \in DOMAIN obj : q # Root => Up[q] \in DOMAIN obj
    BY DEF ObjectInv
<1>4. p \in DOMAIN told
    BY <1>2, <1>3, AboveFacts DEF Subtree
<1>5. \A q \in DOMAIN told : Above[q] \subseteq DOMAIN obj
    BY <1>2, <1>3, HoleFree
<1>6. \A q \in DOMAIN told : Describes(told[q], q)
    <2>1. \A q \in DOMAIN told : told[q] = properties_as_dict(q)
        BY <1>1, <1>2 DEF enumerate_object
    <2>2. \A q \in DOMAIN told : Describes(properties_as_dict(q), q)
        BY <1>2, Entries DEF ObjectInv
    <2> QED
        BY <2>1, <2>2
<1> QED
    BY <1>1, <1>2, <1>4, <1>5, <1>6 DEF Tells

\* What is answered.
LEMMA Answered ==
    ASSUME ObjectInv, NEW m \in Requests, WellFormed(m)
    PROVE  Answers(object_message(m), m)
<1>1. PICK r : r = object_message(m)
    OBVIOUS
<1>2. m.path \in Path /\ m.op \in {"refresh", "getall", "get", "call"}
    BY DEF Requests
<1>3. ASSUME m.op = "refresh", r.ok
      PROVE  Tells(r.data, m.path)
    <2>1. m.method = "GetManagedObjects"
        BY <1>3 DEF WellFormed
    <2>2. m.path \in DOMAIN obj
        BY <1>1, <1>3 DEF object_message, Error
    <2>3. r = Ok(enumerate_object(m.path)) \/ ~r.ok
        BY <1>1, <2>1 DEF object_message, Error
    <2> QED
        BY <1>3, <2>2, <2>3, Enumerated DEF Ok
<1>4. ASSUME m.op = "getall", r.ok
      PROVE  r.data \in Value \cup {Nil}
    <2>1. m.method = "GetAll" /\ m.arg \in Interface
        BY <1>4, ClassesAssumption DEF WellFormed
    <2>2. m.path \in DOMAIN obj
        BY <1>1, <1>4 DEF object_message, Error
    <2>3. r = properties_getall(m.path, m.arg) \/ ~r.ok
        BY <1>1, <2>1 DEF object_message, Error
    <2>4. r = Ok(obj[m.path].value[m.arg]) \/ ~r.ok
        BY <2>3 DEF properties_getall, properties_arg_interface, Error
    <2>5. obj[m.path].value[m.arg] \in Value \cup {Nil}
        BY <2>1, <2>2 DEF ObjectInv, Published, ObjectRec
    <2> QED
        BY <1>4, <2>4, <2>5 DEF Ok
<1>5. ASSUME m.op = "call", ~r.ok
      PROVE  r.data = "UnknownObject"
    <2>1. /\ m.method \in Method /\ m.service \in Interface /\ m.service \in Offered(m.path)
          /\ m.method \in Methods[m.service]
        BY <1>5 DEF WellFormed, MostSpecific, Offered
    <2>2. CASE m.path \notin DOMAIN obj
        BY <1>1, <2>2 DEF object_message, Error
    <2>3. CASE m.path \in DOMAIN obj
        <3>1. get_service(obj[m.path], m.service)
            <4>1. m.service \in Services(obj[m.path].interfaces)
                BY <2>1, <2>3 DEF ObjectInv, Published
            <4> QED
                BY <4>1 DEF Services, get_service
        <3>2. m.service \notin Standard
            BY <2>1, ClassesAssumption
        <3>3. m.method \in MethodsOf(m.service)
            BY <2>1, <3>2 DEF MethodsOf, Standard
        <3>4. m.method \notin {"GetManagedObjects", "Get", "GetAll"}
            BY <2>1, ClassesAssumption
        <3>5. r = Ok(Nil)
            BY <1>1, <2>3, <3>1, <3>3, <3>4 DEF object_message
        <3> QED
            BY <1>5, <3>5 DEF Ok
    <2> QED
        BY <2>2, <2>3
<1> QED
    BY <1>1, <1>3, <1>4, <1>5 DEF Answers

-----------------------------------------------------------------------------
(* The refresh of the client                                                *)

\* A proxy of which nothing is known.
LEMMA NewProxyFacts ==
    ASSUME NEW p
    PROVE  Known(NewProxy, p)
<1>1. NewProxy \in ProxyRec
    BY DEF NewProxy, ProxyRec
<1> QED
    BY <1>1 DEF Known, NewProxy

\* All proxies marked: the reply decides which of them stay.
LEMMA Refreshed ==
    ASSUME KnownInv, NEW p \in DOMAIN proxy, NEW told, Tells(told, p),
           \A q \in DOMAIN proxy \cap Subtree(p) : q # p => proxy[q].stale,
           NEW next, next = get_managed_objects(p, told)
    PROVE  /\ DOMAIN next \subseteq Path /\ \A q \in DOMAIN next : Known(next[q], q)
           /\ DOMAIN next \cap Subtree(p) = DOMAIN told
           /\ \A q \in DOMAIN told : Mirrors(next[q], told[q], q)
           /\ \A q \in DOMAIN proxy \ DOMAIN next : q \in Subtree(p) /\ q \notin DOMAIN told
<1>1. PICK known : known = object_create(proxy, [q \in DOMAIN told |-> NewProxy])
    OBVIOUS
<1>2. PICK px : px = [q \in DOMAIN known |->
                        IF q \in DOMAIN told THEN managed_object(known[q], told[q]) ELSE known[q]]
    OBVIOUS
<1>3. PICK G : G = UNION {Subtree(q) : q \in {r \in (DOMAIN px \cap Subtree(p)) \ {p} : px[r].stale}}
    OBVIOUS
<1>4. DOMAIN next = DOMAIN px \ G /\ \A q \in DOMAIN next : next[q] = px[q]
    BY <1>1, <1>2, <1>3 DEF get_managed_objects, purge_stale, Drop
<1>5. p \in Path /\ DOMAIN proxy \subseteq Path /\ Subtree(p) \subseteq Path
    BY DEF KnownInv, Subtree
<1>6. /\ DOMAIN told \subseteq Subtree(p) /\ p \in DOMAIN told
      /\ \A q \in DOMAIN told : /\ Above[q] \cap Subtree(p) \subseteq DOMAIN told
                                /\ Describes(told[q], q)
    BY DEF Tells
<1>7. DOMAIN known = DOMAIN proxy \cup DOMAIN told /\ DOMAIN px = DOMAIN known
    BY <1>1, <1>2 DEF object_create
<1>8. \A q \in DOMAIN known : Known(known[q], q)
    <2>1. TAKE q \in DOMAIN known
    <2>2. CASE q \in DOMAIN proxy
        <3>1. known[q] = proxy[q]
            BY <1>1, <2>2 DEF object_create
        <3> QED
            BY <2>2, <3>1 DEF KnownInv
    <2>3. CASE q \notin DOMAIN proxy
        <3>1. known[q] = NewProxy
            BY <1>1, <1>7, <2>1, <2>3 DEF object_create
        <3> QED
            BY <3>1, NewProxyFacts
    <2> QED
        BY <2>2, <2>3
<1>9. \A q \in DOMAIN told : Mirrors(px[q], told[q], q)
    <2>1. TAKE q \in DOMAIN told
    <2>2. px[q] = managed_object(known[q], told[q])
        BY <1>2, <1>7
    <2>3. q \in Path /\ Known(known[q], q) /\ Describes(told[q], q)
        BY <1>5, <1>6, <1>7, <1>8
    <2> QED
        BY <2>2, <2>3, ManagedObject
<1>10. \A q \in DOMAIN px \ DOMAIN told : q \in DOMAIN proxy /\ px[q] = proxy[q]
    BY <1>1, <1>2, <1>7 DEF object_create
<1>11. \A q \in G : q \in Subtree(p) /\ q \notin DOMAIN told
    <2>1. TAKE q \in G
    <2>2. PICK r \in DOMAIN px : r \in Subtree(p) /\ px[r].stale /\ q \in Subtree(r)
        BY <1>3
    <2>3. r \notin DOMAIN told
        BY <1>9, <2>2 DEF Mirrors
    <2>4. r \in Above[q] /\ q \in Path /\ p \in Above[r] /\ r \in Path
        BY <2>2 DEF Subtree
    <2>5. Above[r] \subseteq Above[q]
        BY <2>4, AboveFacts
    <2> QED
        BY <1>6, <2>2, <2>3, <2>4, <2>5 DEF Subtree
<1>12. \A q \in (DOMAIN px \cap Subtree(p)) \ DOMAIN told : q \in G
    <2>1. TAKE q \in (DOMAIN px \cap Subtree(p)) \ DOMAIN told
    <2>2. q \in DOMAIN proxy /\ px[q] = proxy[q] /\ q # p
        BY <1>6, <1>10
    <2>3. px[q].stale
        BY <2>2
    <2>4. q \in Subtree(q)
        BY <1>5, AboveFacts DEF Subtree
    <2> QED
        BY <1>3, <2>2, <2>3, <2>4
<1>13. DOMAIN next \cap Subtree(p) = DOMAIN told
    BY <1>4, <1>6, <1>7, <1>11, <1>12
<1>14. \A q \in DOMAIN told : Mirrors(next[q], told[q], q)
    BY <1>4, <1>9, <1>13
<1>15. DOMAIN next \subseteq Path
    BY <1>4, <1>5, <1>6, <1>7
<1>16. \A q \in DOMAIN next : Known(next[q], q)
    <2>1. TAKE q \in DOMAIN next
    <2>2. CASE q \in DOMAIN told
        BY <1>14, <2>2 DEF Mirrors, Known
    <2>3. CASE q \notin DOMAIN told
        <3>1. q \in DOMAIN proxy /\ next[q] = proxy[q]
            BY <1>4, <1>10, <2>3
        <3> QED
            BY <3>1 DEF KnownInv
    <2> QED
        BY <2>2, <2>3
<1>17. \A q \in DOMAIN proxy \ DOMAIN next : q \in Subtree(p) /\ q \notin DOMAIN told
    BY <1>4, <1>7, <1>11
<1> QED
    BY <1>13, <1>14, <1>15, <1>16, <1>17

\* What MirrorsReply says of an object.
LEMMA MirrorsFacts ==
    ASSUME NEW o, NEW p, NEW es, Describes(es, p), Mirrors(o, es, p)
    PROVE  /\ o.class = ClassOf[p]
           /\ \A i \in DOMAIN es :
                /\ get_service(o, es[i].service)
                /\ es[i].service \in HasProperty => o.cached[es[i].service] = es[i].value
<1>1. \A i \in DOMAIN es : get_service(o, es[i].service)
    <2>1. \A i \in DOMAIN es : es[i].service \in Services(o.interfaces)
        BY DEF Describes, Mirrors
    <2> QED
        BY <2>1 DEF Services, get_service
<1>2. \A s \in HasProperty : s \in Interface
    BY ClassesAssumption
<1> QED
    BY <1>1, <1>2 DEF Mirrors

-----------------------------------------------------------------------------
(* The initial states                                                       *)

\* When master and client start there is the root and a proxy for it
\* (ni_objectmodel_create_server, ni_objectmodel_create_client).
THEOREM ProxiesInitInv == ProxiesInit => ProxiesInv
<1> SUFFICES ASSUME ProxiesInit PROVE ProxiesInv
    OBVIOUS
<1>1. registry \in Seq(Interface) /\ Services(registry) = Interface
    <2>1. Cardinality(Interface) \in Nat
        BY ClassesAssumption, FS_CardinalityType
    <2>2. /\ registry \in [1 .. Cardinality(Interface) -> Interface]
          /\ \A s \in Interface : \E i \in DOMAIN registry : registry[i] = s
        BY DEF ProxiesInit
    <2>3. registry \in Seq(Interface)
        BY <2>1, <2>2
    <2> QED
        BY <2>2, <2>3 DEF Services
<1>2. ObjectInv
    <2>1. DOMAIN obj = {Root} /\ obj[Root] = NewObject(Root) /\ Root \in Path
        BY ClassesAssumption DEF ProxiesInit
    <2>2. Published(NewObject(Root), Root)
        BY <1>1, <2>1, NewObjectFacts
    <2> QED
        BY <1>1, <2>1, <2>2 DEF ObjectInv
<1>3. KnownInv
    BY NewProxyFacts, ClassesAssumption DEF ProxiesInit, KnownInv
<1>4. /\ call.op = "none" /\ res.op = "none" /\ res.n = 0 /\ inq = <<>> /\ ran = Nil
    BY DEF ProxiesInit, NoCall
<1>5. CallInv
    BY <1>4 DEF CallInv, Waiting
<1>6. MirrorsReply /\ CallReachesMostSpecific
    BY <1>4 DEF MirrorsReply, CallReachesMostSpecific
<1> QED
    BY <1>2, <1>3, <1>5, <1>6 DEF ProxiesInv

-----------------------------------------------------------------------------
(* Steps of the server                                                      *)

\* The invariant speaks of the client and of the server apart.
LEMMA ClientKept ==
    ASSUME ProxiesInv, UNCHANGED <<proxy, inq, call, res, ran>>
    PROVE  KnownInv' /\ CallInv' /\ MirrorsReply' /\ CallReachesMostSpecific'
<1>1. KnownInv'
    BY DEF ProxiesInv, KnownInv
<1>2. CallInv'
    <2>1. \A m, r : Awaits(m, r) => Awaits(m, r)'
        BY DEF Awaits
    <2>2. Waiting' <=> Waiting
        BY DEF Waiting
    <2>3. Waiting' => \E m, r : Awaits(m, r)'
        BY <2>1, <2>2 DEF ProxiesInv, CallInv
    <2> QED
        BY <2>2, <2>3 DEF ProxiesInv, CallInv
<1>3. MirrorsReply'
    BY DEF ProxiesInv, MirrorsReply, get_cached_property
<1>4. CallReachesMostSpecific'
    BY DEF ProxiesInv, CallReachesMostSpecific
<1> QED
    BY <1>1, <1>2, <1>3, <1>4

\* The server's part of the invariant is about its objects only.
LEMMA ServerKept ==
    ASSUME ObjectInv, UNCHANGED <<registry, obj>>
    PROVE  ObjectInv'
    BY DEF ObjectInv

\* A new object has its parent, and the interfaces for its class.
LEMMA Created ==
    ASSUME ObjectInv, NEW p \in Path, CreateObject(p)
    PROVE  ObjectInv'
<1>1. PICK new : new = NewObject(p)
    OBVIOUS
<1>2. Published(new, p)
    BY <1>1, NewObjectFacts DEF ObjectInv
<1>3. /\ DOMAIN obj' = DOMAIN obj \cup {p} /\ registry' = registry
      /\ obj'[p] = new /\ \A q \in DOMAIN obj : obj'[q] = obj[q]
      /\ Up[p] \in DOMAIN obj
    BY <1>1 DEF CreateObject, object_create
<1> QED
    BY <1>2, <1>3 DEF ObjectInv

\* With an object goes all that is below it, so no hole is left.
LEMMA Unregistered ==
    ASSUME ObjectInv, NEW p \in Path, UnregisterObject(p)
    PROVE  ObjectInv'
<1>1. /\ DOMAIN obj' = DOMAIN obj \ Subtree(p) /\ registry' = registry
      /\ \A q \in DOMAIN obj' : obj'[q] = obj[q]
    BY DEF UnregisterObject, Drop
<1>2. ASSUME NEW q \in DOMAIN obj', q # Root
      PROVE  Up[q] \in DOMAIN obj'
    <2>1. q \in Path /\ q \notin Subtree(p) /\ Up[q] \in DOMAIN obj
        BY <1>1, <1>2 DEF ObjectInv
    <2>2. Up[q] \in Above[q]
        BY <1>2, <2>1, AboveFacts
    <2>3. Above[Up[q]] \subseteq Above[q]
        BY <2>1, <2>2, AboveFacts
    <2>4. Up[q] \notin Subtree(p)
        BY <2>1, <2>3 DEF Subtree
    <2> QED
        BY <1>1, <2>1, <2>4
<1> QED
    BY <1>1, <1>2 DEF ObjectInv

\* A changed property changes nothing else of the object.
LEMMA Updated ==
    ASSUME ObjectInv, NEW p \in Path, NEW s \in HasProperty, NEW v \in Value \cup {Nil},
           UpdateProperty(p, s, v)
    PROVE  ObjectInv'
<1>1. PICK o : o = obj[p]
    OBVIOUS
<1>2. p \in DOMAIN obj /\ Published(o, p) /\ s \in Interface
    BY <1>1, ClassesAssumption DEF UpdateProperty, ObjectInv
<1>3. PICK val : val = [o.value EXCEPT ![s] = v]
    OBVIOUS
<1>4. PICK new : new = [o EXCEPT !.value = val]
    OBVIOUS
<1>5. val \in [Interface -> Value \cup {Nil}]
    BY <1>2, <1>3 DEF Published, ObjectRec
<1>6. Published(new, p)
    BY <1>2, <1>4, <1>5 DEF Published, ObjectRec
<1>7. obj' = [obj EXCEPT ![p] = new] /\ registry' = registry
    BY <1>1, <1>3, <1>4 DEF UpdateProperty
<1>8. DOMAIN obj' = DOMAIN obj /\ obj'[p] = new /\ \A q \in DOMAIN obj : q # p => obj'[q] = obj[q]
    BY <1>2, <1>7
<1> QED
    BY <1>6, <1>7, <1>8 DEF ObjectInv

\* The request that the client waits for.
LEMMA AwaitsFacts ==
    ASSUME NEW m, NEW r, Awaits(m, r)
    PROVE  /\ call.op = m.op /\ call.n = m.n /\ call.path = m.path /\ call.service = m.service
           /\ call.arg = m.arg /\ call.reply = r
           /\ m.op \in {"refresh", "getall", "get", "call"}
    BY DEF Awaits, Requests

\* The answer is made from the request that the client waits for, if it still
\* waits; a method handler that runs is that of the most specific interface.
LEMMA Dispatched ==
    ASSUME ProxiesInv, ServerDispatch
    PROVE  ProxiesInv'
<1>1. PICK m, r : m = Head(inq) /\ r = object_message(m)
    OBVIOUS
<1>2. /\ inq # <<>> /\ inq' = Tail(inq)
      /\ call' = IF Waiting /\ call.n = m.n THEN [call EXCEPT !.reply = r] ELSE call
      /\ ran' = IF r.ok /\ m.method \in Method
                THEN [path |-> m.path, service |-> m.service, method |-> m.method] ELSE ran
      /\ UNCHANGED <<registry, obj, proxy, res>>
    BY <1>1 DEF ServerDispatch
<1>3. /\ inq \in Seq(Requests) /\ res.n \in Nat
      /\ \A i \in DOMAIN inq : /\ WellFormed(inq[i])
                               /\ inq[i].n <= (IF Waiting THEN res.n + 1 ELSE res.n)
    BY DEF ProxiesInv, CallInv
<1>4. 1 \in DOMAIN inq /\ m = inq[1] /\ m \in Requests
    BY <1>1, <1>2, <1>3
<1>5. Answers(r, m) /\ WellFormed(m)
    BY <1>1, <1>3, <1>4, Answered DEF ProxiesInv
<1>6. /\ inq' \in Seq(Requests)
      /\ \A i \in DOMAIN inq' : i + 1 \in DOMAIN inq /\ inq'[i] = inq[i + 1]
    BY <1>2, <1>3
<1>7. ObjectInv' /\ KnownInv'
    BY <1>2, ServerKept DEF ProxiesInv, KnownInv
<1>8. MirrorsReply'
    <2>1. proxy' = proxy /\ res' = res
        BY <1>2
    <2>2. MirrorsReply
        BY DEF ProxiesInv
    <2> QED
        BY <2>1, <2>2 DEF MirrorsReply, get_cached_property
<1>9. ASSUME ~Waiting
      PROVE  CallInv'
    <2>1. call' = call /\ ~Waiting' /\ res' = res
        BY <1>2, <1>9 DEF Waiting
    <2> QED
        BY <1>3, <1>6, <1>9, <2>1 DEF CallInv
<1>10. ASSUME Waiting
       PROVE  CallInv'
    <2>1. PICK w, a : Awaits(w, a)
        BY <1>10 DEF ProxiesInv, CallInv
    <2>2. call.op = w.op /\ call.n = w.n /\ w.op # "none"
        BY <2>1, AwaitsFacts
    <2>3. \A i \in DOMAIN inq' : inq'[i].n = w.n => inq'[i] = w
        BY <1>6, <2>1 DEF Awaits
    <2>4. /\ w \in Requests /\ WellFormed(w) /\ w.n = res'.n + 1 /\ w.path \in DOMAIN proxy'
          /\ w.op = "refresh" =>
                \A q \in DOMAIN proxy' \cap Subtree(w.path) : q # w.path => proxy'[q].stale
        BY <1>2, <2>1 DEF Awaits
    <2>5. \E b : call' = [w EXCEPT !.reply = b] /\ (b # Nil => Answers(b, w))
        <3>1. CASE call.n = m.n
            <4>1. m = w
                BY <1>4, <2>1, <2>2, <3>1 DEF Awaits
            <4>2. call' = [w EXCEPT !.reply = r]
                BY <1>2, <1>10, <2>1, <2>4, <3>1 DEF Awaits, Requests
            <4> QED
                BY <1>5, <4>1, <4>2
        <3>2. CASE call.n # m.n
            BY <1>2, <2>1, <3>2 DEF Awaits
        <3> QED
            BY <3>1, <3>2
    <2>6. PICK b : call' = [w EXCEPT !.reply = b] /\ (b # Nil => Answers(b, w))
        BY <2>5
    <2>7. Awaits(w, b)'
        BY <2>3, <2>4, <2>6 DEF Awaits
    <2>8. Waiting' /\ res' = res
        BY <1>2, <2>2, <2>4, <2>6 DEF Waiting, Requests
    <2> QED
        BY <1>3, <1>6, <1>10, <2>7, <2>8 DEF CallInv
<1>11. CallReachesMostSpecific'
    <2>1. CASE r.ok /\ m.method \in Method
        <3>1. m.op = "call"
            BY <1>4, <1>5, <2>1, ClassesAssumption DEF WellFormed, Requests
        <3>2. MostSpecific(m.service, m.method, m.path)
            BY <1>5, <3>1 DEF WellFormed
        <3>3. ran' = [path |-> m.path, service |-> m.service, method |-> m.method]
            BY <1>2, <2>1
        <3>4. ran'.path = m.path /\ ran'.service = m.service /\ ran'.method = m.method
            BY <3>3
        <3>5. \A s \in Interface :
                  ran'.method \in Methods[s] /\ Fits(ran'.path, s)
                      => Prevails(ran'.path, ran'.service, s)
            BY <3>2, <3>4 DEF MostSpecific
        <3>6. res' = res
            BY <1>2
        <3> QED
            BY <3>5, <3>6 DEF ProxiesInv, CallReachesMostSpecific
    <2>2. CASE ~(r.ok /\ m.method \in Method)
        <3>1. ran' = ran /\ res' = res
            BY <1>2, <2>2
        <3> QED
            BY <3>1 DEF ProxiesInv, CallReachesMostSpecific
    <2> QED
        BY <2>1, <2>2
<1> QED
    BY <1>7, <1>8, <1>9, <1>10, <1>11 DEF ProxiesInv

-----------------------------------------------------------------------------
(* Steps of the client                                                      *)

\* A request is sent.
LEMMA Requested ==
    ASSUME CallInv, NEW c \in Requests, WellFormed(c), ~Waiting, c.n = res.n + 1,
           inq' = Append(inq, c), call' = c, res' = NoCall(res.n), c.path \in DOMAIN proxy',
           c.op = "refresh" =>
               \A q \in DOMAIN proxy' \cap Subtree(c.path) : q # c.path => proxy'[q].stale
    PROVE  CallInv'
<1>1. /\ inq \in Seq(Requests) /\ res.n \in Nat
      /\ \A i \in DOMAIN inq : WellFormed(inq[i]) /\ inq[i].n <= res.n
    BY DEF CallInv
<1>2. PICK k : k \in Nat /\ k = Len(inq) /\ DOMAIN inq = 1 .. k
    BY <1>1
<1>3. /\ inq' \in Seq(Requests) /\ DOMAIN inq' = 1 .. k + 1 /\ inq'[k + 1] = c
      /\ \A i \in 1 .. k : inq'[i] = inq[i]
    BY <1>1, <1>2
<1>4. \A i \in 1 .. k + 1 : i = k + 1 \/ i \in 1 .. k
    BY <1>2
<1>5. res'.n = res.n /\ Waiting'
    BY DEF NoCall, Waiting, Requests
<1>6. \A i \in DOMAIN inq' : WellFormed(inq'[i]) /\ inq'[i].n <= res.n + 1
    <2>1. \A i \in 1 .. k : inq[i] \in Requests
        BY <1>1, <1>2
    <2>2. \A i \in 1 .. k : inq[i].n \in Nat /\ WellFormed(inq[i]) /\ inq[i].n <= res.n
        BY <1>1, <1>2, <2>1 DEF Requests
    <2>3. WellFormed(inq'[k + 1]) /\ inq'[k + 1].n <= res.n + 1
        BY <1>1, <1>3
    <2>4. \A i \in 1 .. k : WellFormed(inq'[i]) /\ inq'[i].n <= res.n + 1
        <3>1. TAKE i \in 1 .. k
        <3>2. inq'[i] = inq[i] /\ inq[i].n \in Nat /\ inq[i].n <= res.n /\ WellFormed(inq[i])
            BY <1>3, <2>2
        <3>3. inq[i].n <= res.n + 1
            BY <1>1, <3>2
        <3> QED
            BY <3>2, <3>3
    <2> QED
        BY <1>3, <1>4, <2>3, <2>4
<1>7. \A i \in DOMAIN inq' : inq'[i].n = c.n => inq'[i] = c
    BY <1>1, <1>2, <1>3, <1>4
<1>8. call' = [c EXCEPT !.reply = Nil]
    BY DEF Requests
<1>9. Awaits(c, Nil)'
    BY <1>5, <1>7, <1>8 DEF Awaits
<1> QED
    BY <1>1, <1>3, <1>5, <1>6, <1>9 DEF CallInv

\* What holds of the calls of the client while it starts one.
LEMMA Called ==
    ASSUME ProxiesInv, NEW op \in {"refresh", "getall", "get", "call"}, NEW p \in DOMAIN proxy,
           NEW s \in Service, NEW m \in Method \cup {"GetManagedObjects", "GetAll", "Get"},
           NEW a \in Interface \cup {Nil}, object_call(op, p, s, m, a),
           op = "refresh" => s = "ObjectManager" /\ m = "GetManagedObjects",
           op = "getall" => s = "Properties" /\ m = "GetAll" /\ a \in HasProperty,
           op = "get" => m = "Get",
           op = "call" => m \in Method /\ MostSpecific(s, m, p),
           DOMAIN proxy' = DOMAIN proxy, ran' = ran,
           op = "refresh" =>
               \A q \in DOMAIN proxy' \cap Subtree(p) : q # p => proxy'[q].stale
    PROVE  CallInv' /\ MirrorsReply' /\ CallReachesMostSpecific'
<1>1. PICK c : c = [op |-> op, n |-> res.n + 1, path |-> p, service |-> s,
                    method |-> m, arg |-> a, reply |-> Nil]
    OBVIOUS
<1>2. ~Waiting /\ inq' = Append(inq, c) /\ call' = c /\ res' = NoCall(res.n)
    BY <1>1 DEF object_call, ClientIdle
<1>3. c \in Requests
    <2>1. p \in Path /\ res.n + 1 \in Nat
        BY DEF ProxiesInv, KnownInv, CallInv
    <2> QED
        BY <1>1, <2>1 DEF Requests
<1>4. /\ c.op = op /\ c.n = res.n + 1 /\ c.path = p /\ c.service = s /\ c.method = m
      /\ c.arg = a
    BY <1>1
<1>5. WellFormed(c)
    BY <1>4 DEF WellFormed
<1>6. CallInv'
    BY <1>2, <1>3, <1>4, <1>5, Requested DEF ProxiesInv
<1>7. res'.op = "none"
    BY <1>2 DEF NoCall
<1>8. MirrorsReply'
    BY <1>7 DEF MirrorsReply
<1>9. CallReachesMostSpecific'
    BY <1>7 DEF ProxiesInv, CallReachesMostSpecific
<1> QED
    BY <1>6, <1>8, <1>9

\* Of new proxies nothing is known.
LEMMA ProxyCreated ==
    ASSUME ProxiesInv, NEW p \in Path, client_get_object(p)
    PROVE  ProxiesInv'
<1>1. /\ UNCHANGED <<registry, obj, inq, call, ran>> /\ ~Waiting /\ res' = NoCall(res.n)
      /\ proxy' = object_create(proxy, [q \in Above[p] |-> NewProxy])
    BY DEF client_get_object, ClientIdle
<1>2. ObjectInv'
    BY <1>1, ServerKept DEF ProxiesInv
<1>3. KnownInv'
    <2>1. /\ DOMAIN proxy' = DOMAIN proxy \cup Above[p]
          /\ \A q \in DOMAIN proxy' : proxy'[q] = IF q \in DOMAIN proxy THEN proxy[q] ELSE NewProxy
        BY <1>1 DEF object_create
    <2>2. Above[p] \subseteq Path
        BY AboveFacts
    <2> QED
        BY <2>1, <2>2, NewProxyFacts DEF ProxiesInv, KnownInv
<1>4. res'.op = "none" /\ res'.n = res.n /\ ~Waiting'
    BY <1>1 DEF NoCall, Waiting
<1>5. CallInv'
    BY <1>1, <1>4 DEF ProxiesInv, CallInv
<1>6. MirrorsReply' /\ CallReachesMostSpecific'
    BY <1>1, <1>4 DEF ProxiesInv, MirrorsReply, CallReachesMostSpecific
<1> QED
    BY <1>2, <1>3, <1>5, <1>6 DEF ProxiesInv

\* All proxies below are marked before the request is sent.
LEMMA ChildrenRefreshed ==
    ASSUME ProxiesInv, NEW p \in Path, RefreshChildren(p)
    PROVE  ProxiesInv'
<1>1. /\ p \in DOMAIN proxy /\ UNCHANGED <<registry, obj, ran>> /\ proxy' = mark_stale(p)
      /\ object_call("refresh", p, "ObjectManager", "GetManagedObjects", Nil)
    BY DEF RefreshChildren
<1>2. /\ DOMAIN proxy' = DOMAIN proxy
      /\ \A q \in DOMAIN proxy : proxy'[q] = IF q \in Subtree(p) \ {p}
                                             THEN [proxy[q] EXCEPT !.stale = TRUE] ELSE proxy[q]
    BY <1>1 DEF mark_stale
<1>3. \A q \in DOMAIN proxy : Known([proxy[q] EXCEPT !.stale = TRUE], q)
    BY DEF ProxiesInv, KnownInv, Known, ProxyRec
<1>4. KnownInv'
    BY <1>2, <1>3 DEF ProxiesInv, KnownInv
<1>5. \A q \in DOMAIN proxy' \cap Subtree(p) : q # p => proxy'[q].stale
    BY <1>2 DEF ProxiesInv, KnownInv, Known, ProxyRec
<1>6. "ObjectManager" \in Service
    BY DEF Service, Standard
<1>7. CallInv' /\ MirrorsReply' /\ CallReachesMostSpecific'
    BY <1>1, <1>2, <1>5, <1>6, Called
<1>8. ObjectInv'
    BY <1>1, ServerKept DEF ProxiesInv
<1> QED
    BY <1>4, <1>7, <1>8 DEF ProxiesInv

\* A request for properties leaves the proxies as they are.
LEMMA PropertiesAsked ==
    ASSUME ProxiesInv, NEW p \in Path, NEW s \in HasProperty,
           RefreshProperties(p, s) \/ RecvProperty(p, s)
    PROVE  ProxiesInv'
<1>1. /\ p \in DOMAIN proxy /\ UNCHANGED <<registry, obj, proxy, ran>>
      /\ \/ object_call("getall", p, "Properties", "GetAll", s)
         \/ object_call("get", p, "Properties", "Get", s)
    BY DEF RefreshProperties, RecvProperty
<1>2. "Properties" \in Service /\ s \in Interface
    BY ClassesAssumption DEF Service, Standard
<1>3. CallInv' /\ MirrorsReply' /\ CallReachesMostSpecific'
    <2>1. CASE object_call("getall", p, "Properties", "GetAll", s)
        BY <1>1, <1>2, <2>1, Called
    <2>2. CASE object_call("get", p, "Properties", "Get", s)
        BY <1>1, <1>2, <2>2, Called
    <2> QED
        BY <1>1, <2>1, <2>2
<1>4. ObjectInv' /\ KnownInv'
    BY <1>1, ServerKept DEF ProxiesInv, KnownInv
<1> QED
    BY <1>3, <1>4 DEF ProxiesInv

\* The interface a call is made with is the most specific one; without any
\* the call ends before it is sent.
LEMMA MethodCalled ==
    ASSUME ProxiesInv, NEW p \in Path, NEW m \in Method, CallMethod(p, m)
    PROVE  ProxiesInv'
<1>1. PICK s : s = ServiceForMethod(p, m)
    OBVIOUS
<1>2. p \in DOMAIN proxy /\ UNCHANGED <<registry, obj, proxy, ran>>
    BY DEF CallMethod
<1>3. ObjectInv' /\ KnownInv'
    BY <1>2, ServerKept DEF ProxiesInv, KnownInv
<1>4. CASE s \in Service
    <2>1. object_call("call", p, s, m, Nil)
        BY <1>1, <1>4 DEF CallMethod
    <2>2. MostSpecific(s, m, p)
        <3>1. s # "none"
            BY <1>4, ClassesAssumption DEF Service, Standard
        <3> QED
            BY <1>1, <1>2, <3>1, ServiceFacts DEF ProxiesInv
    <2>3. CallInv' /\ MirrorsReply' /\ CallReachesMostSpecific'
        BY <1>2, <1>4, <2>1, <2>2, Called
    <2> QED
        BY <1>3, <2>3 DEF ProxiesInv
<1>5. CASE s \notin Service
    <2>0. s = "none"
        BY <1>1, <1>2, <1>5, ServiceFacts DEF ProxiesInv, MostSpecific, Service
    <2>1. /\ ~Waiting /\ UNCHANGED <<inq, call>>
          /\ res' = [op |-> "call", n |-> res.n + 1, path |-> p, service |-> s,
                     reply |-> Error("NoInterface")]
        BY <1>1, <1>5, <2>0 DEF CallMethod, ClientIdle
    <2>2. /\ res'.op = "call" /\ res'.n = res.n + 1 /\ res'.reply.data = "NoInterface"
          /\ ~Waiting'
        BY <2>1 DEF Error, Waiting
    <2>3. CallInv'
        <3>1. /\ inq \in Seq(Requests) /\ res.n \in Nat
              /\ \A i \in DOMAIN inq : WellFormed(inq[i]) /\ inq[i].n <= res.n
            BY <2>1 DEF ProxiesInv, CallInv
        <3>2. \A i \in DOMAIN inq : inq[i].n \in Nat
            <4>1. \A i \in DOMAIN inq : inq[i] \in Requests
                BY <3>1
            <4> QED
                BY <4>1 DEF Requests
        <3>3. res'.n \in Nat /\ \A i \in DOMAIN inq : inq[i].n <= res'.n
            BY <2>2, <3>1, <3>2
        <3> QED
            BY <2>1, <2>2, <3>1, <3>3 DEF CallInv
    <2>4. MirrorsReply' /\ CallReachesMostSpecific'
        BY <1>2, <2>2 DEF ProxiesInv, MirrorsReply, CallReachesMostSpecific
    <2> QED
        BY <1>3, <2>3, <2>4 DEF ProxiesInv
<1> QED
    BY <1>4, <1>5

\* The call is over, with answer a.
LEMMA Over ==
    ASSUME CallInv, Waiting, call' = NoCall(0), NEW a, res' = Ended(a), inq' = inq
    PROVE  CallInv' /\ res'.op = call.op /\ res'.path = call.path /\ res'.reply = a
<1>1. PICK m, r : Awaits(m, r)
    BY DEF CallInv
<1>2. call.n = res.n + 1
    BY <1>1, AwaitsFacts DEF Awaits
<1>3. /\ res'.op = call.op /\ res'.path = call.path /\ res'.reply = a /\ res'.n = res.n + 1
      /\ ~Waiting'
    BY <1>2 DEF Ended, NoCall, Waiting
<1> QED
    BY <1>3 DEF CallInv

\* A call that times out leaves the proxies as they are.
LEMMA TimedOut ==
    ASSUME ProxiesInv, CallTimeout
    PROVE  ProxiesInv'
<1>1. /\ Waiting /\ res' = Ended(Error("Timeout")) /\ call' = NoCall(0)
      /\ UNCHANGED <<registry, obj, proxy, inq, ran>>
    BY DEF CallTimeout
<1>2. CallInv' /\ res'.reply = Error("Timeout")
    BY <1>1, Over DEF ProxiesInv
<1>3. res'.reply.ok = FALSE /\ res'.reply.data = "Timeout"
    BY <1>2 DEF Error
<1>4. ObjectInv' /\ KnownInv'
    BY <1>1, ServerKept DEF ProxiesInv, KnownInv
<1>5. MirrorsReply' /\ CallReachesMostSpecific'
    BY <1>1, <1>3 DEF ProxiesInv, MirrorsReply, CallReachesMostSpecific
<1> QED
    BY <1>2, <1>4, <1>5 DEF ProxiesInv

\* The answer to a refresh is taken over; nothing else takes a proxy away.
LEMMA Replied ==
    ASSUME ProxiesInv, ClientReply
    PROVE  /\ ProxiesInv'
           /\ \A q \in DOMAIN proxy \ DOMAIN proxy' :
                 /\ call.op = "refresh" /\ q \in Subtree(call.path)
                 /\ call.reply.ok /\ q \notin DOMAIN call.reply.data
<1>1. /\ Waiting /\ call.reply # Nil /\ res' = Ended(call.reply) /\ call' = NoCall(0)
      /\ UNCHANGED <<registry, obj, inq, ran>>
      /\ proxy' = IF ~call.reply.ok THEN proxy
                  ELSE CASE call.op = "refresh" -> get_managed_objects(call.path, call.reply.data)
                         [] call.op = "getall" ->
                              [proxy EXCEPT ![call.path] =
                                  refresh_properties(@, call.arg, call.reply.data)]
                         [] OTHER -> proxy
    BY DEF ClientReply
<1>2. PICK m, r : Awaits(m, r)
    BY <1>1 DEF ProxiesInv, CallInv
<1>3. /\ call.op = m.op /\ call.path = m.path /\ call.arg = m.arg /\ call.reply = r
      /\ m.op \in {"refresh", "getall", "get", "call"}
    BY <1>2, AwaitsFacts
<1>4. /\ Answers(r, m) /\ WellFormed(m) /\ m.path \in DOMAIN proxy
      /\ m.op = "refresh" =>
            \A q \in DOMAIN proxy \cap Subtree(m.path) : q # m.path => proxy[q].stale
    BY <1>1, <1>2, <1>3 DEF Awaits
<1>5. CallInv' /\ res'.op = m.op /\ res'.path = m.path /\ res'.reply = r
    <2>1. CallInv
        BY DEF ProxiesInv
    <2> QED
        BY <1>1, <1>3, <2>1, Over
<1>6. ObjectInv'
    BY <1>1, ServerKept DEF ProxiesInv
<1>7. CallReachesMostSpecific'
    BY <1>1, <1>4, <1>5 DEF ProxiesInv, CallReachesMostSpecific, Answers
<1>8. CASE r.ok /\ m.op = "refresh"
    <2>1. PICK p, told : p = m.path /\ told = r.data
        OBVIOUS
    <2>2. proxy' = get_managed_objects(p, told)
        BY <1>1, <1>3, <1>8, <2>1
    <2>3. Tells(told, p)
        BY <1>4, <1>8, <2>1 DEF Answers
    <2>4. PICK next : next = proxy'
        OBVIOUS
    <2>5. /\ DOMAIN next \subseteq Path /\ \A q \in DOMAIN next : Known(next[q], q)
          /\ DOMAIN next \cap Subtree(p) = DOMAIN told
          /\ \A q \in DOMAIN told : Mirrors(next[q], told[q], q)
          /\ \A q \in DOMAIN proxy \ DOMAIN next : q \in Subtree(p) /\ q \notin DOMAIN told
        <3>1. KnownInv
            BY DEF ProxiesInv
        <3>2. p \in DOMAIN proxy
            BY <1>4, <2>1
        <3>3. \A q \in DOMAIN proxy \cap Subtree(p) : q # p => proxy[q].stale
            BY <1>4, <1>8, <2>1
        <3>4. next = get_managed_objects(p, told)
            BY <2>2, <2>4
        <3> QED
            BY <2>3, <3>1, <3>2, <3>3, <3>4, Refreshed
    <2>6. KnownInv'
        BY <2>4, <2>5 DEF KnownInv
    <2>7. MirrorsReply'
        <3>1. \A q \in DOMAIN told : q \in DOMAIN proxy' /\ Describes(told[q], q)
                                        /\ Mirrors(proxy'[q], told[q], q)
            BY <2>3, <2>4, <2>5 DEF Tells
        <3>2. \A q \in DOMAIN told :
                  /\ proxy'[q].class = ClassOf[q]
                  /\ \A i \in DOMAIN told[q] :
                       /\ get_service(proxy'[q], told[q][i].service)
                       /\ told[q][i].service \in HasProperty =>
                              get_cached_property(q, told[q][i].service)' = told[q][i].value
            <4>1. TAKE q \in DOMAIN told
            <4>2. (\A i \in DOMAIN told[q] :
                      /\ get_service(proxy'[q], told[q][i].service)
                      /\ told[q][i].service \in HasProperty
                            => proxy'[q].cached[told[q][i].service] = told[q][i].value)
                  /\ proxy'[q].class = ClassOf[q]
                BY <3>1, MirrorsFacts
            <4> QED
                BY <4>2 DEF get_cached_property
        <3>3. res'.path = p /\ res'.reply.data = told
            BY <1>5, <2>1
        <3>4. DOMAIN proxy' \cap Subtree(p) = DOMAIN told
            BY <2>4, <2>5
        <3> QED
            BY <3>2, <3>3, <3>4 DEF MirrorsReply
    <2>8. ProxiesInv'
        BY <1>5, <1>6, <1>7, <2>6, <2>7 DEF ProxiesInv
    <2> QED
        BY <1>3, <1>8, <2>1, <2>4, <2>5, <2>8
<1>9. CASE ~(r.ok /\ m.op = "refresh")
    <2>1. MirrorsReply'
        BY <1>5, <1>9 DEF MirrorsReply
    <2>2. KnownInv' /\ DOMAIN proxy' = DOMAIN proxy
        <3>1. CASE r.ok /\ m.op = "getall"
            <4>1. PICK o, v : o = proxy[m.path] /\ v = r.data
                OBVIOUS
            <4>2. m.arg \in Interface /\ v \in Value \cup {Nil}
                BY <1>4, <3>1, <4>1, ClassesAssumption DEF WellFormed, Answers
            <4>3. Known(o, m.path)
                BY <1>4, <4>1 DEF ProxiesInv, KnownInv
            <4>4. PICK none, one : /\ none = [s \in Interface |-> Nil]
                                   /\ one = [none EXCEPT ![m.arg] = v]
                OBVIOUS
            <4>5. one \in [Interface -> Value \cup {Nil}]
                BY <4>2, <4>4
            <4>6. PICK x : x = [o EXCEPT !.cached = one]
                OBVIOUS
            <4>7. refresh_properties(o, m.arg, v) = x
                BY <4>3, <4>4, <4>6 DEF refresh_properties, drop_cached, Known, ProxyRec
            <4>8. Known(x, m.path)
                BY <4>3, <4>5, <4>6 DEF Known, ProxyRec
            <4>9. proxy' = [proxy EXCEPT ![m.path] = x]
                BY <1>1, <1>3, <3>1, <4>1, <4>7
            <4>10. /\ DOMAIN proxy' = DOMAIN proxy /\ proxy'[m.path] = x
                   /\ \A q \in DOMAIN proxy : q # m.path => proxy'[q] = proxy[q]
                BY <1>4, <4>9
            <4> QED
                BY <4>8, <4>10 DEF ProxiesInv, KnownInv
        <3>2. CASE ~(r.ok /\ m.op = "getall")
            <4>1. proxy' = proxy
                BY <1>1, <1>3, <1>9, <3>2
            <4> QED
                BY <4>1 DEF ProxiesInv, KnownInv
        <3> QED
            BY <3>1, <3>2
    <2>3. ProxiesInv'
        BY <1>5, <1>6, <1>7, <2>1, <2>2 DEF ProxiesInv
    <2> QED
        BY <2>2, <2>3
<1> QED
    BY <1>8, <1>9

-----------------------------------------------------------------------------
(* The theorems                                                             *)

\* What a step takes away.
Lost == \A q \in DOMAIN proxy \ DOMAIN proxy' :
            /\ call.op = "refresh" /\ q \in Subtree(call.path)
            /\ call.reply.ok /\ q \notin DOMAIN call.reply.data

\* Every step keeps the invariant, and loses no proxy but to a reply.
LEMMA ProxiesStep ==
    ASSUME ProxiesInv, [ProxiesNext]_proxyVars
    PROVE  ProxiesInv' /\ Lost
<1>1. CASE Server
    <2>1. UNCHANGED <<registry, proxy, inq, call, res, ran>> /\ ObjectInv'
        <3>1. CASE \E p \in Path : CreateObject(p) \/ UnregisterObject(p)
            BY <3>1, Created, Unregistered DEF ProxiesInv, CreateObject, UnregisterObject
        <3>2. CASE \E p \in Path, s \in HasProperty, v \in Value \cup {Nil} : UpdateProperty(p, s, v)
            BY <3>2, Updated DEF ProxiesInv, UpdateProperty
        <3> QED
            BY <1>1, <3>1, <3>2 DEF Server
    <2> QED
        BY <2>1, ClientKept DEF ProxiesInv, Lost
<1>2. CASE Client
    <2>1. ProxiesInv'
        BY <1>2, ProxyCreated, ChildrenRefreshed, PropertiesAsked, MethodCalled, TimedOut DEF Client
    <2>2. DOMAIN proxy \subseteq DOMAIN proxy'
        BY <1>2 DEF Client, client_get_object, object_create, RefreshChildren, mark_stale,
                    RefreshProperties, RecvProperty, CallMethod, CallTimeout
    <2> QED
        BY <2>1, <2>2 DEF Lost
<1>3. CASE ServerDispatch
    BY <1>3, Dispatched DEF ServerDispatch, Lost
<1>4. CASE ClientReply
    BY <1>4, Replied DEF Lost
<1>5. CASE UNCHANGED proxyVars
    <2>1. ProxiesInv'
        BY <1>5, ClientKept, ServerKept DEF ProxiesInv, proxyVars
    <2> QED
        BY <1>5, <2>1 DEF Lost, proxyVars
<1> QED
    BY <1>1, <1>2, <1>3, <1>4, <1>5 DEF ProxiesNext

\* The published tree has no holes, what the client knows of an object is
\* nothing or right, and the answer on its way is one the server may give
\* (ni_dbus_object, ni_dbus_object_get_managed_objects).
THEOREM ProxiesInvariant == ProxiesSpec => []ProxiesInv
<1>1. ProxiesInit => ProxiesInv
    BY ProxiesInitInv
<1>2. ProxiesInv /\ [ProxiesNext]_proxyVars => ProxiesInv'
    BY ProxiesStep
<1> QED
    BY <1>1, <1>2, PTL DEF ProxiesSpec

\* After a refresh the client has just the objects the server had when it
\* answered, with their classes, interfaces and properties
\* (ni_dbus_object_get_managed_objects).
THEOREM RefreshMirrorsReply == ProxiesSpec => []MirrorsReply
<1>1. ProxiesInv => MirrorsReply
    BY DEF ProxiesInv
<1> QED
    BY <1>1, ProxiesInvariant, PTL

\* A method call runs the handler of the most specific interface that offers
\* it, or of the first one in the table if none of them has a class, in whatever
\* order the interfaces were registered; and no call is ambiguous
\* (ni_dbus_object_call_variant, ni_testbus_bind_container_interfaces).
THEOREM CallsReachMostSpecific == ProxiesSpec => []CallReachesMostSpecific
<1>1. ProxiesInv => CallReachesMostSpecific
    BY DEF ProxiesInv
<1> QED
    BY <1>1, ProxiesInvariant, PTL

\* Only a refresh that is answered without it takes a proxy away
\* (__ni_dbus_object_purge_stale).
THEOREM ProxiesLostOnlyToReply == ProxiesSpec => LostOnlyToReply
<1>1. ProxiesInv /\ [ProxiesNext]_proxyVars => [Lost]_proxyVars
    BY ProxiesStep
<1>2. ProxiesSpec => [][Lost]_proxyVars
    BY <1>1, ProxiesInvariant, PTL DEF ProxiesSpec
<1> QED
    BY <1>2 DEF LostOnlyToReply, Lost
=============================================================================
