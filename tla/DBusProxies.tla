---------------------------- MODULE DBusProxies ----------------------------
(***************************************************************************)
(* The object layer of dborb: the tree of objects a server publishes, with *)
(* the interfaces bound to each, and the tree of proxies a client keeps of *)
(* it and refreshes with GetManagedObjects and Properties.GetAll           *)
(* (dborb/dbus-object.c, dbus-server.c, dbus-client.c, dbus-model.c).      *)
(*                                                                         *)
(* A proxy is a cache: claiming a host, picking one by name or waiting for *)
(* a process all decide on the properties found in it.  The server goes on *)
(* changing while a request is on its way, and the client gives up on a    *)
(* call after ten seconds although the server may still execute it.        *)
(*                                                                         *)
(* An interface has at most one property, whose absence is Nil.  libdbus  *)
(* is external: requests of the client reach the server in order, an       *)
(* unknown path is answered with an error, a reply that comes after the    *)
(* timeout is dropped.  That a deleted object stays in the trash until the *)
(* next call is the subject of Containers and is left out here.            *)
(***************************************************************************)
EXTENDS Naturals, Sequences, FiniteSets

CONSTANTS
    Nil,
    Path, Root, Up,       \* object paths, the topmost, the parent of each other
    Class, Super,         \* dbus classes and their superclass, or Nil
    ClassOf,              \* the class of the object published at a path
    Interface,            \* the interfaces of the schema
    Compatible,           \* the class an interface is for, or Nil
    FeatureServices,      \* the interfaces of no class that a container gets
    Methods,              \* the methods it offers
    HasProperty,          \* the interfaces that have a property
    Method, Value,
    MaxCalls              \* bound on the calls the client places

VARIABLES
    registry,   \* the services in the order of registration, in both programs
    obj,        \* server: path -> [class, interfaces, value]
    proxy,      \* client: path -> [class, interfaces, cached, stale]
    inq,        \* requests the server has not handled
    call,       \* the call the client waits for, or NoCall(0)
    res,        \* what the last call of the client ended with
    ran         \* the method handler the server ran last, or Nil

proxyVars == <<registry, obj, proxy, inq, call, res, ran>>

anonymous == "anonymous"
Standard == {"ObjectManager", "Introspectable", "Properties"}
Service == Interface \cup Standard

\* x and what is reached from it through next, within U.
From(x, U, next) ==
    {y \in U : \A S \in SUBSET U :
        x \in S /\ (\A z \in S \cap DOMAIN next : next[z] \in U => next[z] \in S) => y \in S}

\* A path and all above it; the paths of an object and all below it.
Above == [p \in Path |-> From(p, Path, Up)]
Subtree(p) == {q \in Path : p \in Above[q]}

Superclasses == [c \in Class |-> From(c, Class, Super)]
class_is_subclass(c, d) == c \in Class /\ d \in Superclasses[c]
CompatibleWith(s) == IF s \in Standard THEN Nil ELSE Compatible[s]

\* A class is defined after its superclass, and each class that objects are
\* published with has an interface of its own (schema/testbus.xml).  Interfaces
\* of no class are bound by what a container has room for, each once; the root
\* and the inner parts of a path are objects of no class.
ASSUME ClassesAssumption ==
    /\ Root \in Path /\ Up \in [Path \ {Root} -> Path]
    /\ Super \in [Class -> Class \cup {Nil}]
    /\ Nil \notin Class \cup {anonymous} /\ anonymous \notin Class
    /\ \A c, d \in Class : class_is_subclass(c, d) /\ class_is_subclass(d, c) => c = d
    /\ ClassOf \in [Path -> Class \cup {anonymous}]
    /\ IsFiniteSet(Interface)
    /\ Interface \cap (Standard \cup {"none", "ambiguous"}) = {}
    /\ Compatible \in [Interface -> Class \cup {Nil}]
    /\ \A p \in Path : ClassOf[p] \in Class => \E s \in Interface : Compatible[s] = ClassOf[p]
    /\ FeatureServices \in [Path -> Seq({s \in Interface : Compatible[s] = Nil})]
    /\ \A p \in Path : \A i, j \in DOMAIN FeatureServices[p] :
            FeatureServices[p][i] = FeatureServices[p][j] => i = j
    /\ Methods \in [Interface -> SUBSET Method] /\ HasProperty \subseteq Interface
    /\ Method \cap {"GetManagedObjects", "Get", "GetAll"} = {}

-----------------------------------------------------------------------------
(* Objects and interfaces, the same code on both sides. *)

\* An interface is bound once, to objects of its class if it has one; the first
\* one with properties brings the Properties interface with it.
get_service(o, s) == \E i \in DOMAIN o.interfaces : o.interfaces[i] = s
bind(o, s) == IF get_service(o, s) THEN o ELSE [o EXCEPT !.interfaces = Append(@, s)]

register_service(o, s) ==
    IF CompatibleWith(s) # Nil /\ ~class_is_subclass(o.class, CompatibleWith(s)) THEN o
    ELSE IF s \in HasProperty THEN bind(bind(o, s), "Properties")
    ELSE bind(o, s)

\* The services of a sequence that are in S, in its order.
register_services(o, q, S) ==
    LET after[n \in 0 .. Len(q)] ==
            IF n = 0 THEN o
            ELSE IF q[n] \in S THEN register_service(after[n - 1], q[n])
            ELSE after[n - 1]
    IN  after[Len(q)]

\* Interfaces that are not compatible are passed over, and so are those that
\* have no class.
bind_compatible_interfaces(o) ==
    register_services(o, registry,
        {s \in Interface : class_is_subclass(o.class, Compatible[s])})

\* A container gets these after all others, in the order of a fixed table; the
\* root its own, which is the only one of the schema it has.
bind_container_interfaces(o, p) == register_services(o, FeatureServices[p], Interface)

\* An object of the server: initialised from its parent, then bound.
NewObject(p) ==
    LET bare == [class |-> ClassOf[p], interfaces |-> <<>>,
                 value |-> [s \in Interface |-> Nil]] IN
    bind_container_interfaces(
        bind_compatible_interfaces(
            register_service(register_service(bare, "ObjectManager"), "Introspectable")), p)

\* A proxy the client knows only the path of.
NewProxy == [class |-> anonymous, interfaces |-> <<>>,
             cached |-> [s \in Interface |-> Nil], stale |-> FALSE]

\* An object that is there already stays as it is.
object_create(f, new) == [p \in DOMAIN f \cup DOMAIN new |->
                             IF p \in DOMAIN f THEN f[p] ELSE new[p]]
Drop(f, D) == [p \in DOMAIN f \ D |-> f[p]]

MethodsOf(s) ==
    CASE s = "ObjectManager" -> {"GetManagedObjects"}
      [] s = "Properties"    -> {"Get", "GetAll"}
      [] s = "Introspectable" -> {}
      [] OTHER -> Methods[s]

-----------------------------------------------------------------------------
(* The server. *)

CreateObject(p) ==
    /\ p \notin DOMAIN obj /\ Up[p] \in DOMAIN obj
    /\ obj' = object_create(obj, [q \in {p} |-> NewObject(q)])
    /\ UNCHANGED <<registry, proxy, inq, call, res, ran>>

UnregisterObject(p) ==
    /\ p \in DOMAIN obj \ {Root}
    /\ obj' = Drop(obj, Subtree(p))
    /\ UNCHANGED <<registry, proxy, inq, call, res, ran>>

\* A property changes, appears or goes away.
UpdateProperty(p, s, v) ==
    /\ p \in DOMAIN obj /\ s \in HasProperty /\ get_service(obj[p], s)
    /\ obj[p].value[s] # v
    /\ obj' = [obj EXCEPT ![p].value[s] = v]
    /\ UNCHANGED <<registry, proxy, inq, call, res, ran>>

Ok(d) == [ok |-> TRUE, data |-> d]
Error(e) == [ok |-> FALSE, data |-> e]

\* One entry of the dictionary per interface; a property that is not present
\* is left out, so the dictionary of its interface is empty.
properties_as_dict(p) ==
    [i \in DOMAIN obj[p].interfaces |->
        LET s == obj[p].interfaces[i] IN
        [service |-> s,
         value |-> IF s \in HasProperty THEN obj[p].value[s] ELSE Nil]]

enumerate_object(p) == [q \in DOMAIN obj \cap Subtree(p) |-> properties_as_dict(q)]

\* Properties.Get and GetAll name an interface of the object, and Get fails if
\* the property is not there.
properties_arg_interface(p, s, r) ==
    IF get_service(obj[p], s) THEN r ELSE Error("ServiceUnknown")

properties_get(p, s) ==
    properties_arg_interface(p, s,
        IF obj[p].value[s] = Nil THEN Error("NotPresent") ELSE Ok(obj[p].value[s]))

properties_getall(p, s) == properties_arg_interface(p, s, Ok(obj[p].value[s]))

NoCall(n) == [op |-> "none", n |-> n, path |-> Root, service |-> "none",
                reply |-> Error("none")]
Waiting == call.op # "none"

\* The dispatcher: what a request is answered with.
object_message(m) ==
    IF m.path \notin DOMAIN obj THEN Error("UnknownObject")
    ELSE IF ~get_service(obj[m.path], m.service) THEN Error("UnknownInterface")
    ELSE IF m.method \notin MethodsOf(m.service) THEN Error("UnknownMethod")
    ELSE CASE m.method = "GetManagedObjects" -> Ok(enumerate_object(m.path))
           [] m.method = "Get"    -> properties_get(m.path, m.arg)
           [] m.method = "GetAll" -> properties_getall(m.path, m.arg)
           [] OTHER -> Ok(Nil)

ServerDispatch ==
    /\ inq # <<>>
    /\ LET m == Head(inq)
           r == object_message(m) IN
       /\ inq' = Tail(inq)
       /\ call' = IF Waiting /\ call.n = m.n THEN [call EXCEPT !.reply = r] ELSE call
       /\ ran' = IF r.ok /\ m.method \in Method
                 THEN [path |-> m.path, service |-> m.service, method |-> m.method]
                 ELSE ran
    /\ UNCHANGED <<registry, obj, proxy, res>>

-----------------------------------------------------------------------------
(* The client. *)

ClientIdle == ~Waiting /\ res.n < MaxCalls

\* object_create: the proxy of a path, and of all paths above it.
client_get_object(p) ==
    /\ ClientIdle /\ p \notin DOMAIN proxy
    /\ proxy' = object_create(proxy, [q \in Above[p] |-> NewProxy])
    /\ res' = NoCall(res.n)
    /\ UNCHANGED <<registry, obj, inq, call, ran>>

\* A synchronous call: the request is sent and the client waits.
object_call(op, p, s, m, a) ==
    LET c == [op |-> op, n |-> res.n + 1, path |-> p, service |-> s,
              method |-> m, arg |-> a, reply |-> Nil] IN
    /\ ClientIdle
    /\ inq' = Append(inq, c)
    /\ call' = c
    /\ res' = NoCall(res.n)

mark_stale(p) == [q \in DOMAIN proxy |->
    IF q \in Subtree(p) \ {p} THEN [proxy[q] EXCEPT !.stale = TRUE] ELSE proxy[q]]

RefreshChildren(p) ==
    /\ p \in DOMAIN proxy
    /\ object_call("refresh", p, "ObjectManager", "GetManagedObjects", Nil)
    /\ proxy' = mark_stale(p)
    /\ UNCHANGED <<registry, obj, ran>>

RefreshProperties(p, s) ==
    /\ p \in DOMAIN proxy /\ s \in HasProperty /\ get_service(proxy[p], s)
    /\ object_call("getall", p, "Properties", "GetAll", s)
    /\ UNCHANGED <<registry, obj, proxy, ran>>

RecvProperty(p, s) ==
    /\ p \in DOMAIN proxy /\ s \in HasProperty
    /\ object_call("get", p, "Properties", "Get", s)
    /\ UNCHANGED <<registry, obj, proxy, ran>>

\* Mutant: of two interfaces the less specific one is taken.
more_specific_Reversed(best, s) ==
    LET b == CompatibleWith(best)
        c == CompatibleWith(s) IN
    CASE best = "ambiguous" -> best
      [] best = "none" -> s
      [] OTHER -> IF b = Nil \/ c = Nil \/ class_is_subclass(c, b) THEN best
                  ELSE IF class_is_subclass(b, c) THEN s ELSE "ambiguous"

\* Of the interfaces with that method the client takes the most specific; one
\* that has no class neither replaces another nor is it replaced.
more_specific(best, s) ==
    LET b == CompatibleWith(best)
        c == CompatibleWith(s) IN
    CASE best = "ambiguous" -> best
      [] best = "none" -> s
      [] OTHER -> IF b = Nil \/ c = Nil \/ class_is_subclass(b, c) THEN best
                  ELSE IF class_is_subclass(c, b) THEN s ELSE "ambiguous"

\* A proxy inherits its default interface from its parent, and that of the root
\* is none.  The two functions that would set another have no caller.
default_interface == "none"

ServiceForMethod(p, m) ==
    LET services == proxy[p].interfaces
        best[n \in 0 .. Len(services)] ==
            IF n = 0 THEN "none"
            ELSE IF m \in MethodsOf(services[n]) THEN more_specific(best[n - 1], services[n])
            ELSE best[n - 1]
    IN  IF best[Len(services)] = "none" THEN default_interface ELSE best[Len(services)]

\* object_call_variant; without an interface it fails before anything is sent.
CallMethod(p, m) ==
    /\ p \in DOMAIN proxy
    /\ LET s == ServiceForMethod(p, m) IN
       IF s \in Service
       THEN object_call("call", p, s, m, Nil)
       ELSE /\ ClientIdle
            /\ res' = [op |-> "call", n |-> res.n + 1, path |-> p, service |-> s,
                       reply |-> Error(IF s = "ambiguous" THEN "Ambiguous" ELSE "NoInterface")]
            /\ UNCHANGED <<inq, call>>
    /\ UNCHANGED <<registry, obj, proxy, ran>>

\* The entry of one interface: the proxy takes on its class if that is more
\* special than the one it has, binds it and caches what the entry holds.
managed_interface(o, e) ==
    LET c == CompatibleWith(e.service)
        special == IF c = Nil \/ class_is_subclass(o.class, c) THEN o.class
                   ELSE IF o.class = anonymous \/ class_is_subclass(c, o.class) THEN c
                   ELSE Nil
        bound == register_service([o EXCEPT !.class = special], e.service) IN
    IF special = Nil THEN o
    ELSE IF e.value = Nil THEN bound
    ELSE [bound EXCEPT !.cached[e.service] = e.value]

\* What the commands of the client look at: a property of an interface that
\* the proxy has, if it was present.
get_cached_property(p, s) ==
    IF get_service(proxy[p], s) THEN proxy[p].cached[s] ELSE Nil

drop_cached(o) == [o EXCEPT !.cached = [s \in Interface |-> Nil]]

\* The entries of an object, one after the other.
managed_interfaces(o, entries) ==
    LET after[n \in 0 .. Len(entries)] ==
            IF n = 0 THEN o ELSE managed_interface(after[n - 1], entries[n])
    IN  after[Len(entries)]

\* Mutants: what was cached before the refresh is kept; a proxy that was
\* reported again stays marked.
managed_object_KeepsCache(o, entries) ==
    [managed_interfaces(o, entries) EXCEPT !.stale = FALSE]
managed_object_StaysStale(o, entries) ==
    managed_interfaces(drop_cached(o), entries)

\* An object of the reply.
managed_object(o, entries) ==
    [managed_interfaces(drop_cached(o), entries) EXCEPT !.stale = FALSE]

\* What is still stale below the object that was refreshed goes, and with it
\* all that is below.
purge_stale(px, p) ==
    Drop(px, UNION {Subtree(q) : q \in {r \in (DOMAIN px \cap Subtree(p)) \ {p} :
                                         px[r].stale}})

get_managed_objects(p, reply) ==
    LET known == object_create(proxy, [q \in DOMAIN reply |-> NewProxy]) IN
    purge_stale([q \in DOMAIN known |->
                    IF q \in DOMAIN reply THEN managed_object(known[q], reply[q])
                    ELSE known[q]], p)

\* GetAll drops everything that was cached, and fills in one interface.
refresh_properties(o, s, v) == [drop_cached(o) EXCEPT !.cached[s] = v]

Ended(r) == [op |-> call.op, n |-> call.n, path |-> call.path,
             service |-> call.service, reply |-> r]

ClientReply ==
    /\ Waiting /\ call.reply # Nil
    /\ proxy' = IF ~call.reply.ok THEN proxy
                ELSE CASE call.op = "refresh" -> get_managed_objects(call.path, call.reply.data)
                       [] call.op = "getall" ->
                            [proxy EXCEPT ![call.path] =
                                refresh_properties(@, call.arg, call.reply.data)]
                       [] OTHER -> proxy
    /\ res' = Ended(call.reply)
    /\ call' = NoCall(0)
    /\ UNCHANGED <<registry, obj, inq, ran>>

\* Ten seconds went by; the server may still get to the request.
CallTimeout ==
    /\ Waiting /\ call.reply = Nil
    /\ res' = Ended(Error("Timeout"))
    /\ call' = NoCall(0)
    /\ UNCHANGED <<registry, obj, proxy, inq, ran>>

-----------------------------------------------------------------------------
ProxiesInit ==
    /\ registry \in {q \in [1..Cardinality(Interface) -> Interface] :
                        \A s \in Interface : \E i \in DOMAIN q : q[i] = s}
    /\ obj = [p \in {Root} |-> NewObject(Root)]
    /\ proxy = [p \in {Root} |-> NewProxy]
    /\ inq = <<>> /\ call = NoCall(0) /\ ran = Nil
    /\ res = NoCall(0)

Server ==
    \/ \E p \in Path : CreateObject(p) \/ UnregisterObject(p)
    \/ \E p \in Path, s \in HasProperty, v \in Value \cup {Nil} : UpdateProperty(p, s, v)

Client ==
    \/ \E p \in Path :
        \/ client_get_object(p)
        \/ RefreshChildren(p)
        \/ \E s \in HasProperty : RefreshProperties(p, s) \/ RecvProperty(p, s)
        \/ \E m \in Method : CallMethod(p, m)
    \/ CallTimeout

ProxiesNext == Server \/ Client \/ ServerDispatch \/ ClientReply

ProxiesSpec == ProxiesInit /\ [][ProxiesNext]_proxyVars

-----------------------------------------------------------------------------
\* After a refresh the client has a proxy for every object the server had when
\* it answered, and for no other, each specialised to the class of its object
\* and caching just the properties that were present
\* (ni_dbus_object_get_managed_objects).
MirrorsReply ==
    res.op = "refresh" /\ res.reply.ok =>
        LET told == res.reply.data IN
        /\ DOMAIN proxy \cap Subtree(res.path) = DOMAIN told
        /\ \A q \in DOMAIN told :
            /\ proxy[q].class = ClassOf[q]
            /\ \A i \in DOMAIN told[q] :
                /\ get_service(proxy[q], told[q][i].service)
                /\ told[q][i].service \in HasProperty =>
                        get_cached_property(q, told[q][i].service) = told[q][i].value

\* The interface s is one of the object at p.
Fits(p, s) == IF Compatible[s] = Nil
              THEN \E i \in DOMAIN FeatureServices[p] : FeatureServices[p][i] = s
              ELSE class_is_subclass(ClassOf[p], Compatible[s])

\* Of two interfaces of the object at p, s is to be called rather than t: it has
\* a class and t has none or a less specific one, or neither has a class and s
\* comes first in the table.
Prevails(p, s, t) ==
    IF Compatible[s] # Nil
    THEN Compatible[t] = Nil \/ class_is_subclass(Compatible[s], Compatible[t])
    ELSE \E i, j \in DOMAIN FeatureServices[p] :
            i <= j /\ FeatureServices[p][i] = s /\ FeatureServices[p][j] = t

\* A method call through a proxy runs the handler of the most specific
\* interface of the object that offers it, in whatever order the interfaces
\* were registered; interfaces of no class come last, in the order of their
\* table.  No call ends because the client could not choose, or because the
\* server does not know the interface chosen (ni_dbus_object_call_variant).
CallReachesMostSpecific ==
    /\ ran # Nil => \A s \in Interface :
            ran.method \in Methods[s] /\ Fits(ran.path, s) => Prevails(ran.path, ran.service, s)
    /\ res.op = "call" /\ ~res.reply.ok =>
            res.reply.data \in {"NoInterface", "UnknownObject", "Timeout"}

\* A proxy is only given up because a refresh was answered without it: neither
\* a refresh that fails or times out nor one of another part of the tree
\* takes it away from the code that holds it (__ni_dbus_object_purge_stale).
LostOnlyToReply ==
    [][\A q \in DOMAIN proxy \ DOMAIN proxy' :
            /\ call.op = "refresh" /\ q \in Subtree(call.path)
            /\ call.reply.ok /\ q \notin DOMAIN call.reply.data]_proxyVars
=============================================================================
