------------------------------ MODULE DBusXml ------------------------------
(***************************************************************************)
(* XML documents as D-Bus values, under a schema (dborb/dbus-xml.c).  A    *)
(* document is checked, made a value, put into a message, taken from it    *)
(* and made a document again: the way of the argument of a method that an  *)
(* extension implements (dborb/dbus-extension.c), if the schema's type of  *)
(* the argument can be registered and the dispatcher accepts the call.     *)
(* The result of an extension is made a value by the same functions; a     *)
(* reply is not compared with a signature.                                 *)
(*                                                                         *)
(* A type is a record of its class.  A node has a name, the value of the   *)
(* attribute that tells the kinds of a union apart, a text and children;   *)
(* NoText and "" stand for what is missing.                                *)
(***************************************************************************)
EXTENDS Integers, Sequences, SequencesExt, FiniteSetsExt, Variant

CONSTANT XsCases    \* what is sent: pairs of a type and a node

VARIABLES
    xsType,     \* the type and the node that are sent
    xsNode,
    xsVar,      \* the value: the sender's, then the receiver's
    xsWire,     \* the message
    xsBack,     \* the node the receiver builds
    xsJob       \* the next step, "over", "failed" on the way, "unregistered"
                \* when there is no such method, or "refused" by the dispatcher

xsVars == <<xsType, xsNode, xsVar, xsWire, xsBack, xsJob>>

NoText == Word("null")
XNode(name, kind, text, children) ==
    [name |-> name, kind |-> kind, text |-> text, children |-> children]
XBad == XNode("bad", "", NoText, <<>>)

(* The schema types: ni_xs_type_t and its info records.  names is the      *)
(* intmap of an enum or a bitmap, a function from the names to numbers.    *)
Void == [class |-> "void"]
Scalar(type) == [class |-> "scalar", type |-> type]
FlagType == [class |-> "flag"]
Enum(type, names) == [class |-> "enum", type |-> type, names |-> names]
Bitmap(type, names) == [class |-> "bitmap", type |-> type, names |-> names]
ArrayOf(element, name) == [class |-> "array", element |-> element, name |-> name]
UuidType == [class |-> "uuid"]
DictOf(fields, groups) == [class |-> "dict", fields |-> fields, groups |-> groups]
UnionOf(kinds) == [class |-> "union", kinds |-> kinds]
Field(name, type, mandatory, group) ==
    [name |-> name, type |-> type, mandatory |-> mandatory, group |-> group]

IsScalar(type) == type.class \in {"scalar", "flag", "enum", "bitmap"}

\* ni_xs_dict_info_find
FieldsNamed(type, name) == {i \in DOMAIN type.fields : type.fields[i].name = name}
Knows(type, name) == FieldsNamed(type, name) # {}
dict_info_find(type, name) == type.fields[Min(FieldsNamed(type, name))].type

RECURSIVE HasSignature(_)
RECURSIVE xs_signature(_)

\* __ni_xs_type_to_dbus_signature is not the null pointer: there are none for
\* void and for unions.
HasSignature(type) ==
    IF type.class = "array" THEN HasSignature(type.element)
    ELSE type.class \notin {"void", "union"}

\* __ni_xs_type_to_dbus_signature.  A flag has the type code 0, the end of a
\* string: its signature is the empty text.
xs_signature(type) ==
    CASE type.class \in {"scalar", "enum", "bitmap"} -> <<type.type>>
      [] type.class = "array" /\ HasSignature(type) ->
           <<"a">> \o xs_signature(type.element)
      [] type.class = "uuid" -> <<"a", "y">>
      [] type.class = "dict" -> DictSignature
      [] OTHER -> <<>>

---------------------------------------------------------------------------
(* Scalars.                                                                *)

\* ni_parse_uint_mapped, ni_parse_uint_maybe_mapped, ni_format_uint_mapped
parse_mapped(name, names) == IF name \in DOMAIN names THEN names[name] ELSE -1
parse_maybe_mapped(t, names) ==
    CASE t.form = "word" -> parse_mapped(t.w, names)
      [] OTHER -> t.n
format_mapped(n, names) ==
    IF \E w \in DOMAIN names : names[w] = n
    THEN Word(CHOOSE w \in DOMAIN names : names[w] = n) ELSE Dec(n)

\* Mutant: a bit that is named twice is added twice.
serialize_bitmap_Adds(node, names) ==
    LET bit(i) == parse_mapped(node.children[i].name, names)
    IN  IF \E i \in DOMAIN node.children : bit(i) \notin 0..31 THEN -1
        ELSE FoldLeftDomain(LAMBDA sum, i : sum + 2 ^ bit(i), 0, node.children)

\* ni_dbus_serialize_xml_bitmap: the sum of the bits, each counted once, or -1.
serialize_bitmap(node, names) ==
    LET bit(i) == parse_mapped(node.children[i].name, names)
        bits == {bit(i) : i \in DOMAIN node.children}
    IN  IF \E b \in bits : b \notin 0..31 THEN -1 ELSE SumSet({2 ^ b : b \in bits})

\* ni_dbus_serialize_xml_scalar
serialize_scalar(node, type) ==
    CASE type.class = "flag" -> set("y", 0)
      [] type.class = "bitmap" ->
           LET value == serialize_bitmap(node, type.names)
           IN  IF value < 0 THEN Invalid
               ELSE set_ulong(init_signature(xs_signature(type)), value)
      [] node.text = NoText -> Invalid
      [] type.class = "enum" ->
           LET value == parse_maybe_mapped(node.text, type.names)
           IN  IF value < 0 THEN Invalid
               ELSE set_ulong(init_signature(xs_signature(type)), value)
      [] OTHER -> parse(node.text, xs_signature(type))

\* ni_dbus_deserialize_xml_scalar: what the value adds to the node.
deserialize_scalar(v, type, node) ==
    LET isSet(b) == (v.num \div 2 ^ b) % 2 = 1
        named == {w \in DOMAIN type.names : isSet(type.names[w])}
        inOrder == SetToSortSeq(named, LAMBDA a, b : type.names[a] < type.names[b])
    IN  CASE v.type = "a" -> XBad
          [] type.class = "flag" -> IF v.type = "y" THEN node ELSE XBad
          [] type.class \in {"bitmap", "enum"} /\ get_ulong(v) = Invalid -> XBad
          [] type.class = "bitmap" ->
               [node EXCEPT !.children =
                  [i \in DOMAIN inOrder |-> XNode(inOrder[i], "", NoText, <<>>)]]
          [] type.class = "enum" ->
               [node EXCEPT !.text = format_mapped(v.num, type.names)]
          [] OTHER -> [node EXCEPT !.text = sprint(v)]

---------------------------------------------------------------------------
(* Validation: ni_dbus_validate_xml, without the callbacks of the user     *)
(* interface.  Structs are not implemented.                                *)

RECURSIVE validate(_, _)

validate_scalar(node, type) ==
    CASE type.class = "bitmap" -> serialize_bitmap(node, type.names) >= 0
      [] type.class = "flag" -> node.text = NoText
      [] type.class = "enum" ->
           node.text # NoText /\ parse_maybe_mapped(node.text, type.names) >= 0
      [] OTHER -> node.text # NoText

\* ni_dbus_validate_xml_dict: the known children, the mandatory ones, and how
\* many there are of each group.
validate_dict(node, type) ==
    LET known == {i \in DOMAIN node.children : Knows(type, node.children[i].name)}
        field(i) == type.fields[Min(FieldsNamed(type, node.children[i].name))]
        count(g) == Cardinality({i \in known : field(i).group = g})
    IN  /\ \A i \in known : validate(node.children[i], field(i).type)
        /\ \A f \in DOMAIN type.fields :
             type.fields[f].mandatory =>
               \E i \in DOMAIN node.children : node.children[i].name = type.fields[f].name
        /\ \A g \in DOMAIN type.groups :
             IF type.groups[g] = "require" THEN count(g) > 0 ELSE count(g) <= 1

validate(node, type) ==
    CASE type.class = "void" -> node.text = NoText /\ node.children = <<>>
      [] IsScalar(type) -> validate_scalar(node, type)
      [] type.class = "uuid" -> node.text.form = "uuid"
      [] type.class = "array" ->
           \A i \in DOMAIN node.children : validate(node.children[i], type.element)
      [] type.class = "dict" -> validate_dict(node, type)
      [] type.class = "union" ->
           node.kind \in DOMAIN type.kinds /\ validate(node, type.kinds[node.kind])

---------------------------------------------------------------------------
(* From a node to a value: ni_dbus_serialize_xml.                          *)

RECURSIVE serialize(_, _)

\* A uuid as an array of bytes, and back; any octets do for sixteen.
Uuid(octets) == [form |-> "uuid", octets |-> octets]
notation_uuid_parse(t) ==
    IF t.form = "uuid" THEN Array(<<"y">>, [i \in DOMAIN t.octets |-> Num("y", t.octets[i])])
    ELSE Invalid
notation_uuid_print(v) == Uuid([i \in DOMAIN v.items |-> v.items[i].num])

\* ni_dbus_serialize_xml_array: the children are appended one by one, and the
\* first that cannot be ends it.
serialize_array(node, type) ==
    LET add[k \in 0..Len(node.children)] ==
          IF k = 0 THEN init_signature(xs_signature(type))
          ELSE LET sofar == add[k - 1]
                   child == node.children[k]
                   value == serialize(child, type.element)
               IN  CASE sofar = Invalid -> Invalid
                     [] IsScalar(type.element) ->
                          IF child.text = NoText THEN Invalid
                          ELSE array_parse_and_append(sofar, child.text)
                     [] type.element.class = "dict" ->
                          IF value = Invalid THEN Invalid ELSE dict_array_add(sofar, value)
                     [] OTHER -> Invalid
    IN  add[Len(node.children)]

\* ni_dbus_serialize_xml_dict: children the schema does not know are ignored.
serialize_dict(node, type) ==
    LET known == SelectSeq(node.children, LAMBDA c : Knows(type, c.name))
        value(k) == serialize(known[k], dict_info_find(type, known[k].name))
        add[k \in 0..Len(known)] ==
          IF k = 0 THEN Array(DictEntry, <<>>)
          ELSE LET sofar == add[k - 1]
               IN  IF sofar = Invalid \/ value(k) = Invalid THEN Invalid
                   ELSE dict_add(sofar, known[k].name, value(k))
    IN  add[Len(known)]

\* ni_dbus_serialize_xml_union: a struct of the kind and, unless the kind is
\* void, the value.
serialize_union(node, type) ==
    LET head == struct_add(Struct(<<>>), set_string(Word(node.kind)))
        child == type.kinds[node.kind]
        value == serialize(node, child)
    IN  CASE node.kind \notin DOMAIN type.kinds -> Invalid
          [] child.class = "void" -> head
          [] value = Invalid -> Invalid
          [] OTHER -> struct_add(head, value)

serialize(node, type) ==
    CASE IsScalar(type) -> serialize_scalar(node, type)
      [] type.class = "uuid" -> notation_uuid_parse(node.text)
      [] type.class = "array" -> serialize_array(node, type)
      [] type.class = "dict" -> serialize_dict(node, type)
      [] type.class = "union" -> serialize_union(node, type)
      [] type.class = "void" -> Unset

---------------------------------------------------------------------------
(* From a value to a node: ni_dbus_deserialize_xml fills the node it is    *)
(* given.                                                                  *)

RECURSIVE deserialize(_, _, _)

WithChildren(node, children) ==
    IF \E i \in DOMAIN children : children[i] = XBad THEN XBad
    ELSE [node EXCEPT !.children = @ \o children]

\* ni_dbus_deserialize_xml_array
deserialize_array(v, type, node) ==
    LET element(i) == XNode(type.name, "", NoText, <<>>)
        text(i) == [element(i) EXCEPT !.text = array_print_element(v, i)]
        dict(i) == deserialize(v.items[i], type.element, element(i))
    IN  CASE IsScalar(type.element) /\ v.elem # <<"v">> ->
               WithChildren(node, [i \in DOMAIN v.items |-> text(i)])
          [] type.element.class = "dict" /\ v.elem \in {<<"v">>, DictSignature} ->
               WithChildren(node, [i \in DOMAIN v.items |-> dict(i)])
          [] OTHER -> XBad

\* ni_dbus_deserialize_xml_dict
deserialize_dict(v, type, node) ==
    LET known == SelectSeq(v.items, LAMBDA e : Knows(type, e.key))
        child(i) == deserialize(known[i].datum, dict_info_find(type, known[i].key),
                                XNode(known[i].key, "", NoText, <<>>))
    IN  IF is_dict(v) THEN WithChildren(node, [i \in DOMAIN known |-> child(i)])
        ELSE XBad

\* ni_dbus_deserialize_xml_union: the kind is set first, and found again.
deserialize_union(v, type, node) ==
    LET kind == get(struct_get(v, 1), "s")
        told == [node EXCEPT !.kind = kind.txt.w]
    IN  CASE kind = Invalid \/ kind.txt.w \notin DOMAIN type.kinds -> XBad
          [] type.kinds[kind.txt.w].class = "void" -> told
          [] struct_get(v, 2) = Invalid -> XBad
          [] OTHER -> deserialize(struct_get(v, 2), type.kinds[kind.txt.w], told)

deserialize(v, type, node) ==
    CASE type.class = "void" -> node
      [] IsScalar(type) -> deserialize_scalar(v, type, node)
      [] type.class = "uuid" ->
           IF is_array(v, <<"y">>) THEN [node EXCEPT !.text = notation_uuid_print(v)]
           ELSE XBad
      [] type.class = "array" -> deserialize_array(v, type, node)
      [] type.class = "dict" -> deserialize_dict(v, type, node)
      [] type.class = "union" -> deserialize_union(v, type, node)

---------------------------------------------------------------------------
(* The way of a document.                                                  *)

XsInit ==
    /\ \E c \in XsCases : xsType = c[1] /\ xsNode = c[2]
    /\ xsVar = Invalid
    /\ xsWire = NoWire
    /\ xsBack = XBad
    /\ xsJob = "register"

\* ni_dbus_xml_register_methods, on both sides: a method with an argument that
\* has no signature is left out.
XsRegister ==
    /\ xsJob = "register"
    /\ xsJob' = IF HasSignature(xsType) THEN "validate" ELSE "unregistered"
    /\ UNCHANGED <<xsType, xsNode, xsVar, xsWire, xsBack>>

\* ni_dbus_xml_validate_argument
XsValidate ==
    /\ xsJob = "validate"
    /\ xsJob' = IF validate(xsNode, xsType) THEN "serialize" ELSE "failed"
    /\ UNCHANGED <<xsType, xsNode, xsVar, xsWire, xsBack>>

\* ni_dbus_xml_serialize_arg
XsSerialize ==
    /\ xsJob = "serialize"
    /\ xsVar' = serialize(xsNode, xsType)
    /\ xsJob' = IF xsVar' = Invalid THEN "failed" ELSE "send"
    /\ UNCHANGED <<xsType, xsNode, xsWire, xsBack>>

XsSend ==
    /\ xsJob = "send"
    /\ xsWire' = serialize_variants(xsVar)
    /\ xsJob' = IF xsWire' = NoWire THEN "failed" ELSE "receive"
    /\ UNCHANGED <<xsType, xsNode, xsVar, xsBack>>

\* __ni_dbus_object_message and ni_dbus_extension_extension_call: a call whose
\* signature is not the method's is answered with an error.
XsReceive ==
    /\ xsJob = "receive"
    /\ IF message_signature(xsWire) # xs_signature(xsType)
       THEN /\ xsJob' = "refused"
            /\ UNCHANGED xsVar
       ELSE /\ xsVar' = get_args_variants(xsWire)
            /\ xsJob' = IF xsVar' = Invalid THEN "failed" ELSE "deserialize"
    /\ UNCHANGED <<xsType, xsNode, xsWire, xsBack>>

\* ni_dbus_xml_deserialize_arguments
XsDeserialize ==
    /\ xsJob = "deserialize"
    /\ xsBack' = deserialize(xsVar, xsType, XNode(xsNode.name, "", NoText, <<>>))
    /\ xsJob' = IF xsBack' = XBad THEN "failed" ELSE "over"
    /\ UNCHANGED <<xsType, xsNode, xsVar, xsWire>>

XsNext == XsRegister \/ XsValidate \/ XsSerialize \/ XsSend \/ XsReceive \/ XsDeserialize

---------------------------------------------------------------------------
(* What a document means, said without values and messages.                *)

RECURSIVE Meaningful(_, _)
RECURSIVE Meant(_, _)

\* Numbers that the type can hold.
Holds(type, n) ==
    /\ Wrap(type, n) = n
    /\ type \in Unsigned => n >= 0
    /\ type = "b" => n \in {0, 1}

\* The text is one of the type: as for the scalar types of XML schema.
IsTextOf(t, type) ==
    /\ t # NoText
    /\ \/ type \in Texts
       \/ type = "b" /\ t \in {Word("true"), Word("false")}
       \/ IsNumeral(t) /\ Holds(type, t.n)

\* The document is one of the type, and arrays are of what is implemented:
\* strings, bytes and dicts.
Meaningful(node, type) ==
    CASE type.class = "scalar" -> IsTextOf(node.text, type.type)
      [] type.class = "flag" -> node.text = NoText
      [] type.class = "enum" ->
           /\ node.text # NoText
           /\ IF IsNumeral(node.text) THEN Holds(type.type, node.text.n)
              ELSE node.text.w \in DOMAIN type.names
      [] type.class = "bitmap" ->
           \A i \in DOMAIN node.children : node.children[i].name \in DOMAIN type.names
      [] type.class = "uuid" -> node.text.form = "uuid"
      [] type.class = "array" ->
           /\ type.element.class = "dict" \/ type.element \in {Scalar("s"), Scalar("y")}
           /\ \A i \in DOMAIN node.children : Meaningful(node.children[i], type.element)
      [] type.class = "dict" ->
           /\ validate_dict(node, type)
           /\ \A i \in DOMAIN node.children :
                Knows(type, node.children[i].name) =>
                  Meaningful(node.children[i], dict_info_find(type, node.children[i].name))
      [] type.class = "union" ->
           /\ node.kind \in DOMAIN type.kinds
           /\ IF type.kinds[node.kind] = Void THEN node.text = NoText /\ node.children = <<>>
              ELSE Meaningful(node, type.kinds[node.kind])
      [] OTHER -> FALSE

\* The same document written the one way numbers, bits and element names are
\* written, without what the schema does not know.
Meant(node, type) ==
    LET bare == XNode(node.name, "", NoText, <<>>)
        known == SelectSeq(node.children, LAMBDA c : Knows(type, c.name))
        names == {node.children[i].name : i \in DOMAIN node.children}
        byBit == SetToSortSeq(names, LAMBDA a, b : type.names[a] < type.names[b])
        renamed(c) == [c EXCEPT !.name = type.name]
        written(t, ty) == CASE ~IsNumeral(t) \/ ty \in Texts -> t
                            [] ty = "b" -> Word(IF t.n = 1 THEN "true" ELSE "false")
                            [] ty = "y" -> Hex(t.n)
                            [] OTHER -> Dec(t.n)
    IN  CASE type.class = "scalar" -> [bare EXCEPT !.text = written(node.text, type.type)]
          [] type.class = "flag" -> bare
          [] type.class = "enum" ->
               [bare EXCEPT !.text = IF IsNumeral(node.text)
                                     THEN format_mapped(node.text.n, type.names)
                                     ELSE node.text]
          [] type.class = "bitmap" ->
               [bare EXCEPT !.children =
                  [i \in DOMAIN byBit |-> XNode(byBit[i], "", NoText, <<>>)]]
          [] type.class = "uuid" -> [bare EXCEPT !.text = node.text]
          [] type.class = "array" ->
               [bare EXCEPT !.children =
                  [i \in DOMAIN node.children |->
                     Meant(renamed(node.children[i]), type.element)]]
          [] type.class = "dict" ->
               [bare EXCEPT !.children =
                  [i \in DOMAIN known |->
                     Meant(known[i], dict_info_find(type, known[i].name))]]
          [] type.class = "union" ->
               IF type.kinds[node.kind] = Void THEN [bare EXCEPT !.kind = node.kind]
               ELSE [Meant(node, type.kinds[node.kind]) EXCEPT !.kind = node.kind]

\* The types of the arguments that a call can have: an object path is sent as
\* the string it was parsed as and a flag as a byte, which the signatures of
\* their methods are not.
Callable(type) == HasSignature(type) /\ type \notin {FlagType, Scalar("o")}

RECURSIVE Complete(_, _, _)

\* No child of a dict and no member of an array is missing.
Complete(node, back, type) ==
    LET known == SelectSeq(node.children, LAMBDA c : Knows(type, c.name))
    IN  CASE type.class = "array" ->
               /\ Len(back.children) = Len(node.children)
               /\ \A i \in DOMAIN node.children :
                    Complete(node.children[i], back.children[i], type.element)
          [] type.class = "dict" ->
               /\ Len(back.children) = Len(known)
               /\ \A i \in DOMAIN known :
                    Complete(known[i], back.children[i], dict_info_find(type, known[i].name))
          [] type.class = "union" -> Complete(node, back, type.kinds[node.kind])
          [] OTHER -> TRUE

(* What arrives is what was meant.  A document of a type that a call can   *)
(* have passes the check, becomes a value, then a message, the dispatcher  *)
(* finds the signature it expects (dbus-server.c:694), and the receiver    *)
(* builds the same document, with every child of every dict and every      *)
(* member of an array in its place (dbus-xml.c, dbus-message.c).  Whatever *)
(* the document, what cannot be represented is refused before it is sent,  *)
(* the receiver never meets a message of ours that it cannot decode, none  *)
(* ends a dict silently half way, and what the dispatcher refuses are the  *)
(* types no call can have.                                                 *)
ArrivesAsMeant ==
    /\ Callable(xsType) /\ Meaningful(xsNode, xsType) =>
          /\ xsJob \notin {"unregistered", "failed", "refused"}
          /\ xsJob = "over" => xsBack = Meant(xsNode, xsType)
    /\ xsJob = "over" => Complete(xsNode, xsBack, xsType)
    /\ xsJob \in {"unregistered", "failed"} => xsWire = NoWire
    /\ xsJob = "refused" => ~Callable(xsType)
=============================================================================
