------------------------------ MODULE Variant ------------------------------
(***************************************************************************)
(* D-Bus values (dborb/dbus-common.c) and what becomes of them in a        *)
(* message (dborb/dbus-message.c, dborb/dbus-dict.c).                      *)
(*                                                                         *)
(* A variant is a record of its type: a basic value has a number or a text *)
(* (num, txt), an array its element signature and its items (elem, items), *)
(* a struct its items.  The items of a dict, an array of "{sv}", are       *)
(* entries of a key and a datum.  A signature is a sequence of single      *)
(* types, "{sv}" being one; the empty sequence is the null pointer.        *)
(* A text is a number written in decimal or in hex, or a word.             *)
(* int32 and wider integers are not bounded here, and double is left out.  *)
(***************************************************************************)
EXTENDS Integers, Sequences, SequencesExt

Dec(n) == [form |-> "dec", n |-> n]
Hex(n) == [form |-> "hex", n |-> n]
Word(w) == [form |-> "word", w |-> w]
IsNumeral(t) == t.form # "word"

Texts == {"s", "o"}
Signed == {"n", "i", "x"}
Unsigned == {"y", "q", "u", "t"}
Basic == Texts \cup Signed \cup Unsigned \cup {"b"}

\* ni_dbus_type_as_string
type_as_string(type) == IF type \in Basic THEN <<type>> ELSE <<>>

\* DBUS_TYPE_INVALID: no value, the outcome of everything that fails.
Invalid == [type |-> "invalid"]
IsValid(v) == v # Invalid

\* A variant that was initialised and not set, which is no failure yet.
Unset == [type |-> "unset"]

Num(type, n) == [type |-> type, num |-> n]
Txt(type, t) == [type |-> type, txt |-> t]
Array(elem, items) == [type |-> "a", elem |-> elem, items |-> items]
Struct(items) == [type |-> "r", items |-> items]
Entry(key, datum) == [key |-> key, datum |-> datum]

DictEntry == <<"{sv}">>                 \* the element of a dict
DictSignature == <<"a", "{sv}">>        \* NI_DBUS_DICT_SIGNATURE

---------------------------------------------------------------------------
(* Setting and reading.                                                    *)

\* What an assignment to the member of a type keeps of a number.
Wrap(type, n) ==
    CASE type = "y" -> n % 256
      [] type = "q" -> n % 65536
      [] type = "n" -> ((n + 32768) % 65536) - 32768
      [] OTHER -> n

\* ni_dbus_variant_set_byte and its like: the type is changed.  set_bool
\* keeps the number, a C int.
set(type, n) == Num(type, Wrap(type, n))
set_string(t) == Txt("s", t)

\* ni_dbus_variant_get_byte and its like: only the very type will do.
get(v, type) == IF v.type = type THEN v ELSE Invalid

\* ni_dbus_variant_get_ulong, get_uint: the cast of any number.
get_ulong(v) == IF v.type \in Basic \ Texts THEN v ELSE Invalid

\* ni_dbus_variant_set_ulong, set_uint: the type stays, the value is cast.
set_ulong(v, n) == IF v.type \in Basic \ Texts THEN set(v.type, n) ELSE Invalid

\* ni_dbus_variant_init_signature, __ni_dbus_init_array_signature
init_signature(sig) ==
    CASE Len(sig) = 1 /\ sig[1] \in Texts -> Txt(sig[1], Word(""))
      [] Len(sig) = 1 /\ sig[1] \in Basic \ Texts -> Num(sig[1], 0)
      [] Len(sig) > 1 /\ sig[1] = "a" -> Array(Tail(sig), <<>>)
      [] OTHER -> Invalid

\* __ni_dbus_is_array
is_array(v, elem) == v.type = "a" /\ v.elem = elem
is_dict(v) == is_array(v, DictEntry)

\* ni_dbus_dict_add and the dict_add_ functions: an entry is added behind the
\* others, also behind one of the same key.
dict_add(dict, key, datum) ==
    IF is_dict(dict) THEN Array(dict.elem, Append(dict.items, Entry(key, datum)))
    ELSE Invalid

\* ni_dbus_dict_array_add
dict_array_add(v, dict) ==
    IF is_array(v, DictSignature) THEN Array(v.elem, Append(v.items, dict)) ELSE Invalid

\* ni_dbus_struct_add, ni_dbus_struct_get
struct_add(v, member) == Struct(Append(v.items, member))
struct_get(v, i) ==
    IF v.type = "r" /\ i \in DOMAIN v.items THEN v.items[i] ELSE Invalid

\* ni_dbus_variant_parse: the value a text has as a basic type.  An object
\* path is stored by set_string, which makes it a string.
parse(t, sig) ==
    CASE Len(sig) # 1 \/ sig[1] \notin Basic -> Invalid
      [] sig[1] \in Texts -> set_string(t)
      [] sig[1] = "b" /\ t = Word("true") -> set("b", 1)
      [] sig[1] = "b" /\ t = Word("false") -> set("b", 0)
      [] IsNumeral(t) -> set(sig[1], t.n)
      [] OTHER -> Invalid

\* ni_dbus_variant_sprint
sprint(v) ==
    CASE v.type \in Texts -> v.txt
      [] v.type = "y" -> Hex(v.num)
      [] v.type = "b" -> Word(IF v.num # 0 THEN "true" ELSE "false")
      [] v.type \in Basic -> Dec(v.num)
      [] v.type = "r" -> Word("<struct>")
      [] OTHER -> Word("<unknown type>")

\* ni_dbus_variant_array_parse_and_append_string: of the scalar types only
\* texts and bytes are written to the array.
array_parse_and_append(v, t) ==
    CASE v.type # "a" -> Invalid
      [] Len(v.elem) # 1 \/ v.elem[1] \notin {"s", "o", "y"} -> Invalid
      [] v.elem[1] \in Texts -> Array(v.elem, Append(v.items, Txt(v.elem[1], t)))
      [] IsNumeral(t) -> Array(v.elem, Append(v.items, set("y", t.n)))
      [] OTHER -> Invalid

\* ni_dbus_variant_array_print_element
array_print_element(v, i) == sprint(v.items[i])

---------------------------------------------------------------------------
(* Signatures.                                                             *)

RECURSIVE signature(_)

\* ni_dbus_variant_signature: there is none for an array of object paths or of
\* integers.
signature(v) ==
    CASE v.type \in Basic -> type_as_string(v.type)
      [] v.type = "a" ->
           IF Len(v.elem) = 1 /\ v.elem[1] \in Basic \ {"y", "s"} THEN <<>>
           ELSE <<"a">> \o v.elem
      [] v.type = "r" ->
           LET sigs == [i \in DOMAIN v.items |-> signature(v.items[i])]
           IN  IF \E i \in DOMAIN sigs : sigs[i] = <<>> THEN <<>>
               ELSE <<"(">> \o FlattenSeq(sigs) \o <<")">>
      [] OTHER -> <<>>

---------------------------------------------------------------------------
(* Messages.  A value in a message is a record too: kind "basic", "array", *)
(* "struct", "entry" or "variant".  A container can be opened for a        *)
(* signature only; libdbus takes no boolean but 0 and 1.                   *)

NoWire == [kind |-> "none"]
WireBasic(v) ==
    IF v.type = "b" /\ v.num \notin {0, 1} THEN NoWire
    ELSE [kind |-> "basic", value |-> v]
WireArray(elem, items) == [kind |-> "array", elem |-> elem, items |-> items]
WireStruct(items) == [kind |-> "struct", items |-> items]
WireEntry(key, item) == [kind |-> "entry", key |-> key, item |-> item]
WireVariant(sig, item) == [kind |-> "variant", sig |-> sig, item |-> item]

\* A container is closed when all its items could be appended.
Whole(items, container) ==
    IF \E i \in DOMAIN items : items[i] = NoWire THEN NoWire ELSE container

RECURSIVE append_value(_, _)

\* ni_dbus_message_iter_append_variant
append_variant(v) == append_value(v, <<"v">>)

\* ni_dbus_message_iter_append_dict, append_dict_entry
append_dict(dict) ==
    LET item(i) == append_variant(dict.items[i].datum)
        entries == [i \in DOMAIN dict.items |->
                      IF item(i) = NoWire THEN NoWire
                      ELSE WireEntry(dict.items[i].key, item(i))]
    IN  Whole(entries, WireArray(DictEntry, entries))

\* append_byte_array, append_string_array, append_object_path_array
append_basic_array(v) ==
    LET items == [i \in DOMAIN v.items |-> WireBasic(v.items[i])]
    IN  Whole(items, WireArray(v.elem, items))

\* ni_dbus_message_iter_append_some_array, append_variant_array
append_some_array(v) ==
    LET items == [i \in DOMAIN v.items |-> append_value(v.items[i], v.elem)]
    IN  Whole(items, WireArray(v.elem, items))

\* ni_dbus_message_iter_append_struct
append_struct(v) ==
    LET items == [i \in DOMAIN v.items |-> append_value(v.items[i], <<>>)]
    IN  Whole(items, WireStruct(items))

\* ni_dbus_message_iter_append_value.  Without a signature, and for a variant,
\* the value must have one of its own.
append_value(v, sig) ==
    LET own == signature(v)
        wire == CASE v.type \in Basic -> WireBasic(v)
                  [] is_dict(v) -> append_dict(v)
                  [] v.type = "a" /\ Len(v.elem) = 1 /\ v.elem[1] \in Basic ->
                       append_basic_array(v)
                  [] v.type = "a" -> append_some_array(v)
                  [] v.type = "r" -> append_struct(v)
                  [] OTHER -> NoWire
    IN  CASE sig \in {<<>>, <<"v">>} /\ own = <<>> -> NoWire
          [] sig = <<"v">> /\ wire # NoWire -> WireVariant(own, wire)
          [] OTHER -> wire

\* dbus_message_get_signature, of a message with one argument: a basic value or
\* an array.
message_signature(wire) ==
    IF wire.kind = "basic" THEN <<wire.value.type>> ELSE <<"a">> \o wire.elem

RECURSIVE get_variant_data(_)

\* ni_dbus_message_iter_get_variant
get_variant(wire) ==
    IF wire.kind = "variant" THEN get_variant_data(wire.item) ELSE Invalid

\* ni_dbus_message_iter_get_dict, ni_dbus_message_get_next_dict_entry: the
\* dict ends at the first entry that cannot be decoded.
get_dict(wire) ==
    LET datum(i) == get_variant(wire.items[i].item)
        good == {n \in 0..Len(wire.items) : \A i \in 1..n : IsValid(datum(i))}
        count == CHOOSE n \in good : \A k \in good : k <= n
    IN  Array(DictEntry, [i \in 1..count |-> Entry(wire.items[i].key, datum(i))])

\* The items of an array or a struct: all of them, or a failure.
get_items(items, container) ==
    IF \A i \in DOMAIN items : IsValid(items[i]) THEN container ELSE Invalid

\* ni_dbus_message_iter_get_array
get_array(wire) ==
    LET data == [i \in DOMAIN wire.items |-> get_variant_data(wire.items[i])]
        variants == [i \in DOMAIN wire.items |-> get_variant(wire.items[i])]
    IN  CASE wire.elem = DictEntry -> get_dict(wire)
          [] wire.elem \in {<<"y">>, <<"s">>, <<"o">>} \/ wire.elem[1] = "a" ->
               get_items(data, Array(wire.elem, data))
          [] wire.elem = <<"v">> -> get_items(variants, Array(wire.elem, variants))
          [] OTHER -> Invalid

\* ni_dbus_message_iter_get_variant_data
get_variant_data(wire) ==
    CASE wire.kind = "basic" -> wire.value
      [] wire.kind = "array" -> get_array(wire)
      [] wire.kind = "struct" ->
           LET data == [i \in DOMAIN wire.items |-> get_variant_data(wire.items[i])]
           IN  get_items(data, Struct(data))
      [] OTHER -> Invalid

\* ni_dbus_message_serialize_variants and ni_dbus_message_get_args_variants,
\* for one argument: the reader drills into a variant.
serialize_variants(v) == append_value(v, <<>>)
get_args_variants(wire) ==
    get_variant_data(IF wire.kind = "variant" THEN wire.item ELSE wire)
=============================================================================
