--------------------------- MODULE VariantBuffer ---------------------------
(***************************************************************************)
(* The memory of a D-Bus array or dict (dborb/dbus-common.c).  A variant   *)
(* stores the number of its elements and not the size of its buffer: how   *)
(* much is allocated is worked out from the length, by rounding up to a    *)
(* whole number of chunks.  That must not be more than what was allocated, *)
(* whatever was appended, set, refused or deleted before.                  *)
(*                                                                         *)
(* The program has NI_DBUS_ARRAY_CHUNK = 32.  An element is its key; the   *)
(* elements of an array have no key and are all alike.                     *)
(***************************************************************************)
EXTENDS Integers, Sequences

CONSTANTS
    Chunk,      \* NI_DBUS_ARRAY_CHUNK
    Keys,       \* keys of dict entries
    MaxLength   \* bound: elements of an array

ASSUME ChunkAssumption == Chunk \in Nat \ {0}
ASSUME KeysAssumption == Keys # {}
ASSUME MaxLengthAssumption == MaxLength \in Nat

VARIABLES
    elements,   \* the elements: var->array.len is their number
    allocated,  \* how many elements the buffer has room for; 0: no buffer
    highest     \* one past the last element that was ever written to this buffer

bufferVars == <<elements, allocated, highest>>

\* NI_DBUS_ARRAY_ALLOCATION
ARRAY_ALLOCATION(len) == ((len + Chunk - 1) \div Chunk) * Chunk

\* Mutant: a buffer is allocated for the elements there are.
array_grow_OneShort(len, size, grow_by) ==
    IF len + grow_by >= ARRAY_ALLOCATION(len) THEN ARRAY_ALLOCATION(len) ELSE size

\* __ni_dbus_array_grow: the room there is after growing by so many elements.
array_grow(len, size, grow_by) ==
    IF len + grow_by >= ARRAY_ALLOCATION(len) THEN ARRAY_ALLOCATION(len + grow_by) ELSE size

BufferInit ==
    /\ elements = <<>>
    /\ allocated = 0
    /\ highest = 0

\* Writing the element at an index, counted from 0, of the buffer.
Written(size, index) ==
    /\ allocated' = size
    /\ highest' = IF index + 1 > highest \/ size # allocated THEN index + 1 ELSE highest

\* ni_dbus_dict_add, ni_dbus_variant_append_string_array, struct_add,
\* dict_array_add, array_array_add, append_variant_element: one more element.
AppendElement(key) ==
    /\ Len(elements) < MaxLength
    /\ elements' = Append(elements, key)
    /\ Written(array_grow(Len(elements), allocated, 1), Len(elements))

\* ni_dbus_variant_array_parse_and_append_string on a text that is no number:
\* the array has grown and the element is written, and it is not counted.
AppendRefused ==
    /\ Len(elements) < MaxLength
    /\ Written(array_grow(Len(elements), allocated, 1), Len(elements))
    /\ UNCHANGED elements

\* ni_dbus_variant_set_byte_array, set_string_array: the old buffer is freed
\* and the new one grown from nothing; without elements it is an empty one.
SetArray(len) ==
    /\ elements' = [i \in 1..len |-> CHOOSE k \in Keys : TRUE]
    /\ allocated' = array_grow(0, 0, len)
    /\ highest' = len

\* ni_dbus_dict_delete_entry: the entries behind the first one of the key
\* move down, the buffer stays.
DeleteEntry(key) ==
    \E i \in DOMAIN elements :
        /\ elements[i] = key
        /\ \A j \in 1..(i - 1) : elements[j] # key
        /\ elements' = SubSeq(elements, 1, i - 1) \o SubSeq(elements, i + 1, Len(elements))
        /\ UNCHANGED <<allocated, highest>>

\* ni_dbus_variant_destroy
Destroyed ==
    /\ elements' = <<>>
    /\ allocated' = 0
    /\ highest' = 0

BufferNext ==
    \/ \E key \in Keys : AppendElement(key) \/ DeleteEntry(key)
    \/ AppendRefused
    \/ \E len \in 0..MaxLength : SetArray(len)
    \/ Destroyed

BufferSpec == BufferInit /\ [][BufferNext]_bufferVars

---------------------------------------------------------------------------

(* Nothing was ever written behind the end of the buffer, and the size     *)
(* that is worked out from the length is never more than the buffer has:   *)
(* otherwise the next append would not grow it and write behind its end    *)
(* (__ni_dbus_array_grow, ni_dbus_dict_delete_entry).                      *)
BufferFits ==
    /\ highest <= allocated
    /\ ARRAY_ALLOCATION(Len(elements)) <= allocated
=============================================================================
