-------------------------- MODULE VariantOwnership --------------------------
(***************************************************************************)
(* Reference ownership in the container codecs of                          *)
(* src/network/gio-helpers/variant.h.  Codec<std::map<std::string,         *)
(* Variant>>::decode_argument and Codec<std::vector<Variant>>::            *)
(* decode_argument walk a container with g_variant_iter_loop and wrap each *)
(* child in a Variant (a shared GVariantPtr built by make_gvariant_ptr).   *)
(*                                                                         *)
(* g_variant_iter_loop returns a new reference to the next child, and it   *)
(* unrefs the value it returned before on the next call and on the last    *)
(* one (the call that returns FALSE).  Copies of a Variant share one       *)
(* GVariantPtr, so they own a single reference between them and are not    *)
(* modelled.                                                               *)
(*                                                                         *)
(* The decoded container comes from one of two origins.  From the bus      *)
(* ("bus"), it holds one reference to each child and the input Variant     *)
(* holds the only reference to it; a bus a{sv} may repeat a key.  Encoded  *)
(* here ("encoded"), it is a TypedVariant built by Codec::encode_argument  *)
(* from a std::map or std::vector of scalar Variants, which stay alive     *)
(* until the caller drops them; a std::map has distinct keys.              *)
(*                                                                         *)
(* make_gvariant_ptr (gio-helpers/util.h) is not part of this tree.  It    *)
(* has one of two plausible contracts, and MakePtrContract picks one:      *)
(*   "sink_floating": ref-sink a floating value, else adopt the caller's   *)
(*                    reference;                                           *)
(*   "ref_sink":      always g_variant_ref_sink, which takes a new         *)
(*                    reference of a value that is not floating.           *)
(* Iterated children are never floating.                                   *)
(***************************************************************************)
EXTENDS Integers, FiniteSets, Bags

CONSTANTS NChildren,        \* children of the decoded container
          Keys,             \* dictionary keys of the vardict's children
          Decoders,         \* subset of {"vardict", "av"}
          MakePtrContract,  \* "sink_floating" or "ref_sink"
          None

ASSUME NChildren \in Nat \ {0}
ASSUME Decoders \subseteq {"vardict", "av"} /\ Decoders /= {}
ASSUME MakePtrContract \in {"sink_floating", "ref_sink"}

Cont == 0                   \* the container
Children == 1..NChildren
Objs == {Cont} \cup Children

VARIABLES decoder,   \* which decode_argument runs
          origin,    \* "bus" or "encoded"
          srcVals,   \* the encoded std::map or std::vector is alive
          key,       \* key[c]: the key of child c in a vardict
          rc,        \* rc[o]: GLib reference count of o
          srcHeld,   \* the input Variant (owner of the container) is alive
          dict,      \* the decoded std::map: key -> object, or None
          held,      \* bag of objects owned by the decoded std::vector
          val,       \* the value g_variant_iter_loop last returned, or None
          idx,       \* next child the encoder adds or the iterator returns
          pc         \* "encode", "loop", "body" or "done"

vars == <<decoder, origin, srcVals, key, rc, srcHeld, dict, held, val, idx, pc>>

\* g_variant_unref; the last unref of the container releases its children.
Unref(r, o) ==
    IF o = Cont /\ r[Cont] = 1
      THEN [c \in Objs |-> IF c = Cont THEN 0 ELSE r[c] - 1]
      ELSE [r EXCEPT ![o] = @ - 1]

\* make_gvariant_ptr on a value that is not floating: the references it adds.
MakePtrRefs == IF MakePtrContract = "ref_sink" THEN 1 ELSE 0

\* TypedVariant<T>(value) for scalar T: encode_argument returns a new
\* floating value (g_variant_new_boolean, _string, _byte, _int32) and
\* make_gvariant_ptr sinks it under either contract.  The children exist,
\* each owned by one Variant; the container does not exist yet.
BuiltValues == [o \in Objs |-> IF o = Cont THEN 0 ELSE 1]

Init ==
    /\ decoder \in Decoders
    /\ origin \in {"bus", "encoded"}
    /\ key \in [Children -> Keys]
    /\ origin = "encoded" =>
         \A c, d \in Children : c /= d => key[c] /= key[d]
    /\ rc = IF origin = "bus" THEN [o \in Objs |-> 1] ELSE BuiltValues
    /\ srcHeld = (origin = "bus")
    /\ srcVals = (origin = "encoded")
    /\ dict = [k \in Keys |-> None]
    /\ held = EmptyBag
    /\ val = None
    /\ idx = 1
    /\ pc = IF origin = "bus" THEN "loop" ELSE "encode"

\* g_variant_builder_add(&builder, "{sv}", key, value): g_variant_new_variant
\* takes a reference to the non-floating value.
VardictAdd == rc' = [rc EXCEPT ![idx] = @ + 1]

\* g_variant_builder_add(&builder, "v", value): the same reference.
AvAdd == rc' = [rc EXCEPT ![idx] = @ + 1]

\* encode_argument's loop over the input Variants.
EncodeAdd ==
    /\ pc = "encode" /\ idx <= NChildren
    /\ IF decoder = "vardict" THEN VardictAdd ELSE AvAdd
    /\ idx' = idx + 1
    /\ UNCHANGED <<decoder, origin, srcVals, key, srcHeld, dict, held, val, pc>>

\* g_variant_builder_end returns the floating container, and TypedVariant's
\* make_gvariant_ptr sinks it: the new Variant owns its only reference.
\* Its as<T>() then starts decode_argument.
EncodeEnd ==
    /\ pc = "encode" /\ idx > NChildren
    /\ rc' = [rc EXCEPT ![Cont] = 1]
    /\ srcHeld' = TRUE
    /\ idx' = 1
    /\ pc' = "loop"
    /\ UNCHANGED <<decoder, origin, srcVals, key, dict, held, val>>

\* while (g_variant_iter_loop(&iter, fmt, ..., &val)): free the previous
\* value, then return the next child or FALSE at the end.
IterLoop ==
    /\ pc = "loop"
    /\ LET r == IF val = None THEN rc ELSE Unref(rc, val)
       IN IF idx <= NChildren
            THEN /\ rc' = [r EXCEPT ![idx] = @ + 1]
                 /\ val' = idx
                 /\ idx' = idx + 1
                 /\ pc' = "body"
            ELSE /\ rc' = r
                 /\ val' = None
                 /\ pc' = "done"
                 /\ UNCHANGED idx
    /\ UNCHANGED <<decoder, origin, srcVals, key, srcHeld, dict, held>>

\* Mutant: the vardict body without the g_variant_ref.
VardictBodyNoRef ==
    LET old == dict[key[val]]
        r   == [rc EXCEPT ![val] = @ + MakePtrRefs]
    IN /\ rc' = IF old = None THEN r ELSE Unref(r, old)
       /\ dict' = [dict EXCEPT ![key[val]] = val]
       /\ UNCHANGED held

\* value[key] = Variant::fromGVariant(g_variant_ref(val)); the move
\* assignment releases the Variant an earlier child with the same key left.
VardictBody ==
    LET old == dict[key[val]]
        r   == [rc EXCEPT ![val] = @ + 1 + MakePtrRefs]
    IN /\ rc' = IF old = None THEN r ELSE Unref(r, old)
       /\ dict' = [dict EXCEPT ![key[val]] = val]
       /\ UNCHANGED held

\* values.push_back(Variant::fromGVariant(val));
AvBody ==
    /\ rc' = [rc EXCEPT ![val] = @ + MakePtrRefs]
    /\ held' = held (+) SetToBag({val})
    /\ UNCHANGED dict

Body ==
    /\ pc = "body"
    /\ IF decoder = "vardict" THEN VardictBody ELSE AvBody
    /\ pc' = "loop"
    /\ UNCHANGED <<decoder, origin, srcVals, key, srcHeld, val, idx>>

\* The decoded std::map or std::vector goes out of scope: every Variant in
\* it releases its reference ...
DropDecoded ==
    /\ pc = "done"
    /\ dict /= [k \in Keys |-> None] \/ held /= EmptyBag
    /\ rc' = [o \in Objs |->
                rc[o] - CopiesIn(o, held) - Cardinality({k \in Keys : dict[k] = o})]
    /\ dict' = [k \in Keys |-> None]
    /\ held' = EmptyBag
    /\ UNCHANGED <<decoder, origin, srcVals, key, srcHeld, val, idx, pc>>

\* ... and the input Variant releases the container, in either order.
DropSource ==
    /\ pc = "done"
    /\ srcHeld
    /\ srcHeld' = FALSE
    /\ rc' = Unref(rc, Cont)
    /\ UNCHANGED <<decoder, origin, srcVals, key, dict, held, val, idx, pc>>

\* The caller drops the encoded std::map or std::vector, at any point once
\* encode_argument has returned: each of its Variants releases its value.
DropValues ==
    /\ srcVals /\ pc /= "encode"
    /\ srcVals' = FALSE
    /\ rc' = [o \in Objs |-> IF o = Cont THEN rc[o] ELSE rc[o] - 1]
    /\ UNCHANGED <<decoder, origin, key, srcHeld, dict, held, val, idx, pc>>

\* Everything has been dropped.
Finished ==
    /\ pc = "done" /\ ~srcHeld /\ ~srcVals /\ held = EmptyBag
    /\ \A k \in Keys : dict[k] = None
    /\ UNCHANGED vars

Next ==
    \/ EncodeAdd \/ EncodeEnd
    \/ IterLoop \/ Body \/ DropDecoded \/ DropSource \/ DropValues \/ Finished

Spec == Init /\ [][Next]_vars

-----------------------------------------------------------------------------
\* The references that somebody owns and will release: the decoded
\* Variants, the input Variant (the container), the container (each child
\* while it is alive), the iterator (its last returned value), the encoded
\* std::map or std::vector (each child), and the builder (each child added).
Owners(o) ==
    CopiesIn(o, held) + Cardinality({k \in Keys : dict[k] = o})
    + (IF srcHeld THEN 1 ELSE 0)
    + (IF val = o THEN 1 ELSE 0)
    + (IF srcVals /\ o \in Children THEN 1 ELSE 0)
    + (IF pc = "encode" /\ o \in Children /\ o < idx THEN 1 ELSE 0)

\* Every reference count equals the references its owners hold, at every
\* step of decoding and of the later release in any order: no owner is
\* left with a freed value (the Variant the decoder builds outlives
\* g_variant_iter_loop's next call) and nothing leaks.
RefsAccounted == \A o \in Objs : rc[o] = Owners(o)

\* No owner ever holds more references than the object has: a Variant built
\* by the decoder never points at a freed or soon-to-be-freed GVariant.
NoUseAfterFree == \A o \in Objs : rc[o] >= Owners(o)

=============================================================================
