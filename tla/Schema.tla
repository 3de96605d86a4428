------------------------------- MODULE Schema -------------------------------
(***************************************************************************)
(* The index schema: how the three buckets of a FieldsDescriptor become    *)
(* fields, which of them are exact keys, and which terms each one is       *)
(* indexed under (crates/tantivy-core/src/schema.rs and the tantivy field  *)
(* options it names).                                                      *)
(*                                                                         *)
(* A schema is the SEQUENCE of its field entries: tantivy compares schemas *)
(* entry by entry, so the same fields declared in another order are        *)
(* another schema.                                                         *)
(***************************************************************************)
EXTENDS Sequences, Naturals

CONSTANT Tokens   \* Tokens[v]: the words the "default" tokenizer cuts text v into

Kinds == {"text", "key", "attribute"}

\* One bucket of the descriptor: each of its names, in order, with that kind.
Bucket(names, kind) == [i \in DOMAIN names |-> [name |-> names[i], kind |-> kind]]

\* build_schema: text fields first, then keys, then attributes.
BuildSchema(fields) ==
    Bucket(fields.text, "text") \o Bucket(fields.keys, "key")
                                \o Bucket(fields.attributes, "attribute")

\* The schema builder panics on a name that is already declared, in the same
\* bucket or in another.
DeclaredTwice(schema) ==
    \E i, j \in DOMAIN schema : i # j /\ schema[i].name = schema[j].name

\* Schema::get_field succeeds.
HasField(schema, name) == \E i \in DOMAIN schema : schema[i].name = name

HasKind(schema, name, kind) == [name |-> name, kind |-> kind] \in {schema[i] : i \in DOMAIN schema}

\* field_is_exact_key: indexed with the "raw" tokenizer, i.e. from the bucket `keys`.
FieldIsExactKey(schema, name) == HasKind(schema, name, "key")

\* The terms under which a document whose field `name` holds `value` is found.
\* TEXT indexes the words, STRING the value as one term, STORED alone nothing.
Terms(schema, name, value) ==
    IF HasKind(schema, name, "key") THEN {value}
    ELSE IF HasKind(schema, name, "text") THEN Tokens[value]
    ELSE {}
=============================================================================
