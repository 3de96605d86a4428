---------------------------- MODULE WriteBuffer ----------------------------
(***************************************************************************)
(* What a tantivy IndexWriter holds between two commits, as writer.rs uses *)
(* it: documents added, and delete terms.  Every operation takes the next  *)
(* stamp (tantivy's opstamp); a delete term reaches only the documents     *)
(* with a smaller stamp, committed before or waiting in the same buffer.   *)
(* Nothing is applied until Committed computes what a commit publishes.    *)
(***************************************************************************)
EXTENDS Schema

CONSTANT Names     \* field names that occur in documents and key arguments

CONSTANT Values    \* what a field of a document can hold

EmptyBuffer == [adds |-> {}, dels |-> {}]

\* The fields of a document: some names, each with a value.
Contents == UNION {[S -> Values] : S \in SUBSET Names}

Docs == [stamp : Nat, fields : Contents]

DeleteTerms == [stamp : Nat, field : Names, value : Values]

Buffers == [adds : SUBSET Docs, dels : SUBSET DeleteTerms]

\* parse_doc: the members of a JSON object that the schema knows and that are
\* not null.  Strings, numbers and booleans all end up as their text.
ParseDoc(schema, object) ==
    [name \in {n \in DOMAIN object : HasField(schema, n) /\ object[n].type # "null"}
        |-> object[name].text]

\* IndexWriter::add_document
PushDocument(buffer, stamp, fields) ==
    [buffer EXCEPT !.adds = @ \cup {[stamp |-> stamp, fields |-> fields]}]

\* IndexWriter::delete_term
PushDelete(buffer, stamp, field, value) ==
    [buffer EXCEPT !.dels = @ \cup {[stamp |-> stamp, field |-> field, value |-> value]}]

Deletes(schema, del, doc) ==
    /\ doc.stamp < del.stamp
    /\ del.field \in DOMAIN doc.fields
    /\ del.value \in Terms(schema, del.field, doc.fields[del.field])

\* The documents of the index once `buffer` is committed on top of `docs`.
Committed(schema, docs, buffer) ==
    {doc \in docs \cup buffer.adds :
        \A del \in buffer.dels : ~Deletes(schema, del, doc)}
=============================================================================
