--------------------------- MODULE MCSharedIndex ---------------------------
(***************************************************************************)
(* A small instance of SharedIndex: one text field, one key, one           *)
(* attribute, two words.                                                   *)
(***************************************************************************)
EXTENDS SharedIndexProps, TLC

CONSTANTS p1, p2

MCNames == {"id", "title", "url"}
MCValues == {"a", "b", "a b"}
MCTokens == [v \in MCValues |-> IF v = "a b" THEN {"a", "b"} ELSE {v}]

Good == [fields  |-> [text |-> <<"title">>, keys |-> <<"id">>, attributes |-> <<"url">>],
         idField |-> "id", heapOk |-> TRUE]

\* Configs that differ from Good: in the fields, in the id
\* field, in a name declared twice, in a heap too small for a writer.
OtherFields == [Good EXCEPT !.fields = [text |-> << >>, keys |-> <<"id">>, attributes |-> <<"url">>]]
NoSuchId    == [Good EXCEPT !.idField = "sku"]
TextId      == [Good EXCEPT !.idField = "title"]
TwiceNamed  == [Good EXCEPT !.fields.attributes = <<"url", "id">>]
SmallHeap   == [Good EXCEPT !.heapOk = FALSE]

JsonText(v) == [type |-> "string", text |-> v]
JsonNumber(v) == [type |-> "number", text |-> v]
JsonNull == [type |-> "null"]

DocA == [id |-> JsonText("a"), title |-> JsonText("a b")]
DocB == [id |-> JsonNumber("b"), title |-> JsonText("b"), url |-> JsonNull]

OneProcess == {p1}
TwoProcesses == {p1, p2}

OnlyGood == {Good}
BothHeaps == {Good, SmallHeap}
ManyConfigs == {Good, OtherFields, NoSuchId, TwiceNamed, SmallHeap}
GoodAndTextId == {Good, TextId}
OnlyDocA == {DocA}
TwoDocuments == {DocA, DocB}
WithNonObject == {DocA, None}

ExactKeys == {<<"id", "a">>}
AnyKeys == {<<"id", "a">>, <<"title", "b">>}

AllFaults == FaultPoints
NoLockFault == FaultPoints \ {"lock"}
TitleIsMarked == {"title"}

LockFault == {"lock"}
AddFault == {"add"}

Symmetry == Permutations({p1, p2})
=============================================================================
