----------------------------- MODULE MCOpening -----------------------------
(***************************************************************************)
(* A small instance of Opening: three schemas, one of them a reordering of *)
(* another, a name declared twice, and an id field that does not exist.    *)
(***************************************************************************)
EXTENDS Opening, TLC

CONSTANTS p1, p2, p3, d1, d2

Buckets(text, keys, attributes) ==
    [text |-> text, keys |-> keys, attributes |-> attributes]

MCTokens == << >>

Good      == [fields |-> Buckets(<<"title">>, <<"id">>, << >>), idField |-> "id"]
Reordered == [Good EXCEPT !.fields = Buckets(<<"title">>, << >>, <<"id">>)]
Twice     == [Good EXCEPT !.fields = Buckets(<<"title">>, <<"id">>, <<"id">>)]
NoSuchId  == [Good EXCEPT !.idField = "sku"]

MCConfigs == {Good, Reordered, Twice, NoSuchId}

OneBuilder == {p1}
TwoProcesses == {p1, p2}
ThreeProcesses == {p1, p2, p3}

OneDocument == {d1}
TwoDocuments == {d1, d2}

Empty == [schema |-> BuildSchema(Good.fields), docs |-> {}]
OnlyNone == {None}
NoneOrEmpty == {None, Empty}
=============================================================================
