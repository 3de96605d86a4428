------------------------------ MODULE MCSearch ------------------------------
(***************************************************************************)
(* A small instance of Search: three documents, a ceiling of two tokens,   *)
(* words on both sides of every length that fuzzy_distance tells apart.    *)
(***************************************************************************)
EXTENDS SearchProps, TLC

MCSchema == BuildSchema([text |-> <<"title">>, keys |-> <<"id", "visibility">>, attributes |-> <<"url">>])

MCTokens == ("reset password" :> {"reset", "password"}) @@ ("reset" :> {"reset"})
            @@ ("password" :> {"password"})

Doc1 == [id |-> "1", title |-> "reset password", visibility |-> "public"]
Doc2 == [id |-> "2", title |-> "reset", visibility |-> "private", url |-> "/2"]
Doc3 == [id |-> "3", title |-> "password", visibility |-> "public"]

MCSnapshots == {<<Doc1, Doc2>>, <<Doc3, Doc1, Doc2>>, <<Doc2>>}

\* One word of each length class, and how it relates to the terms.
MCLength == ("re" :> 2) @@ ("ret" :> 3) @@ ("rest" :> 4) @@ ("reset" :> 5) @@ ("pasvord" :> 7)
            @@ ("xyz" :> 3) @@ ("1" :> 1)

Terms1 == {<<"rest", "reset">>}
Terms2 == {<<"ret", "reset">>, <<"pasvord", "password">>}
MCTerms == {"reset", "password", "1", "2", "3"}

MCDistance ==
    [w \in DOMAIN MCLength |-> [t \in MCTerms |->
        IF w = t THEN 0 ELSE IF <<w, t>> \in Terms1 THEN 1 ELSE IF <<w, t>> \in Terms2 THEN 2 ELSE 9]]

MCExtensions ==
    [w \in DOMAIN MCLength |-> IF w \in {"re", "reset"} THEN {"reset"} ELSE {}]

MCLowercase ==
    ("" :> << >>) @@ ("Reset" :> <<"reset">>) @@ ("Pasvord, re" :> <<"pasvord", ", ", "re">>)
    @@ (" RET" :> <<" ", "ret">>) @@ ("rest 1 xyz" :> <<"rest", " ", "1", " ", "xyz">>)
    @@ ("xyz" :> <<"xyz">>)
MCSeparators == {" ", ", "}

MCScores == 0 .. 1

\* Parts of queries; a query is made of one of each.
Texts ==
    {<< >>,
     [text |-> "Reset", text_fields |-> {"title"}],
     [text |-> "Pasvord, re", text_fields |-> {"title"}],
     [text |-> " RET", text_fields |-> {"title"}],
     [text |-> "rest 1 xyz", text_fields |-> {"title", "id"}],
     [text |-> "xyz"],
     [text_fields |-> {"title"}],
     [text |-> "Reset", text_fields |-> {"title", "url"}]}

Filter(field, value, occur) == [field |-> field, value |-> value, occur |-> occur]

Wheres ==
    {<< >>,
     [where |-> {Filter("visibility", "public", "")}],
     [where |-> {Filter("visibility", "public", "must_not")}],
     [where |-> {Filter("id", "2", "should"), Filter("visibility", "public", "should")}],
     [where |-> {Filter("visibility", "public", "must"), Filter("title", "reset", "must_not")}]}

Ins ==
    {<< >>,
     [in |-> {[field |-> "id", values |-> {"1", "2"}]}],
     [in |-> {[field |-> "visibility", values |-> {}]}]}

Limits == {<< >>, [limit |-> 0], [limit |-> 1], [limit |-> 5, min_score |-> 1]}

\* Each section once with a name the schema does not have.
Typos ==
    {[text_fields |-> {"titel"}],
     [text |-> "Reset", text_fields |-> {"title", "titel"}],
     [text |-> "Reset", text_fields |-> {"title"}, where |-> {Filter("titel", "reset", "should")}],
     [in |-> {[field |-> "titel", values |-> {}]}, limit |-> 0]}

MCQueries == {t @@ w @@ i @@ l : t \in Texts, w \in Wheres, i \in Ins, l \in Limits}
             \cup Typos \cup {Malformed}
=============================================================================
