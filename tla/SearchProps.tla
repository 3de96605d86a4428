---------------------------- MODULE SearchProps ----------------------------
(***************************************************************************)
(* What is claimed of Search.  The meaning of a query is written down from *)
(* the query alone, with no clauses and no sub-queries.                    *)
(***************************************************************************)
EXTENDS Search

\* The search has come to an end, this one.
Answered(outcome) == stage = "answered" /\ answer.outcome = outcome

\* Some word of field `field` is the word, or close to it, or begins with it.
Resembles(word, field, doc) ==
    /\ field \in DOMAIN doc
    /\ \E term \in Terms(IndexSchema, field, doc[field]) :
          \/ term = word
          \/ Length[word] \in 3 .. 5 /\ Distance[word][term] <= 1
          \/ Length[word] > 5 /\ Distance[word][term] <= 2
          \/ Length[word] > 1 /\ term \in Extensions[word]

\* The document is indexed under exactly this value.
Carries(doc, field, value) ==
    field \in DOMAIN doc /\ value \in Terms(IndexSchema, field, doc[field])

\* The words of a text that count, in the fields that are to hold them.
TextIsFound(q, doc) ==
    LET words == Tokenize(q.text) IN
    \A i \in DOMAIN words : i <= MaxQueryTokens =>
        \E field \in q.text_fields : Resembles(words[i], field, doc)

\* Something in the query says what is looked for, and is not just an exclusion.
IsWanted(q, doc) ==
    \/ q.text_fields # {} /\ CapTokens(Tokenize(q.text)) # {}
    \/ \E w \in q.where : w.occur \notin {"must_not", "should"}
    \/ \E w \in q.where : w.occur = "should" /\ Carries(doc, w.field, w.value)
    \/ \E g \in q.in : g.values # {}

\* The query holds of the document.
Meant(q, doc) ==
    /\ q.text_fields # {} => TextIsFound(q, doc)
    /\ \A w \in q.where :
          /\ w.occur = "must_not" => ~Carries(doc, w.field, w.value)
          /\ w.occur \notin {"must_not", "should"} => Carries(doc, w.field, w.value)
    /\ \A g \in q.in : g.values # {} => \E value \in g.values : Carries(doc, g.field, value)
    /\ IsWanted(q, doc)

(***************************************************************************)
(* Every hit is a document the query holds of, with the fields it had in   *)
(* the snapshot that was searched, whatever the watcher loaded meanwhile   *)
(* (query.rs search: one `searcher` for the search and for the reads).     *)
(***************************************************************************)
HitsAreMeant ==
    Answered("ok") => \A hit \in answer.hits :
        /\ hit.addr \in DOMAIN searcher
        /\ hit.fields = searcher[hit.addr]
        /\ Meant(query, hit.fields)
        /\ hit.score >= query.min_score

(***************************************************************************)
(* Nothing better is left out: a document the query holds of is missing    *)
(* from the hits only if it scores too little, or if the capped limit is   *)
(* used up by documents that score no less (query.rs: min_score is applied *)
(* after the collector has cut the list).  In which order the hits are     *)
(* listed is not modelled.                                                 *)
(***************************************************************************)
BestHitsKept ==
    Answered("ok") /\ query.limit # 0 =>
        LET returned == {hit.addr : hit \in answer.hits}
            limit    == CappedLimit(query.limit)
        IN
        /\ Cardinality(returned) <= limit
        /\ \A a \in DOMAIN searcher \ returned : Meant(query, searcher[a]) =>
              \/ score[a] < query.min_score
              \/ /\ Cardinality(returned) = limit
                 /\ \A b \in returned : score[b] >= score[a]

(***************************************************************************)
(* No typo goes unnoticed: a query that names a field the index does not   *)
(* have throws, wherever it names it, also without text, without values or *)
(* with limit 0 (query.rs, the comment on text_fields;                     *)
(* ClientInterface.php: a typo in text_fields, where or in throws).        *)
(***************************************************************************)
UnknownFieldThrows ==
    stage = "answered" /\ query # Malformed =>
        LET named == query.text_fields \cup {w.field : w \in query.where} \cup {g.field : g \in query.in}
        IN  (\E field \in named : ~HasField(IndexSchema, field)) <=> answer.outcome = "query"

(***************************************************************************)
(* The library refuses only what cannot be searched: a search that does    *)
(* not name a stored-only field never trips over the library's assertion   *)
(* on the limit or its memory (query.rs capped_limit, `input.limit == 0`). *)
(***************************************************************************)
OnlyUnindexedIsRefused ==
    Answered("library") =>
        \E field \in query.text_fields \cup {w.field : w \in query.where} \cup {g.field : g \in query.in} :
            HasKind(IndexSchema, field, "attribute")
=============================================================================
