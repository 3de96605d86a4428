------------------------------- MODULE Search -------------------------------
(***************************************************************************)
(* One search at a time on one open handle                                 *)
(* (crates/tantivy-core/src/query.rs): a JSON query becomes the clauses of *)
(* a boolean query, a collector picks the best documents of the snapshot   *)
(* the search took from the reader, and their fields are read back.  While *)
(* that goes on the reader's watcher may load another commit.              *)
(*                                                                         *)
(* External are the words' relations (edit distance, prefixes), the terms  *)
(* of a document (module Schema), the boolean query, the collector and the *)
(* scores, of which nothing is assumed.                                    *)
(***************************************************************************)
EXTENDS Schema, Integers, FiniteSets

CONSTANTS
    IndexSchema,      \* the schema of the handle
    Snapshots,        \* what commits show: sequences of documents; a DocAddress is an index
    Queries,          \* the QueryInputs callers pass, as JSON objects: some keys are absent
    Malformed,        \* a query that is no QueryInput
    Lowercase,        \* Lowercase[text]: the text in lower case, as its runs of characters,
                      \* alphanumeric and not, in order
    Separators,       \* the runs that are not alphanumeric
    Length,           \* Length[w]: the number of characters of a word
    Distance,         \* Distance[w][t]: edits, transpositions included, from word to term
    Extensions,       \* Extensions[w]: the terms that begin with the word
    Scores,           \* the scores the library may give
    Affordable,       \* bound: the largest collector the process has memory for
    MaxResultLimit,   \* 10_000
    MaxQueryTokens,   \* 32
    DefaultLimit,     \* 20
    None              \* no query yet

VARIABLES
    loaded,     \* the snapshot the reader shows
    stage,      \* where the search is: "idle", "collect", "fetch", "answered"
    query,      \* the query being answered, or None
    searcher,   \* the snapshot the search works on
    score,      \* score[a]: what the library gives the document at address a
    top,        \* the addresses the collector returned
    answer      \* what the search returns

vars == <<loaded, stage, query, searcher, score, top, answer>>

Defaults ==
    [text |-> "", text_fields |-> {}, where |-> {}, in |-> {},
     limit |-> DefaultLimit, min_score |-> 0]

-----------------------------------------------------------------------------
(* From the query to clauses *)

\* serde's defaults for the keys that are absent.
QueryInput(raw) ==
    [key \in DOMAIN Defaults |-> IF key \in DOMAIN raw THEN raw[key] ELSE Defaults[key]]

\* tokenize: the lower-cased text is cut at everything that is not alphanumeric.
Tokenize(text) ==
    LET IsWord(run) == run \notin Separators
    IN  SelectSeq(Lowercase[text], IsWord)

\* MUTANT of CapTokens: a query has to match every token.
AllTokens(words) == {words[i] : i \in DOMAIN words}

\* cap_tokens.  Only whether a word occurs matters from here on.
CapTokens(words) == {words[i] : i \in {j \in DOMAIN words : j <= MaxQueryTokens}}

FuzzyDistance(length) == IF length < 3 THEN 0 ELSE IF length <= 5 THEN 1 ELSE 2

\* occur_of: anything unknown is a requirement.
OccurOf(occur) == IF occur \in {"must_not", "should"} THEN occur ELSE "must"

TermQuery(field, term) == [kind |-> "term", field |-> field, term |-> term, distance |-> 0]

\* The sub-queries of one word on one field: exact, fuzzy, prefix.
WordQueries(field, word) ==
    LET sub(kind, edits) == [kind |-> kind, field |-> field, term |-> word, distance |-> edits]
        distance == FuzzyDistance(Length[word])
    IN  {TermQuery(field, word)}
        \cup (IF distance > 0 THEN {sub("fuzzy", distance)} ELSE {})
        \cup (IF Length[word] >= 2 THEN {sub("prefix", 0)} ELSE {})

\* A clause of the top query: a set of sub-queries any of which will do.
Clause(occur, queries) == [occur |-> occur, any |-> queries]

\* MUTANT of TextClauses: a word is required even where it has no sub-queries.
WordsWithoutFields(input) ==
    {Clause("must", UNION {WordQueries(field, word) : field \in input.text_fields}) :
        word \in CapTokens(Tokenize(input.text))}

\* A word without sub-queries is no clause.
TextClauses(input) ==
    {Clause("must", UNION {WordQueries(field, word) : field \in input.text_fields}) :
        word \in IF input.text_fields = {} THEN {} ELSE CapTokens(Tokenize(input.text))}

WhereClauses(input) ==
    {Clause(OccurOf(w.occur), {TermQuery(w.field, w.value)}) : w \in input.where}

\* MUTANT of InClauses: a group is required even where it has no values.
GroupsWithoutValues(input) ==
    {Clause("must", {TermQuery(c.field, value) : value \in c.values}) : c \in input.in}

\* A group without values is no clause.
InClauses(input) ==
    {Clause("must", {TermQuery(c.field, value) : value \in c.values}) :
        c \in {g \in input.in : g.values # {}}}

Clauses(input) == TextClauses(input) \cup WhereClauses(input) \cup InClauses(input)

\* MUTANT of NamesUnknownField: text_fields are looked up inside the loop over
\* the words, and skipped there when unknown.
NamesUnknownFilter(input) ==
    \E item \in input.where \cup input.in : ~HasField(IndexSchema, item.field)

\* Some get_field of the search fails: in text_fields, also when there is no
\* text; in where; in `in`, also when there are no values.
NamesUnknownField(input) ==
    \/ \E field \in input.text_fields : ~HasField(IndexSchema, field)
    \/ \E item \in input.where \cup input.in : ~HasField(IndexSchema, item.field)

CappedLimit(requested) == IF requested <= MaxResultLimit THEN requested ELSE MaxResultLimit

\* MUTANT of NothingToSearch: limit 0 goes to the collector.
NoClauses(input) == Clauses(input) = {}

NothingToSearch(input) == Clauses(input) = {} \/ input.limit = 0

\* The process can afford the largest collector the code asks for.
ASSUME LimitsAssumption ==
    /\ MaxResultLimit \in Nat \ {0} /\ Affordable \in Nat
    /\ MaxResultLimit <= Affordable
    /\ MaxQueryTokens \in Nat

\* What serde lets through has a limit and a score of the right type, a word has a
\* length, and a snapshot is a sequence of documents.
ASSUME DataAssumption ==
    /\ \A raw \in Queries \ {Malformed} :
          /\ QueryInput(raw).limit \in Nat
          /\ QueryInput(raw).min_score \in Int
          /\ \A word \in CapTokens(Tokenize(QueryInput(raw).text)) : Length[word] \in Nat
    /\ \A s \in Snapshots : s \in Seq({s[a] : a \in DOMAIN s})
    /\ Scores \subseteq Int
-----------------------------------------------------------------------------
(* The library *)

SubQueryMatches(sub, doc) ==
    /\ sub.field \in DOMAIN doc
    /\ \E term \in Terms(IndexSchema, sub.field, doc[sub.field]) :
          \/ sub.kind = "term" /\ term = sub.term
          \/ sub.kind = "fuzzy" /\ Distance[sub.term][term] <= sub.distance
          \/ sub.kind = "prefix" /\ term \in Extensions[sub.term]

ClauseMatches(clause, doc) == \E sub \in clause.any : SubQueryMatches(sub, doc)

\* BooleanQuery: every must, no must_not; a should counts when there is no must,
\* and a query of must_not alone finds nothing.
BooleanMatches(clauses, doc) ==
    /\ \A c \in clauses : c.occur = "must" => ClauseMatches(c, doc)
    /\ \A c \in clauses : c.occur = "must_not" => ~ClauseMatches(c, doc)
    /\ \E c \in clauses : c.occur = "must" \/ (c.occur = "should" /\ ClauseMatches(c, doc))

\* A term query on a field that is stored only is an error of the library.
SearchesUnindexed(clauses) ==
    \E c \in clauses : \E sub \in c.any : HasKind(IndexSchema, sub.field, "attribute")

\* TopDocs::with_limit asserts that its argument is at least 1 and allocates for it.
CollectorFails(limit) == limit \notin 1 .. Affordable

\* What the collector may return of the documents that match.
IsTop(best, matching, limit) ==
    /\ best \subseteq matching
    /\ Cardinality(best) = IF Cardinality(matching) <= limit THEN Cardinality(matching) ELSE limit
    /\ \A a \in best, b \in matching \ best : score'[a] >= score'[b]
-----------------------------------------------------------------------------
NoAnswer == [outcome |-> "none", hits |-> {}]

Hits(hits) == [outcome |-> "ok", hits |-> hits]

\* The search throws: because of the query, the library's refusal, or a failed read.
Failure(cause) == [outcome |-> cause, hits |-> {}]

Finish(result) == stage' = "answered" /\ answer' = result

Init ==
    /\ loaded \in Snapshots
    /\ stage = "idle"
    /\ query = None
    /\ searcher = << >>
    /\ score = << >>
    /\ top = {}
    /\ answer = NoAnswer

\* search, up to `reader.searcher()`.
Ask(raw) ==
    /\ stage = "idle"
    /\ \/ /\ raw = Malformed
          /\ query' = raw
          /\ Finish(Failure("query"))
          /\ UNCHANGED searcher
       \/ /\ raw # Malformed
          /\ query' = QueryInput(raw)
          /\ \/ /\ NamesUnknownField(query')
                /\ Finish(Failure("query"))
                /\ UNCHANGED searcher
             \/ /\ ~NamesUnknownField(query') /\ NothingToSearch(query')
                /\ Finish(Hits({}))
                /\ UNCHANGED searcher
             \/ /\ ~NamesUnknownField(query') /\ ~NothingToSearch(query')
                /\ stage' = "collect"
                /\ searcher' = loaded
                /\ UNCHANGED answer
    /\ UNCHANGED <<loaded, score, top>>

\* searcher.search(&query, &TopDocs::with_limit(..))
Collect ==
    LET clauses  == Clauses(query)
        limit    == CappedLimit(query.limit)
        matching == {a \in DOMAIN searcher : BooleanMatches(clauses, searcher[a])}
    IN
    /\ stage = "collect"
    /\ \/ /\ CollectorFails(limit) \/ SearchesUnindexed(clauses)
          /\ Finish(Failure("library"))
          /\ UNCHANGED <<score, top>>
       \/ /\ Finish(Failure("io"))
          /\ UNCHANGED <<score, top>>
       \/ /\ ~CollectorFails(limit) /\ ~SearchesUnindexed(clauses)
          /\ score' \in [DOMAIN searcher -> Scores]
          /\ top' \in SUBSET matching
          /\ IsTop(top', matching, limit)
          /\ stage' = "fetch"
          /\ UNCHANGED answer
    /\ UNCHANGED <<loaded, query, searcher>>

\* The hits read from one snapshot: those that score enough, with their stored fields.
HitsFrom(snapshot) ==
    {[addr |-> a, score |-> score[a], fields |-> snapshot[a]] :
        a \in {b \in top : score[b] >= query.min_score}}

\* MUTANT of Fetch: the addresses are looked up in what the reader shows now.
FetchFromReader ==
    /\ stage = "fetch"
    /\ top \subseteq DOMAIN loaded
    /\ Finish(Hits(HitsFrom(loaded)))
    /\ UNCHANGED <<loaded, query, searcher, score, top>>

\* searcher.doc(addr) for each hit; one that cannot be read fails the search.
Fetch ==
    /\ stage = "fetch"
    /\ \/ Finish(Hits(HitsFrom(searcher)))
       \/ \E a \in top : score[a] >= query.min_score /\ Finish(Failure("io"))
    /\ UNCHANGED <<loaded, query, searcher, score, top>>

\* search returns: nothing of it is kept.
Return ==
    /\ stage = "answered"
    /\ stage' = "idle"
    /\ query' = None
    /\ searcher' = << >>
    /\ score' = << >>
    /\ top' = {}
    /\ answer' = NoAnswer
    /\ UNCHANGED loaded

\* The reader's watcher loads another commit.
Reload ==
    /\ loaded' \in Snapshots \ {loaded}
    /\ UNCHANGED <<stage, query, searcher, score, top, answer>>

Next ==
    \/ \E raw \in Queries : Ask(raw)
    \/ Collect
    \/ Fetch
    \/ Return
    \/ Reload

Spec == Init /\ [][Next]_vars
=============================================================================
