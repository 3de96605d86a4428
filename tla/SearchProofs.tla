---------------------------- MODULE SearchProofs ----------------------------
(***************************************************************************)
(* Theorems about Search, for every schema, snapshot, query, scoring and   *)
(* ceiling that satisfies LimitsAssumption and DataAssumption.             *)
(***************************************************************************)
EXTENDS SearchProps, FiniteSetTheorems, TLAPS

-----------------------------------------------------------------------------
(* What the clauses mean *)

\* The sub-queries of a word on a field find what resembles the word there.
LEMMA WordQueriesMeaning ==
  ASSUME NEW field, NEW word, NEW doc, Length[word] \in Nat
  PROVE  (\E sub \in WordQueries(field, word) : SubQueryMatches(sub, doc))
           <=> Resembles(word, field, doc)
<1> DEFINE d == FuzzyDistance(Length[word])
           exact  == TermQuery(field, word)
           fuzzy  == [kind |-> "fuzzy", field |-> field, term |-> word, distance |-> d]
           prefix == [kind |-> "prefix", field |-> field, term |-> word, distance |-> 0]
           found  == IF field \in DOMAIN doc THEN Terms(IndexSchema, field, doc[field]) ELSE {}
<1>1. /\ SubQueryMatches(exact, doc)  <=> \E t \in found : t = word
      /\ SubQueryMatches(fuzzy, doc)  <=> \E t \in found : Distance[word][t] <= d
      /\ SubQueryMatches(prefix, doc) <=> \E t \in found : t \in Extensions[word]
  <2>1. SubQueryMatches(exact, doc) <=> \E t \in found : t = word
    BY DEF SubQueryMatches, TermQuery
  <2>2. SubQueryMatches(fuzzy, doc)  <=> \E t \in found : Distance[word][t] <= d
    BY DEF SubQueryMatches
  <2>3. SubQueryMatches(prefix, doc) <=> \E t \in found : t \in Extensions[word]
    BY DEF SubQueryMatches
  <2> QED
    BY <2>1, <2>2, <2>3
<1>2. \A sub : sub \in WordQueries(field, word) <=>
                  \/ sub = exact
                  \/ sub = fuzzy /\ d > 0
                  \/ sub = prefix /\ Length[word] >= 2
  BY DEF WordQueries
<1>3. Resembles(word, field, doc) <=>
        \/ \E t \in found : t = word
        \/ Length[word] \in 3 .. 5 /\ \E t \in found : Distance[word][t] <= 1
        \/ Length[word] > 5 /\ \E t \in found : Distance[word][t] <= 2
        \/ Length[word] > 1 /\ \E t \in found : t \in Extensions[word]
  BY DEF Resembles
<1>4. /\ d > 0 <=> Length[word] \in 3 .. 5 \/ Length[word] > 5
      /\ Length[word] > 5 => d = 2
      /\ Length[word] \in 3 .. 5 => d = 1
      /\ Length[word] >= 2 <=> Length[word] > 1
  BY DEF FuzzyDistance
<1> QED
  BY <1>1, <1>2, <1>3, <1>4

\* A term query finds the documents that carry the value.
LEMMA TermQueryMeaning ==
  ASSUME NEW field, NEW value, NEW doc
  PROVE  SubQueryMatches(TermQuery(field, value), doc) <=> Carries(doc, field, value)
BY DEF SubQueryMatches, TermQuery, Carries

LEMMA TextMeaning ==
  ASSUME NEW q, NEW doc,
         \A word \in CapTokens(Tokenize(q.text)) : Length[word] \in Nat
  PROVE  /\ \A c \in TextClauses(q) : c.occur = "must"
         /\ (\A c \in TextClauses(q) : ClauseMatches(c, doc))
               <=> (q.text_fields # {} => TextIsFound(q, doc))
         /\ TextClauses(q) # {} <=> q.text_fields # {} /\ CapTokens(Tokenize(q.text)) # {}
<1> DEFINE words == CapTokens(Tokenize(q.text))
           wordClause(word) ==
             Clause("must", UNION {WordQueries(field, word) : field \in q.text_fields})
<1>1. \A c : c \in TextClauses(q) <=>
                q.text_fields # {} /\ \E word \in words : c = wordClause(word)
  BY DEF TextClauses
<1>2. ASSUME NEW word \in words
      PROVE  /\ wordClause(word).occur = "must"
             /\ ClauseMatches(wordClause(word), doc)
                  <=> \E field \in q.text_fields : Resembles(word, field, doc)
  <2>1. \A sub : sub \in wordClause(word).any <=>
                    \E field \in q.text_fields : sub \in WordQueries(field, word)
    BY DEF Clause
  <2>2. \A field : (\E sub \in WordQueries(field, word) : SubQueryMatches(sub, doc))
                      <=> Resembles(word, field, doc)
    BY WordQueriesMeaning
  <2>3. ClauseMatches(wordClause(word), doc)
          <=> \E field \in q.text_fields : \E sub \in WordQueries(field, word) : SubQueryMatches(sub, doc)
    BY <2>1 DEF ClauseMatches
  <2>4. wordClause(word).occur = "must"
    BY DEF Clause
  <2> QED
    BY <2>2, <2>3, <2>4
<1>3. TextIsFound(q, doc) <=>
        \A word \in words : \E field \in q.text_fields : Resembles(word, field, doc)
  BY DEF TextIsFound, CapTokens
<1> HIDE DEF wordClause
<1>4. \A c \in TextClauses(q) : c.occur = "must"
  BY <1>1, <1>2
<1>5. (\A c \in TextClauses(q) : ClauseMatches(c, doc))
         <=> (q.text_fields # {} => TextIsFound(q, doc))
  <2>1. (\A c \in TextClauses(q) : ClauseMatches(c, doc)) <=>
          (q.text_fields # {} => \A word \in words : ClauseMatches(wordClause(word), doc))
    BY <1>1
  <2> QED
    BY <2>1, <1>2, <1>3
<1> QED
  BY <1>1, <1>4, <1>5

LEMMA WhereMeaning ==
  ASSUME NEW q, NEW doc
  PROVE  /\ \A c : c \in WhereClauses(q) <=>
                      \E w \in q.where : c = Clause(OccurOf(w.occur), {TermQuery(w.field, w.value)})
         /\ \A w \in q.where :
               /\ Clause(OccurOf(w.occur), {TermQuery(w.field, w.value)}).occur = OccurOf(w.occur)
               /\ ClauseMatches(Clause(OccurOf(w.occur), {TermQuery(w.field, w.value)}), doc)
                    <=> Carries(doc, w.field, w.value)
<1>1. ASSUME NEW w \in q.where
      PROVE  /\ Clause(OccurOf(w.occur), {TermQuery(w.field, w.value)}).occur = OccurOf(w.occur)
             /\ ClauseMatches(Clause(OccurOf(w.occur), {TermQuery(w.field, w.value)}), doc)
                    <=> Carries(doc, w.field, w.value)
  BY TermQueryMeaning DEF Clause, ClauseMatches
<1> QED
  BY <1>1 DEF WhereClauses

LEMMA InMeaning ==
  ASSUME NEW q, NEW doc
  PROVE  /\ \A c \in InClauses(q) : c.occur = "must"
         /\ (\A c \in InClauses(q) : ClauseMatches(c, doc)) <=>
              \A g \in q.in : g.values # {} =>
                 \E value \in g.values : Carries(doc, g.field, value)
         /\ InClauses(q) # {} <=> \E g \in q.in : g.values # {}
<1> DEFINE group(g) == Clause("must", {TermQuery(g.field, value) : value \in g.values})
<1>1. \A c : c \in InClauses(q) <=> \E g \in q.in : g.values # {} /\ c = group(g)
  BY DEF InClauses
<1>2. \A g : /\ group(g).occur = "must"
             /\ ClauseMatches(group(g), doc)
                  <=> \E value \in g.values : Carries(doc, g.field, value)
  BY TermQueryMeaning DEF Clause, ClauseMatches
<1> HIDE DEF group
<1> QED
  BY <1>1, <1>2

\* The clauses search builds say of a document what the query says of it.
LEMMA ClausesMeaning ==
  ASSUME NEW q, NEW doc,
         \A word \in CapTokens(Tokenize(q.text)) : Length[word] \in Nat
  PROVE  BooleanMatches(Clauses(q), doc) <=> Meant(q, doc)
<1> DEFINE T == TextClauses(q)
           W == WhereClauses(q)
           G == InClauses(q)
           filter(w) == Clause(OccurOf(w.occur), {TermQuery(w.field, w.value)})
           Wheres == \A w \in q.where :
                        /\ w.occur = "must_not" => ~Carries(doc, w.field, w.value)
                        /\ w.occur \notin {"must_not", "should"} => Carries(doc, w.field, w.value)
           Groups == \A g \in q.in : g.values # {} =>
                        \E value \in g.values : Carries(doc, g.field, value)
<1>1. /\ \A w : (OccurOf(w.occur) = "must") <=> w.occur \notin {"must_not", "should"}
      /\ \A w : (OccurOf(w.occur) = "must_not") <=> w.occur = "must_not"
      /\ \A w : (OccurOf(w.occur) = "should") <=> w.occur = "should"
  BY DEF OccurOf
<1>2. /\ \A c : c \in W <=> \E w \in q.where : c = filter(w)
      /\ \A w \in q.where : /\ filter(w).occur = OccurOf(w.occur)
                            /\ ClauseMatches(filter(w), doc) <=> Carries(doc, w.field, w.value)
  BY WhereMeaning
<1> HIDE DEF filter
<1>3. Wheres <=>
        /\ \A c \in W : c.occur = "must" => ClauseMatches(c, doc)
        /\ \A c \in W : c.occur = "must_not" => ~ClauseMatches(c, doc)
  BY <1>1, <1>2
<1>4. (\E c \in W : c.occur = "must" \/ (c.occur = "should" /\ ClauseMatches(c, doc))) <=>
        \/ \E w \in q.where : w.occur \notin {"must_not", "should"}
        \/ \E w \in q.where : w.occur = "should" /\ Carries(doc, w.field, w.value)
  BY <1>1, <1>2
<1>5. /\ \A c \in T : c.occur = "must"
      /\ (\A c \in T : ClauseMatches(c, doc)) <=> (q.text_fields # {} => TextIsFound(q, doc))
      /\ T # {} <=> q.text_fields # {} /\ CapTokens(Tokenize(q.text)) # {}
  BY TextMeaning
<1>6. /\ \A c \in G : c.occur = "must"
      /\ (\A c \in G : ClauseMatches(c, doc)) <=> Groups
      /\ G # {} <=> \E g \in q.in : g.values # {}
  BY InMeaning
<1> HIDE DEF T, W, G, Groups, Wheres
<1>7. BooleanMatches(T \cup W \cup G, doc) <=>
        /\ \A c \in T : ClauseMatches(c, doc)
        /\ \A c \in G : ClauseMatches(c, doc)
        /\ \A c \in W : c.occur = "must" => ClauseMatches(c, doc)
        /\ \A c \in W : c.occur = "must_not" => ~ClauseMatches(c, doc)
        /\ \/ T # {}
           \/ G # {}
           \/ \E c \in W : c.occur = "must" \/ (c.occur = "should" /\ ClauseMatches(c, doc))
  <2> DEFINE all == T \cup W \cup G
  <2>1. (\A c \in all : c.occur = "must" => ClauseMatches(c, doc)) <=>
          /\ \A c \in T : ClauseMatches(c, doc)
          /\ \A c \in G : ClauseMatches(c, doc)
          /\ \A c \in W : c.occur = "must" => ClauseMatches(c, doc)
    BY <1>5, <1>6
  <2>2. (\A c \in all : c.occur = "must_not" => ~ClauseMatches(c, doc)) <=>
          \A c \in W : c.occur = "must_not" => ~ClauseMatches(c, doc)
    BY <1>5, <1>6
  <2>3. (\E c \in all : c.occur = "must" \/ (c.occur = "should" /\ ClauseMatches(c, doc))) <=>
          \/ T # {}
          \/ G # {}
          \/ \E c \in W : c.occur = "must" \/ (c.occur = "should" /\ ClauseMatches(c, doc))
    BY <1>5, <1>6
  <2> QED
    BY <2>1, <2>2, <2>3 DEF BooleanMatches
<1>8. Meant(q, doc) <=>
        /\ q.text_fields # {} => TextIsFound(q, doc)
        /\ Wheres
        /\ Groups
        /\ IsWanted(q, doc)
  BY DEF Meant, Wheres, Groups
<1>9. IsWanted(q, doc) <=>
        \/ T # {}
        \/ G # {}
        \/ \E c \in W : c.occur = "must" \/ (c.occur = "should" /\ ClauseMatches(c, doc))
  BY <1>4, <1>5, <1>6 DEF IsWanted
<1>10. Clauses(q) = T \cup W \cup G
  BY DEF Clauses, T, W, G
<1> QED
  BY <1>3, <1>5, <1>6, <1>7, <1>8, <1>9, <1>10

\* What is searched in a field of its own is named by the query.
LEMMA SearchedIsNamed ==
  ASSUME NEW q, SearchesUnindexed(Clauses(q))
  PROVE  \E field \in q.text_fields \cup {w.field : w \in q.where} \cup {g.field : g \in q.in} :
            HasKind(IndexSchema, field, "attribute")
<1> DEFINE named == q.text_fields \cup {w.field : w \in q.where} \cup {g.field : g \in q.in}
<1>0. PICK c \in Clauses(q) : \E sub \in c.any : HasKind(IndexSchema, sub.field, "attribute")
  BY DEF SearchesUnindexed
<1>1. PICK sub \in c.any : HasKind(IndexSchema, sub.field, "attribute")
  BY <1>0
<1>2. CASE c \in TextClauses(q)
  <2>1. PICK word : c = Clause("must", UNION {WordQueries(field, word) : field \in q.text_fields})
    BY <1>2 DEF TextClauses
  <2>2. PICK field \in q.text_fields : sub \in WordQueries(field, word)
    BY <1>1, <2>1 DEF Clause
  <2>3. sub.field = field
    BY <2>2 DEF WordQueries, TermQuery
  <2> QED
    BY <1>1, <2>3
<1>3. CASE c \in WhereClauses(q)
  <2>1. PICK w \in q.where : sub = TermQuery(w.field, w.value)
    BY <1>1, <1>3 DEF WhereClauses, Clause
  <2> QED
    BY <1>1, <2>1 DEF TermQuery
<1>4. CASE c \in InClauses(q)
  <2>1. PICK g \in q.in : \E value \in g.values : sub = TermQuery(g.field, value)
    BY <1>1, <1>4 DEF InClauses, Clause
  <2> QED
    BY <1>1, <2>1 DEF TermQuery
<1> QED
  BY <1>1, <1>2, <1>3, <1>4 DEF Clauses
-----------------------------------------------------------------------------
(* The inductive invariant *)

Named(q) == q.text_fields \cup {w.field : w \in q.where} \cup {g.field : g \in q.in}

MeantIn(snapshot) == {a \in DOMAIN snapshot : Meant(query, snapshot[a])}

\* A search that has come as far as the library.
Accepted ==
    /\ \E raw \in Queries \ {Malformed} : query = QueryInput(raw)
    /\ ~NamesUnknownField(query)
    /\ query.limit # 0
    /\ searcher \in Snapshots

\* The collector has returned the best of what was meant.
Collected ==
    LET limit == CappedLimit(query.limit)
        meant == MeantIn(searcher)
    IN
    /\ score \in [DOMAIN searcher -> Scores]
    /\ top \subseteq meant
    /\ Cardinality(top) = IF Cardinality(meant) <= limit THEN Cardinality(meant) ELSE limit
    /\ \A a \in top, b \in meant \ top : score[a] >= score[b]

AnswerInv == HitsAreMeant /\ BestHitsKept /\ UnknownFieldThrows /\ OnlyUnindexedIsRefused

SearchInv ==
    /\ loaded \in Snapshots
    /\ stage \in {"collect", "fetch"} => Accepted
    /\ stage = "fetch" => Collected
    /\ AnswerInv

LEMMA CappedLimitRange ==
  ASSUME NEW n \in Nat
  PROVE  /\ CappedLimit(n) \in Nat
         /\ n # 0 => CappedLimit(n) \in 1 .. Affordable
BY LimitsAssumption DEF CappedLimit

LEMMA UnknownIsNamed ==
  ASSUME NEW q
  PROVE  NamesUnknownField(q) <=> \E field \in Named(q) : ~HasField(IndexSchema, field)
BY DEF NamesUnknownField, Named

LEMMA SnapshotIsFinite ==
  ASSUME NEW s \in Snapshots
  PROVE  IsFiniteSet(DOMAIN s)
<1>1. s \in Seq({s[a] : a \in DOMAIN s})
  BY DataAssumption
<1>2. Len(s) \in Nat /\ DOMAIN s = 1 .. Len(s)
  BY <1>1
<1> QED
  BY <1>2, FS_Interval

LEMMA AskPreserves ==
  ASSUME SearchInv, NEW raw \in Queries, Ask(raw)
  PROVE  SearchInv'
<1>1. loaded' \in Snapshots
  BY DEF SearchInv, Ask
<1>2. CASE query' = raw /\ raw = Malformed /\ Finish(Failure("query"))
  BY <1>1, <1>2 DEF SearchInv, AnswerInv, Finish, Failure, HitsAreMeant, BestHitsKept,
                    UnknownFieldThrows, OnlyUnindexedIsRefused, Answered
<1>3. CASE raw # Malformed /\ query' = QueryInput(raw) /\ NamesUnknownField(query') /\ Finish(Failure("query"))
  <2>1. UnknownFieldThrows'
    BY <1>3, UnknownIsNamed DEF UnknownFieldThrows, Finish, Failure, Named
  <2> QED
    BY <1>1, <1>3, <2>1 DEF SearchInv, AnswerInv, Finish, Failure, HitsAreMeant, BestHitsKept,
                            OnlyUnindexedIsRefused, Answered
<1>4. CASE /\ raw # Malformed /\ query' = QueryInput(raw)
           /\ ~NamesUnknownField(query') /\ NothingToSearch(query') /\ Finish(Hits({}))
  <2>1. UnknownFieldThrows'
    BY <1>4, UnknownIsNamed DEF UnknownFieldThrows, Finish, Hits, Named
  <2>2. ASSUME query'.limit # 0, NEW doc
        PROVE  ~Meant(query', doc)
    <3>1. Clauses(query') = {}
      BY <1>4, <2>2 DEF NothingToSearch
    <3>2. ~BooleanMatches(Clauses(query'), doc)
      BY <3>1 DEF BooleanMatches
    <3>3. \A word \in CapTokens(Tokenize(query'.text)) : Length[word] \in Nat
      BY <1>4, DataAssumption
    <3> QED
      BY <3>2, <3>3, ClausesMeaning
  <2>3. BestHitsKept'
    <3>1. query'.limit \in Nat
      BY <1>4, DataAssumption
    <3>2. CappedLimit(query'.limit) \in Nat
      BY <3>1, CappedLimitRange
    <3>3. {hit.addr : hit \in answer'.hits} = {} /\ Cardinality({}) = 0
      BY <1>4, FS_EmptySet DEF Finish, Hits
    <3> QED
      BY <2>2, <3>2, <3>3 DEF BestHitsKept
  <2> QED
    BY <1>1, <1>4, <2>1, <2>3 DEF SearchInv, AnswerInv, Finish, Hits, HitsAreMeant,
                                  OnlyUnindexedIsRefused, Answered
<1>5. CASE /\ raw # Malformed /\ query' = QueryInput(raw)
           /\ ~NamesUnknownField(query') /\ ~NothingToSearch(query')
           /\ stage' = "collect" /\ searcher' = loaded
  BY <1>1, <1>5 DEF SearchInv, Accepted, AnswerInv, HitsAreMeant, BestHitsKept,
                    UnknownFieldThrows, OnlyUnindexedIsRefused, Answered, NothingToSearch
<1> QED
  BY <1>2, <1>3, <1>4, <1>5 DEF Ask

LEMMA CollectPreserves ==
  ASSUME SearchInv, Collect
  PROVE  SearchInv'
<1> DEFINE clauses  == Clauses(query)
           limit    == CappedLimit(query.limit)
           matching == {a \in DOMAIN searcher : BooleanMatches(clauses, searcher[a])}
<1>1. Accepted /\ UNCHANGED <<loaded, query, searcher>>
  BY DEF SearchInv, Collect
<1>2. loaded' \in Snapshots /\ Accepted'
  BY <1>1 DEF SearchInv, Accepted
<1>3. ~(\E field \in Named(query) : ~HasField(IndexSchema, field))
  BY <1>1, UnknownIsNamed DEF Accepted
<1>4. CASE (CollectorFails(limit) \/ SearchesUnindexed(clauses)) /\ Finish(Failure("library"))
  <2>1. ~CollectorFails(limit)
    BY <1>1, DataAssumption, CappedLimitRange DEF Accepted, CollectorFails
  <2>2. \E field \in Named(query) : HasKind(IndexSchema, field, "attribute")
    BY <1>4, <2>1, SearchedIsNamed DEF Named
  <2> QED
    BY <1>1, <1>2, <1>3, <1>4, <2>2
       DEF SearchInv, AnswerInv, Finish, Failure, HitsAreMeant, BestHitsKept,
           UnknownFieldThrows, OnlyUnindexedIsRefused, Answered, Named
<1>5. CASE Finish(Failure("io"))
  BY <1>1, <1>2, <1>3, <1>5
     DEF SearchInv, AnswerInv, Finish, Failure, HitsAreMeant, BestHitsKept,
         UnknownFieldThrows, OnlyUnindexedIsRefused, Answered, Named
<1>6. CASE /\ score' \in [DOMAIN searcher -> Scores] /\ IsTop(top', matching, limit)
           /\ stage' = "fetch"
  <2>1. \A word \in CapTokens(Tokenize(query.text)) : Length[word] \in Nat
    BY <1>1, DataAssumption DEF Accepted
  <2>2. \A a \in DOMAIN searcher :
           BooleanMatches(clauses, searcher[a]) <=> Meant(query, searcher[a])
    BY <2>1, ClausesMeaning
  <2>3. matching = MeantIn(searcher) /\ MeantIn(searcher)' = MeantIn(searcher)
    BY <1>1, <2>2 DEF MeantIn
  <2>4. Collected'
    BY <1>1, <1>6, <2>3 DEF Collected, IsTop
  <2> QED
    BY <1>2, <1>6, <2>4 DEF SearchInv, AnswerInv, HitsAreMeant, BestHitsKept,
                            UnknownFieldThrows, OnlyUnindexedIsRefused, Answered
<1> QED
  BY <1>4, <1>5, <1>6 DEF Collect

LEMMA FetchPreserves ==
  ASSUME SearchInv, Fetch
  PROVE  SearchInv'
<1> DEFINE limit == CappedLimit(query.limit)
           meant == MeantIn(searcher)
           kept  == {b \in top : score[b] >= query.min_score}
<1>1. Accepted /\ Collected /\ UNCHANGED <<loaded, query, searcher, score, top>>
  BY DEF SearchInv, Fetch
<1>2. loaded' \in Snapshots /\ stage' = "answered"
  BY <1>1 DEF SearchInv, Fetch, Finish
<1>3. ~(\E field \in Named(query) : ~HasField(IndexSchema, field))
  BY <1>1, UnknownIsNamed DEF Accepted
<1>4. CASE Finish(Failure("io"))
  BY <1>1, <1>2, <1>3, <1>4
     DEF SearchInv, AnswerInv, Finish, Failure, HitsAreMeant, BestHitsKept,
         UnknownFieldThrows, OnlyUnindexedIsRefused, Answered, Named
<1>5. CASE Finish(Hits(HitsFrom(searcher)))
  <2>1. /\ query.limit \in Nat /\ query.min_score \in Int
        /\ limit \in Nat
        /\ \A a \in DOMAIN searcher : score[a] \in Int
    BY <1>1, DataAssumption, CappedLimitRange DEF Accepted, Collected
  <2>2. answer' = [outcome |-> "ok",
                   hits |-> {[addr |-> a, score |-> score[a], fields |-> searcher[a]] : a \in kept}]
    BY <1>5 DEF Finish, Hits, HitsFrom
  <2>3. HitsAreMeant'
    <3>1. \A a \in kept : a \in DOMAIN searcher /\ Meant(query, searcher[a])
      BY <1>1 DEF Collected, MeantIn
    <3> QED
      BY <1>1, <2>2, <3>1 DEF HitsAreMeant
  <2>4. {hit.addr : hit \in answer'.hits} = kept
    <3> DEFINE hitAt(a) == [addr |-> a, score |-> score[a], fields |-> searcher[a]]
    <3>1. \A hit : hit \in answer'.hits <=> \E a \in kept : hit = hitAt(a)
      BY <2>2
    <3>2. \A a : hitAt(a).addr = a
      OBVIOUS
    <3> HIDE DEF hitAt, kept
    <3> QED
      BY <3>1, <3>2
  <2>5. IsFiniteSet(meant) /\ IsFiniteSet(top)
    BY <1>1, SnapshotIsFinite, FS_Subset DEF Accepted, Collected, MeantIn
  <2>6. /\ Cardinality(top) \in Nat /\ Cardinality(meant) \in Nat
        /\ Cardinality(top) <= limit
        /\ IsFiniteSet(kept) /\ Cardinality(kept) \in Nat
        /\ Cardinality(kept) <= Cardinality(top)
    <3>1. Cardinality(top) \in Nat /\ Cardinality(meant) \in Nat
      BY <2>5, FS_CardinalityType
    <3>2. Cardinality(top) <= limit
      BY <1>1, <2>1, <3>1 DEF Collected
    <3>3. IsFiniteSet(kept) /\ Cardinality(kept) <= Cardinality(top)
      BY <2>5, FS_Subset
    <3> QED
      BY <3>1, <3>2, <3>3, FS_CardinalityType
  <2>7. Cardinality(kept) <= limit
    BY <2>1, <2>6
  <2>8. ASSUME NEW a \in DOMAIN searcher \ kept, Meant(query, searcher[a])
        PROVE  \/ score[a] < query.min_score
               \/ /\ Cardinality(kept) = limit
                  /\ \A b \in kept : score[b] >= score[a]
    <3>1. CASE a \in top
      BY <2>1, <3>1
    <3>2. CASE a \notin top
      <4>1. a \in meant \ top /\ top \subseteq meant
        BY <1>1, <2>8, <3>2 DEF Collected, MeantIn
      <4>2. \A b \in top : score[b] >= score[a]
        BY <1>1, <4>1 DEF Collected
      <4>3. Cardinality(top) # Cardinality(meant)
        BY <4>1, <2>5, FS_Subset
      <4>4. Cardinality(top) = limit
        BY <1>1, <4>3 DEF Collected
      <4>5. CASE \E b \in top : score[b] < query.min_score
        BY <4>1, <4>2, <4>5, <2>1 DEF MeantIn
      <4>6. CASE \A b \in top : score[b] >= query.min_score
        <5>1. kept = top
          BY <4>6
        <5> QED
          BY <5>1, <4>2, <4>4
      <4> QED
        BY <4>1, <4>5, <4>6, <2>1 DEF MeantIn
    <3> QED
      BY <3>1, <3>2
  <2>9. BestHitsKept'
    BY <1>1, <2>4, <2>7, <2>8 DEF BestHitsKept
  <2> QED
    BY <1>1, <1>2, <1>3, <2>2, <2>3, <2>9
       DEF SearchInv, AnswerInv, UnknownFieldThrows, OnlyUnindexedIsRefused, Answered, Named
<1> QED
  BY <1>4, <1>5 DEF Fetch

LEMMA QuietStepPreserves ==
  ASSUME SearchInv, Return \/ Reload \/ UNCHANGED vars
  PROVE  SearchInv'
<1>1. CASE Return
  BY <1>1 DEF Return, SearchInv, AnswerInv, HitsAreMeant, BestHitsKept,
              UnknownFieldThrows, OnlyUnindexedIsRefused, Answered
<1>2. ASSUME UNCHANGED <<stage, query, searcher, score, top, answer>>
      PROVE  (Accepted => Accepted') /\ (Collected => Collected') /\ AnswerInv'
  BY <1>2 DEF SearchInv, Accepted, Collected, MeantIn, AnswerInv, HitsAreMeant, BestHitsKept,
              UnknownFieldThrows, OnlyUnindexedIsRefused, Answered
<1>3. CASE Reload
  BY <1>2, <1>3 DEF Reload, SearchInv
<1>4. CASE UNCHANGED vars
  BY <1>2, <1>4 DEF vars, SearchInv
<1> QED
  BY <1>1, <1>3, <1>4

LEMMA SearchInvariance == Spec => []SearchInv
<1>1. Init => SearchInv
  BY DEF Init, SearchInv, AnswerInv, HitsAreMeant, BestHitsKept,
         UnknownFieldThrows, OnlyUnindexedIsRefused, Answered
<1>2. SearchInv /\ [Next]_vars => SearchInv'
  BY AskPreserves, CollectPreserves, FetchPreserves, QuietStepPreserves DEF Next
<1> QED
  BY <1>1, <1>2, PTL DEF Spec

(***************************************************************************)
(* Every hit is a document of the snapshot that was taken from the reader  *)
(* when the search began, and the query holds of it.                       *)
(***************************************************************************)
THEOREM HitsMeant == Spec => []HitsAreMeant
<1>1. SearchInv => HitsAreMeant
  BY DEF SearchInv, AnswerInv
<1> QED
  BY <1>1, SearchInvariance, PTL

(***************************************************************************)
(* The cap on the limit and the cut by score leave out nothing better than *)
(* what they return.                                                       *)
(***************************************************************************)
THEOREM NothingBetter == Spec => []BestHitsKept
<1>1. SearchInv => BestHitsKept
  BY DEF SearchInv, AnswerInv
<1> QED
  BY <1>1, SearchInvariance, PTL

(***************************************************************************)
(* A query throws for its names exactly when one of them is unknown.       *)
(***************************************************************************)
THEOREM UnknownThrows == Spec => []UnknownFieldThrows
<1>1. SearchInv => UnknownFieldThrows
  BY DEF SearchInv, AnswerInv
<1> QED
  BY <1>1, SearchInvariance, PTL

(***************************************************************************)
(* No limit that a caller can pass reaches the library's assertion or asks *)
(* for more memory than there is.                                          *)
(***************************************************************************)
THEOREM LimitIsSafe == Spec => []OnlyUnindexedIsRefused
<1>1. SearchInv => OnlyUnindexedIsRefused
  BY DEF SearchInv, AnswerInv
<1> QED
  BY <1>1, SearchInvariance, PTL
=============================================================================
