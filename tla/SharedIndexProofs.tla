-------------------------- MODULE SharedIndexProofs --------------------------
(***************************************************************************)
(* Theorems about SharedIndex, for every value of its constants.           *)
(***************************************************************************)
EXTENDS SharedIndexProps, TLAPS

(***************************************************************************)
(* Typing of the buffer operations.                                        *)
(***************************************************************************)

\* An empty buffer is a buffer.
LEMMA EmptyBufferType == EmptyBuffer \in Buffers
  BY DEF EmptyBuffer, Buffers

\* What parse_doc keeps of a document is the contents of a document.
LEMMA ParseDocType ==
  ASSUME NEW d \in Documents \ {None}, NEW s
  PROVE  ParseDoc(s, d) \in Contents
<1> DEFINE kept == {n \in DOMAIN d : HasField(s, n) /\ d[n].type # "null"}
<1>1. kept \in SUBSET Names
  BY ConstantsAssumption
<1>2. \A n \in kept : d[n].text \in Values
  BY ConstantsAssumption
<1>3. ParseDoc(s, d) \in [kept -> Values]
  BY <1>2 DEF ParseDoc
<1> QED
  BY <1>1, <1>3 DEF Contents

\* Adding a document keeps a buffer a buffer.
LEMMA PushDocumentType ==
  ASSUME NEW b \in Buffers, NEW n \in Nat, NEW c \in Contents
  PROVE  PushDocument(b, n, c) \in Buffers
  BY DEF PushDocument, Buffers, Docs

\* Queueing a delete term keeps a buffer a buffer.
LEMMA PushDeleteType ==
  ASSUME NEW b \in Buffers, NEW n \in Nat, NEW f \in Names, NEW v \in Values
  PROVE  PushDelete(b, n, f, v) \in Buffers
  BY DEF PushDelete, Buffers, DeleteTerms

\* Losing documents keeps a buffer a buffer.
LEMMA KeepSomeType ==
  ASSUME NEW b \in Buffers, NEW kept \in SUBSET b.adds
  PROVE  [b EXCEPT !.adds = kept] \in Buffers
  BY DEF Buffers

\* A commit publishes documents.
LEMMA CommittedType ==
  ASSUME NEW b \in Buffers, NEW ds \in SUBSET Docs, NEW s
  PROVE  Committed(s, ds, b) \in SUBSET Docs
  BY DEF Committed, Buffers

\* The current documents are documents.
LEMMA CurrentDocsType ==
  ASSUME published \in Seq(SUBSET Docs)
  PROVE  CurrentDocs \in SUBSET Docs
  BY DEF CurrentDocs
-----------------------------------------------------------------------------
(***************************************************************************)
(* Type correctness.  CommitReload updates the state of the handle whose   *)
(* commit is in flight, so the types are inductive only together with the  *)
(* fact that this handle is open.                                          *)
(***************************************************************************)

\* Between the two halves of a commit nothing can close its handle.
CommitInFlightIsOpen ==
  \A p \in Processes : committing[p] # 0 => IsOpen(p, committing[p])

TypeInv == TypeOK /\ CommitInFlightIsOpen

\* A new state, and one whose writer or reader changed, are index states.
LEMMA IndexStateType ==
  ASSUME NEW st \in IndexStates
  PROVE  /\ \A b \in Buffers \cup {None} : [st EXCEPT !.writer = b] \in IndexStates
         /\ \A g \in Nat : [st EXCEPT !.reader = g] \in IndexStates
         /\ st # None
  BY NoneAssumption DEF IndexStates

\* The buffer of a session is one, whether its writer exists or not.
LEMMA BufferOfType ==
  ASSUME TypeOK, NEW p \in Processes, NEW h \in Handles
  PROVE  BufferOf(p, h) \in Buffers
  BY EmptyBufferType DEF TypeOK, BufferOf, HasWriter, IsOpen, IndexStates

\* Storing a writer in an open state.
LEMMA StoreWriterType ==
  ASSUME TypeInv, NEW p \in Processes, NEW h \in Handles, IsOpen(p, h),
         NEW b \in Buffers, StoreWriter(p, h, b), UNCHANGED committing
  PROVE  /\ table' \in [Processes -> [Handles -> IndexStates \cup {None}]]
         /\ lock' \in Sessions \cup {None}
         /\ CommitInFlightIsOpen'
<1>1. table[p][h] \in IndexStates
  BY DEF TypeInv, TypeOK, IsOpen
<1>2. [table[p][h] EXCEPT !.writer = b] \in IndexStates
  BY <1>1, IndexStateType
<1>3. table' = [table EXCEPT ![p] = [table[p] EXCEPT ![h] = [table[p][h] EXCEPT !.writer = b]]]
  BY DEF StoreWriter
<1>4. table' \in [Processes -> [Handles -> IndexStates \cup {None}]]
  BY <1>2, <1>3 DEF TypeInv, TypeOK
<1>5. lock' \in Sessions \cup {None}
  BY DEF StoreWriter, Sessions
<1>6. \A q \in Processes, i \in Handles : IsOpen(q, i) => IsOpen(q, i)'
  BY <1>2, <1>3, NoneAssumption DEF TypeInv, TypeOK, IsOpen
<1>7. CommitInFlightIsOpen'
  BY <1>6 DEF TypeInv, TypeOK, CommitInFlightIsOpen, Handles
<1> QED
  BY <1>4, <1>5, <1>7

\* What an answer may say.
LEMMA AnswerType ==
  ASSUME TypeOK, NEW p \in Processes, NEW h \in 0 .. MaxHandles,
         NEW call \in {"none", "open", "invalid", "write", "commit", "close"},
         NEW outcome \in {"none", "ok", "error", "busy"},
         Answer(p, call, h, outcome)
  PROVE  reply' \in [Processes ->
            [call : {"none", "open", "invalid", "write", "commit", "close"},
             handle : 0 .. MaxHandles,
             outcome : {"none", "ok", "error", "busy"}]]
  BY DEF TypeOK, Answer

\* The initial state.
LEMMA InitType == Init => TypeInv
  BY ConstantsAssumption
     DEF Init, FirstHandle, TypeInv, TypeOK, CommitInFlightIsOpen, NoReply, Handles

\* register_state, wherever the schema on disk comes from.
LEMMA RegisterStateType ==
  ASSUME TypeInv, NEW p \in Processes, NEW cfg \in Configs, NEW mode \in {"rw", "ro"},
         NEW onDisk, NEW gen \in Nat, CanOpen(p),
         RegisterState(p, cfg, mode, onDisk, gen), UNCHANGED committing
  PROVE  /\ table' \in [Processes -> [Handles -> IndexStates \cup {None}]]
         /\ client' \in [Processes -> [Handles -> Clients \cup {None}]]
         /\ nextHandle' \in [Processes -> 1 .. MaxHandles + 1]
         /\ reply' \in [Processes ->
               [call : {"none", "open", "invalid", "write", "commit", "close"},
                handle : 0 .. MaxHandles,
                outcome : {"none", "ok", "error", "busy"}]]
         /\ CommitInFlightIsOpen'
<1>1. CASE RefuseOpen(p)
  <2>1. UNCHANGED <<table, nextHandle, client>> /\ Answer(p, "open", 0, "error")
    BY <1>1 DEF RefuseOpen
  <2>2. 0 \in 0 .. MaxHandles
    BY ConstantsAssumption
  <2> QED
    BY <2>1, <2>2, AnswerType DEF TypeInv, TypeOK, CommitInFlightIsOpen, IsOpen
<1>2. CASE InsertState(p, cfg, mode, gen)
  <2> DEFINE h  == nextHandle[p]
             st == [reader |-> gen, heapOk |-> cfg.heapOk, writer |-> None]
             cl == [mode |-> mode, idField |-> cfg.idField]
  <2>1. h \in Handles /\ h \in 0 .. MaxHandles
    BY ConstantsAssumption DEF CanOpen, Handles, TypeInv, TypeOK
  <2>2. st \in IndexStates
    BY ConstantsAssumption DEF IndexStates
  <2>3. cl \in Clients
    BY DEF Clients
  <2>4. /\ table' = [table EXCEPT ![p] = [table[p] EXCEPT ![h] = st]]
        /\ client' = [client EXCEPT ![p] = [client[p] EXCEPT ![h] = cl]]
        /\ nextHandle' = [nextHandle EXCEPT ![p] = h + 1]
        /\ Answer(p, "open", h, "ok")
    BY <1>2 DEF InsertState
  <2> HIDE DEF h, st, cl
  <2>5. table' \in [Processes -> [Handles -> IndexStates \cup {None}]]
    BY <2>1, <2>2, <2>4 DEF TypeInv, TypeOK
  <2>6. client' \in [Processes -> [Handles -> Clients \cup {None}]]
    BY <2>1, <2>3, <2>4 DEF TypeInv, TypeOK
  <2>7. nextHandle' \in [Processes -> 1 .. MaxHandles + 1]
    BY <2>1, <2>4, ConstantsAssumption DEF TypeInv, TypeOK, Handles
  <2>8. \A q \in Processes, i \in Handles : IsOpen(q, i) => IsOpen(q, i)'
    BY <2>1, <2>2, <2>4, NoneAssumption DEF TypeInv, TypeOK, IsOpen
  <2>9. CommitInFlightIsOpen'
    BY <2>8 DEF TypeInv, TypeOK, CommitInFlightIsOpen, Handles
  <2> QED
    BY <2>1, <2>4, <2>5, <2>6, <2>7, <2>9, AnswerType DEF TypeInv
<1> QED
  BY <1>1, <1>2 DEF RegisterState

\* open_or_create
LEMMA OpenOrCreateType ==
  ASSUME TypeInv, NEW p \in Processes, NEW cfg \in Configs, OpenOrCreate(p, cfg)
  PROVE  TypeInv'
<1> DEFINE wanted == BuildSchema(cfg.fields)
<1>1. CanOpen(p) /\ UNCHANGED <<lock, committing, starting, stamp>>
  BY DEF OpenOrCreate
<1>2. wanted \in Schemas
  BY DEF Schemas
<1>3. \/ RefuseOpen(p) /\ UNCHANGED disk
      \/ schema' = wanted /\ published' = <<{}>> /\ RegisterState(p, cfg, "rw", wanted, 1)
      \/ RegisterState(p, cfg, "rw", schema, Len(published)) /\ UNCHANGED disk
  BY DEF OpenOrCreate
<1> HIDE DEF wanted
<1>4. CASE RefuseOpen(p) /\ UNCHANGED disk
  <2>1. UNCHANGED <<table, nextHandle, client>> /\ Answer(p, "open", 0, "error")
    BY <1>4 DEF RefuseOpen
  <2>2. 0 \in 0 .. MaxHandles
    BY ConstantsAssumption
  <2> QED
    BY <1>1, <1>4, <2>1, <2>2, AnswerType DEF TypeInv, TypeOK, CommitInFlightIsOpen, IsOpen, disk
<1>5. CASE schema' = wanted /\ published' = <<{}>> /\ RegisterState(p, cfg, "rw", wanted, 1)
  BY <1>1, <1>2, <1>5, RegisterStateType DEF TypeInv, TypeOK
<1>6. CASE RegisterState(p, cfg, "rw", schema, Len(published)) /\ UNCHANGED disk
  <2>1. Len(published) \in Nat
    BY DEF TypeInv, TypeOK
  <2> QED
    BY <1>1, <1>6, <2>1, RegisterStateType DEF TypeInv, TypeOK, disk
<1> QED
  BY <1>3, <1>4, <1>5, <1>6

\* open_read_only
LEMMA OpenReadOnlyType ==
  ASSUME TypeInv, NEW p \in Processes, NEW cfg \in Configs, OpenReadOnly(p, cfg)
  PROVE  TypeInv'
<1>1. CanOpen(p) /\ UNCHANGED <<schema, published, lock, committing, starting, stamp>>
  BY DEF OpenReadOnly
<1>2. CASE RefuseOpen(p)
  <2>1. UNCHANGED <<table, nextHandle, client>> /\ Answer(p, "open", 0, "error")
    BY <1>2 DEF RefuseOpen
  <2>2. 0 \in 0 .. MaxHandles
    BY ConstantsAssumption
  <2> QED
    BY <1>1, <2>1, <2>2, AnswerType DEF TypeInv, TypeOK, CommitInFlightIsOpen, IsOpen
<1>3. CASE RegisterState(p, cfg, "ro", schema, Len(published))
  <2>1. Len(published) \in Nat
    BY DEF TypeInv, TypeOK
  <2> QED
    BY <1>1, <1>3, <2>1, RegisterStateType DEF TypeInv, TypeOK
<1> QED
  BY <1>2, <1>3 DEF OpenReadOnly

\* The failing ends of a write: refused arguments, no writer.
TurnedAway(p, h) ==
    \/ \E marked \in BOOLEAN : Reject(p, h, marked)
    \/ EnsureWriterFails(p, h)

\* A new writer takes the lock, and is going to fail.
Begins(p, h) ==
    /\ ~HasWriter(p, h) /\ lock = None
    /\ lock' = <<p, h>> /\ starting' = [starting EXCEPT ![p] = h]
    /\ reply' = [reply EXCEPT ![p] = NoReply]
    /\ UNCHANGED <<table, stamp>>

\* Whoever is turned away is answered at once, or begins a writer.
LEMMA TurnedAwayEnds ==
  ASSUME NEW p, NEW h, TurnedAway(p, h)
  PROVE  \/ /\ UNCHANGED <<lock, table, starting, stamp>>
            /\ Answer(p, "write", h, "error") \/ Answer(p, "write", h, "busy")
         \/ Begins(p, h)
  BY DEF TurnedAway, Reject, EnsureWriterFails, ForOperation, Begins

LEMMA RefusedWriteType ==
  ASSUME TypeInv, NEW p \in Processes, NEW h \in Handles,
         TurnedAway(p, h),
         UNCHANGED <<schema, published, nextHandle, client, committing>>
  PROVE  TypeInv'
<1>1. h \in 0 .. MaxHandles /\ 0 \in 0 .. MaxHandles
  BY ConstantsAssumption DEF Handles
<1>2. CASE /\ UNCHANGED <<lock, table, starting, stamp>>
           /\ Answer(p, "write", h, "error") \/ Answer(p, "write", h, "busy")
  BY <1>1, <1>2, AnswerType DEF TypeInv, TypeOK, CommitInFlightIsOpen, IsOpen
<1>3. CASE Begins(p, h)
  <2>1. starting' \in [Processes -> 0 .. MaxHandles]
    BY <1>1, <1>3 DEF Begins, TypeInv, TypeOK
  <2>2. lock' \in Sessions \cup {None}
    BY <1>3 DEF Begins, Sessions
  <2>3. reply' \in [Processes ->
            [call : {"none", "open", "invalid", "write", "commit", "close"},
             handle : 0 .. MaxHandles,
             outcome : {"none", "ok", "error", "busy"}]]
    BY <1>1, <1>3 DEF Begins, TypeInv, TypeOK, NoReply
  <2> QED
    BY <1>3, <2>1, <2>2, <2>3 DEF Begins, TypeInv, TypeOK, CommitInFlightIsOpen, IsOpen
<1> QED
  BY <1>2, <1>3, TurnedAwayEnds

\* The writer that was begun fails.
LEMMA WriterFailsType ==
  ASSUME TypeInv, NEW p \in Processes, NEW h \in Handles, WriterFails(p, h)
  PROVE  TypeInv'
<1>1. h \in 0 .. MaxHandles /\ 0 \in 0 .. MaxHandles
  BY ConstantsAssumption DEF Handles
<1>2. starting' \in [Processes -> 0 .. MaxHandles]
  BY <1>1 DEF WriterFails, TypeInv, TypeOK
<1>3. Answer(p, "write", h, "error")
  BY DEF WriterFails, ForOperation
<1> QED
  BY <1>1, <1>2, <1>3, AnswerType DEF WriterFails, TypeInv, TypeOK, CommitInFlightIsOpen, IsOpen

\* A write that reached the writer.
LEMMA StoredWriteType ==
  ASSUME TypeInv, NEW p \in Processes, NEW h \in Handles, IsOpen(p, h),
         NEW b \in Buffers, StoreWriter(p, h, b), stamp' \in 0 .. MaxStamps,
         Answer(p, "write", h, "ok") \/ Answer(p, "write", h, "error"),
         UNCHANGED <<schema, published, nextHandle, client, committing>>
  PROVE  TypeInv'
<1>1. h \in 0 .. MaxHandles /\ UNCHANGED starting
  BY ConstantsAssumption DEF Handles, StoreWriter
<1> QED
  BY <1>1, StoreWriterType, AnswerType DEF TypeInv, TypeOK

\* add_document
LEMMA AddDocumentType ==
  ASSUME TypeInv, NEW p \in Processes, NEW h \in Handles, NEW d \in Documents,
         AddDocument(p, h, d)
  PROVE  TypeInv'
<1>1. IsOpen(p, h) /\ UNCHANGED <<schema, published, nextHandle, client, committing>>
  BY DEF AddDocument, WithState
<1>2. BufferOf(p, h) \in Buffers /\ stamp \in 0 .. MaxStamps /\ MaxStamps \in Nat
  BY BufferOfType, ConstantsAssumption DEF TypeInv, TypeOK
<1>3. CASE TurnedAway(p, h)
  BY <1>1, <1>3, RefusedWriteType
<1>4. CASE /\ d # None /\ stamp < MaxStamps
           /\ StoreWriter(p, h, PushDocument(BufferOf(p, h), stamp + 1, ParseDoc(schema, d)))
           /\ stamp' = stamp + 1
           /\ Answer(p, "write", h, "ok")
  <2>1. ParseDoc(schema, d) \in Contents
    BY <1>4, ParseDocType
  <2>2. stamp + 1 \in Nat /\ stamp' \in 0 .. MaxStamps
    BY <1>2, <1>4
  <2>3. PushDocument(BufferOf(p, h), stamp + 1, ParseDoc(schema, d)) \in Buffers
    BY <1>2, <2>1, <2>2, PushDocumentType
  <2> QED
    BY <1>1, <1>4, <2>2, <2>3, StoredWriteType
<1>5. CASE /\ StoreWriter(p, h, BufferOf(p, h))
           /\ UNCHANGED stamp
           /\ Answer(p, "write", h, "error")
  BY <1>1, <1>2, <1>5, StoredWriteType
<1> QED
  BY <1>3, <1>4, <1>5 DEF AddDocument, TurnedAway

\* delete_by_id
LEMMA DeleteByIdType ==
  ASSUME TypeInv, NEW p \in Processes, NEW h \in Handles, NEW k \in Keys,
         DeleteById(p, h, k[1], k[2])
  PROVE  TypeInv'
<1>1. IsOpen(p, h) /\ UNCHANGED <<schema, published, nextHandle, client, committing>>
  BY DEF DeleteById, WithState
<1>2. BufferOf(p, h) \in Buffers /\ stamp \in 0 .. MaxStamps /\ MaxStamps \in Nat
  BY BufferOfType, ConstantsAssumption DEF TypeInv, TypeOK
<1>3. k[1] \in Names /\ k[2] \in Values
  BY ConstantsAssumption
<1>4. CASE TurnedAway(p, h)
  BY <1>1, <1>4, RefusedWriteType
<1>5. CASE /\ stamp < MaxStamps
           /\ StoreWriter(p, h, PushDelete(BufferOf(p, h), stamp + 1, k[1], k[2]))
           /\ stamp' = stamp + 1
           /\ Answer(p, "write", h, "ok")
  <2>1. stamp + 1 \in Nat /\ stamp' \in 0 .. MaxStamps
    BY <1>2, <1>5
  <2>2. PushDelete(BufferOf(p, h), stamp + 1, k[1], k[2]) \in Buffers
    BY <1>2, <1>3, <2>1, PushDeleteType
  <2> QED
    BY <1>1, <1>5, <2>1, <2>2, StoredWriteType
<1> QED
  BY <1>4, <1>5 DEF DeleteById, TurnedAway, RefusalIsMarked

\* update_document
LEMMA UpdateDocumentType ==
  ASSUME TypeInv, NEW p \in Processes, NEW h \in Handles, NEW k \in Keys, NEW d \in Documents,
         UpdateDocument(p, h, k[1], k[2], d)
  PROVE  TypeInv'
<1> DEFINE deleted == PushDelete(BufferOf(p, h), stamp + 1, k[1], k[2])
<1>1. IsOpen(p, h) /\ UNCHANGED <<schema, published, nextHandle, client, committing>>
  BY DEF UpdateDocument, WithState
<1>2. BufferOf(p, h) \in Buffers /\ stamp \in 0 .. MaxStamps /\ MaxStamps \in Nat
  BY BufferOfType, ConstantsAssumption DEF TypeInv, TypeOK
<1>3. deleted \in Buffers
  <2>1. k[1] \in Names /\ k[2] \in Values
    BY ConstantsAssumption
  <2>2. stamp + 1 \in Nat
    BY <1>2
  <2> QED
    BY <1>2, <2>1, <2>2, PushDeleteType
<1>4. CASE TurnedAway(p, h)
  BY <1>1, <1>4, RefusedWriteType
<1>5. CASE /\ d # None /\ stamp + 1 < MaxStamps
           /\ StoreWriter(p, h, PushDocument(deleted, stamp + 2, ParseDoc(schema, d)))
           /\ stamp' = stamp + 2
           /\ Answer(p, "write", h, "ok")
  <2>1. ParseDoc(schema, d) \in Contents
    BY <1>5, ParseDocType
  <2>2. stamp + 2 \in Nat /\ stamp' \in 0 .. MaxStamps
    BY <1>2, <1>5
  <2>3. PushDocument(deleted, stamp + 2, ParseDoc(schema, d)) \in Buffers
    BY <1>3, <2>1, <2>2, PushDocumentType
  <2> QED
    BY <1>1, <1>5, <2>2, <2>3, StoredWriteType
<1>6. CASE /\ stamp < MaxStamps
           /\ StoreWriter(p, h, deleted)
           /\ stamp' = stamp + 1
           /\ Answer(p, "write", h, "error")
  <2>1. stamp' \in 0 .. MaxStamps
    BY <1>2, <1>6
  <2> QED
    BY <1>1, <1>3, <1>6, <2>1, StoredWriteType
<1> QED
  BY <1>4, <1>5, <1>6 DEF UpdateDocument, TurnedAway, RefusalIsMarked

\* A call on a closed handle, and the first half of a commit.
LEMMA CallOnClosedType ==
  ASSUME TypeInv, NEW p \in Processes, NEW h \in Handles, CallOnClosed(p, h)
  PROVE  TypeInv'
<1>1. h \in 0 .. MaxHandles
  BY ConstantsAssumption DEF Handles
<1> QED
  BY <1>1, AnswerType DEF CallOnClosed, TypeInv, TypeOK, CommitInFlightIsOpen, IsOpen

\* An open state whose writer or reader is replaced by another stays in the table.
LEMMA UpdatedStateType ==
  ASSUME TypeInv, NEW p \in Processes, NEW h \in Handles, IsOpen(p, h),
         NEW st \in IndexStates, table' = [table EXCEPT ![p] = [table[p] EXCEPT ![h] = st]]
  PROVE  /\ table' \in [Processes -> [Handles -> IndexStates \cup {None}]]
         /\ \A q \in Processes, i \in Handles : IsOpen(q, i)' <=> IsOpen(q, i)
  BY NoneAssumption DEF TypeInv, TypeOK, IsOpen

\* commit, up to the reader
LEMMA CommitWriterType ==
  ASSUME TypeInv, NEW p \in Processes, NEW h \in Handles, CommitWriter(p, h)
  PROVE  TypeInv'
<1> DEFINE st == table[p][h]
<1>1. IsOpen(p, h) /\ UNCHANGED <<schema, lock, nextHandle, client, starting, stamp>>
  BY DEF CommitWriter, WithState
<1>2. st \in IndexStates
  BY <1>1 DEF TypeInv, TypeOK, IsOpen
<1>3. h \in 0 .. MaxHandles /\ h # 0 /\ h \in Handles
  BY ConstantsAssumption DEF Handles
<1>4. CASE /\ committing' = [committing EXCEPT ![p] = h]
           /\ UNCHANGED <<published, table, reply>>
  BY <1>1, <1>3, <1>4 DEF TypeInv, TypeOK, CommitInFlightIsOpen, IsOpen
<1>5. CASE /\ published' = Append(published, NextCommit(p, h))
           /\ table' = [table EXCEPT ![p][h].writer = EmptyBuffer]
           /\ committing' = [committing EXCEPT ![p] = h]
           /\ UNCHANGED reply
  <2>1. NextCommit(p, h) \in SUBSET Docs
    BY BufferOfType, CurrentDocsType, CommittedType DEF NextCommit, TypeInv, TypeOK
  <2>2. published' \in Seq(SUBSET Docs)
    BY <1>5, <2>1 DEF TypeInv, TypeOK
  <2>3. [st EXCEPT !.writer = EmptyBuffer] \in IndexStates
    BY <1>2, IndexStateType, EmptyBufferType
  <2>4. table' = [table EXCEPT ![p] = [table[p] EXCEPT ![h] = [st EXCEPT !.writer = EmptyBuffer]]]
    BY <1>5
  <2> HIDE DEF st
  <2>5. /\ table' \in [Processes -> [Handles -> IndexStates \cup {None}]]
        /\ \A q \in Processes, i \in Handles : IsOpen(q, i)' <=> IsOpen(q, i)
    BY <1>1, <2>3, <2>4, UpdatedStateType
  <2>6. CommitInFlightIsOpen'
    BY <1>1, <1>3, <1>5, <2>5 DEF TypeInv, TypeOK, CommitInFlightIsOpen, Handles
  <2> QED
    BY <1>1, <1>3, <1>5, <2>2, <2>5, <2>6 DEF TypeInv, TypeOK
<1>6. CASE /\ HasWriter(p, h)
           /\ \E kept \in SUBSET BufferOf(p, h).adds :
                 table' = [table EXCEPT ![p][h].writer.adds = kept]
           /\ Answer(p, "commit", h, "error")
           /\ UNCHANGED <<published, committing>>
  <2>1. PICK kept \in SUBSET BufferOf(p, h).adds :
           table' = [table EXCEPT ![p][h].writer.adds = kept]
    BY <1>6
  <2> DEFINE b == [st.writer EXCEPT !.adds = kept]
  <2>2. BufferOf(p, h) = st.writer
    BY <1>6 DEF BufferOf
  <2>3. b \in Buffers
    BY <2>2, BufferOfType, KeepSomeType DEF TypeInv
  <2>4. [st EXCEPT !.writer = b] \in IndexStates
    BY <1>2, <2>3, IndexStateType
  <2>5. table' = [table EXCEPT ![p] = [table[p] EXCEPT ![h] = [st EXCEPT !.writer = b]]]
    BY <2>1
  <2> HIDE DEF st, b
  <2>6. /\ table' \in [Processes -> [Handles -> IndexStates \cup {None}]]
        /\ \A q \in Processes, i \in Handles : IsOpen(q, i)' <=> IsOpen(q, i)
    BY <1>1, <2>4, <2>5, UpdatedStateType
  <2>7. CommitInFlightIsOpen'
    BY <1>6, <2>6 DEF TypeInv, TypeOK, CommitInFlightIsOpen, Handles
  <2> QED
    BY <1>1, <1>3, <1>6, <2>6, <2>7, AnswerType DEF TypeInv, TypeOK
<1> QED
  BY <1>4, <1>5, <1>6 DEF CommitWriter

\* A reader loads the last commit.
LEMMA ReaderLoadsType ==
  ASSUME TypeInv, NEW p \in Processes, NEW h \in Handles, IsOpen(p, h),
         table' = [table EXCEPT ![p][h].reader = Len(published)]
  PROVE  /\ table' \in [Processes -> [Handles -> IndexStates \cup {None}]]
         /\ \A q \in Processes, i \in Handles : IsOpen(q, i)' <=> IsOpen(q, i)
<1> DEFINE st == [table[p][h] EXCEPT !.reader = Len(published)]
<1>1. table[p][h] \in IndexStates /\ Len(published) \in Nat
  BY DEF TypeInv, TypeOK, IsOpen
<1>2. st \in IndexStates
  BY <1>1, IndexStateType
<1>3. table' = [table EXCEPT ![p] = [table[p] EXCEPT ![h] = st]]
  OBVIOUS
<1> HIDE DEF st
<1> QED
  BY <1>2, <1>3, UpdatedStateType

\* commit, the rest
LEMMA CommitReloadType ==
  ASSUME TypeInv, NEW p \in Processes, NEW h \in Handles, CommitReload(p, h)
  PROVE  TypeInv'
<1>1. /\ committing[p] = h
      /\ committing' = [committing EXCEPT ![p] = 0]
      /\ UNCHANGED <<schema, published, lock, nextHandle, client, starting, stamp>>
  BY DEF CommitReload
<1>2. h \in 0 .. MaxHandles /\ h # 0 /\ 0 \in 0 .. MaxHandles
  BY ConstantsAssumption DEF Handles
<1>3. IsOpen(p, h)
  BY <1>1, <1>2 DEF TypeInv, CommitInFlightIsOpen
<1>4. committing' \in [Processes -> 0 .. MaxHandles]
  BY <1>1, <1>2 DEF TypeInv, TypeOK
<1>5. Answer(p, "commit", h, "ok") \/ Answer(p, "commit", h, "error")
  BY DEF CommitReload
<1>6. /\ table' \in [Processes -> [Handles -> IndexStates \cup {None}]]
      /\ \A q \in Processes, i \in Handles : IsOpen(q, i)' <=> IsOpen(q, i)
  BY <1>3, ReaderLoadsType DEF CommitReload, TypeInv, TypeOK, IsOpen
<1>7. CommitInFlightIsOpen'
  BY <1>1, <1>6 DEF TypeInv, TypeOK, CommitInFlightIsOpen, Handles
<1> QED
  BY <1>1, <1>2, <1>4, <1>5, <1>6, <1>7, AnswerType DEF TypeInv, TypeOK

\* The reader's watcher
LEMMA WatcherReloadType ==
  ASSUME TypeInv, NEW p \in Processes, NEW h \in Handles, WatcherReload(p, h)
  PROVE  TypeInv'
<1>1. /\ table' \in [Processes -> [Handles -> IndexStates \cup {None}]]
      /\ \A q \in Processes, i \in Handles : IsOpen(q, i)' <=> IsOpen(q, i)
  BY ReaderLoadsType DEF WatcherReload
<1>2. CommitInFlightIsOpen'
  BY <1>1 DEF WatcherReload, TypeInv, TypeOK, CommitInFlightIsOpen, Handles
<1> QED
  BY <1>1, <1>2 DEF WatcherReload, TypeInv, TypeOK

\* A handle is closed in a process that is not inside a commit.
LEMMA DropStateType ==
  ASSUME TypeInv, NEW p \in Processes, NEW h \in Handles, CanCall(p, h), DropState(p, h),
         UNCHANGED committing
  PROVE  /\ table' \in [Processes -> [Handles -> IndexStates \cup {None}]]
         /\ lock' \in Sessions \cup {None}
         /\ CommitInFlightIsOpen'
<1>1. table' = [table EXCEPT ![p] = [table[p] EXCEPT ![h] = None]]
  BY DEF DropState
<1>2. table' \in [Processes -> [Handles -> IndexStates \cup {None}]]
  BY <1>1 DEF TypeInv, TypeOK
<1>3. lock' \in Sessions \cup {None}
  BY DEF DropState, TypeInv, TypeOK
<1>4. \A q \in Processes : q # p => table'[q] = table[q]
  BY <1>1 DEF TypeInv, TypeOK
<1>5. CommitInFlightIsOpen'
  BY <1>4 DEF TypeInv, CommitInFlightIsOpen, CanCall, Idle, IsOpen
<1> QED
  BY <1>2, <1>3, <1>5

\* Index::close
LEMMA CloseType ==
  ASSUME TypeInv, NEW p \in Processes, NEW h \in Handles, Close(p, h)
  PROVE  TypeInv'
<1>1. h \in 0 .. MaxHandles
  BY ConstantsAssumption DEF Handles
<1> QED
  BY <1>1, DropStateType, AnswerType DEF Close, TypeInv, TypeOK

\* ExtClient::__destruct and the native Drop
LEMMA DestructType ==
  ASSUME TypeInv, NEW p \in Processes, NEW h \in Handles, Destruct(p, h)
  PROVE  TypeInv'
<1>1. client' \in [Processes -> [Handles -> Clients \cup {None}]]
  BY DEF Destruct, TypeInv, TypeOK
<1> QED
  BY <1>1, DropStateType DEF Destruct, TypeInv, TypeOK

\* The death of a process
LEMMA CrashType ==
  ASSUME TypeInv, NEW p \in Processes, Crash(p)
  PROVE  TypeInv'
<1>1. 0 \in 0 .. MaxHandles /\ 1 \in 1 .. MaxHandles + 1
  BY ConstantsAssumption
<1>2. CommitInFlightIsOpen'
  BY DEF Crash, TypeInv, TypeOK, CommitInFlightIsOpen, IsOpen
<1>3. reply' \in [Processes ->
            [call : {"none", "open", "invalid", "write", "commit", "close"},
             handle : 0 .. MaxHandles,
             outcome : {"none", "ok", "error", "busy"}]]
  BY <1>1 DEF Crash, TypeInv, TypeOK, NoReply
<1> QED
  BY <1>1, <1>2, <1>3 DEF Crash, FirstHandle, TypeInv, TypeOK

\* Every step keeps the types.
LEMMA TypeStep == TypeInv /\ [Next]_vars => TypeInv'
<1> SUFFICES ASSUME TypeInv, [Next]_vars
             PROVE  TypeInv'
  OBVIOUS
<1>1. CASE UNCHANGED vars
  BY <1>1 DEF TypeInv, TypeOK, CommitInFlightIsOpen, IsOpen, vars
<1>2. CASE Next
  <2>1. ASSUME NEW p \in Processes, NEW cfg \in Configs,
               OpenOrCreate(p, cfg) \/ OpenReadOnly(p, cfg)
        PROVE  TypeInv'
    BY <2>1, OpenOrCreateType, OpenReadOnlyType
  <2>2. ASSUME NEW p \in Processes, NEW h \in Handles, Call(p, h)
        PROVE  TypeInv'
    BY <2>2, CallOnClosedType, AddDocumentType, DeleteByIdType, UpdateDocumentType,
       WriterFailsType, CommitWriterType, CommitReloadType, CloseType, DestructType DEF Call
  <2> QED
    BY <1>2, <2>1, <2>2, WatcherReloadType, CrashType DEF Next
<1> QED
  BY <1>1, <1>2

\* TypeInv is an invariant.
LEMMA TypeInvariance == Spec => []TypeInv
<1>1. Init => TypeInv
  BY InitType
<1>2. TypeInv /\ [Next]_vars => TypeInv'
  BY TypeStep
<1> QED
  BY <1>1, <1>2, PTL DEF Spec

(***************************************************************************)
(* Whatever is called in whatever order, every variable keeps its type: in *)
(* particular no operation of writer.rs runs on a handle without a state,  *)
(* and what is buffered and published are documents.                       *)
(***************************************************************************)
THEOREM TypeCorrect == Spec => []TypeOK
<1>1. TypeInv => TypeOK
  BY DEF TypeInv
<1> QED
  BY <1>1, TypeInvariance, PTL

-----------------------------------------------------------------------------
(***************************************************************************)
(* What a step does to the tables, the lock and the clients: one of seven  *)
(* shapes, or nothing.  The invariants below are proved shape by shape.    *)
(***************************************************************************)

registryVars == <<table, lock, starting, nextHandle, client>>

\* A state without a writer is registered under a fresh handle.
Registers(p, h) ==
  /\ h = nextHandle[p] /\ UNCHANGED <<lock, starting>>
  /\ \E st \in IndexStates : st.writer = None /\ table' = [table EXCEPT ![p] = [table[p] EXCEPT ![h] = st]]
  /\ \E cl \in Clients : client' = [client EXCEPT ![p] = [client[p] EXCEPT ![h] = cl]]
  /\ nextHandle' = [nextHandle EXCEPT ![p] = h + 1]

\* An open state changes, but not whether it has a writer.
Alters(p, h) ==
  /\ IsOpen(p, h) /\ UNCHANGED <<lock, starting, nextHandle, client>>
  /\ \E st \in IndexStates :
        /\ (st.writer = None) <=> (table[p][h].writer = None)
        /\ table' = [table EXCEPT ![p] = [table[p] EXCEPT ![h] = st]]

\* An open state gets a writer, or goes on with the one it has.
Writes(p, h) ==
  /\ Idle(p) /\ IsOpen(p, h) /\ WriterReady(p, h) /\ lock' = <<p, h>>
  /\ UNCHANGED <<starting, nextHandle, client>>
  /\ \E st \in IndexStates :
        /\ st.writer # None
        /\ table' = [table EXCEPT ![p] = [table[p] EXCEPT ![h] = st]]

\* A handle is closed; its client may go with it.
Drops(p, h) ==
  /\ DropState(p, h) /\ UNCHANGED <<starting, nextHandle>>
  /\ client' \in {client, [client EXCEPT ![p] = [client[p] EXCEPT ![h] = None]]}

\* A writer that will fail takes the lock, or has failed and gives it back.
Takes(p, h) == Begins(p, h) /\ UNCHANGED <<nextHandle, client>>

GivesUp(p, h) ==
  /\ starting[p] = h /\ starting' = [starting EXCEPT ![p] = 0] /\ lock' = None
  /\ UNCHANGED <<table, nextHandle, client>>

RegistryStep ==
  \/ UNCHANGED registryVars
  \/ \E p \in Processes, h \in Handles :
        \/ Registers(p, h) \/ Alters(p, h) \/ Writes(p, h) \/ Drops(p, h)
        \/ Takes(p, h) \/ GivesUp(p, h)
  \/ \E p \in Processes : Crash(p)

\* register_state registers, or leaves the table alone.
LEMMA RegisterStateShape ==
  ASSUME TypeInv, NEW p \in Processes, NEW cfg \in Configs, NEW mode \in {"rw", "ro"},
         NEW onDisk, NEW gen \in Nat, CanOpen(p), UNCHANGED <<lock, starting>>,
         RefuseOpen(p) \/ RegisterState(p, cfg, mode, onDisk, gen)
  PROVE  RegistryStep
<1>1. CASE RefuseOpen(p)
  BY <1>1 DEF RefuseOpen, RegistryStep, registryVars
<1>2. CASE InsertState(p, cfg, mode, gen)
  <2> DEFINE h  == nextHandle[p]
             st == [reader |-> gen, heapOk |-> cfg.heapOk, writer |-> None]
             cl == [mode |-> mode, idField |-> cfg.idField]
  <2>1. h \in Handles
    BY ConstantsAssumption DEF CanOpen, Handles, TypeInv, TypeOK
  <2>2. st \in IndexStates /\ st.writer = None /\ cl \in Clients
    BY ConstantsAssumption DEF IndexStates, Clients
  <2>3. /\ table' = [table EXCEPT ![p] = [table[p] EXCEPT ![h] = st]]
        /\ client' = [client EXCEPT ![p] = [client[p] EXCEPT ![h] = cl]]
        /\ nextHandle' = [nextHandle EXCEPT ![p] = h + 1]
    BY <1>2 DEF InsertState
  <2> HIDE DEF st, cl
  <2>4. Registers(p, h)
    BY <2>2, <2>3 DEF Registers
  <2> QED
    BY <2>1, <2>4 DEF RegistryStep
<1> QED
  BY <1>1, <1>2 DEF RegisterState

\* StoreWriter writes, when ensure_writer has succeeded.
LEMMA StoreWriterShape ==
  ASSUME TypeInv, NEW p \in Processes, NEW h \in Handles,
         Idle(p), IsOpen(p, h), WriterReady(p, h),
         NEW b \in Buffers, StoreWriter(p, h, b), UNCHANGED <<nextHandle, client>>
  PROVE  RegistryStep
<1> DEFINE st == [table[p][h] EXCEPT !.writer = b]
<1>1. table[p][h] \in IndexStates
  BY DEF TypeInv, TypeOK, IsOpen
<1>2. st \in IndexStates /\ st.writer # None
  BY <1>1, IndexStateType, NoneAssumption DEF IndexStates
<1>3. /\ table' = [table EXCEPT ![p] = [table[p] EXCEPT ![h] = st]]
      /\ lock' = <<p, h>> /\ UNCHANGED starting
  BY DEF StoreWriter
<1> HIDE DEF st
<1>4. Writes(p, h)
  BY <1>2, <1>3 DEF Writes
<1> QED
  BY <1>4 DEF RegistryStep

\* A call of writer.rs that buffers.
LEMMA WriteShape ==
  ASSUME TypeInv, NEW p \in Processes, NEW h \in Handles,
         \/ \E d \in Documents : AddDocument(p, h, d)
         \/ \E k \in Keys : DeleteById(p, h, k[1], k[2])
         \/ \E k \in Keys, d \in Documents : UpdateDocument(p, h, k[1], k[2], d)
  PROVE  RegistryStep
<1>1. Idle(p) /\ IsOpen(p, h) /\ UNCHANGED <<nextHandle, client>>
  BY DEF AddDocument, DeleteById, UpdateDocument, WithState, CanCall
<1>2. BufferOf(p, h) \in Buffers /\ stamp \in Nat
  BY BufferOfType, ConstantsAssumption DEF TypeInv, TypeOK
<1>3. stamp + 1 \in Nat /\ stamp + 2 \in Nat
  BY <1>2
<1>4. CASE TurnedAway(p, h)
  <2>1. UNCHANGED registryVars \/ Takes(p, h)
    BY <1>1, <1>4, TurnedAwayEnds DEF Takes, registryVars
  <2> QED
    BY <2>1 DEF RegistryStep
<1>5. ASSUME NEW d \in Documents, AddDocument(p, h, d), ~TurnedAway(p, h)
      PROVE  RegistryStep
  <2> DEFINE pushed == PushDocument(BufferOf(p, h), stamp + 1, ParseDoc(schema, d))
  <2>1. /\ d # None /\ WriterReady(p, h)
        /\ StoreWriter(p, h, pushed) \/ StoreWriter(p, h, BufferOf(p, h))
    BY <1>5 DEF AddDocument, TurnedAway
  <2>2. pushed \in Buffers
    BY <1>2, <1>3, <2>1, ParseDocType, PushDocumentType
  <2> QED
    BY <1>1, <1>2, <2>1, <2>2, StoreWriterShape
<1>6. ASSUME NEW k \in Keys, DeleteById(p, h, k[1], k[2]), ~TurnedAway(p, h)
      PROVE  RegistryStep
  <2> DEFINE deleted == PushDelete(BufferOf(p, h), stamp + 1, k[1], k[2])
  <2>1. WriterReady(p, h) /\ StoreWriter(p, h, deleted)
    BY <1>6 DEF DeleteById, TurnedAway, RefusalIsMarked
  <2>2. k[1] \in Names /\ k[2] \in Values
    BY ConstantsAssumption
  <2>3. deleted \in Buffers
    BY <1>2, <1>3, <2>2, PushDeleteType
  <2> QED
    BY <1>1, <2>1, <2>3, StoreWriterShape
<1>7. ASSUME NEW k \in Keys, NEW d \in Documents, UpdateDocument(p, h, k[1], k[2], d),
             ~TurnedAway(p, h)
      PROVE  RegistryStep
  <2> DEFINE deleted == PushDelete(BufferOf(p, h), stamp + 1, k[1], k[2])
             pushed  == PushDocument(deleted, stamp + 2, ParseDoc(schema, d))
  <2>1. /\ d # None /\ WriterReady(p, h)
        /\ StoreWriter(p, h, pushed) \/ StoreWriter(p, h, deleted)
    BY <1>7 DEF UpdateDocument, TurnedAway, RefusalIsMarked
  <2>2. k[1] \in Names /\ k[2] \in Values
    BY ConstantsAssumption
  <2>3. deleted \in Buffers
    BY <1>2, <1>3, <2>2, PushDeleteType
  <2>4. pushed \in Buffers
    BY <1>3, <2>1, <2>3, ParseDocType, PushDocumentType
  <2> QED
    BY <1>1, <2>1, <2>3, <2>4, StoreWriterShape
<1> QED
  BY <1>4, <1>5, <1>6, <1>7

\* The two halves of a commit, and the watcher.
LEMMA CommitShape ==
  ASSUME TypeInv, NEW p \in Processes, NEW h \in Handles,
         CommitWriter(p, h) \/ CommitReload(p, h) \/ WatcherReload(p, h)
  PROVE  RegistryStep
<1> DEFINE old == table[p][h]
<1>1. UNCHANGED <<lock, starting, nextHandle, client>>
  BY DEF CommitWriter, CommitReload, WatcherReload
<1>2. IsOpen(p, h)
  BY ConstantsAssumption
     DEF CommitWriter, CommitReload, WatcherReload, WithState, TypeInv, CommitInFlightIsOpen, Handles
<1>3. old \in IndexStates
  BY <1>2 DEF TypeInv, TypeOK, IsOpen
<1>4. CASE UNCHANGED table
  BY <1>1, <1>4 DEF RegistryStep, registryVars
<1>5. ASSUME NEW st \in IndexStates, (st.writer = None) <=> (old.writer = None),
             table' = [table EXCEPT ![p] = [table[p] EXCEPT ![h] = st]]
      PROVE  RegistryStep
  <2>1. Alters(p, h)
    BY <1>1, <1>2, <1>5 DEF Alters
  <2> QED
    BY <2>1 DEF RegistryStep
<1>6. CASE HasWriter(p, h) /\ table' = [table EXCEPT ![p][h].writer = EmptyBuffer]
  <2> DEFINE st == [old EXCEPT !.writer = EmptyBuffer]
  <2>1. st \in IndexStates
    BY <1>3, EmptyBufferType, IndexStateType
  <2>2. (st.writer = None) <=> (old.writer = None)
    BY <1>3, <1>6, EmptyBufferType, NoneAssumption DEF HasWriter, IndexStates
  <2>3. table' = [table EXCEPT ![p] = [table[p] EXCEPT ![h] = st]]
    BY <1>6
  <2> HIDE DEF st, old
  <2> QED
    BY <1>5, <2>1, <2>2, <2>3
<1>7. ASSUME HasWriter(p, h), NEW kept \in SUBSET BufferOf(p, h).adds,
             table' = [table EXCEPT ![p][h].writer.adds = kept]
      PROVE  RegistryStep
  <2> DEFINE b  == [old.writer EXCEPT !.adds = kept]
             st == [old EXCEPT !.writer = b]
  <2>1. b \in Buffers
    BY <1>7, BufferOfType, KeepSomeType DEF BufferOf, TypeInv
  <2>2. st \in IndexStates
    BY <1>3, <2>1, IndexStateType
  <2>3. st.writer = b
    BY <1>3 DEF IndexStates
  <2>4. (st.writer = None) <=> (old.writer = None)
    BY <1>7, <2>1, <2>3, NoneAssumption DEF HasWriter
  <2>5. table' = [table EXCEPT ![p] = [table[p] EXCEPT ![h] = st]]
    BY <1>7
  <2> HIDE DEF st, b, old
  <2> QED
    BY <1>5, <2>2, <2>4, <2>5
<1>8. CASE table' = [table EXCEPT ![p][h].reader = Len(published)]
  <2> DEFINE st == [old EXCEPT !.reader = Len(published)]
  <2>1. Len(published) \in Nat
    BY DEF TypeInv, TypeOK
  <2>2. st \in IndexStates /\ ((st.writer = None) <=> (old.writer = None))
    BY <1>3, <2>1, IndexStateType DEF IndexStates
  <2>3. table' = [table EXCEPT ![p] = [table[p] EXCEPT ![h] = st]]
    BY <1>8
  <2> HIDE DEF st, old
  <2> QED
    BY <1>5, <2>2, <2>3
<1>9. \/ UNCHANGED table
      \/ HasWriter(p, h) /\ table' = [table EXCEPT ![p][h].writer = EmptyBuffer]
      \/ /\ HasWriter(p, h)
         /\ \E kept \in SUBSET BufferOf(p, h).adds :
               table' = [table EXCEPT ![p][h].writer.adds = kept]
      \/ table' = [table EXCEPT ![p][h].reader = Len(published)]
  BY DEF CommitWriter, CommitReload, WatcherReload
<1> QED
  BY <1>4, <1>6, <1>7, <1>8, <1>9

\* Every step has one of the shapes.
LEMMA StepShape == TypeInv /\ [Next]_vars => RegistryStep
<1> SUFFICES ASSUME TypeInv, [Next]_vars
             PROVE  RegistryStep
  OBVIOUS
<1>1. CASE UNCHANGED vars
  BY <1>1 DEF vars, RegistryStep, registryVars
<1>2. ASSUME NEW p \in Processes, NEW cfg \in Configs, OpenOrCreate(p, cfg)
      PROVE  RegistryStep
  <2>1. Len(published) \in Nat /\ 1 \in Nat
    BY DEF TypeInv, TypeOK
  <2>2. CanOpen(p) /\ UNCHANGED <<lock, starting>>
    BY <1>2 DEF OpenOrCreate
  <2>3. \/ RefuseOpen(p)
        \/ RegisterState(p, cfg, "rw", BuildSchema(cfg.fields), 1)
        \/ RegisterState(p, cfg, "rw", schema, Len(published))
    BY <1>2 DEF OpenOrCreate
  <2> QED
    BY <2>1, <2>2, <2>3, RegisterStateShape
<1>3. ASSUME NEW p \in Processes, NEW cfg \in Configs, OpenReadOnly(p, cfg)
      PROVE  RegistryStep
  <2>1. Len(published) \in Nat
    BY DEF TypeInv, TypeOK
  <2>2. /\ CanOpen(p) /\ UNCHANGED <<lock, starting>>
        /\ RefuseOpen(p) \/ RegisterState(p, cfg, "ro", schema, Len(published))
    BY <1>3 DEF OpenReadOnly
  <2> QED
    BY <2>1, <2>2, RegisterStateShape
<1>4. ASSUME NEW p \in Processes, NEW h \in Handles, Close(p, h) \/ Destruct(p, h)
      PROVE  RegistryStep
  <2>1. Drops(p, h)
    BY <1>4 DEF Close, Destruct, Drops
  <2> QED
    BY <2>1 DEF RegistryStep
<1>5. ASSUME NEW p \in Processes, NEW h \in Handles, CallOnClosed(p, h)
      PROVE  RegistryStep
  BY <1>5 DEF CallOnClosed, RegistryStep, registryVars
<1>6. ASSUME NEW p \in Processes, NEW h \in Handles, WriterFails(p, h)
      PROVE  RegistryStep
  <2>1. GivesUp(p, h)
    BY <1>6 DEF WriterFails, GivesUp
  <2> QED
    BY <2>1 DEF RegistryStep
<1>7. ASSUME NEW p \in Processes, NEW h \in Handles, Call(p, h)
      PROVE  RegistryStep
  BY <1>4, <1>5, <1>6, <1>7, WriteShape, CommitShape DEF Call
<1>8. ASSUME NEW p \in Processes, Crash(p)
      PROVE  RegistryStep
  BY <1>8 DEF RegistryStep
<1> QED
  BY <1>1, <1>2, <1>3, <1>7, <1>8, CommitShape DEF Next

-----------------------------------------------------------------------------
(***************************************************************************)
(* The registry: handles are fresh, open states have a client, and the     *)
(* lock belongs to the session that caches a writer, or makes one in vain; *)
(* never does a session do both.                                           *)
(***************************************************************************)

\* Handles that NEXT_HANDLE has not reached have neither state nor client.
HandlesFresh ==
  \A p \in Processes, h \in Handles :
     h >= nextHandle[p] => table[p][h] = None /\ client[p][h] = None

\* Where a writer is being made none is cached.
NoSecondWriter ==
  \A p \in Processes, h \in Handles : starting[p] = h => ~HasWriter(p, h)

RegistryInv ==
  TypeInv /\ HandlesFresh /\ NoOrphanState /\ WriterLockConsistent /\ NoSecondWriter

\* One entry of a table of processes and handles is replaced.
LEMMA ReplacedEntry ==
  ASSUME NEW S, NEW f \in [Processes -> [Handles -> S]], NEW p \in Processes, NEW h \in Handles,
         NEW v
  PROVE  \A q \in Processes, i \in Handles :
            [f EXCEPT ![p] = [f[p] EXCEPT ![h] = v]][q][i] =
               IF q = p /\ i = h THEN v ELSE f[q][i]
  OBVIOUS

\* Initially no handle is open and nobody holds the lock.
LEMMA RegistryInit == Init => RegistryInv
<1> SUFFICES ASSUME Init
             PROVE  RegistryInv
  OBVIOUS
<1>1. TypeInv
  BY InitType
<1>2. HandlesFresh /\ NoOrphanState
  BY DEF Init, HandlesFresh, NoOrphanState, IsOpen
<1>3. \A p \in Processes, h \in Handles : ~HasWriter(p, h) /\ starting[p] # h
  BY ConstantsAssumption DEF Init, HasWriter, IsOpen, Handles
<1>4. WriterLockConsistent /\ NoSecondWriter
  BY <1>3, NoneAssumption DEF Init, WriterLockConsistent, NoSecondWriter, HoldsLock, Sessions
<1> QED
  BY <1>1, <1>2, <1>4 DEF RegistryInv

\* NEXT_HANDLE only grows, and states and clients appear only at its value.
LEMMA HandlesFreshStep == RegistryInv /\ RegistryStep /\ TypeInv' => HandlesFresh'
<1> SUFFICES ASSUME RegistryInv, RegistryStep, TypeInv'
             PROVE  HandlesFresh'
  OBVIOUS
<1> USE DEF RegistryInv, TypeInv, TypeOK
<1>1. CASE UNCHANGED registryVars
  BY <1>1 DEF HandlesFresh, registryVars
<1>2. ASSUME NEW p \in Processes, NEW h \in Handles, Registers(p, h)
      PROVE  HandlesFresh'
  <2>1. \A q \in Processes, i \in Handles : ~(q = p /\ i = h) =>
           table'[q][i] = table[q][i] /\ client'[q][i] = client[q][i]
    BY <1>2, ReplacedEntry DEF Registers
  <2>2. \A q \in Processes : nextHandle'[q] = IF q = p THEN h + 1 ELSE nextHandle[q]
    BY <1>2 DEF Registers
  <2>3. h \in Nat /\ (\A i \in Handles : i \in Nat) /\ nextHandle[p] = h
    BY <1>2, ConstantsAssumption DEF Handles, Registers
  <2> SUFFICES ASSUME NEW q \in Processes, NEW i \in Handles, i >= nextHandle'[q]
               PROVE  table'[q][i] = None /\ client'[q][i] = None
    BY DEF HandlesFresh
  <2>4. CASE q = p
    <3>1. i >= h + 1
      BY <2>2, <2>4
    <3>2. i >= nextHandle[p] /\ i # h
      BY <2>3, <3>1
    <3> QED
      BY <2>1, <2>4, <3>2 DEF HandlesFresh
  <2>5. CASE q # p
    BY <2>1, <2>2, <2>5 DEF HandlesFresh
  <2> QED
    BY <2>4, <2>5
<1>3. ASSUME NEW p \in Processes, NEW h \in Handles, Alters(p, h) \/ Writes(p, h)
      PROVE  HandlesFresh'
  <2>1. \A q \in Processes, i \in Handles : ~(q = p /\ i = h) => table'[q][i] = table[q][i]
    BY <1>3, ReplacedEntry DEF Alters, Writes
  <2>2. ~(h >= nextHandle[p]) /\ UNCHANGED <<nextHandle, client>>
    BY <1>3 DEF HandlesFresh, Alters, Writes, IsOpen
  <2> QED
    BY <2>1, <2>2 DEF HandlesFresh
<1>4. ASSUME NEW p \in Processes, NEW h \in Handles, Drops(p, h)
      PROVE  HandlesFresh'
  BY <1>4 DEF HandlesFresh, Drops, DropState
<1>5. ASSUME NEW p \in Processes, Crash(p)
      PROVE  HandlesFresh'
  BY <1>5 DEF HandlesFresh, Crash
<1>6. ASSUME NEW p \in Processes, NEW h \in Handles, Takes(p, h) \/ GivesUp(p, h)
      PROVE  HandlesFresh'
  BY <1>6 DEF HandlesFresh, Takes, Begins, GivesUp
<1> QED
  BY <1>1, <1>2, <1>3, <1>4, <1>5, <1>6 DEF RegistryStep

\* A client lets go of its handle only by closing it.
LEMMA NoOrphanStep == RegistryInv /\ RegistryStep => NoOrphanState'
<1> SUFFICES ASSUME RegistryInv, RegistryStep
             PROVE  NoOrphanState'
  OBVIOUS
<1> USE DEF RegistryInv, TypeInv, TypeOK, NoOrphanState, IsOpen
<1>1. CASE UNCHANGED registryVars
  BY <1>1 DEF registryVars
<1>2. ASSUME NEW p \in Processes, NEW h \in Handles, Registers(p, h)
      PROVE  NoOrphanState'
  BY <1>2, NoneAssumption DEF Registers
<1>3. ASSUME NEW p \in Processes, NEW h \in Handles, Alters(p, h) \/ Writes(p, h)
      PROVE  NoOrphanState'
  <2>1. \A q \in Processes, i \in Handles : ~(q = p /\ i = h) => table'[q][i] = table[q][i]
    BY <1>3, ReplacedEntry DEF Alters, Writes
  <2>2. table[p][h] # None /\ UNCHANGED client
    BY <1>3 DEF Alters, Writes
  <2>3. \A q \in Processes, i \in Handles : table'[q][i] # None => table[q][i] # None
    BY <2>1, <2>2
  <2> QED
    BY <2>2, <2>3
<1>4. ASSUME NEW p \in Processes, NEW h \in Handles, Drops(p, h)
      PROVE  NoOrphanState'
  BY <1>4 DEF Drops, DropState
<1>5. ASSUME NEW p \in Processes, Crash(p)
      PROVE  NoOrphanState'
  BY <1>5 DEF Crash
<1>6. ASSUME NEW p \in Processes, NEW h \in Handles, Takes(p, h) \/ GivesUp(p, h)
      PROVE  NoOrphanState'
  BY <1>6 DEF Takes, Begins, GivesUp
<1> QED
  BY <1>1, <1>2, <1>3, <1>4, <1>5, <1>6 DEF RegistryStep

\* A session that begins no writer in this step does not come to have one half made.
LEMMA NoSecondWriterStep == RegistryInv /\ RegistryStep => NoSecondWriter'
<1> SUFFICES ASSUME RegistryInv, RegistryStep,
                    NEW q \in Processes, NEW i \in Handles, starting'[q] = i
             PROVE  ~HasWriter(q, i)'
  BY DEF NoSecondWriter
<1> USE DEF RegistryInv, TypeInv, TypeOK, HasWriter, IsOpen
<1>1. starting[q] = i => ~HasWriter(q, i)
  BY DEF NoSecondWriter
<1>2. i # 0
  BY ConstantsAssumption DEF Handles
<1>3. CASE UNCHANGED registryVars
  BY <1>1, <1>3 DEF registryVars
<1>4. ASSUME NEW p \in Processes, NEW h \in Handles, Registers(p, h)
      PROVE  ~HasWriter(q, i)'
  BY <1>1, <1>4, NoneAssumption DEF Registers
<1>5. ASSUME NEW p \in Processes, NEW h \in Handles, Alters(p, h)
      PROVE  ~HasWriter(q, i)'
  BY <1>1, <1>5, NoneAssumption DEF Alters
<1>6. ASSUME NEW p \in Processes, NEW h \in Handles, Writes(p, h)
      PROVE  ~HasWriter(q, i)'
  <2>1. q # p
    BY <1>2, <1>6 DEF Writes, Idle
  <2> QED
    BY <1>1, <1>6, <2>1 DEF Writes
<1>7. ASSUME NEW p \in Processes, NEW h \in Handles, Drops(p, h)
      PROVE  ~HasWriter(q, i)'
  BY <1>1, <1>7 DEF Drops, DropState
<1>8. ASSUME NEW p \in Processes, NEW h \in Handles, Takes(p, h)
      PROVE  ~HasWriter(q, i)'
  BY <1>1, <1>8 DEF Takes, Begins
<1>9. ASSUME NEW p \in Processes, NEW h \in Handles, GivesUp(p, h)
      PROVE  ~HasWriter(q, i)'
  BY <1>1, <1>2, <1>9 DEF GivesUp
<1>10. ASSUME NEW p \in Processes, Crash(p)
      PROVE  ~HasWriter(q, i)'
  BY <1>1, <1>10 DEF Crash
<1> QED
  BY <1>3, <1>4, <1>5, <1>6, <1>7, <1>8, <1>9, <1>10 DEF RegistryStep

\* A session whose writer is being made in vain does not come to have one.
LEMMA WhileStarting ==
  ASSUME RegistryInv, RegistryInv', Next,
         NEW q \in Processes, NEW i \in Handles, starting[q] = i
  PROVE  ~HasWriter(q, i)'
<1> SUFFICES ASSUME HasWriter(q, i)'
             PROVE  FALSE
  OBVIOUS
<1>1. ~HasWriter(q, i) /\ lock = <<q, i>> /\ i # 0
  BY ConstantsAssumption
     DEF RegistryInv, NoSecondWriter, WriterLockConsistent, HoldsLock, Handles
<1>2. starting'[q] # i /\ lock' = <<q, i>>
  BY DEF RegistryInv, NoSecondWriter, WriterLockConsistent, HoldsLock
<1> USE DEF RegistryInv, TypeInv, TypeOK
<1>3. RegistryStep
  BY StepShape DEF RegistryInv
<1>4. ~UNCHANGED starting
  BY <1>2
<1>5. ASSUME NEW p \in Processes, NEW h \in Handles, Takes(p, h) \/ GivesUp(p, h)
      PROVE  FALSE
  BY <1>1, <1>2, <1>5, NoneAssumption DEF Takes, Begins, GivesUp, Sessions
<1>6. ASSUME NEW p \in Processes, Crash(p)
      PROVE  FALSE
  BY <1>1, <1>2, <1>6, NoneAssumption DEF Crash, Sessions
<1> QED
  BY <1>3, <1>4, <1>5, <1>6 DEF RegistryStep, Registers, Alters, Writes, Drops, registryVars

\* The lock moves only with the writer it belongs to.
LEMMA WriterLockStep == RegistryInv /\ RegistryStep => WriterLockConsistent'
<1> SUFFICES ASSUME RegistryInv, RegistryStep, NEW q \in Processes, NEW i \in Handles
             PROVE  HoldsLock(q, i)' <=> lock' = <<q, i>>
  BY DEF WriterLockConsistent
<1> USE DEF RegistryInv, TypeInv, TypeOK, HoldsLock, HasWriter, IsOpen
<1>1. \A p \in Processes, h \in Handles : HoldsLock(p, h) <=> lock = <<p, h>>
  BY DEF WriterLockConsistent
<1>2. /\ \A p \in Processes, h \in Handles : <<p, h>> # None
      /\ <<q, i>>[1] = q /\ i # 0
  BY NoneAssumption, ConstantsAssumption DEF Sessions, Handles
<1>3. CASE UNCHANGED registryVars
  BY <1>1, <1>3 DEF registryVars
<1>4. ASSUME NEW p \in Processes, NEW h \in Handles, Registers(p, h)
      PROVE  HoldsLock(q, i)' <=> lock' = <<q, i>>
  <2>1. table[p][h] = None
    BY <1>4 DEF Registers, HandlesFresh, Handles
  <2>2. HasWriter(q, i)' <=> HasWriter(q, i)
    BY <1>4, <2>1, NoneAssumption DEF Registers
  <2> QED
    BY <1>1, <1>4, <2>2 DEF Registers
<1>5. ASSUME NEW p \in Processes, NEW h \in Handles, Alters(p, h)
      PROVE  HoldsLock(q, i)' <=> lock' = <<q, i>>
  <2>1. HasWriter(q, i)' <=> HasWriter(q, i)
    BY <1>5, NoneAssumption DEF Alters
  <2> QED
    BY <1>1, <1>5, <2>1 DEF Alters
<1>6. ASSUME NEW p \in Processes, NEW h \in Handles, Writes(p, h)
      PROVE  HoldsLock(q, i)' <=> lock' = <<q, i>>
  <2>1. lock \in {None, <<p, h>>} /\ lock' = <<p, h>>
    BY <1>1, <1>6 DEF Writes, WriterReady
  <2>2. CASE q = p /\ i = h
    BY <1>6, <2>1, <2>2, NoneAssumption DEF Writes
  <2>3. CASE ~(q = p /\ i = h)
    <3>1. <<q, i>> # <<p, h>>
      BY <2>3
    <3>2. ~HoldsLock(q, i)
      BY <1>1, <1>2, <2>1, <3>1
    <3>3. ~HoldsLock(q, i)'
      BY <1>6, <2>3, <3>2 DEF Writes
    <3> QED
      BY <2>1, <3>1, <3>3
  <2> QED
    BY <2>2, <2>3
<1>7. ASSUME NEW p \in Processes, NEW h \in Handles, Drops(p, h)
      PROVE  HoldsLock(q, i)' <=> lock' = <<q, i>>
  <2>1. /\ table' = [table EXCEPT ![p][h] = None] /\ UNCHANGED starting
        /\ lock' = IF HasWriter(p, h) THEN None ELSE lock
    BY <1>7 DEF Drops, DropState
  <2>2. CASE q = p /\ i = h
    <3>1. HoldsLock(q, i)' <=> starting[p] = h
      BY <2>1, <2>2
    <3>2. CASE HasWriter(p, h)
      <4>1. starting[p] # h
        BY <3>2 DEF NoSecondWriter
      <4> QED
        BY <1>2, <2>1, <3>1, <3>2, <4>1
    <3>3. CASE ~HasWriter(p, h)
      <4>1. starting[p] = h <=> lock = <<p, h>>
        BY <1>1, <3>3
      <4> QED
        BY <2>1, <2>2, <3>1, <3>3, <4>1
    <3> QED
      BY <3>2, <3>3
  <2>3. CASE ~(q = p /\ i = h)
    <3>1. HoldsLock(q, i)' <=> HoldsLock(q, i)
      BY <2>1, <2>3
    <3>2. <<q, i>> # <<p, h>> /\ <<q, i>> # None
      BY <1>2, <2>3
    <3>3. HasWriter(p, h) => lock = <<p, h>>
      BY <1>1
    <3>4. lock' = <<q, i>> <=> lock = <<q, i>>
      BY <2>1, <3>2, <3>3
    <3> QED
      BY <1>1, <3>1, <3>4
  <2> QED
    BY <2>2, <2>3
<1>8. ASSUME NEW p \in Processes, NEW h \in Handles, Takes(p, h)
      PROVE  HoldsLock(q, i)' <=> lock' = <<q, i>>
  <2>1. ~HoldsLock(q, i)
    BY <1>1, <1>2, <1>8 DEF Takes, Begins
  <2>2. /\ table' = table /\ lock' = <<p, h>>
        /\ starting'[q] = IF q = p THEN h ELSE starting[q]
    BY <1>8 DEF Takes, Begins
  <2> QED
    BY <2>1, <2>2
<1>9. ASSUME NEW p \in Processes, NEW h \in Handles, GivesUp(p, h)
      PROVE  HoldsLock(q, i)' <=> lock' = <<q, i>>
  <2>1. lock = <<p, h>> /\ ~HasWriter(p, h)
    BY <1>1, <1>9 DEF GivesUp, NoSecondWriter
  <2>2. /\ table' = table /\ lock' = None
        /\ starting'[q] = IF q = p THEN 0 ELSE starting[q]
    BY <1>9 DEF GivesUp
  <2>3. HoldsLock(q, i) => q = p /\ i = h
    BY <1>1, <2>1
  <2>4. ~HoldsLock(q, i)'
    BY <1>2, <2>1, <2>2, <2>3
  <2> QED
    BY <1>2, <2>2, <2>4
<1>10. ASSUME NEW p \in Processes, Crash(p)
      PROVE  HoldsLock(q, i)' <=> lock' = <<q, i>>
  <2>1. lock' = IF lock # None /\ lock[1] = p THEN None ELSE lock
    BY <1>10 DEF Crash
  <2>2. /\ table'[q] = IF q = p THEN [j \in Handles |-> None] ELSE table[q]
        /\ starting'[q] = IF q = p THEN 0 ELSE starting[q]
    BY <1>10 DEF Crash
  <2>3. CASE q = p
    <3>1. ~HoldsLock(q, i)'
      BY <1>2, <2>2, <2>3
    <3>2. lock' # <<q, i>>
      BY <1>2, <2>1, <2>3
    <3> QED
      BY <3>1, <3>2
  <2>4. CASE q # p
    <3>1. HoldsLock(q, i)' <=> HoldsLock(q, i)
      BY <2>2, <2>4
    <3>2. lock' = <<q, i>> <=> lock = <<q, i>>
      BY <1>2, <2>1, <2>4
    <3> QED
      BY <1>1, <3>1, <3>2
  <2> QED
    BY <2>3, <2>4
<1> QED
  BY <1>3, <1>4, <1>5, <1>6, <1>7, <1>8, <1>9, <1>10 DEF RegistryStep

\* RegistryInv is an invariant.
LEMMA RegistryInvariance == Spec => []RegistryInv
<1>1. Init => RegistryInv
  BY RegistryInit
<1>2. RegistryInv /\ [Next]_vars => RegistryInv'
  BY TypeStep, StepShape, HandlesFreshStep, NoOrphanStep, WriterLockStep, NoSecondWriterStep
     DEF RegistryInv
<1> QED
  BY <1>1, <1>2, PTL DEF Spec

(***************************************************************************)
(* However many processes and handles there are, at most one session has a *)
(* writer or is making one, the lock file is held exactly on its behalf,   *)
(* and a closed, freed or dead session, or one whose writer could not be   *)
(* made, holds nothing.                                                    *)
(***************************************************************************)
THEOREM WriterLock == Spec => []WriterLockConsistent
<1>1. RegistryInv => WriterLockConsistent
  BY DEF RegistryInv
<1> QED
  BY <1>1, RegistryInvariance, PTL

(***************************************************************************)
(* No state outlives the PHP object that can close it.                     *)
(***************************************************************************)
THEOREM NoLeak == Spec => []NoOrphanState
<1>1. RegistryInv => NoOrphanState
  BY DEF RegistryInv
<1> QED
  BY <1>1, RegistryInvariance, PTL

(***************************************************************************)
(* A handle is handed out only when no object of its process holds it,     *)
(* however often the process has opened and closed before.                 *)
(***************************************************************************)
THEOREM FreshHandles == Spec => FreshHandle
<1> DEFINE Fresh == \A p \in Processes, h \in Handles :
                       ~IsOpen(p, h) /\ IsOpen(p, h)' => client[p][h] = None
<1>1. ASSUME RegistryInv, RegistryStep
      PROVE  Fresh
  <2> SUFFICES ASSUME NEW q \in Processes, NEW i \in Handles, ~IsOpen(q, i), IsOpen(q, i)'
               PROVE  client[q][i] = None
    OBVIOUS
  <2> USE <1>1 DEF RegistryInv, TypeInv, TypeOK, IsOpen
  <2>1. ASSUME NEW p \in Processes, NEW h \in Handles, Registers(p, h)
        PROVE  client[q][i] = None
    <3>1. q = p /\ i = h
      BY <2>1, ReplacedEntry DEF Registers
    <3>2. h = nextHandle[p] /\ h \in Nat
      BY <2>1, ConstantsAssumption DEF Registers, Handles
    <3> QED
      BY <3>1, <3>2 DEF HandlesFresh
  <2>2. ASSUME NEW p \in Processes, NEW h \in Handles, Alters(p, h) \/ Writes(p, h)
        PROVE  FALSE
    <3>1. IsOpen(p, h) /\ ~(q = p /\ i = h)
      BY <2>2 DEF Alters, Writes
    <3> QED
      BY <2>2, <3>1, ReplacedEntry DEF Alters, Writes
  <2>3. ASSUME NEW p \in Processes, NEW h \in Handles, Drops(p, h)
        PROVE  FALSE
    BY <2>3 DEF Drops, DropState
  <2>4. ASSUME NEW p \in Processes, Crash(p)
        PROVE  FALSE
    BY <2>4 DEF Crash
  <2>5. ASSUME NEW p \in Processes, NEW h \in Handles, Takes(p, h) \/ GivesUp(p, h)
        PROVE  FALSE
    BY <2>5 DEF Takes, Begins, GivesUp
  <2>6. CASE UNCHANGED registryVars
    BY <2>6 DEF registryVars
  <2> QED
    BY <2>1, <2>2, <2>3, <2>4, <2>5, <2>6 DEF RegistryStep
<1>2. RegistryInv /\ [Next]_vars => [Fresh]_vars
  BY <1>1, StepShape DEF RegistryInv
<1> QED
  BY <1>2, RegistryInvariance, PTL DEF Spec, FreshHandle

(***************************************************************************)
(* Where the lock file can be used and no key field looks like the marker, *)
(* a write is refused as "busy" only while another session has a writer    *)
(* or, its heap too small or otherwise in vain, is making one; and the     *)
(* refusal changes nothing.                                                *)
(***************************************************************************)
THEOREM BusyIsContention ==
  ASSUME "lock" \notin Faults, \A k \in Keys : k[1] \notin Marked
  PROVE  Spec => BusyMeansContended
<1> DEFINE Contended ==
      \A p \in Processes, h \in Handles : WriteStep(p, h, "busy") =>
          /\ \E s \in Sessions \ {<<p, h>>} : HoldsLock(s[1], s[2])
          /\ UNCHANGED <<schema, published, lock, table, stamp>>
<1>1. ASSUME RegistryInv, Next
      PROVE  Contended
  <2> SUFFICES ASSUME NEW p \in Processes, NEW h \in Handles, WriteStep(p, h, "busy")
               PROVE  /\ \E s \in Sessions \ {<<p, h>>} : HoldsLock(s[1], s[2])
                      /\ UNCHANGED <<schema, published, lock, table, stamp>>
    OBVIOUS
  <2>1. reply'[p].outcome = "busy"
    BY DEF WriteStep
  <2>2. ASSUME NEW call, NEW outcome, Answer(p, call, h, outcome)
        PROVE  outcome = "busy"
    BY <1>1, <2>1, <2>2 DEF Answer, RegistryInv, TypeInv, TypeOK
  <2>3. ~Answer(p, "write", h, "ok") /\ ~Answer(p, "write", h, "error")
    BY <2>2
  <2>4. EnsureWriterFails(p, h) /\ WithState(p, h)
    <3>1. ~Reject(p, h, FALSE)
      BY <2>3 DEF Reject, ForOperation
    <3>2. ASSUME NEW k \in Keys
          PROVE  ~RefusalIsMarked(k[1])
      BY DEF RefusalIsMarked
    <3>3. ASSUME NEW d \in Documents, AddDocument(p, h, d)
          PROVE  EnsureWriterFails(p, h) /\ WithState(p, h)
      BY <2>3, <3>1, <3>3 DEF AddDocument
    <3>4. ASSUME NEW k \in Keys, DeleteById(p, h, k[1], k[2])
          PROVE  EnsureWriterFails(p, h) /\ WithState(p, h)
      BY <2>3, <3>1, <3>2, <3>4 DEF DeleteById, Reject, ForOperation
    <3>5. ASSUME NEW k \in Keys, NEW d \in Documents, UpdateDocument(p, h, k[1], k[2], d)
          PROVE  EnsureWriterFails(p, h) /\ WithState(p, h)
      BY <2>3, <3>1, <3>2, <3>5 DEF UpdateDocument, Reject, ForOperation
    <3>6. ~WriterFails(p, h)
      BY <2>3 DEF WriterFails, ForOperation
    <3> QED
      BY <3>3, <3>4, <3>5, <3>6 DEF WriteStep
  <2>5. ~Begins(p, h)
    BY <1>1, <2>1 DEF Begins, NoReply, RegistryInv, TypeInv, TypeOK
  <2>6. ~HasWriter(p, h) /\ lock # None /\ UNCHANGED <<lock, table, stamp>>
    BY <2>4, <2>5 DEF EnsureWriterFails, Begins
  <2>7. UNCHANGED <<schema, published>>
    BY DEF WriteStep, AddDocument, DeleteById, UpdateDocument, WriterFails
  <2>8. lock \in Sessions
    BY <1>1, <2>6 DEF RegistryInv, TypeInv, TypeOK
  <2>9. HoldsLock(lock[1], lock[2])
    BY <1>1, <2>8 DEF RegistryInv, WriterLockConsistent, Sessions
  <2>10. ~HoldsLock(p, h)
    BY <2>4, <2>6, ConstantsAssumption DEF HoldsLock, WithState, CanCall, Idle, Handles
  <2>11. lock # <<p, h>>
    BY <1>1, <2>10 DEF RegistryInv, WriterLockConsistent
  <2> QED
    BY <2>6, <2>7, <2>8, <2>9, <2>11
<1>2. RegistryInv /\ [Next]_vars => [Contended]_vars
  BY <1>1
<1> QED
  BY <1>2, RegistryInvariance, PTL DEF Spec, BusyMeansContended

-----------------------------------------------------------------------------
(***************************************************************************)
(* The index on disk: it exists for every client, with a schema that holds *)
(* the client's id field.                                                  *)
(***************************************************************************)

IndexInv ==
  /\ schema = None <=> published = << >>
  /\ \A p \in Processes, h \in Handles : client[p][h] # None => schema # None
  /\ IndexIsUsable

StoreInv == RegistryInv /\ IndexInv

\* A refused open, and every call that is no open, adds no client and keeps the schema.
LEMMA IndexKept ==
  ASSUME IndexInv, UNCHANGED schema, published = << >> <=> published' = << >>,
         \A p \in Processes, h \in Handles : client'[p][h] \in {client[p][h], None}
  PROVE  IndexInv'
  BY DEF IndexInv, IndexIsUsable

\* An accepted open adds one client, whose id field is in the schema.
LEMMA IndexOpened ==
  ASSUME RegistryInv, IndexInv, NEW p \in Processes, NEW cfg \in Configs, NEW mode, NEW gen,
         CanOpen(p), InsertState(p, cfg, mode, gen), schema' # None, HasField(schema', cfg.idField),
         \/ UNCHANGED <<schema, published>>
         \/ schema = None /\ published' # << >> /\ ~DeclaredTwice(schema')
  PROVE  IndexInv'
<1> DEFINE h  == nextHandle[p]
           cl == [mode |-> mode, idField |-> cfg.idField]
<1>1. h \in Handles
  BY ConstantsAssumption DEF CanOpen, Handles, RegistryInv, TypeInv, TypeOK
<1>2. client' = [client EXCEPT ![p] = [client[p] EXCEPT ![h] = cl]]
  BY DEF InsertState
<1>3. \A q \in Processes, i \in Handles :
         client'[q][i] = IF q = p /\ i = h THEN cl ELSE client[q][i]
  BY <1>1, <1>2, ReplacedEntry DEF RegistryInv, TypeInv, TypeOK
<1>4. cl.idField = cfg.idField
  OBVIOUS
<1>5. (schema = None <=> published = << >>)'
  BY DEF IndexInv
<1>6. schema' # None => ~DeclaredTwice(schema')
  BY DEF IndexInv, IndexIsUsable
<1> HIDE DEF h, cl
<1>7. \A q \in Processes, i \in Handles :
         client'[q][i] # None => HasField(schema', client'[q][i].idField)
  <2> SUFFICES ASSUME NEW q \in Processes, NEW i \in Handles, client'[q][i] # None
               PROVE  HasField(schema', client'[q][i].idField)
    OBVIOUS
  <2>1. CASE q = p /\ i = h
    BY <1>3, <1>4, <2>1
  <2>2. CASE ~(q = p /\ i = h)
    <3>1. client'[q][i] = client[q][i]
      BY <1>3, <2>2
    <3>2. schema # None /\ HasField(schema, client[q][i].idField)
      BY <3>1 DEF IndexInv, IndexIsUsable
    <3> QED
      BY <3>1, <3>2
  <2> QED
    BY <2>1, <2>2
<1> QED
  BY <1>5, <1>6, <1>7 DEF IndexInv, IndexIsUsable

\* Only open_or_create makes an index; nothing else touches the schema.
LEMMA IndexStep == StoreInv /\ [Next]_vars => IndexInv'
<1> SUFFICES ASSUME RegistryInv, IndexInv, [Next]_vars
             PROVE  IndexInv'
  BY DEF StoreInv
<1> USE DEF RegistryInv, TypeInv, TypeOK
<1>1. CASE UNCHANGED vars
  BY <1>1 DEF vars, IndexInv, IndexIsUsable
<1>2. ASSUME NEW p \in Processes, NEW cfg \in Configs, OpenOrCreate(p, cfg)
      PROVE  IndexInv'
  <2> DEFINE wanted == BuildSchema(cfg.fields)
  <2>1. CASE RefuseOpen(p) /\ UNCHANGED disk
    BY <2>1, IndexKept DEF RefuseOpen, disk
  <2>2. CASE /\ schema = None /\ schema' = wanted /\ published' = <<{}>>
             /\ ~DeclaredTwice(wanted) /\ RegisterState(p, cfg, "rw", wanted, 1)
    <3>1. wanted # None
      BY NoneAssumption DEF Schemas
    <3>2. <<{}>> # << >>
      OBVIOUS
    <3>3. CASE RefuseOpen(p)
      <4>1. \A q \in Processes, i \in Handles : client'[q][i] = None
        BY <2>2, <3>3 DEF RefuseOpen, IndexInv
      <4> QED
        BY <2>2, <3>1, <3>2, <4>1 DEF IndexInv, IndexIsUsable
    <3>4. CASE InsertState(p, cfg, "rw", 1) /\ HasField(wanted, cfg.idField)
      BY <1>2, <2>2, <3>1, <3>2, <3>4, IndexOpened DEF OpenOrCreate
    <3> QED
      BY <2>2, <3>3, <3>4 DEF RegisterState
  <2>3. CASE /\ schema = wanted /\ UNCHANGED disk
             /\ RegisterState(p, cfg, "rw", schema, Len(published))
    <3>1. schema # None
      BY <2>3, NoneAssumption DEF Schemas
    <3>2. CASE RefuseOpen(p)
      BY <2>3, <3>2, IndexKept DEF RefuseOpen, disk
    <3>3. CASE InsertState(p, cfg, "rw", Len(published)) /\ HasField(schema, cfg.idField)
      BY <1>2, <2>3, <3>1, <3>3, IndexOpened DEF OpenOrCreate, disk
    <3> QED
      BY <2>3, <3>2, <3>3 DEF RegisterState
  <2> QED
    BY <1>2, <2>1, <2>2, <2>3 DEF OpenOrCreate
<1>3. ASSUME NEW p \in Processes, NEW cfg \in Configs, OpenReadOnly(p, cfg)
      PROVE  IndexInv'
  <2>1. CASE RefuseOpen(p)
    BY <1>3, <2>1, IndexKept DEF OpenReadOnly, RefuseOpen
  <2>2. CASE /\ schema # None /\ HasField(schema, cfg.idField)
             /\ InsertState(p, cfg, "ro", Len(published))
    BY <1>3, <2>2, IndexOpened DEF OpenReadOnly
  <2> QED
    BY <1>3, <2>1, <2>2 DEF OpenReadOnly, RegisterState
<1>4. ASSUME NEW p \in Processes, NEW h \in Handles, CommitWriter(p, h)
      PROVE  IndexInv'
  <2>1. UNCHANGED <<schema, client>> /\ client[p][h] # None
    BY <1>4 DEF CommitWriter, WithState, CanCall
  <2>2. published # << >>
    BY <2>1 DEF IndexInv
  <2>3. published' = published \/ published' = Append(published, NextCommit(p, h))
    BY <1>4 DEF CommitWriter
  <2>4. Append(published, NextCommit(p, h)) # << >>
    <3>1. NextCommit(p, h) \in SUBSET Docs
      BY BufferOfType, CurrentDocsType, CommittedType DEF NextCommit
    <3> HIDE DEF RegistryInv, TypeInv, TypeOK
    <3>2. published \in Seq(SUBSET Docs)
      BY DEF RegistryInv, TypeInv, TypeOK
    <3>3. Len(Append(published, NextCommit(p, h))) = Len(published) + 1
      BY <3>1, <3>2
    <3>4. Len(published) \in Nat /\ Len(<< >>) = 0
      BY <3>2
    <3> QED
      BY <3>3, <3>4
  <2> QED
    BY <2>1, <2>2, <2>3, <2>4, IndexKept
<1>5. ASSUME NEW p \in Processes, NEW h \in Handles, Call(p, h), ~CommitWriter(p, h)
      PROVE  IndexInv'
  <2>1. UNCHANGED <<schema, published>>
    BY <1>5 DEF Call, CallOnClosed, AddDocument, DeleteById, UpdateDocument, WriterFails,
                CommitReload, Close, Destruct
  <2>2. \/ UNCHANGED client
        \/ client' = [client EXCEPT ![p] = [client[p] EXCEPT ![h] = None]]
    BY <1>5 DEF Call, CallOnClosed, AddDocument, DeleteById, UpdateDocument, WriterFails,
                CommitReload, Close, Destruct
  <2>3. \A q \in Processes, i \in Handles : client'[q][i] \in {client[q][i], None}
    BY <2>2, ReplacedEntry
  <2> QED
    BY <2>1, <2>3, IndexKept
<1>6. ASSUME NEW p \in Processes, NEW h \in Handles, WatcherReload(p, h)
      PROVE  IndexInv'
  BY <1>6, IndexKept DEF WatcherReload
<1>7. ASSUME NEW p \in Processes, Crash(p)
      PROVE  IndexInv'
  <2>1. \A q \in Processes, i \in Handles : client'[q][i] \in {client[q][i], None}
    BY <1>7 DEF Crash
  <2> QED
    BY <1>7, <2>1, IndexKept DEF Crash
<1> QED
  BY <1>1, <1>2, <1>3, <1>4, <1>5, <1>6, <1>7 DEF Next

\* StoreInv is an invariant.
LEMMA StoreInvariance == Spec => []StoreInv
<1>1. Init => IndexInv
  BY DEF Init, IndexInv, IndexIsUsable
<1>2. StoreInv /\ [Next]_vars => IndexInv'
  BY IndexStep
<1> QED
  BY <1>1, <1>2, RegistryInvariance, PTL DEF Spec, StoreInv

(***************************************************************************)
(* Whatever configs the processes open the index with, its schema names no *)
(* field twice and holds the id field of every client.                     *)
(***************************************************************************)
THEOREM UsableIndex == Spec => []IndexIsUsable
<1>1. StoreInv => IndexIsUsable
  BY DEF StoreInv, IndexInv
<1> QED
  BY <1>1, StoreInvariance, PTL

-----------------------------------------------------------------------------
(***************************************************************************)
(* Commits: from the moment the writer has published until the reader is   *)
(* reloaded, the writer is empty and, holding the lock, the only one that  *)
(* could publish anything else.                                            *)
(***************************************************************************)

EmptyInFlight ==
  \A p \in Processes, h \in Handles :
     committing[p] = h /\ HasWriter(p, h) => table[p][h].writer = EmptyBuffer

CommitInv == EmptyInFlight /\ CommitMakesDurable

\* The parts of CommitInv that are about one process.
EmptyInFlightOf(p) ==
  \A h \in Handles :
     committing[p] = h /\ HasWriter(p, h) => table[p][h].writer = EmptyBuffer

DurableOf(p) ==
  \A h \in Handles :
     /\ reply[p] = [call |-> "commit", handle |-> h, outcome |-> "ok"]
     /\ committing[p] = 0
     /\ HasWriter(p, h)
     => /\ table[p][h].writer = EmptyBuffer
        /\ table[p][h].reader = Len(published)

\* A process that takes no part in a step keeps its commits, whatever is published:
\* if it has a writer, nobody else can publish.
LEMMA OtherProcess ==
  ASSUME CommitInv, NEW q \in Processes,
         table'[q] = table[q], committing'[q] = committing[q], reply'[q] = reply[q],
         UNCHANGED published \/ \A i \in Handles : ~HasWriter(q, i)
  PROVE  EmptyInFlightOf(q)' /\ DurableOf(q)'
  BY DEF CommitInv, EmptyInFlight, CommitMakesDurable, EmptyInFlightOf, DurableOf, HasWriter, IsOpen

\* What a step of p leaves alone in the other processes.
OnlyOf(p) ==
  \A q \in Processes \ {p} :
     table'[q] = table[q] /\ committing'[q] = committing[q] /\ reply'[q] = reply[q]

\* Steps of p concern no other process.
LEMMA StepIsLocal ==
  ASSUME StoreInv, NEW p \in Processes,
         \/ \E cfg \in Configs : OpenOrCreate(p, cfg) \/ OpenReadOnly(p, cfg)
         \/ \E h \in Handles : Call(p, h) \/ WatcherReload(p, h)
         \/ Crash(p)
  PROVE  OnlyOf(p)
<1> USE DEF StoreInv, RegistryInv, TypeInv, TypeOK, OnlyOf, Answer
<1>1. ASSUME NEW cfg \in Configs, OpenOrCreate(p, cfg) \/ OpenReadOnly(p, cfg)
      PROVE  OnlyOf(p)
  <2>1. UNCHANGED committing
    BY <1>1 DEF OpenOrCreate, OpenReadOnly
  <2>2. RefuseOpen(p) \/ \E mode, gen : InsertState(p, cfg, mode, gen)
    BY <1>1 DEF OpenOrCreate, OpenReadOnly, RegisterState
  <2>3. CASE RefuseOpen(p)
    BY <2>1, <2>3 DEF RefuseOpen
  <2>4. ASSUME NEW mode, NEW gen, InsertState(p, cfg, mode, gen)
        PROVE  OnlyOf(p)
    BY <2>1, <2>4 DEF InsertState
  <2> QED
    BY <2>2, <2>3, <2>4
<1>2. ASSUME NEW h \in Handles, CommitWriter(p, h) \/ CommitReload(p, h) \/ WatcherReload(p, h)
      PROVE  OnlyOf(p)
  BY <1>2 DEF CommitWriter, CommitReload, WatcherReload
<1>3. ASSUME NEW h \in Handles,
             CallOnClosed(p, h) \/ WriterFails(p, h) \/ Close(p, h) \/ Destruct(p, h)
      PROVE  OnlyOf(p)
  BY <1>3 DEF CallOnClosed, WriterFails, Close, Destruct, DropState
<1>4. ASSUME NEW h \in Handles, NEW d \in Documents, AddDocument(p, h, d)
      PROVE  OnlyOf(p)
  BY <1>4 DEF AddDocument, Reject, EnsureWriterFails, StoreWriter
<1>5. ASSUME NEW h \in Handles, NEW k \in Keys, DeleteById(p, h, k[1], k[2])
      PROVE  OnlyOf(p)
  BY <1>5 DEF DeleteById, Reject, EnsureWriterFails, StoreWriter
<1>6. ASSUME NEW h \in Handles, NEW k \in Keys, NEW d \in Documents,
             UpdateDocument(p, h, k[1], k[2], d)
      PROVE  OnlyOf(p)
  BY <1>6 DEF UpdateDocument, Reject, EnsureWriterFails, StoreWriter
<1>7. ASSUME Crash(p)
      PROVE  OnlyOf(p)
  BY <1>7 DEF Crash
<1> QED
  BY <1>1, <1>2, <1>3, <1>4, <1>5, <1>6, <1>7 DEF Call

\* Only the session that has the writer publishes over an index that somebody has open.
LEMMA OnlyWriterPublishes ==
  ASSUME StoreInv, NEW p \in Processes,
         \/ \E cfg \in Configs : OpenOrCreate(p, cfg) \/ OpenReadOnly(p, cfg)
         \/ \E h \in Handles : Call(p, h) \/ WatcherReload(p, h)
         \/ Crash(p)
  PROVE  \/ UNCHANGED published
         \/ \A q \in Processes \ {p}, i \in Handles : ~HasWriter(q, i)
<1>1. CASE \E cfg \in Configs : OpenOrCreate(p, cfg) \/ OpenReadOnly(p, cfg)
  <2>1. UNCHANGED published \/ schema = None
    BY <1>1 DEF OpenOrCreate, OpenReadOnly, disk
  <2>2. schema = None => \A q \in Processes, i \in Handles : ~HasWriter(q, i)
    BY DEF StoreInv, RegistryInv, NoOrphanState, IndexInv, HasWriter
  <2> QED
    BY <2>1, <2>2
<1>2. ASSUME NEW h \in Handles, CommitWriter(p, h)
      PROVE  \/ UNCHANGED published
             \/ \A q \in Processes \ {p}, i \in Handles : ~HasWriter(q, i)
  <2>1. CASE HasWriter(p, h)
    <3>1. lock = <<p, h>>
      BY <2>1 DEF StoreInv, RegistryInv, WriterLockConsistent, HoldsLock
    <3> QED
      BY <3>1 DEF StoreInv, RegistryInv, WriterLockConsistent, HoldsLock
  <2>2. CASE ~HasWriter(p, h)
    BY <1>2, <2>2 DEF CommitWriter
  <2> QED
    BY <2>1, <2>2
<1>3. ASSUME NEW h \in Handles, Call(p, h) \/ WatcherReload(p, h), ~CommitWriter(p, h)
      PROVE  UNCHANGED published
  BY <1>3 DEF Call, CallOnClosed, AddDocument, DeleteById, UpdateDocument, WriterFails,
              CommitReload, Close, Destruct, WatcherReload
<1>4. CASE Crash(p)
  BY <1>4 DEF Crash
<1> QED
  BY <1>1, <1>2, <1>3, <1>4

\* A process whose last answer is no successful commit claims nothing.
LEMMA NothingClaimed ==
  ASSUME NEW p \in Processes,
         \/ committing'[p] # 0
         \/ reply'[p].call # "commit"
         \/ reply'[p].outcome # "ok"
  PROVE  DurableOf(p)'
  BY DEF DurableOf

\* A process inside no commit has nothing in flight.
LEMMA NothingInFlight ==
  ASSUME NEW p \in Processes, committing'[p] = 0
  PROVE  EmptyInFlightOf(p)'
  BY ConstantsAssumption DEF EmptyInFlightOf, Handles

\* The process that takes the step keeps the invariant.
LEMMA OwnProcess ==
  ASSUME StoreInv, CommitInv, NEW p \in Processes,
         \/ \E cfg \in Configs : OpenOrCreate(p, cfg) \/ OpenReadOnly(p, cfg)
         \/ \E h \in Handles : Call(p, h) \/ WatcherReload(p, h)
         \/ Crash(p)
  PROVE  EmptyInFlightOf(p)' /\ DurableOf(p)'
<1> USE DEF StoreInv, RegistryInv, TypeInv, TypeOK
<1>1. ASSUME NEW cfg \in Configs, OpenOrCreate(p, cfg) \/ OpenReadOnly(p, cfg)
      PROVE  EmptyInFlightOf(p)' /\ DurableOf(p)'
  <2>1. committing'[p] = 0
    BY <1>1 DEF OpenOrCreate, OpenReadOnly, CanOpen, Idle
  <2>2. reply'[p].call = "open"
    BY <1>1 DEF OpenOrCreate, OpenReadOnly, RegisterState, RefuseOpen, InsertState, Answer
  <2> QED
    BY <2>1, <2>2, NothingClaimed, NothingInFlight
<1>2. ASSUME NEW h \in Handles, Call(p, h), ~CommitWriter(p, h), ~CommitReload(p, h),
             ~WriterFails(p, h), ~Destruct(p, h)
      PROVE  EmptyInFlightOf(p)' /\ DurableOf(p)'
  <2>1. committing'[p] = 0
    BY <1>2 DEF Call, CallOnClosed, AddDocument, DeleteById, UpdateDocument, Close, WithState,
                CanCall, Idle
  <2>2. reply'[p].call # "commit"
    <3>1. \/ \E call, outcome : call # "commit" /\ Answer(p, call, h, outcome)
          \/ \E outcome : Answer(p, "write", h, outcome)
          \/ reply' = [reply EXCEPT ![p] = NoReply]
      BY <1>2 DEF Call, CallOnClosed, AddDocument, DeleteById, UpdateDocument, Close, Reject,
                  EnsureWriterFails
    <3> QED
      BY <3>1 DEF Answer, NoReply
  <2> QED
    BY <2>1, <2>2, NothingClaimed, NothingInFlight
<1>3. ASSUME NEW h \in Handles, CommitWriter(p, h)
      PROVE  EmptyInFlightOf(p)' /\ DurableOf(p)'
  <2>1. committing[p] = 0 /\ IsOpen(p, h) /\ h # 0
    BY <1>3, ConstantsAssumption DEF CommitWriter, WithState, CanCall, Idle, Handles
  <2>2. CASE /\ ~HasWriter(p, h) /\ committing' = [committing EXCEPT ![p] = h]
             /\ UNCHANGED table
    <3>1. committing'[p] = h /\ ~HasWriter(p, h)'
      BY <2>2 DEF HasWriter, IsOpen
    <3> QED
      BY <2>1, <3>1, NothingClaimed DEF EmptyInFlightOf
  <2>3. CASE /\ HasWriter(p, h) /\ committing' = [committing EXCEPT ![p] = h]
             /\ table' = [table EXCEPT ![p][h].writer = EmptyBuffer]
    <3>1. committing'[p] = h
      BY <2>3
    <3>2. table[p][h] \in IndexStates
      BY <2>1 DEF IsOpen
    <3>3. table'[p][h].writer = EmptyBuffer
      BY <2>3, <3>2 DEF IndexStates
    <3> QED
      BY <2>1, <3>1, <3>3, NothingClaimed DEF EmptyInFlightOf
  <2>4. CASE Answer(p, "commit", h, "error") /\ UNCHANGED committing
    <3>1. reply'[p].outcome = "error" /\ committing'[p] = 0
      BY <2>1, <2>4 DEF Answer
    <3> QED
      BY <3>1, NothingClaimed, NothingInFlight
  <2> QED
    BY <1>3, <2>2, <2>3, <2>4 DEF CommitWriter
<1>4. ASSUME NEW h \in Handles, CommitReload(p, h)
      PROVE  EmptyInFlightOf(p)' /\ DurableOf(p)'
  <2>1. committing'[p] = 0 /\ committing[p] = h /\ UNCHANGED published
    BY <1>4 DEF CommitReload
  <2>2. CASE Answer(p, "commit", h, "error")
    <3>1. reply'[p].outcome = "error"
      BY <2>2 DEF Answer
    <3> QED
      BY <2>1, <3>1, NothingClaimed, NothingInFlight
  <2>3. CASE /\ table' = [table EXCEPT ![p][h].reader = Len(published)]
             /\ Answer(p, "commit", h, "ok")
    <3>1. reply'[p].handle = h
      BY <2>3 DEF Answer
    <3>2. IsOpen(p, h)
      BY <2>1, ConstantsAssumption DEF CommitInFlightIsOpen, Handles
    <3>3. table[p][h] \in IndexStates
      BY <3>2 DEF IsOpen
    <3>4. table'[p][h].reader = Len(published) /\ table'[p][h].writer = table[p][h].writer
      BY <2>3, <3>3 DEF IndexStates
    <3>5. HasWriter(p, h)' => table[p][h].writer = EmptyBuffer
      BY <2>1, <3>2, <3>4 DEF CommitInv, EmptyInFlight, HasWriter
    <3>6. DurableOf(p)'
      BY <2>1, <3>1, <3>4, <3>5 DEF DurableOf
    <3> QED
      BY <2>1, <3>6, NothingInFlight
  <2> QED
    BY <1>4, <2>2, <2>3 DEF CommitReload
<1>5. ASSUME NEW h \in Handles, WatcherReload(p, h)
      PROVE  EmptyInFlightOf(p)' /\ DurableOf(p)'
  <2>1. /\ IsOpen(p, h) /\ table' = [table EXCEPT ![p][h].reader = Len(published)]
        /\ UNCHANGED <<published, committing, reply>>
    BY <1>5 DEF WatcherReload
  <2>2. table[p][h] \in IndexStates
    BY <2>1 DEF IsOpen
  <2>3. /\ \A i \in Handles : i # h => table'[p][i] = table[p][i]
        /\ table'[p][h].writer = table[p][h].writer
        /\ table'[p][h].reader = Len(published)
    BY <2>1, <2>2 DEF IndexStates
  <2>4. \A i \in Handles : HasWriter(p, i)' => HasWriter(p, i)
    BY <2>1, <2>3 DEF HasWriter, IsOpen
  <2> QED
    BY <2>1, <2>3, <2>4
       DEF CommitInv, EmptyInFlight, CommitMakesDurable, EmptyInFlightOf, DurableOf
<1>6. ASSUME NEW h \in Handles, Destruct(p, h)
      PROVE  EmptyInFlightOf(p)' /\ DurableOf(p)'
  <2>1. /\ committing[p] = 0 /\ table' = [table EXCEPT ![p][h] = None]
        /\ UNCHANGED <<published, committing, reply>>
    BY <1>6 DEF Destruct, CanCall, Idle, DropState
  <2>2. \A i \in Handles : HasWriter(p, i)' => HasWriter(p, i) /\ table'[p][i] = table[p][i]
    BY <2>1 DEF HasWriter, IsOpen
  <2> QED
    BY <2>1, <2>2, NothingInFlight DEF CommitInv, CommitMakesDurable, DurableOf
<1>7. ASSUME Crash(p)
      PROVE  EmptyInFlightOf(p)' /\ DurableOf(p)'
  <2>1. committing'[p] = 0 /\ reply'[p].call = "none"
    BY <1>7 DEF Crash, NoReply
  <2> QED
    BY <2>1, NothingClaimed, NothingInFlight
<1>8. ASSUME NEW h \in Handles, WriterFails(p, h)
      PROVE  EmptyInFlightOf(p)' /\ DurableOf(p)'
  <2>1. reply'[p].call = "write" /\ UNCHANGED <<table, committing>>
    BY <1>8 DEF WriterFails, Answer
  <2> QED
    BY <2>1, NothingClaimed DEF CommitInv, EmptyInFlight, EmptyInFlightOf, HasWriter, IsOpen
<1> QED
  BY <1>1, <1>2, <1>3, <1>4, <1>5, <1>6, <1>7, <1>8

\* Every step keeps CommitInv.
LEMMA CommitStep == StoreInv /\ CommitInv /\ [Next]_vars => CommitInv'
<1> SUFFICES ASSUME StoreInv, CommitInv, [Next]_vars
             PROVE  CommitInv'
  OBVIOUS
<1>1. CASE UNCHANGED vars
  BY <1>1 DEF vars, CommitInv, EmptyInFlight, CommitMakesDurable, HasWriter, IsOpen
<1>2. ASSUME NEW p \in Processes,
             \/ \E cfg \in Configs : OpenOrCreate(p, cfg) \/ OpenReadOnly(p, cfg)
             \/ \E h \in Handles : Call(p, h) \/ WatcherReload(p, h)
             \/ Crash(p)
      PROVE  CommitInv'
  <2>1. EmptyInFlightOf(p)' /\ DurableOf(p)'
    BY <1>2, OwnProcess
  <2>2. \A q \in Processes \ {p} : EmptyInFlightOf(q)' /\ DurableOf(q)'
    BY <1>2, StepIsLocal, OnlyWriterPublishes, OtherProcess DEF OnlyOf
  <2> QED
    BY <2>1, <2>2 DEF CommitInv, EmptyInFlight, CommitMakesDurable, EmptyInFlightOf, DurableOf
<1> QED
  BY <1>1, <1>2 DEF Next

(***************************************************************************)
(* A successful commit is the whole truth until the process calls again:   *)
(* the session's writer is empty and its reader is on the last commit of   *)
(* the index, whatever the other processes do meanwhile.                   *)
(***************************************************************************)
THEOREM CommitIsDurable == Spec => []CommitMakesDurable
<1>1. Init => CommitInv
  BY DEF Init, CommitInv, EmptyInFlight, CommitMakesDurable, HasWriter, IsOpen
<1>2. StoreInv /\ CommitInv /\ [Next]_vars => CommitInv'
  BY CommitStep
<1>3. CommitInv => CommitMakesDurable
  BY DEF CommitInv
<1> QED
  BY <1>1, <1>2, <1>3, StoreInvariance, PTL DEF Spec

-----------------------------------------------------------------------------
(***************************************************************************)
(* Writes                                                                  *)
(***************************************************************************)

(***************************************************************************)
(* The lock changes hands only through a write whose key field is an exact *)
(* key and whose document is an object, and a writer is cached only for a  *)
(* session whose heap is enough for one.                                   *)
(***************************************************************************)
THEOREM RejectedWritesLeaveTheLock == Spec => RejectedWriteTakesNoLock
<1> DEFINE Accepted(p, h) ==
             \/ \E d \in Documents \ {None} : AddDocument(p, h, d)
             \/ \E k \in Keys : FieldIsExactKey(schema, k[1]) /\
                   \/ DeleteById(p, h, k[1], k[2])
                   \/ \E d \in Documents \ {None} : UpdateDocument(p, h, k[1], k[2], d)
           Rightly == \A p \in Processes, h \in Handles :
                         /\ ~HoldsLock(p, h) /\ HoldsLock(p, h)' => Accepted(p, h)
                         /\ ~HasWriter(p, h) /\ HasWriter(p, h)' => table[p][h].heapOk
           Locks(p, h) == Begins(p, h) \/ (WriterReady(p, h) /\ lock' = <<p, h>>)
<1>1. ASSUME RegistryInv, RegistryInv', Next, NEW p \in Processes, NEW h \in Handles,
             lock' # lock, lock' = <<p, h>>
      PROVE  Accepted(p, h) /\ Locks(p, h)
  <2>1. lock' # None
    BY <1>1, NoneAssumption DEF Sessions
  <2>2. ASSUME NEW q \in Processes, NEW cfg \in Configs, OpenOrCreate(q, cfg) \/ OpenReadOnly(q, cfg)
        PROVE  FALSE
    BY <1>1, <2>2 DEF OpenOrCreate, OpenReadOnly
  <2>3. ASSUME NEW q \in Processes, NEW i \in Handles, Locks(q, i)
        PROVE  q = p /\ i = h
    BY <1>1, <2>3 DEF Begins
  <2>4. ASSUME NEW q \in Processes, NEW i \in Handles, TurnedAway(q, i)
        PROVE  Locks(q, i) /\ EnsureWriterFails(q, i)
    BY <1>1, <2>4, TurnedAwayEnds DEF TurnedAway, Reject
  <2>5. ASSUME NEW q \in Processes, NEW i \in Handles, NEW d \in Documents, AddDocument(q, i, d)
        PROVE  Accepted(p, h) /\ Locks(p, h)
    <3>1. d # None /\ Locks(q, i)
      BY <1>1, <2>4, <2>5 DEF AddDocument, TurnedAway, StoreWriter, Reject
    <3> QED
      BY <2>3, <2>5, <3>1
  <2>6. ASSUME NEW q \in Processes, NEW i \in Handles, NEW k \in Keys, DeleteById(q, i, k[1], k[2])
        PROVE  Accepted(p, h) /\ Locks(p, h)
    <3>1. FieldIsExactKey(schema, k[1]) /\ Locks(q, i)
      BY <1>1, <2>4, <2>6 DEF DeleteById, TurnedAway, StoreWriter, Reject, KeyResolves
    <3> QED
      BY <2>3, <2>6, <3>1
  <2>7. ASSUME NEW q \in Processes, NEW i \in Handles, NEW k \in Keys, NEW d \in Documents,
               UpdateDocument(q, i, k[1], k[2], d)
        PROVE  Accepted(p, h) /\ Locks(p, h)
    <3>1. d # None /\ FieldIsExactKey(schema, k[1]) /\ Locks(q, i)
      BY <1>1, <2>4, <2>7 DEF UpdateDocument, TurnedAway, StoreWriter, Reject, KeyResolves
    <3> QED
      BY <2>3, <2>7, <3>1
  <2>8. ASSUME NEW q \in Processes, NEW i \in Handles,
               \/ CallOnClosed(q, i) \/ WriterFails(q, i) \/ CommitWriter(q, i) \/ CommitReload(q, i)
               \/ Close(q, i) \/ Destruct(q, i) \/ WatcherReload(q, i)
        PROVE  FALSE
    BY <1>1, <2>1, <2>8 DEF CallOnClosed, WriterFails, CommitWriter, CommitReload, Close, Destruct,
                      WatcherReload, DropState
  <2>9. ASSUME NEW q \in Processes, Crash(q)
        PROVE  FALSE
    BY <1>1, <2>1, <2>9 DEF Crash
  <2> QED
    BY <1>1, <2>2, <2>5, <2>6, <2>7, <2>8, <2>9 DEF Next, Call
<1>2. ASSUME RegistryInv, RegistryInv', Next
      PROVE  Rightly
  <2> SUFFICES ASSUME NEW p \in Processes, NEW h \in Handles
               PROVE  /\ ~HoldsLock(p, h) /\ HoldsLock(p, h)' => Accepted(p, h)
                      /\ ~HasWriter(p, h) /\ HasWriter(p, h)' => table[p][h].heapOk
    OBVIOUS
  <2>1. CASE ~HoldsLock(p, h) /\ HoldsLock(p, h)'
    <3>1. lock' = <<p, h>> /\ lock' # lock
      BY <1>2, <2>1 DEF RegistryInv, WriterLockConsistent
    <3>2. Accepted(p, h) /\ Locks(p, h)
      BY <1>1, <1>2, <3>1
    <3>3. HasWriter(p, h)' => table[p][h].heapOk
      BY <2>1, <3>2 DEF Begins, WriterReady, HoldsLock, HasWriter, IsOpen
    <3> QED
      BY <3>2, <3>3
  <2>2. CASE starting[p] = h
    <3>1. ~HasWriter(p, h)
      BY <1>2, <2>2 DEF RegistryInv, NoSecondWriter
    <3>2. ~HasWriter(p, h)'
      BY <1>2, <2>2, <3>1, WhileStarting
    <3> QED
      BY <2>2, <3>2 DEF HoldsLock
  <2> QED
    BY <2>1, <2>2 DEF HoldsLock
<1>3. RegistryInv /\ RegistryInv' /\ [Next]_vars => [Rightly]_vars
  BY <1>2
<1> QED
  BY <1>3, RegistryInvariance, PTL DEF Spec, RejectedWriteTakesNoLock

(***************************************************************************)
(* As long as add_document itself does not fail, a write that throws       *)
(* leaves what the next commit will publish as it was.                     *)
(***************************************************************************)
THEOREM FailedWritesAreHarmless ==
  ASSUME "add" \notin Faults
  PROVE  Spec => FailedWriteKeepsPending
<1> DEFINE Harmless == \A p \in Processes, h \in Handles :
              WriteStep(p, h, "error") \/ WriteStep(p, h, "busy") => UNCHANGED PendingDocs
<1>1. ASSUME RegistryInv, Next
      PROVE  Harmless
  <2> SUFFICES ASSUME NEW p \in Processes, NEW h \in Handles,
                      WriteStep(p, h, "error") \/ WriteStep(p, h, "busy")
               PROVE  UNCHANGED PendingDocs
    OBVIOUS
  <2>1. reply'[p].outcome \notin {"ok", "none"}
    BY DEF WriteStep
  <2>2. ~Answer(p, "write", h, "ok") /\ ~Begins(p, h)
    BY <1>1, <2>1 DEF Answer, Begins, NoReply, RegistryInv, TypeInv, TypeOK
  <2>3. TurnedAway(p, h) \/ WriterFails(p, h)
    BY <2>2 DEF WriteStep, AddDocument, DeleteById, UpdateDocument, TurnedAway, RefusalIsMarked
  <2>4. UNCHANGED <<schema, published>>
    BY DEF WriteStep, AddDocument, DeleteById, UpdateDocument, WriterFails
  <2>5. CASE TurnedAway(p, h)
    <3>1. UNCHANGED <<lock, table>>
      BY <2>2, <2>5, TurnedAwayEnds
    <3> QED
      BY <2>4, <3>1 DEF PendingDocs, WriterSession, CurrentDocs, BufferOf, HasWriter, IsOpen
  <2>6. CASE WriterFails(p, h)
    <3>1. starting[p] = h /\ lock' = None
      BY <2>6 DEF WriterFails
    <3>2. lock = <<p, h>> /\ ~HasWriter(p, h)
      BY <1>1, <3>1 DEF RegistryInv, NoSecondWriter, WriterLockConsistent, HoldsLock
    <3>3. WriterSession = None /\ WriterSession' = None
      BY <3>1, <3>2 DEF WriterSession
    <3> QED
      BY <2>4, <3>3 DEF PendingDocs, CurrentDocs
  <2> QED
    BY <2>3, <2>5, <2>6
<1>2. RegistryInv /\ [Next]_vars => [Harmless]_vars
  BY <1>1
<1> QED
  BY <1>2, RegistryInvariance, PTL DEF Spec, FailedWriteKeepsPending
=============================================================================
