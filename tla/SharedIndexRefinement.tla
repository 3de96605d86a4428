----------------------- MODULE SharedIndexRefinement -----------------------
(***************************************************************************)
(* SharedIndex implements NrtStore, for every value of its constants: the  *)
(* buffers, stamps and terms of tantivy, the lock file and the readers of  *)
(* all the processes are one store with one writer's view.  On the way:    *)
(* what a write, one that returns and one that throws, does to what the    *)
(* next commit will publish.                                               *)
(***************************************************************************)
EXTENDS SharedIndexProofs

(***************************************************************************)
(* What the operations on a buffer do to what its commit would publish.    *)
(* The stamps carry the argument: a delete term is newer than every        *)
(* document it finds, and older than every document added after it.        *)
(***************************************************************************)

\* A fresh writer publishes what is there.
LEMMA EmptyBufferPublishesNothing ==
  ASSUME NEW s, NEW ds
  PROVE  Committed(s, ds, EmptyBuffer) = ds
  BY DEF Committed, EmptyBuffer

\* add_document adds the document, whatever was deleted before.
LEMMA PushDocumentAdds ==
  ASSUME NEW s, NEW ds, NEW b \in Buffers, NEW n \in Nat, NEW c,
         \A del \in b.dels : del.stamp <= n
  PROVE  Committed(s, ds, PushDocument(b, n, c)) =
            Committed(s, ds, b) \cup {[stamp |-> n, fields |-> c]}
<1> DEFINE doc    == [stamp |-> n, fields |-> c]
           pushed == PushDocument(b, n, c)
<1>1. pushed.adds = b.adds \cup {doc} /\ pushed.dels = b.dels
  BY DEF PushDocument, Buffers
<1>2. \A del \in b.dels : ~Deletes(s, del, doc)
  <2> SUFFICES ASSUME NEW del \in b.dels, Deletes(s, del, doc)
               PROVE  FALSE
    OBVIOUS
  <2>1. del.stamp \in Nat /\ del.stamp <= n
    BY DEF Buffers, DeleteTerms
  <2>2. n < del.stamp
    BY DEF Deletes
  <2> QED
    BY <2>1, <2>2
<1> HIDE DEF doc, pushed
<1>3. Committed(s, ds, pushed) = Committed(s, ds, b) \cup {doc}
  BY <1>1, <1>2 DEF Committed
<1> QED
  BY <1>3 DEF doc, pushed

\* What delete_term with an exact key finds among older documents.
LEMMA ExactKeyDeletes ==
  ASSUME NEW s, NEW n, NEW f, NEW v, FieldIsExactKey(s, f), NEW doc, doc.stamp < n
  PROVE  Deletes(s, [stamp |-> n, field |-> f, value |-> v], doc) <=>
            f \in DOMAIN doc.fields /\ doc.fields[f] = v
<1>1. \A w : Terms(s, f, w) = {w}
  BY DEF FieldIsExactKey, Terms
<1> QED
  BY <1>1 DEF Deletes

\* delete_term with an exact key removes the documents that hold the value, and
\* no others, when it is newer than all of them.
LEMMA PushDeleteRemoves ==
  ASSUME NEW s, NEW ds, NEW b \in Buffers, NEW n, NEW f, NEW v, FieldIsExactKey(s, f),
         \A doc \in ds \cup b.adds : doc.stamp < n
  PROVE  Committed(s, ds, PushDelete(b, n, f, v)) =
            {doc \in Committed(s, ds, b) : ~(f \in DOMAIN doc.fields /\ doc.fields[f] = v)}
<1> DEFINE del    == [stamp |-> n, field |-> f, value |-> v]
           pushed == PushDelete(b, n, f, v)
<1>1. pushed.adds = b.adds /\ pushed.dels = b.dels \cup {del}
  BY DEF PushDelete, Buffers
<1>2. \A doc \in ds \cup b.adds :
         Deletes(s, del, doc) <=> f \in DOMAIN doc.fields /\ doc.fields[f] = v
  BY ExactKeyDeletes
<1> HIDE DEF del, pushed
<1>3. Committed(s, ds, pushed) =
         {doc \in ds \cup b.adds : /\ \A old \in b.dels : ~Deletes(s, old, doc)
                                   /\ ~Deletes(s, del, doc)}
  BY <1>1 DEF Committed
<1>4. Committed(s, ds, pushed) =
         {doc \in Committed(s, ds, b) : ~(f \in DOMAIN doc.fields /\ doc.fields[f] = v)}
  BY <1>2, <1>3 DEF Committed
<1> QED
  BY <1>4 DEF pushed

\* A failed commit that loses documents of the buffer loses no others.
LEMMA KeepSomeLoses ==
  ASSUME NEW s, NEW ds, NEW b \in Buffers, NEW kept \in SUBSET b.adds
  PROVE  /\ Committed(s, ds, [b EXCEPT !.adds = kept]) \subseteq Committed(s, ds, b)
         /\ Committed(s, ds, b) \cap ds \subseteq Committed(s, ds, [b EXCEPT !.adds = kept])
<1>1. [b EXCEPT !.adds = kept].adds = kept /\ [b EXCEPT !.adds = kept].dels = b.dels
  BY DEF Buffers
<1> QED
  BY <1>1 DEF Committed

-----------------------------------------------------------------------------
(***************************************************************************)
(* What a step does to the index, the writers and the readers: one of nine *)
(* shapes, or nothing.  The invariant and the refinement are proved shape  *)
(* by shape.  The lock file is not among these: who holds it can be read   *)
(* off the table (WriterLockConsistent), except for a writer that fails,   *)
(* which the store never sees.                                             *)
(***************************************************************************)

storeVars == <<schema, published, table, stamp>>

\* A state that reads commit `gen` and has no writer appears in the table.
Fills(p, h, gen) ==
  /\ ~IsOpen(p, h)
  /\ \E st \in IndexStates :
        /\ st.reader = gen /\ st.writer = None
        /\ table' = [table EXCEPT ![p] = [table[p] EXCEPT ![h] = st]]

\* The index is made, empty; the first state to read it may come with it.
Creates ==
  /\ schema = None /\ published' = <<{}>> /\ UNCHANGED stamp
  /\ UNCHANGED table \/ \E p \in Processes, h \in Handles : Fills(p, h, 1)

\* A state is opened on an index that is there.
Opens(p, h) ==
  /\ schema # None /\ UNCHANGED <<schema, published, stamp>>
  /\ Fills(p, h, Len(published))

\* A writer, new or cached, is left with buffer b after operation n.
Stores(p, h, b, n) ==
  /\ IsOpen(p, h) /\ WriterReady(p, h) /\ b \in Buffers
  /\ StoreWriter(p, h, b) /\ stamp' = n /\ n <= MaxStamps /\ UNCHANGED <<schema, published>>

\* The writer is there, and its buffer as it was.
Touches(p, h) == Stores(p, h, BufferOf(p, h), stamp)

\* A document is added.
Adds(p, h, d) ==
  /\ d # None /\ schema # None
  /\ Stores(p, h, PushDocument(BufferOf(p, h), stamp + 1, ParseDoc(schema, d)), stamp + 1)

\* A delete term is added.
Removes(p, h, k) ==
  /\ FieldIsExactKey(schema, k[1])
  /\ Stores(p, h, PushDelete(BufferOf(p, h), stamp + 1, k[1], k[2]), stamp + 1)

\* A delete term is added, then a document.
Replaces(p, h, k, d) ==
  /\ d # None /\ schema # None /\ FieldIsExactKey(schema, k[1])
  /\ Stores(p, h, PushDocument(PushDelete(BufferOf(p, h), stamp + 1, k[1], k[2]),
                               stamp + 2, ParseDoc(schema, d)), stamp + 2)

\* The writer publishes.
Publishes(p, h) ==
  /\ HasWriter(p, h) /\ published' = Append(published, NextCommit(p, h))
  /\ table' = [table EXCEPT ![p][h].writer = EmptyBuffer]
  /\ UNCHANGED <<schema, stamp>>

\* The writer fails to publish, and keeps some of the documents it had buffered.
Fails(p, h) ==
  /\ HasWriter(p, h)
  /\ \E kept \in SUBSET BufferOf(p, h).adds :
        table' = [table EXCEPT ![p][h].writer.adds = kept]
  /\ UNCHANGED <<schema, published, stamp>>

\* A reader loads the last commit.
Loads(p, h) ==
  /\ IsOpen(p, h) /\ table' = [table EXCEPT ![p][h].reader = Len(published)]
  /\ UNCHANGED <<schema, published, stamp>>

\* A handle is closed.
Closes(p, h) == DropState(p, h) /\ UNCHANGED <<schema, published, stamp>>

SessionStep(p, h) ==
  \/ Opens(p, h) \/ Touches(p, h) \/ Publishes(p, h) \/ Fails(p, h) \/ Loads(p, h)
  \/ Closes(p, h)
  \/ \E d \in Documents : Adds(p, h, d)
  \/ \E k \in Keys : Removes(p, h, k)
  \/ \E k \in Keys, d \in Documents : Replaces(p, h, k, d)

StoreStep ==
  \/ UNCHANGED storeVars
  \/ Creates
  \/ \E p \in Processes, h \in Handles : SessionStep(p, h)
  \/ \E p \in Processes : Crash(p)

\* register_state fills an unused handle, or changes nothing.
LEMMA RegisterFills ==
  ASSUME StoreInv, NEW p \in Processes, NEW cfg \in Configs, NEW mode, NEW onDisk, NEW gen \in Nat,
         CanOpen(p), RegisterState(p, cfg, mode, onDisk, gen)
  PROVE  UNCHANGED table \/ \E h \in Handles : Fills(p, h, gen)
<1>1. CASE RefuseOpen(p)
  BY <1>1 DEF RefuseOpen
<1>2. CASE InsertState(p, cfg, mode, gen)
  <2> DEFINE h  == nextHandle[p]
             st == [reader |-> gen, heapOk |-> cfg.heapOk, writer |-> None]
  <2>1. h \in Handles /\ h >= nextHandle[p]
    BY ConstantsAssumption DEF CanOpen, Handles, StoreInv, RegistryInv, TypeInv, TypeOK
  <2>2. ~IsOpen(p, h)
    BY <2>1 DEF StoreInv, RegistryInv, HandlesFresh, IsOpen
  <2>3. st \in IndexStates /\ st.reader = gen /\ st.writer = None
    BY ConstantsAssumption DEF IndexStates
  <2>4. table' = [table EXCEPT ![p] = [table[p] EXCEPT ![h] = st]]
    BY <1>2 DEF InsertState
  <2> HIDE DEF h, st
  <2>5. Fills(p, h, gen)
    BY <2>2, <2>3, <2>4 DEF Fills
  <2> QED
    BY <2>1, <2>5
<1> QED
  BY <1>1, <1>2 DEF RegisterState

\* open_or_create and open_read_only
LEMMA OpenEffect ==
  ASSUME StoreInv, NEW p \in Processes, NEW cfg \in Configs,
         OpenOrCreate(p, cfg) \/ OpenReadOnly(p, cfg)
  PROVE  StoreStep
<1> DEFINE wanted == BuildSchema(cfg.fields)
<1>1. CanOpen(p) /\ UNCHANGED stamp /\ Len(published) \in Nat /\ 1 \in Nat
  BY DEF OpenOrCreate, OpenReadOnly, StoreInv, RegistryInv, TypeInv, TypeOK
<1>2. wanted # None
  BY NoneAssumption DEF Schemas
<1>3. CASE RefuseOpen(p) /\ UNCHANGED disk
  BY <1>1, <1>3 DEF RefuseOpen, disk, StoreStep, storeVars
<1>4. CASE /\ schema = None /\ published' = <<{}>>
           /\ RegisterState(p, cfg, "rw", wanted, 1)
  <2>1. Creates
    BY <1>1, <1>4, RegisterFills DEF Creates
  <2> QED
    BY <2>1 DEF StoreStep
<1>5. ASSUME schema # None, UNCHANGED disk, NEW mode,
             RegisterState(p, cfg, mode, schema, Len(published))
      PROVE  StoreStep
  <2>1. UNCHANGED table \/ \E h \in Handles : Opens(p, h)
    BY <1>1, <1>5, RegisterFills DEF Opens, disk
  <2> QED
    BY <1>1, <1>5, <2>1 DEF StoreStep, SessionStep, storeVars, disk
<1> QED
  BY <1>2, <1>3, <1>4, <1>5 DEF OpenOrCreate, OpenReadOnly, disk

\* A write that stores nothing: it throws, or waits for its writer to fail.
StoresNothing(p, h) ==
  /\ UNCHANGED storeVars
  /\ \/ Answer(p, "write", h, "error") \/ Answer(p, "write", h, "busy")
     \/ reply' = [reply EXCEPT ![p] = NoReply]

LEMMA TurnedAwayStoresNothing ==
  ASSUME NEW p, NEW h, TurnedAway(p, h), UNCHANGED <<schema, published>>
  PROVE  StoresNothing(p, h)
  BY TurnedAwayEnds DEF Begins, StoresNothing, storeVars

\* add_document, delete_by_id and update_document, once the arguments are accepted
\* and there is a writer.
LEMMA AddEffect ==
  ASSUME StoreInv, NEW p \in Processes, NEW h \in Handles, NEW d \in Documents,
         AddDocument(p, h, d)
  PROVE  \/ StoresNothing(p, h)
         \/ Touches(p, h) /\ Answer(p, "write", h, "error")
         \/ Adds(p, h, d) /\ Answer(p, "write", h, "ok")
<1>1. /\ IsOpen(p, h) /\ client[p][h] # None /\ UNCHANGED <<schema, published>>
  BY DEF AddDocument, WithState, CanCall
<1>2. schema # None /\ BufferOf(p, h) \in Buffers /\ stamp \in 0 .. MaxStamps /\ MaxStamps \in Nat
  BY <1>1, BufferOfType, ConstantsAssumption DEF StoreInv, IndexInv, RegistryInv, TypeInv, TypeOK
<1>3. CASE TurnedAway(p, h)
  BY <1>1, <1>3, TurnedAwayStoresNothing
<1>4. CASE /\ d # None /\ WriterReady(p, h) /\ stamp < MaxStamps
           /\ StoreWriter(p, h, PushDocument(BufferOf(p, h), stamp + 1, ParseDoc(schema, d)))
           /\ stamp' = stamp + 1
           /\ Answer(p, "write", h, "ok")
  <2>1. stamp + 1 \in Nat /\ stamp + 1 <= MaxStamps
    BY <1>2, <1>4
  <2>2. PushDocument(BufferOf(p, h), stamp + 1, ParseDoc(schema, d)) \in Buffers
    BY <1>2, <1>4, <2>1, ParseDocType, PushDocumentType
  <2> QED
    BY <1>1, <1>2, <1>4, <2>1, <2>2 DEF Adds, Stores
<1>5. CASE /\ d # None /\ WriterReady(p, h) /\ StoreWriter(p, h, BufferOf(p, h))
           /\ UNCHANGED stamp
           /\ Answer(p, "write", h, "error")
  BY <1>1, <1>2, <1>5 DEF Touches, Stores
<1> QED
  BY <1>3, <1>4, <1>5 DEF AddDocument, TurnedAway

LEMMA DeleteEffect ==
  ASSUME StoreInv, NEW p \in Processes, NEW h \in Handles, NEW k \in Keys,
         DeleteById(p, h, k[1], k[2])
  PROVE  \/ StoresNothing(p, h)
         \/ Removes(p, h, k) /\ Answer(p, "write", h, "ok")
<1>1. /\ IsOpen(p, h) /\ UNCHANGED <<schema, published>>
  BY DEF DeleteById, WithState
<1>2. BufferOf(p, h) \in Buffers /\ stamp \in 0 .. MaxStamps /\ MaxStamps \in Nat
  BY <1>1, BufferOfType, ConstantsAssumption DEF StoreInv, RegistryInv, TypeInv, TypeOK
<1>3. CASE TurnedAway(p, h)
  BY <1>1, <1>3, TurnedAwayStoresNothing
<1>4. CASE /\ KeyResolves(k[1]) /\ WriterReady(p, h) /\ stamp < MaxStamps
           /\ StoreWriter(p, h, PushDelete(BufferOf(p, h), stamp + 1, k[1], k[2]))
           /\ stamp' = stamp + 1
           /\ Answer(p, "write", h, "ok")
  <2>1. stamp + 1 \in Nat /\ stamp + 1 <= MaxStamps
    BY <1>2, <1>4
  <2>2. k[1] \in Names /\ k[2] \in Values
    BY ConstantsAssumption
  <2>3. PushDelete(BufferOf(p, h), stamp + 1, k[1], k[2]) \in Buffers
    BY <1>2, <2>1, <2>2, PushDeleteType
  <2> QED
    BY <1>1, <1>2, <1>4, <2>1, <2>3 DEF Removes, Stores, KeyResolves
<1> QED
  BY <1>3, <1>4 DEF DeleteById, TurnedAway, RefusalIsMarked

LEMMA UpdateEffect ==
  ASSUME StoreInv, NEW p \in Processes, NEW h \in Handles, NEW k \in Keys, NEW d \in Documents,
         UpdateDocument(p, h, k[1], k[2], d)
  PROVE  \/ StoresNothing(p, h)
         \/ Removes(p, h, k) /\ Answer(p, "write", h, "error")
         \/ Replaces(p, h, k, d) /\ Answer(p, "write", h, "ok")
<1> DEFINE deleted == PushDelete(BufferOf(p, h), stamp + 1, k[1], k[2])
<1>1. /\ IsOpen(p, h) /\ client[p][h] # None /\ UNCHANGED <<schema, published>>
  BY DEF UpdateDocument, WithState, CanCall
<1>2. schema # None /\ BufferOf(p, h) \in Buffers /\ stamp \in 0 .. MaxStamps /\ MaxStamps \in Nat
  BY <1>1, BufferOfType, ConstantsAssumption DEF StoreInv, IndexInv, RegistryInv, TypeInv, TypeOK
<1>3. deleted \in Buffers
  <2>1. k[1] \in Names /\ k[2] \in Values
    BY ConstantsAssumption
  <2>2. stamp + 1 \in Nat
    BY <1>2
  <2> QED
    BY <1>2, <2>1, <2>2, PushDeleteType
<1>4. CASE TurnedAway(p, h)
  BY <1>1, <1>4, TurnedAwayStoresNothing
<1>5. CASE /\ KeyResolves(k[1]) /\ d # None /\ WriterReady(p, h) /\ stamp + 1 < MaxStamps
           /\ StoreWriter(p, h, PushDocument(deleted, stamp + 2, ParseDoc(schema, d)))
           /\ stamp' = stamp + 2
           /\ Answer(p, "write", h, "ok")
  <2>1. stamp + 2 \in Nat /\ stamp + 2 <= MaxStamps
    BY <1>2, <1>5
  <2>2. PushDocument(deleted, stamp + 2, ParseDoc(schema, d)) \in Buffers
    BY <1>3, <1>5, <2>1, ParseDocType, PushDocumentType
  <2> QED
    BY <1>1, <1>2, <1>5, <2>1, <2>2 DEF Replaces, Stores, KeyResolves
<1>6. CASE /\ KeyResolves(k[1]) /\ d # None /\ WriterReady(p, h) /\ stamp < MaxStamps
           /\ StoreWriter(p, h, deleted)
           /\ stamp' = stamp + 1
           /\ Answer(p, "write", h, "error")
  <2>1. stamp + 1 <= MaxStamps
    BY <1>2, <1>6
  <2> QED
    BY <1>1, <1>3, <1>6, <2>1 DEF Removes, Stores, KeyResolves
<1> QED
  BY <1>4, <1>5, <1>6 DEF UpdateDocument, TurnedAway, RefusalIsMarked

\* The two halves of a commit, and the watcher.
LEMMA CommitEffect ==
  ASSUME StoreInv, NEW p \in Processes, NEW h \in Handles,
         CommitWriter(p, h) \/ CommitReload(p, h) \/ WatcherReload(p, h)
  PROVE  UNCHANGED storeVars \/ Publishes(p, h) \/ Fails(p, h) \/ Loads(p, h)
<1>1. CASE CommitWriter(p, h)
  BY <1>1 DEF CommitWriter, Publishes, Fails, storeVars
<1>2. CASE CommitReload(p, h)
  <2>1. IsOpen(p, h)
    BY <1>2, ConstantsAssumption
       DEF CommitReload, StoreInv, RegistryInv, TypeInv, CommitInFlightIsOpen, Handles
  <2> QED
    BY <1>2, <2>1 DEF CommitReload, Loads, storeVars
<1>3. CASE WatcherReload(p, h)
  BY <1>3 DEF WatcherReload, Loads
<1> QED
  BY <1>1, <1>2, <1>3

\* Every step has one of the shapes.
LEMMA StepEffect == StoreInv /\ [Next]_vars => StoreStep
<1> SUFFICES ASSUME StoreInv, [Next]_vars
             PROVE  StoreStep
  OBVIOUS
<1>1. CASE UNCHANGED vars
  BY <1>1 DEF vars, StoreStep, storeVars
<1>2. ASSUME NEW p \in Processes, NEW cfg \in Configs, OpenOrCreate(p, cfg) \/ OpenReadOnly(p, cfg)
      PROVE  StoreStep
  BY <1>2, OpenEffect
<1>3. ASSUME NEW p \in Processes, NEW h \in Handles, Call(p, h) \/ WatcherReload(p, h)
      PROVE  UNCHANGED storeVars \/ SessionStep(p, h)
  <2>1. CASE CallOnClosed(p, h) \/ WriterFails(p, h)
    BY <2>1 DEF CallOnClosed, WriterFails, storeVars
  <2>2. CASE \E d \in Documents : AddDocument(p, h, d)
    BY <2>2, AddEffect DEF SessionStep, StoresNothing
  <2>3. CASE \E k \in Keys : DeleteById(p, h, k[1], k[2])
    BY <2>3, DeleteEffect DEF SessionStep, StoresNothing
  <2>4. CASE \E k \in Keys, d \in Documents : UpdateDocument(p, h, k[1], k[2], d)
    BY <2>4, UpdateEffect DEF SessionStep, StoresNothing
  <2>5. CASE CommitWriter(p, h) \/ CommitReload(p, h) \/ WatcherReload(p, h)
    BY <2>5, CommitEffect DEF SessionStep
  <2>6. CASE Close(p, h) \/ Destruct(p, h)
    BY <2>6 DEF Close, Destruct, Closes, SessionStep
  <2> QED
    BY <1>3, <2>1, <2>2, <2>3, <2>4, <2>5, <2>6 DEF Call
<1>4. ASSUME NEW p \in Processes, Crash(p)
      PROVE  StoreStep
  BY <1>4 DEF StoreStep
<1> QED
  BY <1>1, <1>2, <1>3, <1>4 DEF Next, StoreStep

-----------------------------------------------------------------------------
(***************************************************************************)
(* What the shapes do to the documents of the store and to its sessions.   *)
(***************************************************************************)

\* One entry of the table is replaced.
LEMMA ReplacedState ==
  ASSUME StoreInv, NEW p \in Processes, NEW h \in Handles, NEW st \in IndexStates \cup {None},
         table' = [table EXCEPT ![p] = [table[p] EXCEPT ![h] = st]]
  PROVE  /\ table'[p][h] = st
         /\ \A q \in Processes, i \in Handles : ~(q = p /\ i = h) => table'[q][i] = table[q][i]
  BY ReplacedEntry DEF StoreInv, RegistryInv, TypeInv, TypeOK

\* An entry that stays as it is keeps its buffer.
LEMMA SameBuffer ==
  ASSUME NEW q \in Processes, NEW i \in Handles, table'[q][i] = table[q][i]
  PROVE  /\ (IsOpen(q, i)' <=> IsOpen(q, i)) /\ (HasWriter(q, i)' <=> HasWriter(q, i))
         /\ BufferOf(q, i)' = BufferOf(q, i)
  BY DEF BufferOf, HasWriter, IsOpen

\* The session of an open state has a state of the right type.
LEMMA OpenState ==
  ASSUME StoreInv, NEW p \in Processes, NEW h \in Handles, IsOpen(p, h)
  PROVE  table[p][h] \in IndexStates
  BY DEF StoreInv, RegistryInv, TypeInv, TypeOK, IsOpen

\* What the shapes that write, publish, fail or load make of the entry of (p, h).
LEMMA StoredState ==
  ASSUME StoreInv, NEW p \in Processes, NEW h \in Handles, NEW b \in Buffers, IsOpen(p, h),
         table' = [table EXCEPT ![p][h].writer = b]
  PROVE  /\ table'[p][h] = [table[p][h] EXCEPT !.writer = b]
         /\ table'[p][h].reader = table[p][h].reader
         /\ IsOpen(p, h)' /\ HasWriter(p, h)' /\ BufferOf(p, h)' = b
         /\ \A q \in Processes, i \in Handles : ~(q = p /\ i = h) => table'[q][i] = table[q][i]
<1> DEFINE st == [table[p][h] EXCEPT !.writer = b]
<1>1. table[p][h] \in IndexStates
  BY OpenState
<1>2. st \in IndexStates /\ st.writer = b /\ st.reader = table[p][h].reader /\ st # None /\ b # None
  BY <1>1, IndexStateType, NoneAssumption DEF IndexStates
<1>3. table' = [table EXCEPT ![p] = [table[p] EXCEPT ![h] = st]]
  OBVIOUS
<1> HIDE DEF st
<1>4. /\ table'[p][h] = st
      /\ \A q \in Processes, i \in Handles : ~(q = p /\ i = h) => table'[q][i] = table[q][i]
  BY <1>2, <1>3, ReplacedState
<1>5. IsOpen(p, h)' /\ HasWriter(p, h)' /\ BufferOf(p, h)' = b
  BY <1>2, <1>4 DEF IsOpen, BufferOf, HasWriter
<1> QED
  BY <1>2, <1>4, <1>5 DEF st

LEMMA LoadedState ==
  ASSUME StoreInv, NEW p \in Processes, NEW h \in Handles, IsOpen(p, h),
         table' = [table EXCEPT ![p][h].reader = Len(published)]
  PROVE  /\ table'[p][h].reader = Len(published)
         /\ IsOpen(p, h)' /\ BufferOf(p, h)' = BufferOf(p, h)
         /\ HasWriter(p, h)' <=> HasWriter(p, h)
         /\ \A q \in Processes, i \in Handles : ~(q = p /\ i = h) => table'[q][i] = table[q][i]
<1> DEFINE st == [table[p][h] EXCEPT !.reader = Len(published)]
<1>1. table[p][h] \in IndexStates /\ Len(published) \in Nat
  BY OpenState DEF StoreInv, RegistryInv, TypeInv, TypeOK
<1>2. /\ st \in IndexStates /\ st.writer = table[p][h].writer /\ st.reader = Len(published)
      /\ st # None
  BY <1>1, IndexStateType DEF IndexStates
<1>3. table' = [table EXCEPT ![p] = [table[p] EXCEPT ![h] = st]]
  OBVIOUS
<1> HIDE DEF st
<1>4. /\ table'[p][h] = st
      /\ \A q \in Processes, i \in Handles : ~(q = p /\ i = h) => table'[q][i] = table[q][i]
  BY <1>2, <1>3, ReplacedState
<1>5. /\ IsOpen(p, h)' /\ BufferOf(p, h)' = BufferOf(p, h)
      /\ HasWriter(p, h)' <=> HasWriter(p, h)
  BY <1>2, <1>4 DEF IsOpen, BufferOf, HasWriter
<1> QED
  BY <1>2, <1>4, <1>5

LEMMA FilledState ==
  ASSUME StoreInv, NEW p \in Processes, NEW h \in Handles, NEW gen, Fills(p, h, gen)
  PROVE  /\ table'[p][h].reader = gen
         /\ IsOpen(p, h)' /\ BufferOf(p, h)' = BufferOf(p, h)
         /\ HasWriter(p, h)' <=> HasWriter(p, h)
         /\ \A q \in Processes, i \in Handles : ~(q = p /\ i = h) => table'[q][i] = table[q][i]
<1>1. PICK st \in IndexStates :
         /\ st.reader = gen /\ st.writer = None
         /\ table' = [table EXCEPT ![p] = [table[p] EXCEPT ![h] = st]]
  BY DEF Fills
<1>2. /\ table'[p][h] = st
      /\ \A q \in Processes, i \in Handles : ~(q = p /\ i = h) => table'[q][i] = table[q][i]
  BY <1>1, ReplacedState
<1>3. st # None /\ ~IsOpen(p, h)
  BY NoneAssumption DEF Fills
<1> QED
  BY <1>1, <1>2, <1>3 DEF IsOpen, BufferOf, HasWriter

\* What a failed commit makes of the entry of (p, h).
LEMMA FailedState ==
  ASSUME StoreInv, NEW p \in Processes, NEW h \in Handles, Fails(p, h)
  PROVE  \E kept \in SUBSET BufferOf(p, h).adds :
            /\ table' = [table EXCEPT ![p][h].writer = [BufferOf(p, h) EXCEPT !.adds = kept]]
            /\ [BufferOf(p, h) EXCEPT !.adds = kept] \in Buffers
<1>1. PICK kept \in SUBSET BufferOf(p, h).adds :
         table' = [table EXCEPT ![p][h].writer.adds = kept]
  BY DEF Fails
<1>2. BufferOf(p, h) = table[p][h].writer /\ BufferOf(p, h) \in Buffers
  BY BufferOfType DEF Fails, BufferOf, StoreInv, RegistryInv, TypeInv
<1>3. table' = [table EXCEPT ![p][h].writer = [BufferOf(p, h) EXCEPT !.adds = kept]]
  BY <1>1, <1>2
<1> QED
  BY <1>2, <1>3, KeepSomeType

\* A closed handle, and those of a dead process, are not open.
LEMMA ClosedState ==
  ASSUME StoreInv, NEW p \in Processes, NEW h \in Handles, DropState(p, h)
  PROVE  /\ ~IsOpen(p, h)' /\ BufferOf(p, h)' = EmptyBuffer
         /\ \A q \in Processes, i \in Handles : ~(q = p /\ i = h) => table'[q][i] = table[q][i]
<1>1. table' = [table EXCEPT ![p] = [table[p] EXCEPT ![h] = None]]
  BY DEF DropState
<1>2. None \in IndexStates \cup {None}
  OBVIOUS
<1>3. /\ table'[p][h] = None
      /\ \A q \in Processes, i \in Handles : ~(q = p /\ i = h) => table'[q][i] = table[q][i]
  BY <1>1, <1>2, ReplacedState
<1> QED
  BY <1>3 DEF IsOpen, BufferOf, HasWriter

LEMMA CrashedStates ==
  ASSUME StoreInv, NEW p \in Processes, Crash(p)
  PROVE  /\ \A i \in Handles : ~IsOpen(p, i)' /\ BufferOf(p, i)' = EmptyBuffer
         /\ \A q \in Processes \ {p}, i \in Handles : table'[q][i] = table[q][i]
  BY DEF Crash, StoreInv, RegistryInv, TypeInv, TypeOK, IsOpen, BufferOf, HasWriter

\* What publishing does to the commits.
LEMMA PublishedDocs ==
  ASSUME StoreInv, NEW p \in Processes, NEW h \in Handles, Publishes(p, h)
  PROVE  /\ CurrentDocs' = NextCommit(p, h) /\ NextCommit(p, h) \in SUBSET Docs
         /\ Len(published') = Len(published) + 1 /\ Len(published) \in Nat
         /\ \A n \in 1 .. Len(published) : published'[n] = published[n]
<1>1. published \in Seq(SUBSET Docs) /\ NextCommit(p, h) \in SUBSET Docs
  BY BufferOfType, CurrentDocsType, CommittedType
     DEF NextCommit, StoreInv, RegistryInv, TypeInv, TypeOK
<1> DEFINE docs == NextCommit(p, h)
<1>2. published' = Append(published, docs)
  BY DEF Publishes
<1> HIDE DEF docs
<1>3. docs \in SUBSET Docs
  BY <1>1 DEF docs
<1>4. /\ Len(published') = Len(published) + 1 /\ Len(published) \in Nat
      /\ published'[Len(published) + 1] = docs
      /\ \A n \in 1 .. Len(published) : published'[n] = published[n]
  BY <1>1, <1>2, <1>3
<1>5. published' # << >>
  BY <1>4
<1>6. CurrentDocs' = docs
  BY <1>4, <1>5 DEF CurrentDocs
<1> QED
  BY <1>3, <1>4, <1>6 DEF docs

-----------------------------------------------------------------------------
(***************************************************************************)
(* The invariant under the refinement: what is stamped is no newer than    *)
(* the last stamp, and every reader is on a commit.                        *)
(***************************************************************************)

InOrder(b, n) ==
  /\ \A doc \in b.adds : doc.stamp <= n
  /\ \A del \in b.dels : del.stamp <= n

StampsInOrder ==
  /\ \A doc \in CurrentDocs : doc.stamp <= stamp
  /\ \A p \in Processes, h \in Handles : InOrder(BufferOf(p, h), stamp)

ReadersOnCommits ==
  \A p \in Processes, h \in Handles : IsOpen(p, h) => table[p][h].reader \in 1 .. Len(published)

MappingInv == StoreInv /\ StampsInOrder /\ ReadersOnCommits

\* What StoreInv says of the types.
LEMMA StoreTypes ==
  ASSUME StoreInv
  PROVE  /\ stamp \in Nat /\ MaxStamps \in Nat
         /\ published \in Seq(SUBSET Docs) /\ Len(published) \in Nat
         /\ CurrentDocs \in SUBSET Docs
         /\ \A p \in Processes, h \in Handles : BufferOf(p, h) \in Buffers
  BY ConstantsAssumption, CurrentDocsType, BufferOfType
     DEF StoreInv, RegistryInv, TypeInv, TypeOK

\* Order is kept by waiting, and by pushing the newest stamp.
LEMMA InOrderGrows ==
  ASSUME NEW b \in Buffers, NEW n \in Nat, NEW m \in Nat, n <= m, InOrder(b, n)
  PROVE  InOrder(b, m)
<1>1. ASSUME NEW doc \in b.adds
      PROVE  doc.stamp <= m
  <2>1. doc.stamp \in Nat /\ doc.stamp <= n
    BY DEF InOrder, Buffers, Docs
  <2> QED
    BY <2>1
<1>2. ASSUME NEW del \in b.dels
      PROVE  del.stamp <= m
  <2>1. del.stamp \in Nat /\ del.stamp <= n
    BY DEF InOrder, Buffers, DeleteTerms
  <2> QED
    BY <2>1
<1> QED
  BY <1>1, <1>2 DEF InOrder

LEMMA PushInOrder ==
  ASSUME NEW b \in Buffers, NEW n \in Nat, InOrder(b, n), NEW c, NEW f, NEW v
  PROVE  InOrder(PushDocument(b, n, c), n) /\ InOrder(PushDelete(b, n, f, v), n)
<1>1. /\ PushDocument(b, n, c).adds = b.adds \cup {[stamp |-> n, fields |-> c]}
      /\ PushDocument(b, n, c).dels = b.dels
  BY DEF PushDocument, Buffers
<1>2. /\ PushDelete(b, n, f, v).adds = b.adds
      /\ PushDelete(b, n, f, v).dels = b.dels \cup {[stamp |-> n, field |-> f, value |-> v]}
  BY DEF PushDelete, Buffers
<1>3. InOrder(PushDocument(b, n, c), n)
  BY <1>1 DEF InOrder
<1>4. InOrder(PushDelete(b, n, f, v), n)
  BY <1>2 DEF InOrder
<1> QED
  BY <1>3, <1>4

\* Order is kept when buffers stay, are dropped, or are in order anyway.
LEMMA StampsKept ==
  ASSUME MappingInv, stamp' \in Nat, stamp <= stamp',
         UNCHANGED CurrentDocs \/ \A doc \in CurrentDocs' : doc.stamp <= stamp',
         \A q \in Processes, i \in Handles :
            \/ BufferOf(q, i)' \in {BufferOf(q, i), EmptyBuffer}
            \/ InOrder(BufferOf(q, i)', stamp')
  PROVE  StampsInOrder'
<1>1. stamp \in Nat /\ CurrentDocs \in SUBSET Docs
  BY StoreTypes DEF MappingInv
<1>2. \A doc \in CurrentDocs' : doc.stamp <= stamp'
  <2>1. ASSUME NEW doc \in CurrentDocs
        PROVE  doc.stamp <= stamp'
    <3>1. doc.stamp \in Nat /\ doc.stamp <= stamp
      BY <1>1 DEF MappingInv, StampsInOrder, Docs
    <3> QED
      BY <1>1, <3>1
  <2> QED
    BY <2>1
<1>3. ASSUME NEW q \in Processes, NEW i \in Handles
      PROVE  InOrder(BufferOf(q, i)', stamp')
  <2>1. InOrder(BufferOf(q, i), stamp) /\ BufferOf(q, i) \in Buffers
    BY StoreTypes DEF MappingInv, StampsInOrder
  <2>2. InOrder(BufferOf(q, i), stamp')
    BY <1>1, <2>1, InOrderGrows
  <2>3. InOrder(EmptyBuffer, stamp')
    BY DEF InOrder, EmptyBuffer
  <2> QED
    BY <2>2, <2>3
<1> QED
  BY <1>2, <1>3 DEF StampsInOrder, InOrder

\* Commits stay, so a reader that stays where it is remains on one.
LEMMA ReadersKept ==
  ASSUME MappingInv, Len(published') \in Nat, Len(published) <= Len(published'),
         \A q \in Processes, i \in Handles : IsOpen(q, i)' =>
            \/ IsOpen(q, i) /\ table'[q][i].reader = table[q][i].reader
            \/ table'[q][i].reader \in 1 .. Len(published')
  PROVE  ReadersOnCommits'
<1> SUFFICES ASSUME NEW q \in Processes, NEW i \in Handles, IsOpen(q, i)'
             PROVE  table'[q][i].reader \in 1 .. Len(published')
  BY DEF ReadersOnCommits
<1>1. CASE IsOpen(q, i) /\ table'[q][i].reader = table[q][i].reader
  <2>1. table[q][i].reader \in 1 .. Len(published) /\ Len(published) \in Nat
    BY <1>1, StoreTypes DEF MappingInv, ReadersOnCommits
  <2> QED
    BY <1>1, <2>1
<1> QED
  BY <1>1

\* A write leaves the buffers in order, and the readers where they are.
LEMMA StoresKeepsMapping ==
  ASSUME MappingInv, NEW p \in Processes, NEW h \in Handles, NEW b, NEW n \in Nat,
         Stores(p, h, b, n), stamp <= n, InOrder(b, n)
  PROVE  StampsInOrder' /\ ReadersOnCommits'
<1>1. /\ IsOpen(p, h) /\ b \in Buffers /\ UNCHANGED published /\ stamp' = n
      /\ table' = [table EXCEPT ![p][h].writer = b]
  BY DEF Stores, StoreWriter
<1>2. /\ table'[p][h].reader = table[p][h].reader /\ BufferOf(p, h)' = b
      /\ \A q \in Processes, i \in Handles : ~(q = p /\ i = h) => table'[q][i] = table[q][i]
  BY <1>1, StoredState DEF MappingInv
<1>3. \A q \in Processes, i \in Handles : ~(q = p /\ i = h) =>
         (IsOpen(q, i)' <=> IsOpen(q, i)) /\ BufferOf(q, i)' = BufferOf(q, i)
  BY <1>2, SameBuffer
<1>4. UNCHANGED CurrentDocs
  BY <1>1 DEF CurrentDocs
<1>5. StampsInOrder'
  BY <1>1, <1>2, <1>3, <1>4, StampsKept
<1>6. ReadersOnCommits'
  BY <1>1, <1>2, <1>3, StoreTypes, ReadersKept DEF MappingInv
<1> QED
  BY <1>5, <1>6

\* Every step of a session keeps the invariant.
LEMMA SessionKeepsMapping ==
  ASSUME MappingInv, NEW p \in Processes, NEW h \in Handles, SessionStep(p, h)
  PROVE  StampsInOrder' /\ ReadersOnCommits'
<1>1. /\ StoreInv /\ stamp \in Nat /\ stamp <= stamp /\ Len(published) \in Nat
      /\ Len(published) <= Len(published)
      /\ BufferOf(p, h) \in Buffers /\ InOrder(BufferOf(p, h), stamp)
  BY StoreTypes DEF MappingInv, StampsInOrder
<1>2. CASE Opens(p, h)
  <2>1. UNCHANGED <<published, stamp>> /\ schema # None /\ Fills(p, h, Len(published))
    BY <1>2 DEF Opens
  <2>2. /\ table'[p][h].reader = Len(published) /\ BufferOf(p, h)' = BufferOf(p, h)
        /\ \A q \in Processes, i \in Handles : ~(q = p /\ i = h) => table'[q][i] = table[q][i]
    BY <1>1, <2>1, FilledState
  <2>3. \A q \in Processes, i \in Handles : ~(q = p /\ i = h) =>
           (IsOpen(q, i)' <=> IsOpen(q, i)) /\ BufferOf(q, i)' = BufferOf(q, i)
    BY <2>2, SameBuffer
  <2>4. Len(published) \in 1 .. Len(published)
    <3>1. published # << >> /\ published \in Seq(SUBSET Docs)
      BY <1>1, <2>1, StoreTypes DEF StoreInv, IndexInv
    <3> QED
      BY <3>1
  <2>5. UNCHANGED CurrentDocs
    BY <2>1 DEF CurrentDocs
  <2>6. StampsInOrder'
    BY <1>1, <2>1, <2>2, <2>3, <2>5, StampsKept
  <2>7. ReadersOnCommits'
    BY <1>1, <2>1, <2>2, <2>3, <2>4, ReadersKept
  <2> QED
    BY <2>6, <2>7
<1>3. CASE Touches(p, h)
  BY <1>1, <1>3, StoresKeepsMapping DEF Touches
<1>4. ASSUME NEW d \in Documents, Adds(p, h, d)
      PROVE  StampsInOrder' /\ ReadersOnCommits'
  <2> DEFINE b == PushDocument(BufferOf(p, h), stamp + 1, ParseDoc(schema, d))
  <2>1. stamp + 1 \in Nat /\ stamp <= stamp + 1
    BY <1>1
  <2>2. InOrder(BufferOf(p, h), stamp + 1)
    BY <1>1, <2>1, InOrderGrows
  <2>3. InOrder(b, stamp + 1)
    BY <1>1, <2>1, <2>2, PushInOrder
  <2> QED
    BY <1>4, <2>1, <2>3, StoresKeepsMapping DEF Adds
<1>5. ASSUME NEW k \in Keys, Removes(p, h, k)
      PROVE  StampsInOrder' /\ ReadersOnCommits'
  <2> DEFINE b == PushDelete(BufferOf(p, h), stamp + 1, k[1], k[2])
  <2>1. stamp + 1 \in Nat /\ stamp <= stamp + 1
    BY <1>1
  <2>2. InOrder(BufferOf(p, h), stamp + 1)
    BY <1>1, <2>1, InOrderGrows
  <2>3. InOrder(b, stamp + 1)
    BY <1>1, <2>1, <2>2, PushInOrder
  <2> QED
    BY <1>5, <2>1, <2>3, StoresKeepsMapping DEF Removes
<1>6. ASSUME NEW k \in Keys, NEW d \in Documents, Replaces(p, h, k, d)
      PROVE  StampsInOrder' /\ ReadersOnCommits'
  <2> DEFINE deleted == PushDelete(BufferOf(p, h), stamp + 1, k[1], k[2])
             b       == PushDocument(deleted, stamp + 2, ParseDoc(schema, d))
  <2>1. stamp + 1 \in Nat /\ stamp + 2 \in Nat /\ stamp <= stamp + 1 /\ stamp + 1 <= stamp + 2
        /\ stamp <= stamp + 2
    BY <1>1
  <2>2. InOrder(BufferOf(p, h), stamp + 1)
    BY <1>1, <2>1, InOrderGrows
  <2>3. InOrder(deleted, stamp + 1)
    BY <1>1, <2>1, <2>2, PushInOrder
  <2>4. deleted \in Buffers
    <3>1. k[1] \in Names /\ k[2] \in Values
      BY ConstantsAssumption
    <3> QED
      BY <1>1, <2>1, <3>1, PushDeleteType
  <2> HIDE DEF deleted
  <2>5. InOrder(deleted, stamp + 2)
    BY <2>1, <2>3, <2>4, InOrderGrows
  <2>6. InOrder(b, stamp + 2)
    BY <2>1, <2>4, <2>5, PushInOrder
  <2> QED
    BY <1>6, <2>1, <2>6, StoresKeepsMapping DEF Replaces, deleted
<1>7. CASE Publishes(p, h)
  <2>1. UNCHANGED stamp /\ IsOpen(p, h) /\ table' = [table EXCEPT ![p][h].writer = EmptyBuffer]
    BY <1>7 DEF Publishes, HasWriter
  <2>2. /\ table'[p][h].reader = table[p][h].reader /\ BufferOf(p, h)' = EmptyBuffer
        /\ \A q \in Processes, i \in Handles : ~(q = p /\ i = h) => table'[q][i] = table[q][i]
    BY <1>1, <2>1, EmptyBufferType, StoredState
  <2>3. \A q \in Processes, i \in Handles : ~(q = p /\ i = h) =>
           (IsOpen(q, i)' <=> IsOpen(q, i)) /\ BufferOf(q, i)' = BufferOf(q, i)
    BY <2>2, SameBuffer
  <2>4. /\ CurrentDocs' = NextCommit(p, h) /\ Len(published') = Len(published) + 1
    BY <1>1, <1>7, PublishedDocs
  <2>5. \A doc \in NextCommit(p, h) : doc.stamp <= stamp
    BY <1>1 DEF NextCommit, Committed, MappingInv, StampsInOrder, InOrder
  <2>6. StampsInOrder'
    BY <1>1, <2>1, <2>2, <2>3, <2>4, <2>5, StampsKept
  <2>7. Len(published') \in Nat /\ Len(published) <= Len(published')
    BY <1>1, <2>4
  <2>8. ReadersOnCommits'
    BY <1>1, <2>1, <2>2, <2>3, <2>7, ReadersKept
  <2> QED
    BY <2>6, <2>8
<1>8. CASE Fails(p, h)
  <2>1. UNCHANGED <<published, stamp>> /\ IsOpen(p, h)
    BY <1>8 DEF Fails, HasWriter
  <2>2. PICK kept \in SUBSET BufferOf(p, h).adds :
           /\ table' = [table EXCEPT ![p][h].writer = [BufferOf(p, h) EXCEPT !.adds = kept]]
           /\ [BufferOf(p, h) EXCEPT !.adds = kept] \in Buffers
    BY <1>1, <1>8, FailedState
  <2> DEFINE b == [BufferOf(p, h) EXCEPT !.adds = kept]
  <2>3. InOrder(b, stamp)
    <3>1. b.adds = kept /\ b.dels = BufferOf(p, h).dels
      BY <1>1 DEF Buffers
    <3> QED
      BY <1>1, <3>1 DEF InOrder
  <2>4. /\ table'[p][h].reader = table[p][h].reader /\ BufferOf(p, h)' = b
        /\ \A q \in Processes, i \in Handles : ~(q = p /\ i = h) => table'[q][i] = table[q][i]
    <3>1. b \in Buffers /\ table' = [table EXCEPT ![p][h].writer = b]
      BY <2>2
    <3> HIDE DEF b
    <3> QED
      BY <1>1, <2>1, <3>1, StoredState
  <2> HIDE DEF b
  <2>5. \A q \in Processes, i \in Handles : ~(q = p /\ i = h) =>
           (IsOpen(q, i)' <=> IsOpen(q, i)) /\ BufferOf(q, i)' = BufferOf(q, i)
    BY <2>4, SameBuffer
  <2>6. UNCHANGED CurrentDocs
    BY <2>1 DEF CurrentDocs
  <2>7. StampsInOrder'
    BY <1>1, <2>1, <2>3, <2>4, <2>5, <2>6, StampsKept
  <2>8. ReadersOnCommits'
    BY <1>1, <2>1, <2>4, <2>5, ReadersKept
  <2> QED
    BY <2>7, <2>8
<1>9. CASE Loads(p, h)
  <2>1. UNCHANGED <<published, stamp>> /\ IsOpen(p, h)
    BY <1>9 DEF Loads
  <2>2. /\ table'[p][h].reader = Len(published) /\ BufferOf(p, h)' = BufferOf(p, h)
        /\ \A q \in Processes, i \in Handles : ~(q = p /\ i = h) => table'[q][i] = table[q][i]
    BY <1>1, <1>9, LoadedState DEF Loads
  <2>3. \A q \in Processes, i \in Handles : ~(q = p /\ i = h) =>
           (IsOpen(q, i)' <=> IsOpen(q, i)) /\ BufferOf(q, i)' = BufferOf(q, i)
    BY <2>2, SameBuffer
  <2>4. Len(published) \in 1 .. Len(published)
    BY <1>1, <2>1 DEF MappingInv, ReadersOnCommits
  <2>5. UNCHANGED CurrentDocs
    BY <2>1 DEF CurrentDocs
  <2>6. StampsInOrder'
    BY <1>1, <2>1, <2>2, <2>3, <2>5, StampsKept
  <2>7. ReadersOnCommits'
    BY <1>1, <2>1, <2>2, <2>3, <2>4, ReadersKept
  <2> QED
    BY <2>6, <2>7
<1>10. CASE Closes(p, h)
  <2>1. UNCHANGED <<published, stamp>> /\ DropState(p, h)
    BY <1>10 DEF Closes
  <2>2. /\ ~IsOpen(p, h)' /\ BufferOf(p, h)' = EmptyBuffer
        /\ \A q \in Processes, i \in Handles : ~(q = p /\ i = h) => table'[q][i] = table[q][i]
    BY <1>1, <2>1, ClosedState
  <2>3. \A q \in Processes, i \in Handles : ~(q = p /\ i = h) =>
           (IsOpen(q, i)' <=> IsOpen(q, i)) /\ BufferOf(q, i)' = BufferOf(q, i)
    BY <2>2, SameBuffer
  <2>4. UNCHANGED CurrentDocs
    BY <2>1 DEF CurrentDocs
  <2>5. StampsInOrder'
    BY <1>1, <2>1, <2>2, <2>3, <2>4, StampsKept
  <2>6. ReadersOnCommits'
    BY <1>1, <2>1, <2>2, <2>3, ReadersKept
  <2> QED
    BY <2>5, <2>6
<1> QED
  BY <1>2, <1>3, <1>4, <1>5, <1>6, <1>7, <1>8, <1>9, <1>10 DEF SessionStep

\* The store's writer is the session that has a writer.
WriterIsKnown ==
  /\ WriterSession \in Sessions \cup {None}
  /\ \A p \in Processes, h \in Handles : HasWriter(p, h) <=> WriterSession = <<p, h>>

LEMMA WriterKnown ==
  ASSUME StoreInv
  PROVE  /\ WriterIsKnown
         /\ \A p \in Processes, h \in Handles : <<p, h>> \in Sessions /\ <<p, h>> # None
<1>1. \A p \in Processes, h \in Handles : <<p, h>> \in Sessions /\ <<p, h>> # None
  BY NoneAssumption DEF Sessions
<1>2. ASSUME NEW p \in Processes, NEW h \in Handles
      PROVE  HasWriter(p, h) <=> WriterSession = <<p, h>>
  <2>1. HasWriter(p, h) => lock = <<p, h>>
    BY DEF StoreInv, RegistryInv, WriterLockConsistent, HoldsLock
  <2> QED
    BY <1>1, <2>1 DEF WriterSession
<1>3. WriterSession \in Sessions \cup {None}
  BY DEF WriterSession, StoreInv, RegistryInv, TypeInv, TypeOK
<1> QED
  BY <1>1, <1>2, <1>3 DEF WriterIsKnown

\* As long as every session's writer stays, so does the store's.
LEMMA WriterKept ==
  ASSUME StoreInv, WriterIsKnown',
         \A p \in Processes, h \in Handles : HasWriter(p, h)' <=> HasWriter(p, h)
  PROVE  UNCHANGED WriterSession
<1>1. \A p \in Processes, h \in Handles : WriterSession' = <<p, h>> <=> WriterSession = <<p, h>>
  BY WriterKnown DEF WriterIsKnown
<1>2. WriterSession \in Sessions \cup {None} /\ WriterSession' \in Sessions \cup {None}
  BY WriterKnown DEF WriterIsKnown
<1>3. \A s \in Sessions : \E p \in Processes, h \in Handles : s = <<p, h>>
  BY DEF Sessions
<1> QED
  BY <1>1, <1>2, <1>3

\* Where there is no index nobody has it open, and it has no documents.
LEMMA NoIndex ==
  ASSUME StoreInv, schema = None
  PROVE  /\ \A q \in Processes, i \in Handles : ~IsOpen(q, i)
         /\ published = << >> /\ CurrentDocs = {} /\ WriterSession = None
<1>1. \A q \in Processes, i \in Handles : ~IsOpen(q, i)
  BY DEF StoreInv, RegistryInv, NoOrphanState, IndexInv
<1>2. published = << >> /\ CurrentDocs = {}
  BY DEF StoreInv, IndexInv, CurrentDocs
<1>3. WriterSession = None
  <2>1. \A q \in Processes, i \in Handles : WriterSession # <<q, i>>
    BY <1>1, WriterKnown DEF WriterIsKnown, HasWriter
  <2> QED
    BY <2>1, WriterKnown DEF WriterIsKnown, Sessions
<1> QED
  BY <1>1, <1>2, <1>3

\* A new index is empty.
LEMMA NewIndex ==
  ASSUME published' = <<{}>>
  PROVE  CurrentDocs' = {} /\ Len(published') = 1
<1>1. <<{}>> # << >> /\ Len(<<{}>>) = 1 /\ <<{}>>[1] = {}
  OBVIOUS
<1> QED
  BY <1>1 DEF CurrentDocs

\* Every step keeps the invariant.
LEMMA MappingStep == MappingInv /\ StoreStep => StampsInOrder' /\ ReadersOnCommits'
<1> SUFFICES ASSUME MappingInv, StoreStep
             PROVE  StampsInOrder' /\ ReadersOnCommits'
  OBVIOUS
<1>1. /\ StoreInv /\ stamp \in Nat /\ stamp <= stamp /\ Len(published) \in Nat
      /\ Len(published) <= Len(published)
  BY StoreTypes DEF MappingInv
<1>2. CASE UNCHANGED storeVars
  <2>1. UNCHANGED CurrentDocs
    BY <1>2 DEF storeVars, CurrentDocs
  <2>2. \A q \in Processes, i \in Handles :
           /\ table'[q][i] = table[q][i]
           /\ (IsOpen(q, i)' <=> IsOpen(q, i)) /\ BufferOf(q, i)' = BufferOf(q, i)
    BY <1>2, SameBuffer DEF storeVars
  <2> QED
    BY <1>1, <1>2, <2>1, <2>2, StampsKept, ReadersKept DEF storeVars
<1>3. CASE Creates
  <2>1. /\ CurrentDocs' = {} /\ Len(published') = 1 /\ UNCHANGED stamp
        /\ published = << >>
        /\ \A q \in Processes, i \in Handles : ~IsOpen(q, i)
    BY <1>1, <1>3, NoIndex, NewIndex DEF Creates
  <2>2. Len(published') \in Nat /\ Len(published) <= Len(published') /\ 1 \in 1 .. Len(published')
    BY <2>1
  <2>3. ASSUME NEW q \in Processes, NEW i \in Handles
        PROVE  /\ BufferOf(q, i)' = BufferOf(q, i)
               /\ IsOpen(q, i)' => table'[q][i].reader = 1
    <3>1. CASE UNCHANGED table
      <4>1. table'[q][i] = table[q][i]
        BY <3>1
      <4> QED
        BY <2>1, <4>1, SameBuffer
    <3>2. ASSUME NEW p \in Processes, NEW h \in Handles, Fills(p, h, 1)
          PROVE  /\ BufferOf(q, i)' = BufferOf(q, i)
                 /\ IsOpen(q, i)' => table'[q][i].reader = 1
      <4>1. /\ table'[p][h].reader = 1 /\ BufferOf(p, h)' = BufferOf(p, h)
            /\ ~(q = p /\ i = h) => table'[q][i] = table[q][i]
        BY <1>1, <3>2, FilledState
      <4> QED
        BY <2>1, <4>1, SameBuffer
    <3> QED
      BY <1>3, <3>1, <3>2 DEF Creates
  <2>4. StampsInOrder'
    BY <1>1, <2>1, <2>3, StampsKept
  <2>5. ReadersOnCommits'
    BY <2>2, <2>3, ReadersKept
  <2> QED
    BY <2>4, <2>5
<1>4. ASSUME NEW p \in Processes, Crash(p)
      PROVE  StampsInOrder' /\ ReadersOnCommits'
  <2>1. UNCHANGED <<published, stamp>>
    BY <1>4 DEF Crash
  <2>2. /\ \A i \in Handles : ~IsOpen(p, i)' /\ BufferOf(p, i)' = EmptyBuffer
        /\ \A q \in Processes \ {p}, i \in Handles : table'[q][i] = table[q][i]
    BY <1>1, <1>4, CrashedStates
  <2>3. \A q \in Processes \ {p}, i \in Handles :
           (IsOpen(q, i)' <=> IsOpen(q, i)) /\ BufferOf(q, i)' = BufferOf(q, i)
    BY <2>2, SameBuffer
  <2>4. UNCHANGED CurrentDocs
    BY <2>1 DEF CurrentDocs
  <2>5. \A q \in Processes, i \in Handles : BufferOf(q, i)' \in {BufferOf(q, i), EmptyBuffer}
    BY <2>2, <2>3
  <2>6. \A q \in Processes, i \in Handles : IsOpen(q, i)' =>
           IsOpen(q, i) /\ table'[q][i].reader = table[q][i].reader
    BY <2>2, <2>3
  <2>7. StampsInOrder'
    BY <1>1, <2>1, <2>4, <2>5, StampsKept
  <2>8. ReadersOnCommits'
    BY <1>1, <2>1, <2>6, ReadersKept
  <2> QED
    BY <2>7, <2>8
<1> QED
  BY <1>2, <1>3, <1>4, SessionKeepsMapping DEF StoreStep

\* MappingInv is an invariant.
LEMMA MappingInvariance == Spec => [](MappingInv /\ WriterIsKnown)
<1>1. Init => StampsInOrder /\ ReadersOnCommits
  <2> SUFFICES ASSUME Init
               PROVE  StampsInOrder /\ ReadersOnCommits
    OBVIOUS
  <2>1. \A q \in Processes, i \in Handles : ~IsOpen(q, i) /\ BufferOf(q, i) = EmptyBuffer
    BY DEF Init, IsOpen, BufferOf, HasWriter
  <2> QED
    BY <2>1 DEF Init, StampsInOrder, ReadersOnCommits, CurrentDocs, InOrder, EmptyBuffer
<1>2. StoreInv /\ StampsInOrder /\ ReadersOnCommits /\ [Next]_vars
         => StampsInOrder' /\ ReadersOnCommits'
  BY StepEffect, MappingStep DEF MappingInv
<1>3. StoreInv => WriterIsKnown
  BY WriterKnown
<1> QED
  BY <1>1, <1>2, <1>3, StoreInvariance, PTL DEF Spec, MappingInv

-----------------------------------------------------------------------------
(***************************************************************************)
(* Writes act at once on what the next commit will publish.                *)
(***************************************************************************)

\* Where ensure_writer succeeds, what is pending is this session's.
LEMMA PendingOfReady ==
  ASSUME StoreInv, NEW p \in Processes, NEW h \in Handles, WriterReady(p, h)
  PROVE  PendingDocs = Committed(schema, CurrentDocs, BufferOf(p, h))
<1>1. CASE HasWriter(p, h)
  <2>1. WriterSession = <<p, h>> /\ <<p, h>> # None
    BY <1>1, WriterKnown DEF WriterIsKnown
  <2> QED
    BY <2>1 DEF PendingDocs
<1>2. CASE lock = None /\ ~HasWriter(p, h)
  BY <1>2, EmptyBufferPublishesNothing DEF PendingDocs, WriterSession, BufferOf
<1> QED
  BY <1>1, <1>2 DEF WriterReady

\* What is pending once this session's buffer is b.
LEMMA StoresPending ==
  ASSUME StoreInv, WriterIsKnown',
         NEW p \in Processes, NEW h \in Handles, NEW b, NEW n, Stores(p, h, b, n)
  PROVE  /\ PendingDocs' = Committed(schema, CurrentDocs, b)
         /\ PendingDocs = Committed(schema, CurrentDocs, BufferOf(p, h))
         /\ UNCHANGED CurrentDocs /\ WriterSession' = <<p, h>>
<1>1. /\ IsOpen(p, h) /\ b \in Buffers /\ UNCHANGED <<schema, published>> /\ WriterReady(p, h)
      /\ table' = [table EXCEPT ![p][h].writer = b]
  BY DEF Stores, StoreWriter
<1>2. BufferOf(p, h)' = b /\ HasWriter(p, h)'
  BY <1>1, StoredState
<1>3. UNCHANGED CurrentDocs
  BY <1>1 DEF CurrentDocs
<1>4. <<p, h>> # None /\ WriterSession' = <<p, h>>
  BY <1>2, WriterKnown DEF WriterIsKnown
<1>5. PendingDocs' = Committed(schema, CurrentDocs, b)
  BY <1>1, <1>2, <1>3, <1>4 DEF PendingDocs
<1> QED
  BY <1>1, <1>3, <1>4, <1>5, PendingOfReady

\* What is pending is known to be older than the next stamp.
LEMMA PendingOld ==
  ASSUME MappingInv, NEW p \in Processes, NEW h \in Handles
  PROVE  /\ \A doc \in CurrentDocs \cup BufferOf(p, h).adds : doc.stamp < stamp + 1
         /\ \A doc \in Committed(schema, CurrentDocs, BufferOf(p, h)) : doc.stamp < stamp + 1
         /\ \A del \in BufferOf(p, h).dels : del.stamp <= stamp + 1
<1>1. stamp \in Nat /\ CurrentDocs \in SUBSET Docs /\ BufferOf(p, h) \in Buffers
  BY StoreTypes DEF MappingInv
<1>2. ASSUME NEW doc \in CurrentDocs \cup BufferOf(p, h).adds
      PROVE  doc.stamp < stamp + 1
  <2>1. doc.stamp \in Nat /\ doc.stamp <= stamp
    BY <1>1 DEF MappingInv, StampsInOrder, InOrder, Buffers, Docs
  <2> QED
    BY <1>1, <2>1
<1>3. ASSUME NEW del \in BufferOf(p, h).dels
      PROVE  del.stamp <= stamp + 1
  <2>1. del.stamp \in Nat /\ del.stamp <= stamp
    BY <1>1 DEF MappingInv, StampsInOrder, InOrder, Buffers, DeleteTerms
  <2> QED
    BY <1>1, <2>1
<1> QED
  BY <1>2, <1>3 DEF Committed

\* The document that operation n adds.
NewDoc(n, d) == [stamp |-> n, fields |-> ParseDoc(schema, d)]

LEMMA AddsPending ==
  ASSUME MappingInv, WriterIsKnown',
         NEW p \in Processes, NEW h \in Handles, NEW d \in Documents, Adds(p, h, d)
  PROVE  /\ PendingDocs' = PendingDocs \cup {NewDoc(stamp + 1, d)}
         /\ NewDoc(stamp + 1, d) \notin PendingDocs
<1> DEFINE b == PushDocument(BufferOf(p, h), stamp + 1, ParseDoc(schema, d))
<1>1. /\ PendingDocs' = Committed(schema, CurrentDocs, b)
      /\ PendingDocs = Committed(schema, CurrentDocs, BufferOf(p, h))
  BY StoresPending DEF Adds, MappingInv
<1>2. BufferOf(p, h) \in Buffers /\ stamp \in Nat
  BY StoreTypes DEF MappingInv
<1>3. stamp + 1 \in Nat /\ ~(stamp + 1 < stamp + 1)
  BY <1>2
<1>4. PendingDocs' = PendingDocs \cup {NewDoc(stamp + 1, d)}
  BY <1>1, <1>2, <1>3, PendingOld, PushDocumentAdds DEF NewDoc
<1>5. NewDoc(stamp + 1, d) \notin PendingDocs
  BY <1>1, <1>3, PendingOld DEF NewDoc
<1> QED
  BY <1>4, <1>5

LEMMA RemovesPending ==
  ASSUME MappingInv, WriterIsKnown',
         NEW p \in Processes, NEW h \in Handles, NEW k \in Keys, Removes(p, h, k)
  PROVE  PendingDocs' = {doc \in PendingDocs : ~Carries(doc, k)}
<1> DEFINE b == PushDelete(BufferOf(p, h), stamp + 1, k[1], k[2])
<1>1. /\ PendingDocs' = Committed(schema, CurrentDocs, b)
      /\ PendingDocs = Committed(schema, CurrentDocs, BufferOf(p, h))
  BY StoresPending DEF Removes, MappingInv
<1>2. BufferOf(p, h) \in Buffers
  BY StoreTypes DEF MappingInv
<1> QED
  BY <1>1, <1>2, PendingOld, PushDeleteRemoves DEF Removes, Carries

LEMMA ReplacesPending ==
  ASSUME MappingInv, WriterIsKnown',
         NEW p \in Processes, NEW h \in Handles, NEW k \in Keys, NEW d \in Documents,
         Replaces(p, h, k, d)
  PROVE  /\ PendingDocs' = {doc \in PendingDocs : ~Carries(doc, k)} \cup {NewDoc(stamp + 2, d)}
         /\ NewDoc(stamp + 2, d) \notin PendingDocs
<1> DEFINE deleted == PushDelete(BufferOf(p, h), stamp + 1, k[1], k[2])
           b       == PushDocument(deleted, stamp + 2, ParseDoc(schema, d))
<1>1. /\ PendingDocs' = Committed(schema, CurrentDocs, b)
      /\ PendingDocs = Committed(schema, CurrentDocs, BufferOf(p, h))
  BY StoresPending DEF Replaces, MappingInv
<1>2. BufferOf(p, h) \in Buffers /\ stamp \in Nat
  BY StoreTypes DEF MappingInv
<1>3. stamp + 1 \in Nat /\ stamp + 2 \in Nat /\ ~(stamp + 2 < stamp + 1)
  BY <1>2
<1>4. Committed(schema, CurrentDocs, deleted) = {doc \in PendingDocs : ~Carries(doc, k)}
  BY <1>1, <1>2, PendingOld, PushDeleteRemoves DEF Replaces, Carries
<1>5. deleted \in Buffers
  <2>1. k[1] \in Names /\ k[2] \in Values
    BY ConstantsAssumption
  <2> QED
    BY <1>2, <1>3, <2>1, PushDeleteType
<1>6. \A del \in deleted.dels : del.stamp <= stamp + 2
  <2>1. InOrder(BufferOf(p, h), stamp)
    BY DEF MappingInv, StampsInOrder
  <2>2. InOrder(BufferOf(p, h), stamp + 1)
    BY <1>2, <1>3, <2>1, InOrderGrows
  <2>3. InOrder(deleted, stamp + 1)
    BY <1>2, <1>3, <2>2, PushInOrder
  <2>4. stamp + 1 <= stamp + 2
    BY <1>2
  <2>5. InOrder(deleted, stamp + 2)
    BY <1>3, <1>5, <2>3, <2>4, InOrderGrows
  <2> QED
    BY <2>5 DEF InOrder
<1> HIDE DEF deleted
<1>7. PendingDocs' = {doc \in PendingDocs : ~Carries(doc, k)} \cup {NewDoc(stamp + 2, d)}
  BY <1>1, <1>3, <1>4, <1>5, <1>6, PushDocumentAdds DEF NewDoc
<1>8. NewDoc(stamp + 2, d) \notin PendingDocs
  BY <1>1, <1>3, PendingOld DEF NewDoc
<1> QED
  BY <1>7, <1>8

(***************************************************************************)
(* A write that returns has acted, in what the next commit will publish,   *)
(* on the documents whose key field holds exactly the value, and on no     *)
(* others: whatever was buffered, deleted, lost or committed before, the   *)
(* stamps put every delete after the documents it finds and before those   *)
(* added later.                                                            *)
(***************************************************************************)
THEOREM WritesActAtOnce == Spec => WritesTakeEffect
<1> DEFINE Effect(p, h) ==
          /\ \A d \in Documents : AddDocument(p, h, d) =>
                PendingDocs' = PendingDocs \cup
                    {[stamp |-> stamp', fields |-> ParseDoc(schema, d)]}
          /\ \A k \in Keys :
                /\ DeleteById(p, h, k[1], k[2]) =>
                      PendingDocs' = {doc \in PendingDocs : ~Carries(doc, k)}
                /\ \A d \in Documents : UpdateDocument(p, h, k[1], k[2], d) =>
                      PendingDocs' = {doc \in PendingDocs : ~Carries(doc, k)} \cup
                          {[stamp |-> stamp', fields |-> ParseDoc(schema, d)]}
           AllEffects == \A p \in Processes, h \in Handles : WriteStep(p, h, "ok") => Effect(p, h)
<1>1. ASSUME MappingInv, WriterIsKnown', Next
      PROVE  AllEffects
  <2> SUFFICES ASSUME NEW p \in Processes, NEW h \in Handles, WriteStep(p, h, "ok")
               PROVE  Effect(p, h)
    OBVIOUS
  <2>1. StoreInv
    BY <1>1 DEF MappingInv
  <2>2. ~Answer(p, "write", h, "error") /\ ~StoresNothing(p, h)
    BY <2>1 DEF WriteStep, Answer, NoReply, StoresNothing, StoreInv, RegistryInv, TypeInv, TypeOK
  <2>3. ASSUME NEW d \in Documents, AddDocument(p, h, d)
        PROVE  PendingDocs' = PendingDocs \cup
                  {[stamp |-> stamp', fields |-> ParseDoc(schema, d)]}
    <3>1. Adds(p, h, d)
      BY <2>1, <2>2, <2>3, AddEffect
    <3>2. stamp' = stamp + 1
      BY <3>1 DEF Adds, Stores
    <3> QED
      BY <1>1, <3>1, <3>2, AddsPending DEF NewDoc
  <2>4. ASSUME NEW k \in Keys, DeleteById(p, h, k[1], k[2])
        PROVE  PendingDocs' = {doc \in PendingDocs : ~Carries(doc, k)}
    <3>1. Removes(p, h, k)
      BY <2>1, <2>2, <2>4, DeleteEffect
    <3> QED
      BY <1>1, <3>1, RemovesPending
  <2>5. ASSUME NEW k \in Keys, NEW d \in Documents, UpdateDocument(p, h, k[1], k[2], d)
        PROVE  PendingDocs' = {doc \in PendingDocs : ~Carries(doc, k)} \cup
                  {[stamp |-> stamp', fields |-> ParseDoc(schema, d)]}
    <3>1. Replaces(p, h, k, d)
      BY <2>1, <2>2, <2>5, UpdateEffect
    <3>2. stamp' = stamp + 2
      BY <3>1 DEF Replaces, Stores
    <3> QED
      BY <1>1, <3>1, <3>2, ReplacesPending DEF NewDoc
  <2> QED
    BY <2>3, <2>4, <2>5
<1>2. MappingInv /\ WriterIsKnown' /\ [Next]_vars => [AllEffects]_vars
  BY <1>1
<1> QED
  BY <1>2, MappingInvariance, PTL DEF Spec, WritesTakeEffect

-----------------------------------------------------------------------------
(***************************************************************************)
(* The refinement.  CurrentDocs, WriterSession, PendingDocs and            *)
(* SessionSees make the steps of a store of every step.                    *)
(***************************************************************************)

OpenSessions == {s \in Sessions : IsOpen(s[1], s[2])}

\* Who is open, and what they see.
LEMMA SeesFacts ==
  /\ DOMAIN SessionSees = OpenSessions
  /\ \A p \in Processes, h \in Handles :
        /\ <<p, h>> \in Sessions
        /\ <<p, h>> \in OpenSessions <=> IsOpen(p, h)
        /\ IsOpen(p, h) => SessionSees[<<p, h>>] = Shown(p, h)
  /\ \A s \in Sessions : \E p \in Processes, h \in Handles : s = <<p, h>>
  BY DEF SessionSees, OpenSessions, Sessions

\* A reader that stays on its commit shows what it showed.
LEMMA ShownKept ==
  ASSUME MappingInv, NEW p \in Processes, NEW h \in Handles, IsOpen(p, h),
         table'[p][h].reader = table[p][h].reader,
         \A n \in 1 .. Len(published) : published'[n] = published[n]
  PROVE  Shown(p, h)' = Shown(p, h)
  BY DEF MappingInv, ReadersOnCommits, Shown

\* Nobody opens, closes or moves.
LEMMA SeesKept ==
  ASSUME \A p \in Processes, h \in Handles :
            /\ IsOpen(p, h)' <=> IsOpen(p, h)
            /\ IsOpen(p, h) => Shown(p, h)' = Shown(p, h)
  PROVE  UNCHANGED SessionSees
<1>1. OpenSessions' = OpenSessions
  BY DEF OpenSessions, Sessions
<1>2. \A s \in OpenSessions : Shown(s[1], s[2])' = Shown(s[1], s[2])
  BY DEF OpenSessions, Sessions
<1>3. /\ SessionSees = [s \in OpenSessions |-> Shown(s[1], s[2])]
      /\ SessionSees' = [s \in OpenSessions' |-> Shown(s[1], s[2])']
  BY DEF SessionSees, OpenSessions
<1> QED
  BY <1>1, <1>2, <1>3

\* (p, h) opens on the current documents, or moves to them.
LEMMA SeesCurrent ==
  ASSUME NEW p \in Processes, NEW h \in Handles, IsOpen(p, h)', Shown(p, h)' = CurrentDocs,
         \A q \in Processes, i \in Handles : ~(q = p /\ i = h) =>
            /\ IsOpen(q, i)' <=> IsOpen(q, i)
            /\ IsOpen(q, i) => Shown(q, i)' = Shown(q, i)
  PROVE  SessionSees' = [t \in DOMAIN SessionSees \cup {<<p, h>>} |->
                            IF t = <<p, h>> THEN CurrentDocs ELSE SessionSees[t]]
<1>1. OpenSessions' = OpenSessions \cup {<<p, h>>}
  BY DEF OpenSessions, Sessions
<1>2. \A s \in OpenSessions \ {<<p, h>>} : Shown(s[1], s[2])' = Shown(s[1], s[2])
  BY DEF OpenSessions, Sessions
<1>3. /\ SessionSees = [s \in OpenSessions |-> Shown(s[1], s[2])]
      /\ SessionSees' = [s \in OpenSessions' |-> Shown(s[1], s[2])']
  BY DEF SessionSees, OpenSessions
<1>4. \A s \in OpenSessions \cup {<<p, h>>} :
         Shown(s[1], s[2])' = IF s = <<p, h>> THEN CurrentDocs ELSE SessionSees[s]
  BY <1>2, <1>3
<1> QED
  BY <1>1, <1>3, <1>4

\* The sessions of S are gone.
LEMMA SeesWithout ==
  ASSUME NEW S \in SUBSET Sessions,
         \A p \in Processes, h \in Handles :
            /\ IsOpen(p, h)' <=> IsOpen(p, h) /\ <<p, h>> \notin S
            /\ IsOpen(p, h)' => Shown(p, h)' = Shown(p, h)
  PROVE  SessionSees' = [s \in DOMAIN SessionSees \ S |-> SessionSees[s]]
<1>1. OpenSessions' = OpenSessions \ S
  BY DEF OpenSessions, Sessions
<1>2. \A s \in OpenSessions \ S : Shown(s[1], s[2])' = Shown(s[1], s[2])
  BY DEF OpenSessions, Sessions
<1>3. /\ SessionSees = [s \in OpenSessions |-> Shown(s[1], s[2])]
      /\ SessionSees' = [s \in OpenSessions' |-> Shown(s[1], s[2])']
  BY DEF SessionSees, OpenSessions
<1> QED
  BY <1>1, <1>2, <1>3

\* What is pending does not change as long as the writer's buffer does not.
LEMMA PendingKept ==
  ASSUME StoreInv, UNCHANGED <<WriterSession, CurrentDocs>>,
         WriterSession = None \/ UNCHANGED schema,
         \A q \in Processes, i \in Handles : BufferOf(q, i)' = BufferOf(q, i)
  PROVE  UNCHANGED PendingDocs
<1>1. CASE WriterSession = None
  BY <1>1 DEF PendingDocs
<1>2. CASE WriterSession # None
  <2>1. WriterSession[1] \in Processes /\ WriterSession[2] \in Handles
    BY <1>2, WriterKnown DEF WriterIsKnown, Sessions
  <2> QED
    BY <1>2, <2>1 DEF PendingDocs
<1> QED
  BY <1>1, <1>2

\* Whoever buffers is, or becomes, the store's writer.
LEMMA StoresWriting ==
  ASSUME MappingInv, WriterIsKnown',
         NEW p \in Processes, NEW h \in Handles, NEW b, NEW n, Stores(p, h, b, n)
  PROVE  Store!Writing(<<p, h>>)
<1>1. /\ StoreInv /\ IsOpen(p, h) /\ WriterReady(p, h) /\ b \in Buffers /\ UNCHANGED published
      /\ table' = [table EXCEPT ![p][h].writer = b] /\ WriterSession' = <<p, h>>
  BY StoresPending DEF Stores, StoreWriter, MappingInv
<1>2. <<p, h>> \in DOMAIN SessionSees
  BY <1>1, SeesFacts
<1>3. WriterSession \in {None, <<p, h>>}
  BY <1>1, WriterKnown DEF WriterReady, WriterSession, WriterIsKnown
<1>4. UNCHANGED CurrentDocs
  BY <1>1 DEF CurrentDocs
<1>5. /\ table'[p][h].reader = table[p][h].reader /\ IsOpen(p, h)'
      /\ \A q \in Processes, i \in Handles : ~(q = p /\ i = h) => table'[q][i] = table[q][i]
  BY <1>1, StoredState
<1>6. \A q \in Processes, i \in Handles :
         /\ IsOpen(q, i)' <=> IsOpen(q, i)
         /\ IsOpen(q, i) => Shown(q, i)' = Shown(q, i)
  BY <1>1, <1>5, SameBuffer, ShownKept
<1>7. UNCHANGED SessionSees
  BY <1>6, SeesKept
<1> QED
  BY <1>1, <1>2, <1>3, <1>4, <1>7 DEF Store!Writing

\* The documents clients pass become documents of the store.
LEMMA NewDocStored ==
  ASSUME StoreInv, NEW d \in Documents, d # None, schema # None, NEW n \in 1 .. MaxStamps
  PROVE  NewDoc(n, d) \in [stamp : 1 .. MaxStamps, fields : StoredContents]
<1>1. schema \in Schemas
  BY DEF StoreInv, RegistryInv, TypeInv, TypeOK
<1>2. ParseDoc(schema, d) \in StoredContents
  BY <1>1 DEF StoredContents
<1> QED
  BY <1>2 DEF NewDoc

LEMMA TouchesRefines ==
  ASSUME MappingInv, WriterIsKnown', NEW p \in Processes, NEW h \in Handles, Touches(p, h)
  PROVE  Store!Touch(<<p, h>>)
<1>1. UNCHANGED PendingDocs
  BY StoresPending DEF Touches, MappingInv
<1>2. Store!Writing(<<p, h>>)
  BY StoresWriting DEF Touches
<1> QED
  BY <1>1, <1>2 DEF Store!Touch

LEMMA AddsRefines ==
  ASSUME MappingInv, WriterIsKnown',
         NEW p \in Processes, NEW h \in Handles, NEW d \in Documents, Adds(p, h, d)
  PROVE  \E doc \in [stamp : 1 .. MaxStamps, fields : StoredContents] : Store!Add(<<p, h>>, doc)
<1>1. stamp + 1 \in 1 .. MaxStamps
  BY StoreTypes DEF Adds, Stores, MappingInv
<1>2. NewDoc(stamp + 1, d) \in [stamp : 1 .. MaxStamps, fields : StoredContents]
  BY <1>1, NewDocStored DEF Adds, MappingInv
<1>3. Store!Writing(<<p, h>>)
  BY StoresWriting DEF Adds
<1>4. Store!Add(<<p, h>>, NewDoc(stamp + 1, d))
  BY <1>3, AddsPending DEF Store!Add
<1> QED
  BY <1>2, <1>4

LEMMA RemovesRefines ==
  ASSUME MappingInv, WriterIsKnown',
         NEW p \in Processes, NEW h \in Handles, NEW k \in Keys, Removes(p, h, k)
  PROVE  Store!Delete(<<p, h>>, k[1], k[2])
<1>1. Store!Writing(<<p, h>>)
  BY StoresWriting DEF Removes
<1>2. PendingDocs' = Store!Without(k[1], k[2])
  BY RemovesPending DEF Store!Without, Carries
<1> QED
  BY <1>1, <1>2 DEF Store!Delete

LEMMA ReplacesRefines ==
  ASSUME MappingInv, WriterIsKnown',
         NEW p \in Processes, NEW h \in Handles, NEW k \in Keys, NEW d \in Documents,
         Replaces(p, h, k, d)
  PROVE  \E doc \in [stamp : 1 .. MaxStamps, fields : StoredContents] :
            Store!Replace(<<p, h>>, k[1], k[2], doc)
<1>1. stamp + 2 \in 1 .. MaxStamps
  BY StoreTypes DEF Replaces, Stores, MappingInv
<1>2. NewDoc(stamp + 2, d) \in [stamp : 1 .. MaxStamps, fields : StoredContents]
  BY <1>1, NewDocStored DEF Replaces, MappingInv
<1>3. Store!Writing(<<p, h>>)
  BY StoresWriting DEF Replaces
<1>4. PendingDocs' = Store!Without(k[1], k[2]) \cup {NewDoc(stamp + 2, d)}
  BY ReplacesPending DEF Store!Without, Carries
<1>5. Store!Replace(<<p, h>>, k[1], k[2], NewDoc(stamp + 2, d))
  BY <1>3, <1>4, ReplacesPending DEF Store!Replace
<1> QED
  BY <1>2, <1>5

LEMMA PublishesRefines ==
  ASSUME MappingInv, WriterIsKnown', NEW p \in Processes, NEW h \in Handles, Publishes(p, h)
  PROVE  Store!Publish(<<p, h>>)
<1>1. /\ StoreInv /\ HasWriter(p, h) /\ IsOpen(p, h) /\ UNCHANGED schema
      /\ table' = [table EXCEPT ![p][h].writer = EmptyBuffer]
  BY DEF Publishes, HasWriter, MappingInv
<1>2. WriterSession = <<p, h>> /\ <<p, h>> # None
  BY <1>1, WriterKnown DEF WriterIsKnown
<1>3. /\ table'[p][h].reader = table[p][h].reader /\ IsOpen(p, h)' /\ HasWriter(p, h)'
      /\ BufferOf(p, h)' = EmptyBuffer
      /\ \A q \in Processes, i \in Handles : ~(q = p /\ i = h) => table'[q][i] = table[q][i]
  BY <1>1, EmptyBufferType, StoredState
<1>4. /\ CurrentDocs' = NextCommit(p, h)
      /\ \A n \in 1 .. Len(published) : published'[n] = published[n]
  BY <1>1, PublishedDocs
<1>5. CurrentDocs' = PendingDocs
  BY <1>2, <1>4 DEF NextCommit, PendingDocs
<1>6. WriterSession' = <<p, h>>
  BY <1>3 DEF WriterIsKnown
<1>7. PendingDocs' = CurrentDocs'
  BY <1>1, <1>2, <1>3, <1>6, EmptyBufferPublishesNothing DEF PendingDocs
<1>8. \A q \in Processes, i \in Handles :
         /\ IsOpen(q, i)' <=> IsOpen(q, i)
         /\ IsOpen(q, i) => Shown(q, i)' = Shown(q, i)
  BY <1>1, <1>3, <1>4, SameBuffer, ShownKept
<1>9. UNCHANGED SessionSees
  BY <1>8, SeesKept
<1> QED
  BY <1>1, <1>2, <1>5, <1>6, <1>7, <1>9 DEF Store!Publish

LEMMA FailsRefines ==
  ASSUME MappingInv, WriterIsKnown', NEW p \in Processes, NEW h \in Handles, Fails(p, h)
  PROVE  Store!FailToPublish(<<p, h>>)
<1>1. /\ StoreInv /\ HasWriter(p, h) /\ IsOpen(p, h) /\ UNCHANGED <<schema, published>>
  BY DEF Fails, HasWriter, MappingInv
<1>2. WriterSession = <<p, h>> /\ <<p, h>> # None
  BY <1>1, WriterKnown DEF WriterIsKnown
<1>3. PICK kept \in SUBSET BufferOf(p, h).adds :
         /\ table' = [table EXCEPT ![p][h].writer = [BufferOf(p, h) EXCEPT !.adds = kept]]
         /\ [BufferOf(p, h) EXCEPT !.adds = kept] \in Buffers
  BY <1>1, FailedState
<1> DEFINE b == [BufferOf(p, h) EXCEPT !.adds = kept]
<1>4. /\ Committed(schema, CurrentDocs, b) \subseteq Committed(schema, CurrentDocs, BufferOf(p, h))
      /\ Committed(schema, CurrentDocs, BufferOf(p, h)) \cap CurrentDocs
            \subseteq Committed(schema, CurrentDocs, b)
  BY <1>1, StoreTypes, KeepSomeLoses
<1> HIDE DEF b
<1>5. /\ table'[p][h].reader = table[p][h].reader /\ IsOpen(p, h)' /\ HasWriter(p, h)'
      /\ BufferOf(p, h)' = b /\ WriterSession' = <<p, h>>
      /\ \A q \in Processes, i \in Handles : ~(q = p /\ i = h) => table'[q][i] = table[q][i]
  BY <1>1, <1>3, StoredState DEF b, WriterIsKnown
<1>6. UNCHANGED CurrentDocs
  BY <1>1 DEF CurrentDocs
<1>7. /\ PendingDocs = Committed(schema, CurrentDocs, BufferOf(p, h))
      /\ PendingDocs' = Committed(schema, CurrentDocs, b)
  BY <1>1, <1>2, <1>5, <1>6 DEF PendingDocs
<1>8. \A q \in Processes, i \in Handles :
         /\ IsOpen(q, i)' <=> IsOpen(q, i)
         /\ IsOpen(q, i) => Shown(q, i)' = Shown(q, i)
  BY <1>1, <1>5, SameBuffer, ShownKept
<1>9. UNCHANGED SessionSees
  BY <1>8, SeesKept
<1> QED
  BY <1>1, <1>2, <1>4, <1>5, <1>6, <1>7, <1>9 DEF Store!FailToPublish

\* (p, h) opens, or loads the last commit: the writer, if any, is not disturbed.
LEMMA ReadsCurrent ==
  ASSUME MappingInv, WriterIsKnown', schema # None, NEW p \in Processes, NEW h \in Handles,
         UNCHANGED <<schema, published>>, HasWriter(p, h)' <=> HasWriter(p, h),
         table'[p][h].reader = Len(published), IsOpen(p, h)', BufferOf(p, h)' = BufferOf(p, h),
         \A q \in Processes, i \in Handles : ~(q = p /\ i = h) => table'[q][i] = table[q][i]
  PROVE  /\ UNCHANGED <<CurrentDocs, WriterSession, PendingDocs>>
         /\ SessionSees' = [t \in DOMAIN SessionSees \cup {<<p, h>>} |->
                               IF t = <<p, h>> THEN CurrentDocs ELSE SessionSees[t]]
<1>1. StoreInv /\ published # << >>
  BY DEF MappingInv, StoreInv, IndexInv
<1>2. UNCHANGED CurrentDocs
  BY DEF CurrentDocs
<1>3. Shown(p, h)' = CurrentDocs
  BY <1>1 DEF Shown, CurrentDocs
<1>4. \A q \in Processes, i \in Handles : ~(q = p /\ i = h) =>
         /\ IsOpen(q, i)' <=> IsOpen(q, i)
         /\ IsOpen(q, i) => Shown(q, i)' = Shown(q, i)
         /\ HasWriter(q, i)' <=> HasWriter(q, i)
         /\ BufferOf(q, i)' = BufferOf(q, i)
  BY SameBuffer, ShownKept
<1>5. UNCHANGED <<WriterSession, PendingDocs>>
  <2>1. UNCHANGED WriterSession
    BY <1>1, <1>4, WriterKept
  <2> QED
    BY <1>1, <1>2, <1>4, <2>1, PendingKept
<1>6. SessionSees' = [t \in DOMAIN SessionSees \cup {<<p, h>>} |->
                         IF t = <<p, h>> THEN CurrentDocs ELSE SessionSees[t]]
  BY <1>3, <1>4, SeesCurrent
<1> QED
  BY <1>2, <1>5, <1>6

LEMMA OpensRefines ==
  ASSUME MappingInv, WriterIsKnown', NEW p \in Processes, NEW h \in Handles, Opens(p, h)
  PROVE  Store!Open(<<p, h>>)
<1>1. /\ StoreInv /\ schema # None /\ UNCHANGED <<schema, published>>
      /\ Fills(p, h, Len(published)) /\ ~IsOpen(p, h)
  BY DEF Opens, Fills, MappingInv
<1>2. /\ table'[p][h].reader = Len(published)
      /\ IsOpen(p, h)' /\ BufferOf(p, h)' = BufferOf(p, h)
      /\ HasWriter(p, h)' <=> HasWriter(p, h)
      /\ \A q \in Processes, i \in Handles : ~(q = p /\ i = h) => table'[q][i] = table[q][i]
  BY <1>1, FilledState
<1>3. <<p, h>> \notin DOMAIN SessionSees
  BY <1>1, SeesFacts
<1> QED
  BY <1>1, <1>2, <1>3, ReadsCurrent DEF Store!Open

LEMMA LoadsRefines ==
  ASSUME MappingInv, WriterIsKnown', NEW p \in Processes, NEW h \in Handles, Loads(p, h)
  PROVE  Store!Refresh(<<p, h>>)
<1>1. /\ StoreInv /\ IsOpen(p, h) /\ UNCHANGED <<schema, published>>
      /\ table' = [table EXCEPT ![p][h].reader = Len(published)]
  BY DEF Loads, MappingInv
<1>2. schema # None
  BY <1>1 DEF StoreInv, RegistryInv, NoOrphanState, IndexInv
<1>3. /\ table'[p][h].reader = Len(published)
      /\ IsOpen(p, h)' /\ BufferOf(p, h)' = BufferOf(p, h)
      /\ HasWriter(p, h)' <=> HasWriter(p, h)
      /\ \A q \in Processes, i \in Handles : ~(q = p /\ i = h) => table'[q][i] = table[q][i]
  BY <1>1, LoadedState
<1>4. <<p, h>> \in DOMAIN SessionSees
  BY <1>1, SeesFacts
<1>5. /\ UNCHANGED <<CurrentDocs, WriterSession, PendingDocs>>
      /\ SessionSees' = [t \in DOMAIN SessionSees \cup {<<p, h>>} |->
                            IF t = <<p, h>> THEN CurrentDocs ELSE SessionSees[t]]
  BY <1>1, <1>2, <1>3, ReadsCurrent
<1>6. SessionSees' = [SessionSees EXCEPT ![<<p, h>>] = CurrentDocs]
  <2>1. SessionSees = [s \in DOMAIN SessionSees |-> SessionSees[s]]
    BY DEF SessionSees
  <2>2. DOMAIN SessionSees \cup {<<p, h>>} = DOMAIN SessionSees
    BY <1>4
  <2> QED
    BY <1>5, <2>1, <2>2
<1> QED
  BY <1>4, <1>5, <1>6 DEF Store!Refresh

\* Making the index gives the store nothing but, perhaps, its first session.
LEMMA CreatesRefines ==
  ASSUME MappingInv, WriterIsKnown', Creates
  PROVE  \/ \E s \in Sessions : Store!Open(s)
         \/ UNCHANGED <<CurrentDocs, WriterSession, PendingDocs, SessionSees>>
<1>1. /\ StoreInv /\ schema = None /\ published' = <<{}>>
      /\ UNCHANGED table \/ \E p \in Processes, h \in Handles : Fills(p, h, 1)
  BY DEF Creates, MappingInv
<1>2. /\ CurrentDocs = {} /\ WriterSession = None /\ CurrentDocs' = {}
      /\ \A q \in Processes, i \in Handles : ~IsOpen(q, i) /\ ~HasWriter(q, i)
  BY <1>1, NoIndex, NewIndex DEF HasWriter
<1>3. UNCHANGED <<CurrentDocs, WriterSession, PendingDocs>>
  <2>1. \A q \in Processes, i \in Handles : HasWriter(q, i)' <=> HasWriter(q, i)
    <3>1. CASE UNCHANGED table
      BY <3>1, SameBuffer
    <3>2. ASSUME NEW p \in Processes, NEW h \in Handles, Fills(p, h, 1)
          PROVE  \A q \in Processes, i \in Handles : HasWriter(q, i)' <=> HasWriter(q, i)
      BY <1>1, <3>2, FilledState, SameBuffer
    <3> QED
      BY <1>1, <3>1, <3>2
  <2>2. UNCHANGED WriterSession
    BY <1>1, <2>1, WriterKept
  <2> QED
    BY <1>2, <2>2 DEF PendingDocs
<1>4. CASE UNCHANGED table
  <2>1. \A q \in Processes, i \in Handles : ~IsOpen(q, i)'
    BY <1>2, <1>4 DEF IsOpen
  <2> QED
    BY <1>1, <1>2, <1>3, <2>1, SeesKept
<1>5. ASSUME NEW p \in Processes, NEW h \in Handles, Fills(p, h, 1)
      PROVE  Store!Open(<<p, h>>)
  <2>1. /\ table'[p][h].reader = 1 /\ IsOpen(p, h)'
        /\ \A q \in Processes, i \in Handles : ~(q = p /\ i = h) => table'[q][i] = table[q][i]
    BY <1>1, <1>5, FilledState
  <2>2. <<{}>>[1] = {}
    OBVIOUS
  <2>3. Shown(p, h)' = CurrentDocs
    BY <1>1, <1>2, <2>1, <2>2 DEF Shown
  <2>4. \A q \in Processes, i \in Handles : ~(q = p /\ i = h) => ~IsOpen(q, i)'
    BY <1>2, <2>1, SameBuffer
  <2>5. SessionSees' = [t \in DOMAIN SessionSees \cup {<<p, h>>} |->
                           IF t = <<p, h>> THEN CurrentDocs ELSE SessionSees[t]]
    BY <1>2, <2>1, <2>3, <2>4, SeesCurrent
  <2>6. <<p, h>> \notin DOMAIN SessionSees
    BY <1>2, SeesFacts
  <2> QED
    BY <1>1, <1>3, <2>5, <2>6 DEF Store!Open
<1>6. \A p \in Processes, h \in Handles : <<p, h>> \in Sessions
  BY SeesFacts
<1> QED
  BY <1>1, <1>3, <1>4, <1>5, <1>6

\* Sessions go: if the writer is among them what was pending is forgotten.
LEMMA SessionsLeave ==
  ASSUME MappingInv, WriterIsKnown', NEW S \in SUBSET Sessions, UNCHANGED <<schema, published>>,
         \A q \in Processes, i \in Handles :
            IF <<q, i>> \in S THEN ~IsOpen(q, i)' /\ BufferOf(q, i)' = EmptyBuffer
                              ELSE table'[q][i] = table[q][i]
  PROVE  Store!Leave(S)
<1>1. StoreInv
  BY DEF MappingInv
<1>2. UNCHANGED CurrentDocs
  BY DEF CurrentDocs
<1>3. \A q \in Processes, i \in Handles :
         /\ IsOpen(q, i)' <=> IsOpen(q, i) /\ <<q, i>> \notin S
         /\ IsOpen(q, i)' => Shown(q, i)' = Shown(q, i)
  BY SameBuffer, ShownKept
<1>4. SessionSees' = [s \in DOMAIN SessionSees \ S |-> SessionSees[s]]
  BY <1>3, SeesWithout
<1>5. \A q \in Processes, i \in Handles :
         /\ HasWriter(q, i) <=> WriterSession = <<q, i>>
         /\ HasWriter(q, i)' <=> WriterSession' = <<q, i>>
         /\ HasWriter(q, i)' <=> HasWriter(q, i) /\ <<q, i>> \notin S
  BY <1>1, SameBuffer, WriterKnown DEF WriterIsKnown, HasWriter
<1>6. CASE WriterSession \in S
  <2>1. WriterSession' = None
    <3>1. \A q \in Processes, i \in Handles : WriterSession' # <<q, i>>
      BY <1>5, <1>6
    <3> QED
      BY <3>1 DEF WriterIsKnown, Sessions
  <2>2. PendingDocs' = CurrentDocs
    BY <1>2, <2>1 DEF PendingDocs
  <2> QED
    BY <1>2, <1>4, <1>6, <2>1, <2>2 DEF Store!Leave
<1>7. CASE WriterSession \notin S
  <2>1. ASSUME NEW q \in Processes, NEW i \in Handles
        PROVE  (HasWriter(q, i)' <=> HasWriter(q, i)) /\ BufferOf(q, i)' = BufferOf(q, i)
    <3>1. CASE <<q, i>> \in S
      <4>1. ~HasWriter(q, i)
        BY <1>5, <1>7, <3>1
      <4> QED
        BY <1>5, <3>1, <4>1 DEF BufferOf
    <3>2. CASE <<q, i>> \notin S
      BY <3>2, SameBuffer
    <3> QED
      BY <3>1, <3>2
  <2>2. UNCHANGED WriterSession
    BY <1>1, <2>1, WriterKept
  <2>3. UNCHANGED PendingDocs
    BY <1>1, <1>2, <2>1, <2>2, PendingKept
  <2> QED
    BY <1>2, <1>4, <1>7, <2>2, <2>3 DEF Store!Leave
<1> QED
  BY <1>6, <1>7

\* Closing a handle.
LEMMA ClosesRefines ==
  ASSUME MappingInv, WriterIsKnown', NEW p \in Processes, NEW h \in Handles, Closes(p, h)
  PROVE  Store!Leave({<<p, h>>})
<1>1. StoreInv /\ DropState(p, h) /\ UNCHANGED <<schema, published>>
  BY DEF MappingInv, Closes
<1>2. {<<p, h>>} \in SUBSET Sessions
  BY SeesFacts
<1>3. \A q \in Processes, i \in Handles : <<q, i>> \in {<<p, h>>} <=> q = p /\ i = h
  OBVIOUS
<1>4. \A q \in Processes, i \in Handles :
         IF <<q, i>> \in {<<p, h>>} THEN ~IsOpen(q, i)' /\ BufferOf(q, i)' = EmptyBuffer
                                    ELSE table'[q][i] = table[q][i]
  BY <1>1, <1>3, ClosedState
<1> QED
  BY <1>1, <1>2, <1>4, SessionsLeave

\* All the sessions of a process that dies leave at once.
LEMMA CrashRefines ==
  ASSUME MappingInv, WriterIsKnown', NEW p \in Processes, Crash(p)
  PROVE  Store!Leave({p} \X Handles)
<1>1. StoreInv /\ UNCHANGED <<schema, published>>
  BY DEF MappingInv, Crash
<1>2. {p} \X Handles \in SUBSET Sessions
  BY DEF Sessions
<1>3. \A q \in Processes, i \in Handles : <<q, i>> \in {p} \X Handles <=> q = p
  OBVIOUS
<1>4. \A q \in Processes, i \in Handles :
         IF <<q, i>> \in {p} \X Handles THEN ~IsOpen(q, i)' /\ BufferOf(q, i)' = EmptyBuffer
                                        ELSE table'[q][i] = table[q][i]
  <2>1. /\ \A i \in Handles : ~IsOpen(p, i)' /\ BufferOf(p, i)' = EmptyBuffer
        /\ \A q \in Processes \ {p}, i \in Handles : table'[q][i] = table[q][i]
    BY <1>1, CrashedStates
  <2> TAKE q \in Processes, i \in Handles
  <2>2. CASE q = p
    BY <1>3, <2>1, <2>2
  <2>3. CASE q # p
    BY <1>3, <2>1, <2>3
  <2> QED
    BY <2>2, <2>3
<1> QED
  BY <1>1, <1>2, <1>4, SessionsLeave

\* What leaves the index, the writers and the readers alone leaves the store alone.
LEMMA UnchangedRefines ==
  ASSUME StoreInv, WriterIsKnown', UNCHANGED storeVars
  PROVE  UNCHANGED <<CurrentDocs, WriterSession, PendingDocs, SessionSees>>
<1>1. UNCHANGED CurrentDocs
  BY DEF storeVars, CurrentDocs
<1>2. \A q, i : UNCHANGED <<IsOpen(q, i), HasWriter(q, i), BufferOf(q, i), Shown(q, i)>>
  BY DEF storeVars, IsOpen, HasWriter, BufferOf, Shown
<1>3. UNCHANGED WriterSession
  BY <1>2, WriterKept
<1>4. UNCHANGED PendingDocs
  BY <1>1, <1>2, <1>3, PendingKept DEF storeVars
<1>5. UNCHANGED SessionSees
  BY <1>2, SeesKept
<1> QED
  BY <1>1, <1>3, <1>4, <1>5

\* Each step of a session is a step of the store by that session.
LEMMA SessionRefines ==
  ASSUME MappingInv, WriterIsKnown', NEW p \in Processes, NEW h \in Handles, SessionStep(p, h)
  PROVE  Store!Next
<1>1. <<p, h>> \in Sessions
  BY SeesFacts
<1>2. \A k \in Keys : k[1] \in Names /\ k[2] \in Values
  BY ConstantsAssumption
<1>3. CASE \/ Opens(p, h) \/ Touches(p, h) \/ Publishes(p, h) \/ Fails(p, h) \/ Loads(p, h)
  <2>1. \/ Store!Open(<<p, h>>) \/ Store!Touch(<<p, h>>) \/ Store!Publish(<<p, h>>)
        \/ Store!FailToPublish(<<p, h>>) \/ Store!Refresh(<<p, h>>)
    BY <1>3, OpensRefines, TouchesRefines, PublishesRefines, FailsRefines, LoadsRefines
  <2> QED
    BY <1>1, <2>1 DEF Store!Next
<1>4. CASE Closes(p, h)
  <2>1. Store!Leave({<<p, h>>}) /\ {<<p, h>>} \in SUBSET Sessions
    BY <1>1, <1>4, ClosesRefines
  <2> QED
    BY <2>1 DEF Store!Next
<1>5. CASE \E d \in Documents : Adds(p, h, d)
  <2>1. \E doc \in [stamp : 1 .. MaxStamps, fields : StoredContents] : Store!Add(<<p, h>>, doc)
    BY <1>5, AddsRefines
  <2> QED
    BY <1>1, <2>1 DEF Store!Next
<1>6. CASE \E k \in Keys : Removes(p, h, k)
  <2>1. \E f \in Names, v \in Values : Store!Delete(<<p, h>>, f, v)
    BY <1>2, <1>6, RemovesRefines
  <2> QED
    BY <1>1, <2>1 DEF Store!Next
<1>7. CASE \E k \in Keys, d \in Documents : Replaces(p, h, k, d)
  <2>1. \E f \in Names, v \in Values, doc \in [stamp : 1 .. MaxStamps, fields : StoredContents] :
           Store!Replace(<<p, h>>, f, v, doc)
    BY <1>2, <1>7, ReplacesRefines
  <2> QED
    BY <1>1, <2>1 DEF Store!Next
<1> QED
  BY <1>3, <1>4, <1>5, <1>6, <1>7 DEF SessionStep

\* Every step is a step of the store, or leaves it as it is.
LEMMA RefinementStep == MappingInv /\ WriterIsKnown' /\ [Next]_vars => [Store!Next]_(Store!vars)
<1> SUFFICES ASSUME MappingInv, WriterIsKnown', [Next]_vars
             PROVE  Store!Next \/ UNCHANGED <<CurrentDocs, WriterSession, PendingDocs, SessionSees>>
  BY DEF Store!vars
<1>1. StoreStep
  BY StepEffect DEF MappingInv
<1>2. CASE UNCHANGED storeVars
  BY <1>2, UnchangedRefines DEF MappingInv
<1>3. CASE Creates
  BY <1>3, CreatesRefines DEF Store!Next
<1>4. CASE \E p \in Processes, h \in Handles : SessionStep(p, h)
  BY <1>4, SessionRefines
<1>5. ASSUME NEW p \in Processes, Crash(p)
      PROVE  Store!Next
  <2>1. {p} \X Handles \in SUBSET Sessions
    BY DEF Sessions
  <2> QED
    BY <1>5, <2>1, CrashRefines DEF Store!Next
<1> QED
  BY <1>1, <1>2, <1>3, <1>4, <1>5 DEF StoreStep

\* With no index there are no documents, no writer and no session.
LEMMA RefinementInit == Init => Store!Init
<1> SUFFICES ASSUME Init
             PROVE  Store!Init
  OBVIOUS
<1>1. CurrentDocs = {} /\ WriterSession = None /\ PendingDocs = {}
  BY DEF Init, CurrentDocs, WriterSession, PendingDocs
<1>2. {s \in Sessions : IsOpen(s[1], s[2])} = {}
  BY DEF Init, IsOpen, Sessions
<1>3. SessionSees = [s \in {} |-> {}]
  BY <1>2 DEF SessionSees
<1> QED
  BY <1>1, <1>3 DEF Store!Init

(***************************************************************************)
(* For any number of processes and handles, any documents, keys and        *)
(* faults: to its clients the index is one store.  A session's writes are  *)
(* its own until it publishes them, all at once; a publication that fails  *)
(* costs no committed document; what a session that closes or dies had not *)
(* published is forgotten, and only that; a reader goes from one           *)
(* publication to the current one and never shows half of one              *)
(* (ClientInterface.php, writer.rs, registry.rs).                          *)
(***************************************************************************)
THEOREM SharedIndexImplementsNrtStore == Spec => ImplementsNrtStore
<1>1. Init => Store!Init
  BY RefinementInit
<1>2. MappingInv /\ WriterIsKnown' /\ [Next]_vars => [Store!Next]_(Store!vars)
  BY RefinementStep
<1>3. Spec => [](MappingInv /\ WriterIsKnown)
  BY MappingInvariance
<1> QED
  BY <1>1, <1>2, <1>3, PTL DEF Spec, ImplementsNrtStore, Store!Spec

-----------------------------------------------------------------------------
(***************************************************************************)
(* Whatever library call fails, a write that throws changes nothing of     *)
(* what the next commit will publish, or is an update whose arguments were *)
(* accepted and takes away the documents it was to replace, and no others. *)
(***************************************************************************)
THEOREM FailedWritesLoseNoOthers == Spec => FailedWriteLosesNoOthers
<1> DEFINE Loss(p, h) ==
             \/ UNCHANGED PendingDocs
             \/ \E k \in Keys, d \in Documents \ {None} :
                   /\ FieldIsExactKey(schema, k[1])
                   /\ UpdateDocument(p, h, k[1], k[2], d)
                   /\ PendingDocs' = {doc \in PendingDocs : ~Carries(doc, k)}
           SmallLosses == \A p \in Processes, h \in Handles :
                             WriteStep(p, h, "error") \/ WriteStep(p, h, "busy") => Loss(p, h)
<1>1. ASSUME MappingInv, WriterIsKnown', Next
      PROVE  SmallLosses
  <2> SUFFICES ASSUME NEW p \in Processes, NEW h \in Handles,
                      WriteStep(p, h, "error") \/ WriteStep(p, h, "busy")
               PROVE  Loss(p, h)
    OBVIOUS
  <2>1. StoreInv
    BY <1>1 DEF MappingInv
  <2>2. ~Answer(p, "write", h, "ok")
    BY <2>1 DEF WriteStep, Answer, StoreInv, RegistryInv, TypeInv, TypeOK
  <2>3. CASE StoresNothing(p, h) \/ WriterFails(p, h) \/ Touches(p, h)
    <3>1. UNCHANGED storeVars \/ Touches(p, h)
      BY <2>3 DEF StoresNothing, WriterFails, storeVars
    <3> QED
      BY <1>1, <2>1, <3>1, UnchangedRefines, StoresPending DEF Touches
  <2>4. ASSUME NEW k \in Keys, NEW d \in Documents,
               UpdateDocument(p, h, k[1], k[2], d), Removes(p, h, k)
        PROVE  Loss(p, h)
    <3>1. d # None
      <4>1. stamp' # stamp
        BY <2>1, <2>4, StoreTypes DEF Removes, Stores
      <4> QED
        BY <2>4, <4>1 DEF UpdateDocument, Reject
    <3>2. FieldIsExactKey(schema, k[1])
      BY <2>4 DEF Removes
    <3>3. PendingDocs' = {doc \in PendingDocs : ~Carries(doc, k)}
      BY <1>1, <2>4, RemovesPending
    <3> QED
      BY <2>4, <3>1, <3>2, <3>3
  <2>5. CASE \E d \in Documents : AddDocument(p, h, d)
    BY <2>1, <2>2, <2>3, <2>5, AddEffect
  <2>6. CASE \E k \in Keys : DeleteById(p, h, k[1], k[2])
    BY <2>1, <2>2, <2>3, <2>6, DeleteEffect
  <2>7. CASE \E k \in Keys, d \in Documents : UpdateDocument(p, h, k[1], k[2], d)
    BY <2>1, <2>2, <2>3, <2>4, <2>7, UpdateEffect
  <2> QED
    BY <2>3, <2>5, <2>6, <2>7 DEF WriteStep
<1>2. MappingInv /\ WriterIsKnown' /\ [Next]_vars => [SmallLosses]_vars
  BY <1>1
<1> QED
  BY <1>2, MappingInvariance, PTL DEF Spec, FailedWriteLosesNoOthers
=============================================================================
