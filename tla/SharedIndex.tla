---------------------------- MODULE SharedIndex ----------------------------
(***************************************************************************)
(* One index directory shared by several PHP worker processes.             *)
(*                                                                         *)
(* Each process keeps the table of crates/tantivy-core/src/registry.rs:    *)
(* handle -> IndexState (reader, cached writer).  A call of the extension  *)
(* (crates/tantivy-ext/src/lib.rs) runs under the table's mutex in a       *)
(* process that runs one PHP request at a time, so a call is one step of   *)
(* its process, with two exceptions.  Commit is two, because what it       *)
(* publishes is seen by other processes before its own reader is reloaded. *)
(* And a write whose writer cannot be made is two, because tantivy takes   *)
(* the lock file before it fails, and others meet it held meanwhile.  (A   *)
(* write whose writer is made keeps the lock: what follows is out of the   *)
(* others' sight, so one step is enough.)  Between any two steps another   *)
(* process can call, a reader's watcher can reload, and a process can die. *)
(*                                                                         *)
(* tantivy itself is external: the writer lock file, meta.json with the    *)
(* committed documents, the buffer of an IndexWriter (module WriteBuffer)  *)
(* and the searcher a reader has loaded.                                   *)
(***************************************************************************)
EXTENDS WriteBuffer

CONSTANTS
    Processes,    \* PHP worker processes
    Configs,      \* the IndexConfig values callers pass: fields, idField, heapOk
    Documents,    \* the JSON documents callers pass: objects, or None for "not an object"
    Keys,         \* the <<key_field, key_value>> arguments callers pass
    Marked,       \* the names whose text contains WRITER_LOCKED_PREFIX
    Faults,       \* the library calls that may fail (return Err or panic), of FaultPoints
    MaxHandles,   \* bound: opens per life of a process
    MaxStamps,    \* bound: operations buffered in all
    MaxCommits,   \* bound: commits of a writer in all
    None          \* no index, no lock holder, no writer, no state, no client

VARIABLES
    schema,       \* the schema in meta.json, or None when there is no index
    published,    \* the document sets of meta.json so far; the last is on disk
    lock,         \* the session that holds the writer lock file, or None
    table,        \* table[p][h]: the IndexState registered under h, or None
    nextHandle,   \* NEXT_HANDLE of each process
    client,       \* client[p][h]: how the live PHP object of handle h was opened, or None
    committing,   \* committing[p]: the handle whose commit has yet to reload, or 0
    starting,     \* starting[p]: the handle whose new writer holds the lock but will fail, or 0
    reply,        \* reply[p]: the last call answered, and its outcome
    stamp         \* the last stamp handed to a buffered operation

vars ==
    <<schema, published, lock, table, nextHandle, client, committing, starting, reply, stamp>>

disk == <<schema, published>>

\* "lock": the lock file cannot be opened or locked, which is not that it is held.
FaultPoints == {"dir", "reader", "lock", "writer", "add", "commit", "reload"}

Handles == 1 .. MaxHandles

Sessions == Processes \X Handles

Schemas == {BuildSchema(cfg.fields) : cfg \in Configs}

\* IndexState: the commit its reader has loaded, whether writer_heap_bytes is
\* enough for tantivy to start a writer, and the cached writer's buffer.
IndexStates == [reader : Nat, heapOk : BOOLEAN, writer : Buffers \cup {None}]

\* What a client knows of its handle: by which call it was opened, for which id field.
Clients == [mode : {"rw", "ro"}, idField : {cfg.idField : cfg \in Configs}]

\* The arguments have the shapes the actions take apart.
ASSUME ConstantsAssumption ==
    /\ MaxHandles \in Nat /\ MaxStamps \in Nat /\ MaxCommits \in Nat
    /\ Faults \subseteq FaultPoints
    /\ Keys \subseteq Names \X Values
    /\ Marked \subseteq Names
    /\ \A cfg \in Configs : cfg.heapOk \in BOOLEAN
    /\ \A d \in Documents : d # None =>
          /\ DOMAIN d \subseteq Names
          /\ \A n \in DOMAIN d : d[n].type # "null" => d[n].text \in Values

\* None is none of the values it stands beside.
ASSUME NoneAssumption ==
    /\ None \notin Buffers
    /\ None \notin IndexStates
    /\ None \notin Clients
    /\ None \notin Sessions
    /\ None \notin Schemas
-----------------------------------------------------------------------------
(* State functions *)

CurrentDocs == IF published = << >> THEN {} ELSE published[Len(published)]

IsOpen(p, h) == table[p][h] # None

HasWriter(p, h) == IsOpen(p, h) /\ table[p][h].writer # None

\* The writer's buffer; a writer not yet created will start empty.
BufferOf(p, h) == IF HasWriter(p, h) THEN table[p][h].writer ELSE EmptyBuffer

\* What the searcher of an open handle shows; doc_count is the number of these.
Shown(p, h) == published[table[p][h].reader]

\* The process is in no call.
Idle(p) == committing[p] = 0 /\ starting[p] = 0

\* A PHP object can be called when it exists and its process is in no call.
CanCall(p, h) == Idle(p) /\ client[p][h] # None

\* with_state found the handle in the table.
WithState(p, h) == CanCall(p, h) /\ IsOpen(p, h)

Answer(p, call, h, outcome) ==
    reply' = [reply EXCEPT ![p] = [call |-> call, handle |-> h, outcome |-> outcome]]

NoReply == [call |-> "none", handle |-> 0, outcome |-> "none"]

\* MUTANT of FirstHandle: 0, which stands for no handle.
ZeroHandle == 0

\* What NEXT_HANDLE starts with.
FirstHandle == 1

Init ==
    /\ schema = None
    /\ published = << >>
    /\ lock = None
    /\ table = [p \in Processes |-> [h \in Handles |-> None]]
    /\ nextHandle = [p \in Processes |-> FirstHandle]
    /\ client = [p \in Processes |-> [h \in Handles |-> None]]
    /\ committing = [p \in Processes |-> 0]
    /\ starting = [p \in Processes |-> 0]
    /\ reply = [p \in Processes |-> NoReply]
    /\ stamp = 0
-----------------------------------------------------------------------------
(* Opening *)

RefuseOpen(p) ==
    /\ Answer(p, "open", 0, "error")
    /\ UNCHANGED <<table, nextHandle, client>>

\* MUTANT of InsertState: handles are slots of the table, used again when free.
InsertIntoFreeSlot(p, cfg, mode, gen) ==
    \E h \in Handles :
        /\ ~IsOpen(p, h)
        /\ table' = [table EXCEPT ![p][h] =
                        [reader |-> gen, heapOk |-> cfg.heapOk, writer |-> None]]
        /\ client' = [client EXCEPT ![p][h] = [mode |-> mode, idField |-> cfg.idField]]
        /\ Answer(p, "open", h, "ok")
        /\ UNCHANGED nextHandle

\* The tail of register_state: insert under a fresh handle.  The reader starts
\* on the last commit, generation `gen`.
InsertState(p, cfg, mode, gen) ==
    LET h == nextHandle[p] IN
    /\ table' = [table EXCEPT ![p][h] =
                    [reader |-> gen, heapOk |-> cfg.heapOk, writer |-> None]]
    /\ client' = [client EXCEPT ![p][h] = [mode |-> mode, idField |-> cfg.idField]]
    /\ nextHandle' = [nextHandle EXCEPT ![p] = h + 1]
    /\ Answer(p, "open", h, "ok")

\* MUTANT of RegisterState: the id field is not looked up in the schema on disk.
RegisterUnchecked(p, cfg, mode, onDisk, gen) == InsertState(p, cfg, mode, gen)

\* register_state: the id field must be in the schema on disk, and the reader
\* must be built.
RegisterState(p, cfg, mode, onDisk, gen) ==
    \/ HasField(onDisk, cfg.idField) /\ InsertState(p, cfg, mode, gen)
    \/ (~HasField(onDisk, cfg.idField) \/ "reader" \in Faults) /\ RefuseOpen(p)

CanOpen(p) == Idle(p) /\ nextHandle[p] <= MaxHandles

\* open_or_create.  A refusal by register_state comes after the index was created.
OpenOrCreate(p, cfg) ==
    LET wanted == BuildSchema(cfg.fields) IN
    /\ CanOpen(p)
    /\ \/ /\ \/ DeclaredTwice(wanted)
             \/ schema # None /\ schema # wanted
             \/ "dir" \in Faults
          /\ RefuseOpen(p)
          /\ UNCHANGED disk
       \/ /\ ~DeclaredTwice(wanted)
          /\ schema = None
          /\ schema' = wanted
          /\ published' = <<{}>>
          /\ RegisterState(p, cfg, "rw", wanted, 1)
       \/ /\ schema = wanted
          /\ RegisterState(p, cfg, "rw", schema, Len(published))
          /\ UNCHANGED disk
    /\ UNCHANGED <<lock, committing, starting, stamp>>

\* open_read_only: never creates, and takes the schema that is on disk.
OpenReadOnly(p, cfg) ==
    /\ CanOpen(p)
    /\ \/ (schema = None \/ "dir" \in Faults) /\ RefuseOpen(p)
       \/ schema # None /\ RegisterState(p, cfg, "ro", schema, Len(published))
    /\ UNCHANGED <<schema, published, lock, committing, starting, stamp>>
-----------------------------------------------------------------------------
(* Writing *)

\* with_state on a handle that is no longer in the table.
CallOnClosed(p, h) ==
    /\ CanCall(p, h)
    /\ ~IsOpen(p, h)
    /\ Answer(p, "invalid", h, "error")
    /\ UNCHANGED <<schema, published, lock, table, nextHandle, client, committing, starting, stamp>>

\* TantivyException::forOperation: IndexBusyException if the marker is anywhere in
\* the error text, where ensure_writer put it or a name passed by the caller has it.
ForOperation(marked) == IF marked THEN "busy" ELSE "error"

\* MUTANT of Reject: the writer is obtained before the arguments are examined.
RejectHoldingWriter(p, h, marked) ==
    /\ lock = None
    /\ lock' = <<p, h>>
    /\ table' = [table EXCEPT ![p][h].writer = EmptyBuffer]
    /\ Answer(p, "write", h, "error")
    /\ UNCHANGED <<starting, stamp>>

\* A write rejected before ensure_writer, with an error text that is `marked` or not.
Reject(p, h, marked) ==
    Answer(p, "write", h, ForOperation(marked)) /\ UNCHANGED <<lock, table, starting, stamp>>

\* MUTANT of KeyResolves: any field of the schema will do.
KeyIsAnyField(field) == HasField(schema, field)

\* resolve_key_field accepts `field`; if it does not, its error quotes it.
KeyResolves(field) == FieldIsExactKey(schema, field)

RefusalIsMarked(field) == ~KeyResolves(field) /\ field \in Marked

\* ensure_writer succeeds: the cached writer, or a new one that takes the lock.
WriterReady(p, h) == HasWriter(p, h) \/ (lock = None /\ table[p][h].heapOk)

\* MUTANT of EnsureWriterFails: a writer is asked of tantivy although one is cached.
EnsureWriterFailsCached(p, h) ==
    /\ lock # None
    /\ Answer(p, "write", h, "busy")
    /\ UNCHANGED <<lock, table, starting, stamp>>

\* MUTANT of EnsureWriterFails: the writer is cached before tantivy has made it.
EnsureWriterFailsHalfMade(p, h) ==
    /\ ~HasWriter(p, h) /\ lock = None
    /\ ~table[p][h].heapOk \/ "writer" \in Faults
    /\ lock' = <<p, h>>
    /\ table' = [table EXCEPT ![p][h].writer = EmptyBuffer]
    /\ Answer(p, "write", h, "error")
    /\ UNCHANGED <<starting, stamp>>

\* ensure_writer fails: with a LockFailure, for whatever reason, which is marked;
\* or with the lock taken, and then it is WriterFails that answers.
EnsureWriterFails(p, h) ==
    /\ ~HasWriter(p, h)
    /\ \/ /\ lock # None \/ "lock" \in Faults
          /\ Answer(p, "write", h, ForOperation(TRUE))
          /\ UNCHANGED <<lock, starting>>
       \/ /\ lock = None
          /\ ~table[p][h].heapOk \/ "writer" \in Faults
          /\ lock' = <<p, h>>
          /\ starting' = [starting EXCEPT ![p] = h]
          /\ reply' = [reply EXCEPT ![p] = NoReply]
    /\ UNCHANGED <<table, stamp>>

\* MUTANT of WriterFails: the lock file outlives the writer that was not made.
WriterFailsKeepsLock(p, h) ==
    /\ starting[p] = h
    /\ starting' = [starting EXCEPT ![p] = 0]
    /\ Answer(p, "write", h, ForOperation(FALSE))
    /\ UNCHANGED <<schema, published, lock, table, nextHandle, client, committing, stamp>>

\* MUTANT of WriterFails: every failure to get a writer is marked as busy.
WriterFailsBusy(p, h) ==
    /\ starting[p] = h
    /\ starting' = [starting EXCEPT ![p] = 0]
    /\ lock' = None
    /\ Answer(p, "write", h, ForOperation(TRUE))
    /\ UNCHANGED <<schema, published, table, nextHandle, client, committing, stamp>>

\* index.writer() gives up, its heap too small or otherwise, and lets go of the
\* lock; the error is not marked.
WriterFails(p, h) ==
    /\ starting[p] = h
    /\ starting' = [starting EXCEPT ![p] = 0]
    /\ lock' = None
    /\ Answer(p, "write", h, ForOperation(FALSE))
    /\ UNCHANGED <<schema, published, table, nextHandle, client, committing, stamp>>

\* The writer of (p, h), new or cached, with this buffer.
StoreWriter(p, h, buffer) ==
    /\ table' = [table EXCEPT ![p][h].writer = buffer]
    /\ lock' = <<p, h>>
    /\ UNCHANGED starting

AddDocument(p, h, object) ==
    /\ WithState(p, h)
    /\ \/ object = None /\ Reject(p, h, FALSE)
       \/ object # None /\ EnsureWriterFails(p, h)
       \/ /\ object # None /\ WriterReady(p, h) /\ stamp < MaxStamps
          /\ StoreWriter(p, h, PushDocument(BufferOf(p, h), stamp + 1, ParseDoc(schema, object)))
          /\ stamp' = stamp + 1
          /\ Answer(p, "write", h, "ok")
       \/ /\ object # None /\ WriterReady(p, h) /\ "add" \in Faults
          /\ StoreWriter(p, h, BufferOf(p, h))
          /\ UNCHANGED stamp
          /\ Answer(p, "write", h, "error")
    /\ UNCHANGED <<schema, published, nextHandle, client, committing>>

\* delete_by_id
DeleteById(p, h, field, value) ==
    /\ WithState(p, h)
    /\ \/ ~KeyResolves(field) /\ Reject(p, h, RefusalIsMarked(field))
       \/ KeyResolves(field) /\ EnsureWriterFails(p, h)
       \/ /\ KeyResolves(field) /\ WriterReady(p, h) /\ stamp < MaxStamps
          /\ StoreWriter(p, h, PushDelete(BufferOf(p, h), stamp + 1, field, value))
          /\ stamp' = stamp + 1
          /\ Answer(p, "write", h, "ok")
    /\ UNCHANGED <<schema, published, nextHandle, client, committing>>

\* MUTANT of UpdateDocument: the document is parsed after delete_term.
UpdateDeletesFirst(p, h, field, value, object) ==
    /\ WithState(p, h)
    /\ KeyResolves(field) /\ WriterReady(p, h) /\ stamp < MaxStamps
    /\ StoreWriter(p, h, PushDelete(BufferOf(p, h), stamp + 1, field, value))
    /\ stamp' = stamp + 1
    /\ Answer(p, "write", h, IF object = None THEN "error" ELSE "ok")
    /\ UNCHANGED <<schema, published, nextHandle, client, committing>>

\* update_document: delete_term, then add_document; if the second fails, the
\* delete stays in the buffer.
UpdateDocument(p, h, field, value, object) ==
    LET accepted == KeyResolves(field) /\ object # None
        deleted  == PushDelete(BufferOf(p, h), stamp + 1, field, value)
    IN
    /\ WithState(p, h)
    /\ \/ ~accepted /\ Reject(p, h, RefusalIsMarked(field))
       \/ accepted /\ EnsureWriterFails(p, h)
       \/ /\ accepted /\ WriterReady(p, h) /\ stamp + 1 < MaxStamps
          /\ StoreWriter(p, h, PushDocument(deleted, stamp + 2, ParseDoc(schema, object)))
          /\ stamp' = stamp + 2
          /\ Answer(p, "write", h, "ok")
       \/ /\ accepted /\ WriterReady(p, h) /\ stamp < MaxStamps /\ "add" \in Faults
          /\ StoreWriter(p, h, deleted)
          /\ stamp' = stamp + 1
          /\ Answer(p, "write", h, "error")
    /\ UNCHANGED <<schema, published, nextHandle, client, committing>>
-----------------------------------------------------------------------------
(* Committing *)

\* MUTANT of NextCommit: the buffer is applied to what the session's reader shows.
CommitOnSnapshot(p, h) ==
    Committed(schema, Shown(p, h), BufferOf(p, h))

\* What w.commit() publishes.
NextCommit(p, h) == Committed(schema, CurrentDocs, BufferOf(p, h))

\* commit, up to the reader: the writer publishes its buffer, if there is a
\* writer.  On an error the writer stays cached; what it still buffers of its
\* documents is tantivy's affair.
CommitWriter(p, h) ==
    /\ WithState(p, h)
    /\ \/ /\ ~HasWriter(p, h)
          /\ committing' = [committing EXCEPT ![p] = h]
          /\ UNCHANGED <<published, table, reply>>
       \/ /\ HasWriter(p, h) /\ Len(published) <= MaxCommits
          /\ published' = Append(published, NextCommit(p, h))
          /\ table' = [table EXCEPT ![p][h].writer = EmptyBuffer]
          /\ committing' = [committing EXCEPT ![p] = h]
          /\ UNCHANGED reply
       \/ /\ HasWriter(p, h) /\ "commit" \in Faults
          /\ \E kept \in SUBSET BufferOf(p, h).adds :
                table' = [table EXCEPT ![p][h].writer.adds = kept]
          /\ Answer(p, "commit", h, "error")
          /\ UNCHANGED <<published, committing>>
    /\ UNCHANGED <<schema, lock, nextHandle, client, starting, stamp>>

\* MUTANT of CommitReload: the reader is left to its watcher.
CommitWithoutReload(p, h) ==
    /\ committing[p] = h
    /\ committing' = [committing EXCEPT ![p] = 0]
    /\ Answer(p, "commit", h, "ok")
    /\ UNCHANGED <<schema, published, lock, table, nextHandle, client, starting, stamp>>

\* commit, the rest: reader.reload().
CommitReload(p, h) ==
    /\ committing[p] = h
    /\ committing' = [committing EXCEPT ![p] = 0]
    /\ \/ /\ table' = [table EXCEPT ![p][h].reader = Len(published)]
          /\ Answer(p, "commit", h, "ok")
       \/ /\ "reload" \in Faults
          /\ Answer(p, "commit", h, "error")
          /\ UNCHANGED table
    /\ UNCHANGED <<schema, published, lock, nextHandle, client, starting, stamp>>

\* MUTANT of WatcherReload: ReloadPolicy::Manual.
ManualReload(p, h) == FALSE

\* ReloadPolicy::OnCommitWithDelay: the reader's watcher thread sees a new meta.json.
WatcherReload(p, h) ==
    /\ IsOpen(p, h)
    /\ table[p][h].reader < Len(published)
    /\ table' = [table EXCEPT ![p][h].reader = Len(published)]
    /\ UNCHANGED <<schema, published, lock, nextHandle, client, committing, starting, reply, stamp>>
-----------------------------------------------------------------------------
(* Letting go *)

\* MUTANT of DropState: the lock file outlives the writer.
DropStateKeepsLock(p, h) ==
    /\ table' = [table EXCEPT ![p][h] = None]
    /\ UNCHANGED lock

\* MUTANT of DropState: closing any handle lets go of the process's lock.
DropStateOfProcess(p, h) ==
    /\ table' = [table EXCEPT ![p][h] = None]
    /\ lock' = IF lock # None /\ lock[1] = p THEN None ELSE lock

\* registry::close: the state leaves the table; dropping its writer discards the
\* buffer and releases the lock.  Nothing happens when the handle is not there.
DropState(p, h) ==
    /\ table' = [table EXCEPT ![p][h] = None]
    /\ lock' = IF HasWriter(p, h) THEN None ELSE lock

\* Index::close, callable any number of times.
Close(p, h) ==
    /\ CanCall(p, h)
    /\ DropState(p, h)
    /\ Answer(p, "close", h, "ok")
    /\ UNCHANGED <<schema, published, nextHandle, client, committing, starting, stamp>>

\* MUTANT of Destruct: freeing the object does not close its handle.
DestructWithoutClose(p, h) ==
    /\ CanCall(p, h)
    /\ client' = [client EXCEPT ![p][h] = None]
    /\ UNCHANGED <<schema, published, lock, table, nextHandle, committing, starting, reply, stamp>>

\* The PHP object is freed: ExtClient::__destruct closes, and the native Drop
\* closes once more.
Destruct(p, h) ==
    /\ CanCall(p, h)
    /\ DropState(p, h)
    /\ client' = [client EXCEPT ![p][h] = None]
    /\ UNCHANGED <<schema, published, nextHandle, committing, starting, reply, stamp>>

\* The process dies, at any point of any call, and is replaced: its memory is
\* gone and the operating system frees its file lock.
Crash(p) ==
    /\ table' = [table EXCEPT ![p] = [h \in Handles |-> None]]
    /\ lock' = IF lock # None /\ lock[1] = p THEN None ELSE lock
    /\ nextHandle' = [nextHandle EXCEPT ![p] = FirstHandle]
    /\ client' = [client EXCEPT ![p] = [h \in Handles |-> None]]
    /\ committing' = [committing EXCEPT ![p] = 0]
    /\ starting' = [starting EXCEPT ![p] = 0]
    /\ reply' = [reply EXCEPT ![p] = NoReply]
    /\ UNCHANGED <<schema, published, stamp>>
-----------------------------------------------------------------------------
Call(p, h) ==
    \/ CallOnClosed(p, h)
    \/ \E d \in Documents : AddDocument(p, h, d)
    \/ \E k \in Keys : DeleteById(p, h, k[1], k[2])
    \/ \E k \in Keys, d \in Documents : UpdateDocument(p, h, k[1], k[2], d)
    \/ WriterFails(p, h)
    \/ CommitWriter(p, h)
    \/ CommitReload(p, h)
    \/ Close(p, h)
    \/ Destruct(p, h)

Next ==
    \E p \in Processes :
        \/ \E cfg \in Configs : OpenOrCreate(p, cfg)
        \/ \E cfg \in Configs : OpenReadOnly(p, cfg)
        \/ \E h \in Handles : Call(p, h)
        \/ \E h \in Handles : WatcherReload(p, h)
        \/ Crash(p)

Spec == Init /\ [][Next]_vars

\* The watcher thread of a reader polls for ever.
ReaderFairness == \A p \in Processes, h \in Handles : WF_vars(WatcherReload(p, h))

\* A call that has begun returns, and a PHP object is freed at the latest when
\* its request ends, whatever calls the request makes before.
ObjectFairness ==
    \A p \in Processes, h \in Handles :
        /\ WF_vars(WriterFails(p, h))
        /\ WF_vars(CommitReload(p, h))
        /\ SF_vars(Destruct(p, h))

ReaderSpec == Spec /\ ReaderFairness

ObjectSpec == Spec /\ ObjectFairness
=============================================================================
