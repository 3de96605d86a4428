------------------------------ MODULE Opening ------------------------------
(***************************************************************************)
(* Opening an index directory, step by step (registry.rs open_or_create,   *)
(* open_read_only and register_state, and the calls of tantivy they make). *)
(*                                                                         *)
(* Nothing excludes two processes from each other here: the writer lock is *)
(* taken only by a writer, and what a process saw of the directory may be  *)
(* history when it acts on it.  Beside the processes that open, others     *)
(* write and commit, so that there is something to lose.  Any step may     *)
(* fail, and a process may die between any two.                            *)
(*                                                                         *)
(* SharedIndex has the whole of an open as one step; what is shown here    *)
(* says when that is right.                                                *)
(***************************************************************************)
EXTENDS Schema

CONSTANTS
    Processes,
    Builders,       \* the processes that call openOrCreate where there may be no index yet
    Configs,        \* the IndexConfig values callers pass: fields, idField
    Documents,      \* what is committed, each document once
    InitialMetas,   \* what the directory may hold at first
    None            \* no index, no call, no session, no writer

VARIABLES
    meta,           \* meta.json: schema and committed documents, or None
    call,           \* call[p]: the open in progress: its mode and config, its next step,
                    \* and the schema of the tantivy Index it has in hand, or None
    session,        \* session[p]: IndexState.schema of the index p has open, or None
    writer,         \* who holds the writer lock, and the documents it knows of, or None
    acknowledged    \* the documents of commits that returned

vars == <<meta, call, session, writer, acknowledged>>

Schemas == {BuildSchema(cfg.fields) : cfg \in Configs}

Metas == [schema : Schemas, docs : SUBSET Documents]

Calls == [mode   : {"rw", "ro"},
          cfg    : Configs,
          step   : {"exists", "create", "load", "register"},
          schema : Schemas \cup {None}]

Writers == [owner : Processes, docs : SUBSET Documents]

ASSUME OpeningAssumption ==
    /\ Builders \subseteq Processes
    /\ InitialMetas \subseteq Metas \cup {None}
    \* None is none of the values it stands beside.
    /\ None \notin Metas /\ None \notin Calls /\ None \notin Schemas /\ None \notin Writers

Init ==
    /\ meta \in InitialMetas
    /\ call = [p \in Processes |-> None]
    /\ session = [p \in Processes |-> None]
    /\ writer = None
    /\ acknowledged = {}
-----------------------------------------------------------------------------
(* Opening *)

At(p, step) == call[p] # None /\ call[p].step = step

GoTo(p, step) == call' = [call EXCEPT ![p].step = step]

\* build_schema of the config p was called with.
Wanted(p) == BuildSchema(call[p].cfg.fields)

Begin(p, mode, cfg, step) ==
    /\ call[p] = None /\ session[p] = None
    /\ call' = [call EXCEPT ![p] =
                   [mode |-> mode, cfg |-> cfg, step |-> step, schema |-> None]]
    /\ UNCHANGED <<meta, session, writer, acknowledged>>

BeginOpenOrCreate(p, cfg) ==
    /\ p \in Builders \/ meta # None
    /\ Begin(p, "rw", cfg, "exists")

BeginOpenReadOnly(p, cfg) == Begin(p, "ro", cfg, "load")

\* MUTANT of CheckExists: the builder always creates.
CheckNothing(p) ==
    /\ At(p, "exists")
    /\ ~DeclaredTwice(Wanted(p))
    /\ GoTo(p, "create")
    /\ UNCHANGED <<meta, session, writer, acknowledged>>

\* create_dir_all, build_schema, and the look at meta.json with which the library's
\* open_or_create begins.  An empty directory is to every later step, and to
\* open_in_dir, what a missing one is.
CheckExists(p) ==
    /\ At(p, "exists")
    /\ ~DeclaredTwice(Wanted(p))
    /\ GoTo(p, IF meta = None THEN "create" ELSE "load")
    /\ UNCHANGED <<meta, session, writer, acknowledged>>

\* The tantivy Index p has in hand.
Hold(p, schema) == call' = [call EXCEPT ![p].step = "register", ![p].schema = schema]

\* Creating writes an empty meta.json, over whatever is there by now.
CreateIndex(p) ==
    /\ At(p, "create")
    /\ meta' = [schema |-> Wanted(p), docs |-> {}]
    /\ Hold(p, Wanted(p))
    /\ UNCHANGED <<session, writer, acknowledged>>

\* MUTANT of LoadIndex: an index with another schema is taken for the one asked for.
LoadUnchecked(p) ==
    /\ At(p, "load")
    /\ meta # None
    /\ Hold(p, IF call[p].mode = "rw" THEN Wanted(p) ELSE meta.schema)
    /\ UNCHANGED <<meta, session, writer, acknowledged>>

\* Opening what is there: open_or_create wants its own schema, open_in_dir takes any.
LoadIndex(p) ==
    /\ At(p, "load")
    /\ meta # None
    /\ call[p].mode = "rw" => meta.schema = Wanted(p)
    /\ Hold(p, meta.schema)
    /\ UNCHANGED <<meta, session, writer, acknowledged>>

\* register_state
Register(p) ==
    /\ At(p, "register")
    /\ HasField(call[p].schema, call[p].cfg.idField)
    /\ session' = [session EXCEPT ![p] = call[p].schema]
    /\ call' = [call EXCEPT ![p] = None]
    /\ UNCHANGED <<meta, writer, acknowledged>>

\* MUTANT of Refuse: an open that fails takes away the index it had in hand.
RefuseCleansUp(p) ==
    /\ call[p] # None
    /\ call' = [call EXCEPT ![p] = None]
    /\ meta' = IF At(p, "register") /\ call[p].mode = "rw" THEN None ELSE meta
    /\ UNCHANGED <<session, writer, acknowledged>>

\* The call ends in an error, at any step: one that cannot go ahead, or a
\* failure of the library.  What was done stays done.
Refuse(p) ==
    /\ call[p] # None
    /\ call' = [call EXCEPT ![p] = None]
    /\ UNCHANGED <<meta, session, writer, acknowledged>>
-----------------------------------------------------------------------------
(* Writing, and letting go *)

\* ensure_writer: the new writer starts from the segments in meta.json.
StartWriter(p) ==
    /\ session[p] # None /\ meta # None
    /\ writer = None
    /\ writer' = [owner |-> p, docs |-> meta.docs]
    /\ UNCHANGED <<meta, call, session, acknowledged>>

\* A write and a commit that returns: meta.json is what the writer knows of,
\* with the schema of its session.
Commit(p, d) ==
    /\ writer # None /\ writer.owner = p
    /\ d \notin acknowledged
    /\ meta' = [schema |-> session[p], docs |-> writer.docs \cup {d}]
    /\ writer' = [writer EXCEPT !.docs = @ \cup {d}]
    /\ acknowledged' = acknowledged \cup {d}
    /\ UNCHANGED <<call, session>>

\* The memory of p is gone, or its index closed: the writer lets go of the lock.
LetGo(p) ==
    /\ session' = [session EXCEPT ![p] = None]
    /\ writer' = IF writer # None /\ writer.owner = p THEN None ELSE writer
    /\ UNCHANGED <<meta, acknowledged>>

Close(p) == session[p] # None /\ LetGo(p) /\ UNCHANGED call

\* The process dies, in any call or in none.
Crash(p) == LetGo(p) /\ call' = [call EXCEPT ![p] = None]

Next ==
    \E p \in Processes :
        \/ \E cfg \in Configs : BeginOpenOrCreate(p, cfg) \/ BeginOpenReadOnly(p, cfg)
        \/ CheckExists(p) \/ CreateIndex(p) \/ LoadIndex(p)
        \/ Register(p) \/ Refuse(p)
        \/ StartWriter(p)
        \/ \E d \in Documents : Commit(p, d)
        \/ Close(p) \/ Crash(p)

Spec == Init /\ [][Next]_vars
-----------------------------------------------------------------------------
(***************************************************************************)
(* What a commit that returned has published is in the index, whoever      *)
(* opens the directory afterwards, or had begun to before (ClientInterface *)
(* commit: "durable"; the existence check and the creation in registry.rs  *)
(* open_or_create).                                                        *)
(***************************************************************************)
CommitsSurvive ==
    acknowledged # {} => meta # None /\ acknowledged \subseteq meta.docs

(***************************************************************************)
(* The steps of the opens and the processes' own copies of the schema and  *)
(* of the documents amount to one index that is created once.              *)
(***************************************************************************)
Index == INSTANCE OneIndex WITH
    InitialIndexes <- InitialMetas,
    index          <- meta,
    open           <- session

ImplementsOneIndex == Index!Spec
=============================================================================
