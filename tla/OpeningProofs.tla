---------------------------- MODULE OpeningProofs ----------------------------
(***************************************************************************)
(* Theorems about Opening, for all values of its constants: where no two   *)
(* processes may be the one that creates the index, no commit is lost and  *)
(* the steps of the opens implement OneIndex.                              *)
(***************************************************************************)
EXTENDS Opening, TLAPS

\* At most one process opens a directory that may have no index yet.
SoleBuilder == \A p, q \in Builders : p = q

TypeInv ==
    /\ meta \in Metas \cup {None}
    /\ call \in [Processes -> Calls \cup {None}]
    /\ session \in [Processes -> Schemas \cup {None}]
    /\ writer \in Writers \cup {None}
    /\ acknowledged \in SUBSET Documents

\* What the processes hold in memory is what is on disk.
MemoryAgrees ==
    /\ \A p \in Processes : session[p] # None => meta # None /\ session[p] = meta.schema
    /\ \A p \in Processes : At(p, "register") => meta # None /\ call[p].schema = meta.schema
    /\ writer # None => session[writer.owner] # None /\ writer.docs = meta.docs

\* Whoever saw no index is still right about it.
CreationIsSafe ==
    /\ \A p \in Processes : At(p, "create") => meta = None
    /\ \A p \in Processes :
          At(p, "exists") \/ At(p, "create") => p \in Builders \/ meta # None

OpeningInv == TypeInv /\ MemoryAgrees /\ CreationIsSafe /\ CommitsSurvive

-----------------------------------------------------------------------------
(* The invariant, action by action *)

LEMMA WantedIsASchema ==
  ASSUME TypeInv, NEW p \in Processes, call[p] # None
  PROVE  call[p] \in Calls /\ Wanted(p) \in Schemas
BY DEF TypeInv, Calls, Wanted, Schemas

\* A call begins or goes on, and changes nothing but itself.
LEMMA CallMoves ==
  ASSUME OpeningInv, NEW p \in Processes, NEW c \in Calls \cup {None},
         call' = [call EXCEPT ![p] = c],
         UNCHANGED <<meta, session, writer, acknowledged>>,
         c # None /\ c.step = "register" => meta # None /\ c.schema = meta.schema,
         c # None /\ c.step = "create" => meta = None,
         c # None /\ c.step \in {"exists", "create"} => p \in Builders \/ meta # None
  PROVE  OpeningInv'
<1>1. TypeInv'
  BY DEF OpeningInv, TypeInv
<1>2. \A q \in Processes : call'[q] = IF q = p THEN c ELSE call[q]
  BY DEF OpeningInv, TypeInv
<1>3. MemoryAgrees' /\ CreationIsSafe'
  BY <1>2 DEF OpeningInv, MemoryAgrees, CreationIsSafe, At
<1> QED
  BY <1>1, <1>3 DEF OpeningInv, CommitsSurvive

LEMMA BeginKeeps ==
  ASSUME OpeningInv, NEW p \in Processes, NEW cfg \in Configs,
         BeginOpenOrCreate(p, cfg) \/ BeginOpenReadOnly(p, cfg)
  PROVE  OpeningInv'
<1>1. PICK mode \in {"rw", "ro"}, step \in {"exists", "load"} :
         Begin(p, mode, cfg, step) /\ (step = "exists" => p \in Builders \/ meta # None)
  BY DEF BeginOpenOrCreate, BeginOpenReadOnly
<1> DEFINE c == [mode |-> mode, cfg |-> cfg, step |-> step, schema |-> None]
<1>2. c \in Calls
  BY DEF Calls
<1>3. call' = [call EXCEPT ![p] = c] /\ UNCHANGED <<meta, session, writer, acknowledged>>
  BY <1>1 DEF Begin
<1>4. c.step = step
  OBVIOUS
<1> QED
  BY <1>1, <1>2, <1>3, <1>4, CallMoves

\* The steps at which the open looks, or is turned away.
LEMMA LookingKeeps ==
  ASSUME OpeningInv, NEW p \in Processes,
         CheckExists(p) \/ LoadIndex(p) \/ Refuse(p)
  PROVE  OpeningInv'
<1>1. call[p] # None /\ UNCHANGED <<meta, session, writer, acknowledged>>
  BY DEF CheckExists, LoadIndex, Refuse, At
<1>2. call[p] \in Calls
  BY <1>1, WantedIsASchema DEF OpeningInv
<1>3. ASSUME NEW step \in {"create", "load"}, GoTo(p, step),
             step = "create" => meta = None,
             step = "create" => p \in Builders \/ meta # None
      PROVE  OpeningInv'
  <2> DEFINE c == [call[p] EXCEPT !.step = step]
  <2>1. c \in Calls /\ c.step = step
    BY <1>2 DEF Calls
  <2>2. call' = [call EXCEPT ![p] = c]
    BY <1>3 DEF GoTo
  <2> QED
    BY <1>1, <1>3, <2>1, <2>2, CallMoves
<1>4. CASE CheckExists(p)
  BY <1>3, <1>4 DEF CheckExists, OpeningInv, CreationIsSafe
<1>5. CASE LoadIndex(p)
  <2> DEFINE c == [call[p] EXCEPT !.step = "register", !.schema = meta.schema]
  <2>1. meta # None /\ meta.schema \in Schemas
    BY <1>5 DEF LoadIndex, OpeningInv, TypeInv, Metas
  <2>2. c \in Calls /\ c.step = "register" /\ c.schema = meta.schema
    BY <1>2, <2>1 DEF Calls
  <2>3. call' = [call EXCEPT ![p] = c]
    BY <1>5 DEF LoadIndex, Hold
  <2> QED
    BY <1>1, <2>1, <2>2, <2>3, CallMoves
<1>6. CASE Refuse(p)
  BY <1>1, <1>6, CallMoves DEF Refuse
<1> QED
  BY <1>4, <1>5, <1>6

\* The index is created where there is none, and nobody else is about to.
LEMMA CreateIndexKeeps ==
  ASSUME OpeningInv, SoleBuilder, NEW p \in Processes, CreateIndex(p)
  PROVE  OpeningInv'
<1> USE DEF OpeningInv, TypeInv
<1> DEFINE c == [call[p] EXCEPT !.step = "register", !.schema = Wanted(p)]
<1>1. call[p] \in Calls /\ Wanted(p) \in Schemas
  BY WantedIsASchema DEF CreateIndex, At
<1>2. c \in Calls /\ c.step = "register" /\ c.schema = Wanted(p)
  BY <1>1 DEF Calls
<1>3. call' = [call EXCEPT ![p] = c]
  BY DEF CreateIndex, Hold
<1>4. meta = None /\ p \in Builders
  BY DEF CreateIndex, CreationIsSafe
<1>5. /\ meta' = [schema |-> Wanted(p), docs |-> {}]
      /\ UNCHANGED <<session, writer, acknowledged>>
  BY DEF CreateIndex
<1>6. meta' \in Metas /\ meta' # None
  BY <1>1, <1>5, OpeningAssumption DEF Metas
<1>7. \A q \in Processes : session[q] = None
  BY <1>4 DEF MemoryAgrees
<1>8. writer = None /\ acknowledged = {}
  BY <1>4, <1>7 DEF MemoryAgrees, CommitsSurvive, Writers
<1>9. \A q \in Processes : call'[q] = IF q = p THEN c ELSE call[q]
  BY <1>3
<1>10. TypeInv'
  BY <1>2, <1>3, <1>5, <1>6
<1>11. MemoryAgrees'
  BY <1>2, <1>4, <1>5, <1>6, <1>7, <1>8, <1>9 DEF MemoryAgrees, At
<1>12. CreationIsSafe'
  <2>1. ASSUME NEW q \in Processes, At(q, "create")'
        PROVE  FALSE
    <3>1. q # p /\ At(q, "create")
      BY <1>2, <1>9, <2>1 DEF At
    <3>2. q \in Builders
      BY <1>4, <3>1 DEF CreationIsSafe
    <3> QED
      BY <1>4, <3>1, <3>2 DEF SoleBuilder
  <2> QED
    BY <1>6, <2>1 DEF CreationIsSafe
<1> QED
  BY <1>5, <1>8, <1>10, <1>11, <1>12 DEF CommitsSurvive

LEMMA RegisterKeeps ==
  ASSUME OpeningInv, NEW p \in Processes, Register(p)
  PROVE  OpeningInv'
<1> USE DEF OpeningInv, TypeInv
<1>1. meta # None /\ call[p].schema = meta.schema /\ meta.schema \in Schemas
  BY DEF Register, MemoryAgrees, Metas
<1>2. /\ session' = [session EXCEPT ![p] = meta.schema]
      /\ call' = [call EXCEPT ![p] = None]
      /\ UNCHANGED <<meta, writer, acknowledged>>
  BY <1>1 DEF Register
<1>3. TypeInv'
  BY <1>1, <1>2
<1>4. MemoryAgrees'
  BY <1>1, <1>2, OpeningAssumption DEF MemoryAgrees, At, Writers
<1>5. CreationIsSafe'
  BY <1>2 DEF CreationIsSafe, At
<1> QED
  BY <1>2, <1>3, <1>4, <1>5 DEF CommitsSurvive

-----------------------------------------------------------------------------
(* Writing and letting go *)

LEMMA StartWriterKeeps ==
  ASSUME OpeningInv, NEW p \in Processes, StartWriter(p)
  PROVE  OpeningInv'
<1> USE DEF OpeningInv, TypeInv
<1>1. session[p] # None /\ meta # None /\ meta.docs \in SUBSET Documents
  BY DEF StartWriter, MemoryAgrees, Metas
<1>2. writer' \in Writers /\ writer'.owner = p /\ writer'.docs = meta.docs
  BY <1>1 DEF StartWriter, Writers
<1>3. UNCHANGED <<meta, call, session, acknowledged>>
  BY DEF StartWriter
<1>4. TypeInv' /\ MemoryAgrees'
  BY <1>1, <1>2, <1>3 DEF MemoryAgrees, At
<1> QED
  BY <1>3, <1>4 DEF CreationIsSafe, CommitsSurvive, At

LEMMA CommitKeeps ==
  ASSUME OpeningInv, NEW p \in Processes, NEW d \in Documents, Commit(p, d)
  PROVE  OpeningInv'
<1> USE DEF OpeningInv, TypeInv
<1>1. writer # None /\ writer \in Writers /\ writer.owner = p
  BY DEF Commit
<1>2. meta # None /\ session[p] = meta.schema /\ writer.docs = meta.docs
  BY <1>1 DEF MemoryAgrees
<1>3. /\ meta' = [schema |-> meta.schema, docs |-> meta.docs \cup {d}]
      /\ writer' = [writer EXCEPT !.docs = @ \cup {d}]
      /\ acknowledged' = acknowledged \cup {d}
      /\ UNCHANGED <<call, session>>
  BY <1>2 DEF Commit
<1>4. meta' \in Metas /\ meta' # None
  BY <1>2, <1>3, OpeningAssumption DEF Metas
<1>5. writer' \in Writers /\ writer'.owner = p /\ writer'.docs = meta'.docs
  BY <1>1, <1>2, <1>3 DEF Writers
<1>6. TypeInv'
  BY <1>3, <1>4, <1>5
<1>7. MemoryAgrees'
  BY <1>1, <1>2, <1>3, <1>4, <1>5 DEF MemoryAgrees, At
<1>8. CreationIsSafe'
  BY <1>2, <1>3, <1>4 DEF CreationIsSafe, At
<1>9. CommitsSurvive'
  BY <1>3, <1>4 DEF CommitsSurvive
<1> QED
  BY <1>6, <1>7, <1>8, <1>9

LEMMA LeavingKeeps ==
  ASSUME OpeningInv, NEW p \in Processes, Close(p) \/ Crash(p)
  PROVE  OpeningInv'
<1> USE DEF OpeningInv, TypeInv
<1>1. /\ session' = [session EXCEPT ![p] = None]
      /\ writer' = IF writer # None /\ writer.owner = p THEN None ELSE writer
      /\ UNCHANGED <<meta, acknowledged>>
      /\ call' \in {call, [call EXCEPT ![p] = None]}
  BY DEF Close, Crash, LetGo
<1>2. TypeInv'
  BY <1>1
<1>3. \A q \in Processes : call'[q] \in {None, call[q]}
  BY <1>1
<1>4. MemoryAgrees'
  <2>1. writer' # None => writer' = writer /\ writer.owner # p /\ writer.owner \in Processes
    BY <1>1 DEF Writers
  <2> QED
    BY <1>1, <1>3, <2>1 DEF MemoryAgrees, At
<1>5. CreationIsSafe'
  BY <1>1, <1>3 DEF CreationIsSafe, At
<1> QED
  BY <1>1, <1>2, <1>4, <1>5 DEF CommitsSurvive

-----------------------------------------------------------------------------
(* The theorems *)

LEMMA OpeningInvInit == Init => OpeningInv
<1> SUFFICES ASSUME Init
             PROVE  OpeningInv
  OBVIOUS
<1>1. TypeInv
  BY OpeningAssumption DEF Init, TypeInv
<1> QED
  BY <1>1 DEF Init, OpeningInv, MemoryAgrees, CreationIsSafe, CommitsSurvive, At

LEMMA OpeningInvStep ==
  ASSUME SoleBuilder
  PROVE  OpeningInv /\ [Next]_vars => OpeningInv'
<1> SUFFICES ASSUME OpeningInv, [Next]_vars
             PROVE  OpeningInv'
  OBVIOUS
<1>1. CASE UNCHANGED vars
  BY <1>1 DEF vars, OpeningInv, TypeInv, MemoryAgrees, CreationIsSafe, CommitsSurvive, At
<1>2. CASE Next
  BY <1>2, BeginKeeps, LookingKeeps, CreateIndexKeeps, RegisterKeeps, StartWriterKeeps,
     CommitKeeps, LeavingKeeps DEF Next
<1> QED
  BY <1>1, <1>2

LEMMA OpeningInvariance ==
  ASSUME SoleBuilder
  PROVE  Spec => []OpeningInv
BY OpeningInvInit, OpeningInvStep, PTL DEF Spec

(***************************************************************************)
(* If only one process opens the directory before there is an index, no    *)
(* commit that returned is ever lost, whatever fails and whoever dies.     *)
(***************************************************************************)
THEOREM CommitsAreKept ==
  ASSUME SoleBuilder
  PROVE  Spec => []CommitsSurvive
<1>1. OpeningInv => CommitsSurvive
  BY DEF OpeningInv
<1> QED
  BY <1>1, OpeningInvariance, PTL

(***************************************************************************)
(* Under the same condition the steps of the opens, and the copies of the  *)
(* schema and the documents that sessions and writers keep, implement one  *)
(* index that is created once.                                             *)
(***************************************************************************)
THEOREM OpensImplementOneIndex ==
  ASSUME SoleBuilder
  PROVE  Spec => ImplementsOneIndex
<1>1. Init => Index!Init
  BY DEF Init, Index!Init
<1>2. ASSUME OpeningInv, Next
      PROVE  Index!Next \/ UNCHANGED Index!vars
  <2> USE DEF OpeningInv, TypeInv
  <2>1. ASSUME NEW p \in Processes, NEW cfg \in Configs,
               BeginOpenOrCreate(p, cfg) \/ BeginOpenReadOnly(p, cfg)
        PROVE  UNCHANGED Index!vars
    BY <2>1 DEF BeginOpenOrCreate, BeginOpenReadOnly, Begin, Index!vars
  <2>2. ASSUME NEW p \in Processes,
               \/ CheckExists(p) \/ LoadIndex(p) \/ Refuse(p)
               \/ StartWriter(p)
        PROVE  UNCHANGED Index!vars
    BY <2>2 DEF CheckExists, LoadIndex, Refuse, StartWriter, Index!vars
  <2>3. ASSUME NEW p \in Processes, CreateIndex(p)
        PROVE  Index!Create
    <3>1. Wanted(p) \in Schemas /\ meta = None
      BY <1>2, <2>3, WantedIsASchema DEF CreateIndex, At, CreationIsSafe
    <3> QED
      BY <2>3, <3>1 DEF CreateIndex, Index!Create
  <2>4. ASSUME NEW p \in Processes, Register(p)
        PROVE  Index!Open(p)
    BY <1>2, <2>4 DEF Register, MemoryAgrees, Index!Open
  <2>5. ASSUME NEW p \in Processes, NEW d \in Documents, Commit(p, d)
        PROVE  Index!Commit(p, d)
    <3>1. /\ session[p] # None /\ session[p] = meta.schema
          /\ meta \in Metas /\ writer.docs = meta.docs
      BY <1>2, <2>5 DEF Commit, MemoryAgrees
    <3> QED
      BY <2>5, <3>1 DEF Commit, Metas, Index!Commit
  <2>6. ASSUME NEW p \in Processes, Close(p) \/ Crash(p)
        PROVE  Index!Leave(p)
    BY <2>6 DEF Close, Crash, LetGo, Index!Leave
  <2> QED
    BY <1>2, <2>1, <2>2, <2>3, <2>4, <2>5, <2>6 DEF Next, Index!Next
<1>3. OpeningInv /\ [Next]_vars => [Index!Next]_(Index!vars)
  BY <1>2 DEF vars, Index!vars
<1> QED
  BY <1>1, <1>3, OpeningInvariance, PTL DEF Spec, ImplementsOneIndex, Index!Spec
=============================================================================
