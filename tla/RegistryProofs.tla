---------------------------- MODULE RegistryProofs ----------------------------
(***************************************************************************)
(* Theorems about Registry, for any number of threads and handles.         *)
(***************************************************************************)
EXTENDS Registry, TLAPS

TypeInv ==
    /\ nextHandle \in 1 .. MaxHandles + 1
    /\ table \in [Handles -> (SUBSET Threads) \cup {None}]
    /\ mutex \in Threads \cup {None}
    /\ call \in [Threads -> Calls]
    /\ outcome \in [Threads -> {"none", "ok", "error", "invalid", "panic"}]

\* Which handle a call has, at which point of which operation.
CallShape(c) ==
    /\ c.phase = "none" => c.op = "none"
    /\ c.phase = "building" => c.op = "open"
    /\ c.phase \in {"waiting", "holding"} => c.op # "none"
    /\ c.phase = "running" => c.op = "with"
    /\ c.phase \in {"waiting", "holding", "running"} => c.handle \in Handles
    /\ c.op = "open" => c.phase \in {"building", "waiting", "holding"}
    /\ c.op = "open" /\ c.handle # 0 => c.phase \in {"waiting", "holding"}

\* The mutex belongs to the one thread that is inside.
MutexHeld == \A t \in Threads : mutex = t <=> call[t].phase \in {"holding", "running"}

\* A running operation has the state as it is in the table.
ReadIsCurrent ==
    \A t \in Threads : call[t].phase = "running" =>
        /\ table[call[t].handle] # None
        /\ call[t].seen = table[call[t].handle]

\* A handle on its way to the table is nobody else's, and was never in it.
FetchedIsFresh ==
    /\ \A h \in Handles : h >= nextHandle => table[h] = None
    /\ \A t \in Threads : call[t].op = "open" /\ call[t].handle # 0 =>
          /\ call[t].handle < nextHandle
          /\ table[call[t].handle] = None
          /\ \A u \in Threads : u # t /\ call[u].op = "open" => call[u].handle # call[t].handle

RegistryInv ==
    /\ TypeInv
    /\ \A t \in Threads : CallShape(call[t])
    /\ MutexHeld /\ ReadIsCurrent /\ FetchedIsFresh

-----------------------------------------------------------------------------
(* The invariant, action by action *)

LEMMA InitInv == Init => RegistryInv
<1> SUFFICES ASSUME Init
             PROVE  RegistryInv
  OBVIOUS
<1>1. NoCall \in Calls
  BY RegistryAssumption DEF NoCall, Calls
<1>2. TypeInv
  <2>1. nextHandle \in 1 .. MaxHandles + 1
    BY RegistryAssumption DEF Init
  <2>2. /\ table \in [Handles -> (SUBSET Threads) \cup {None}]
        /\ mutex \in Threads \cup {None}
        /\ call \in [Threads -> Calls]
        /\ outcome \in [Threads -> {"none", "ok", "error", "invalid", "panic"}]
    BY <1>1 DEF Init
  <2> QED
    BY <2>1, <2>2 DEF TypeInv
<1>3. MutexHeld
  BY RegistryAssumption DEF Init, MutexHeld, NoCall
<1> QED
  BY <1>2, <1>3 DEF Init, RegistryInv, CallShape, ReadIsCurrent, FetchedIsFresh, NoCall

\* A thread that is not inside goes to another point, and the table stays.
LEMMA OutsideKeeps ==
  ASSUME RegistryInv, NEW t \in Threads, NEW c \in Calls,
         call[t].phase \notin {"holding", "running"}, c.phase \notin {"holding", "running"},
         CallShape(c), c.op = "open" => c.handle = 0,
         call' = [call EXCEPT ![t] = c],
         outcome' \in [Threads -> {"none", "ok", "error", "invalid", "panic"}],
         UNCHANGED <<nextHandle, table, mutex>>
  PROVE  RegistryInv'
<1> USE DEF RegistryInv, TypeInv
<1>1. \A u \in Threads : call'[u] = IF u = t THEN c ELSE call[u]
  OBVIOUS
<1>2. TypeInv' /\ \A u \in Threads : CallShape(call'[u])
  BY <1>1
<1>3. MutexHeld' /\ ReadIsCurrent'
  BY <1>1 DEF MutexHeld, ReadIsCurrent
<1>4. FetchedIsFresh'
  BY <1>1 DEF FetchedIsFresh
<1> QED
  BY <1>2, <1>3, <1>4 DEF CallShape, Handles

LEMMA EnterKeeps ==
  ASSUME RegistryInv, NEW t \in Threads,
         BeginOpen(t) \/ OpenFails(t) \/
         \E h \in Handles : BeginWithState(t, h) \/ BeginClose(t, h)
  PROVE  RegistryInv'
<1> USE DEF RegistryInv, TypeInv
<1>1. UNCHANGED <<nextHandle, table, mutex>>
  BY DEF BeginOpen, OpenFails, BeginWithState, BeginClose, Enter
<1>2. outcome' \in [Threads -> {"none", "ok", "error", "invalid", "panic"}]
  BY DEF BeginOpen, OpenFails, BeginWithState, BeginClose, Enter, EndCall
<1>3. call[t].phase \notin {"holding", "running"}
  BY DEF BeginOpen, OpenFails, BeginWithState, BeginClose, Enter, NoCall, In
<1>4. ASSUME NEW op \in {"open", "with", "close"}, NEW phase \in {"building", "waiting"},
             NEW h \in 0 .. MaxHandles, Enter(t, op, phase, h),
             CallShape([op |-> op, phase |-> phase, handle |-> h, seen |-> {}]),
             op = "open" => h = 0
      PROVE  RegistryInv'
  <2> DEFINE c == [op |-> op, phase |-> phase, handle |-> h, seen |-> {}]
  <2>1. c \in Calls
    BY DEF Calls
  <2>2. call' = [call EXCEPT ![t] = c]
    BY <1>4 DEF Enter
  <2> QED
    BY <1>1, <1>2, <1>3, <1>4, <2>1, <2>2, OutsideKeeps
<1>5. CASE BeginOpen(t)
  <2>1. CallShape([op |-> "open", phase |-> "building", handle |-> 0, seen |-> {}])
    BY DEF CallShape
  <2> QED
    BY <1>4, <1>5, <2>1, RegistryAssumption DEF BeginOpen
<1>6. ASSUME NEW h \in Handles, BeginWithState(t, h) \/ BeginClose(t, h)
      PROVE  RegistryInv'
  <2>1. \A op \in {"with", "close"} :
           CallShape([op |-> op, phase |-> "waiting", handle |-> h, seen |-> {}])
    BY DEF CallShape
  <2>2. h \in 0 .. MaxHandles
    BY RegistryAssumption DEF Handles
  <2> QED
    BY <1>4, <1>6, <2>1, <2>2 DEF BeginWithState, BeginClose
<1>7. CASE OpenFails(t)
  <2>1. NoCall \in Calls /\ CallShape(NoCall)
    BY RegistryAssumption DEF NoCall, Calls, CallShape
  <2> QED
    BY <1>1, <1>2, <1>3, <1>7, <2>1, OutsideKeeps DEF OpenFails, EndCall, NoCall
<1> QED
  BY <1>5, <1>6, <1>7

LEMMA FetchAddKeeps ==
  ASSUME RegistryInv, NEW t \in Threads, FetchAdd(t)
  PROVE  RegistryInv'
<1> USE DEF RegistryInv, TypeInv
<1> DEFINE c == [call[t] EXCEPT !.phase = "waiting", !.handle = nextHandle]
<1>1. call[t].op = "open" /\ call[t].phase = "building" /\ call[t].handle = 0
  BY DEF FetchAdd, In, CallShape, Handles
<1>2. nextHandle \in Handles /\ nextHandle # 0 /\ nextHandle \in 0 .. MaxHandles /\ nextHandle \in Nat
  BY RegistryAssumption DEF FetchAdd, Handles
<1>3. c \in Calls /\ c.op = "open" /\ c.phase = "waiting" /\ c.handle = nextHandle
  BY <1>1, <1>2 DEF Calls
<1>4. \A u \in Threads : call'[u] = IF u = t THEN c ELSE call[u]
  BY DEF FetchAdd
<1>5. nextHandle' = nextHandle + 1 /\ UNCHANGED <<table, mutex, outcome>>
  BY DEF FetchAdd
<1>6. TypeInv'
  BY <1>2, <1>3, <1>4, <1>5, RegistryAssumption DEF FetchAdd
<1>7. \A u \in Threads : CallShape(call'[u])
  BY <1>2, <1>3, <1>4 DEF CallShape
<1>8. MutexHeld' /\ ReadIsCurrent'
  BY <1>1, <1>3, <1>4, <1>5 DEF MutexHeld, ReadIsCurrent
<1>9. FetchedIsFresh'
  <2>1. \A h \in Handles : h >= nextHandle' => table'[h] = None
    BY <1>2, <1>5 DEF FetchedIsFresh, Handles
  <2>2. \A u \in Threads \ {t} : call[u].op = "open" => call[u].handle # nextHandle
    BY <1>2 DEF FetchedIsFresh, Handles, Calls
  <2>3. \A u \in Threads : call[u].op = "open" /\ call[u].handle # 0 =>
           call[u].handle < nextHandle /\ call[u].handle \in Nat
    BY RegistryAssumption DEF FetchedIsFresh, Calls
  <2>4. table[nextHandle] = None
    BY <1>2 DEF FetchedIsFresh, Handles
  <2>5. /\ call'[t].handle = nextHandle
        /\ \A u \in Threads \ {t} : call'[u].op = call[u].op /\ call'[u].handle = call[u].handle
    BY <1>3, <1>4
  <2>6. ASSUME NEW u \in Threads, call'[u].op = "open", call'[u].handle # 0
        PROVE  /\ call'[u].handle < nextHandle'
               /\ table'[call'[u].handle] = None
               /\ \A w \in Threads : w # u /\ call'[w].op = "open" => call'[w].handle # call'[u].handle
    <3>1. CASE u = t
      BY <1>2, <1>5, <2>2, <2>4, <2>5, <3>1
    <3>2. CASE u # t
      <4>1. /\ call[u].op = "open" /\ call'[u].handle = call[u].handle
            /\ call[u].handle < nextHandle /\ call[u].handle \in Nat
        BY <2>3, <2>5, <2>6, <3>2
      <4>2. call[u].handle < nextHandle'
        BY <1>2, <1>5, <4>1
      <4>3. table'[call[u].handle] = None
        BY <1>5, <2>6, <4>1 DEF FetchedIsFresh
      <4>4. ASSUME NEW w \in Threads, w # u, call'[w].op = "open"
            PROVE  call'[w].handle # call[u].handle
        BY <1>2, <2>5, <2>6, <4>1, <4>4 DEF FetchedIsFresh
      <4> QED
        BY <4>1, <4>2, <4>3, <4>4
    <3> QED
      BY <3>1, <3>2
  <2> QED
    BY <2>1, <2>6 DEF FetchedIsFresh
<1> QED
  BY <1>6, <1>7, <1>8, <1>9

\* A thread gets the mutex, or goes on with it: the table stays.
LEMMA GoesInsideKeeps ==
  ASSUME RegistryInv, NEW t \in Threads, LockTable(t) \/ Find(t)
  PROVE  RegistryInv'
<1> USE DEF RegistryInv, TypeInv
<1>1. UNCHANGED <<nextHandle, table, outcome>> /\ mutex' = t /\ mutex \in {t, None}
  BY DEF LockTable, Find, MutexHeld, In
<1>2. PICK c \in Calls :
         /\ call' = [call EXCEPT ![t] = c]
         /\ c.op = call[t].op /\ c.handle = call[t].handle
         /\ c.phase \in {"holding", "running"}
         /\ c.phase = "running" => /\ c.op = "with" /\ table[c.handle] # None
                                   /\ c.seen = table[c.handle]
  <2>1. CASE LockTable(t)
    <3> DEFINE c == [call[t] EXCEPT !.phase = "holding"]
    <3>1. c \in Calls /\ c.op = call[t].op /\ c.handle = call[t].handle /\ c.phase = "holding"
      BY DEF Calls
    <3>2. call' = [call EXCEPT ![t] = c]
      BY <2>1 DEF LockTable
    <3> QED
      BY <3>1, <3>2
  <2>2. CASE Find(t)
    <3> DEFINE c == [call[t] EXCEPT !.phase = "running", !.seen = table[call[t].handle]]
    <3>1. call[t] \in Calls /\ call[t].handle \in Handles
      BY <2>2 DEF Find, In, CallShape
    <3>2. table[call[t].handle] \in SUBSET Threads /\ table[call[t].handle] # None
      BY <2>2, <3>1 DEF Find
    <3>3. c \in Calls /\ c.op = call[t].op /\ c.handle = call[t].handle /\ c.phase = "running"
                      /\ c.seen = table[c.handle]
      BY <3>1, <3>2 DEF Calls
    <3>4. call' = [call EXCEPT ![t] = c] /\ call[t].op = "with"
      BY <2>2 DEF Find, In
    <3> QED
      BY <3>2, <3>3, <3>4
  <2> QED
    BY <2>1, <2>2
<1>3. call[t].phase \in {"waiting", "holding"} /\ call[t].op # "none" /\ call[t].handle \in Handles
  BY DEF LockTable, Find, In, CallShape
<1>4. \A u \in Threads : call'[u] = IF u = t THEN c ELSE call[u]
  BY <1>2
<1>5. TypeInv' /\ CallShape(c)
  BY <1>1, <1>2, <1>3 DEF CallShape
<1>6. \A u \in Threads : CallShape(call'[u])
  BY <1>4, <1>5
<1>7. MutexHeld'
  BY <1>1, <1>2, <1>4, RegistryAssumption DEF MutexHeld
<1>8. ReadIsCurrent'
  BY <1>1, <1>2, <1>4 DEF ReadIsCurrent
<1>9. FetchedIsFresh'
  BY <1>1, <1>2, <1>4 DEF FetchedIsFresh
<1> QED
  BY <1>5, <1>6, <1>7, <1>8, <1>9

\* A call that was inside returns: the state of its handle may have changed, to
\* something if the handle was in the table or on its way to it, or to nothing.
LEMMA ReturnKeeps ==
  ASSUME RegistryInv, NEW t \in Threads, call[t].phase \in {"holding", "running"},
         NEW result \in {"ok", "error", "invalid", "panic"}, Return(t, result),
         NEW h \in Handles, h = call[t].handle, NEW state \in (SUBSET Threads) \cup {None},
         table' = [table EXCEPT ![h] = state],
         state # None => table[h] # None \/ call[t].op = "open"
  PROVE  RegistryInv'
<1> USE DEF RegistryInv, TypeInv
<1>1. /\ mutex = t /\ mutex' = None
      /\ call' = [call EXCEPT ![t] = NoCall]
      /\ outcome' = [outcome EXCEPT ![t] = result]
      /\ UNCHANGED nextHandle
  BY DEF Return, EndCall, MutexHeld
<1>2. NoCall \in Calls /\ CallShape(NoCall) /\ NoCall.op = "none" /\ NoCall.phase = "none"
  BY RegistryAssumption DEF NoCall, Calls, CallShape
<1>3. \A u \in Threads : call'[u] = IF u = t THEN NoCall ELSE call[u]
  BY <1>1
<1>4. \A u \in Threads \ {t} : call[u].phase \notin {"holding", "running"}
  BY <1>1 DEF MutexHeld
<1>5. TypeInv' /\ \A u \in Threads : CallShape(call'[u])
  BY <1>1, <1>2, <1>3
<1>6. MutexHeld'
  BY <1>1, <1>2, <1>3, <1>4, RegistryAssumption DEF MutexHeld
<1>7. ReadIsCurrent'
  BY <1>2, <1>3, <1>4 DEF ReadIsCurrent
<1>8. h < nextHandle \/ state = None
  BY RegistryAssumption DEF FetchedIsFresh, Handles
<1>9. FetchedIsFresh'
  <2>1. \A i \in Handles : i >= nextHandle' => table'[i] = None
    BY <1>1, <1>8 DEF FetchedIsFresh, Handles
  <2>2. ASSUME NEW u \in Threads, call'[u].op = "open", call'[u].handle # 0
        PROVE  /\ call'[u].handle < nextHandle'
               /\ table'[call'[u].handle] = None
               /\ \A w \in Threads : w # u /\ call'[w].op = "open" => call'[w].handle # call'[u].handle
    <3>1. u # t /\ call'[u] = call[u]
      BY <1>2, <1>3, <2>2
    <3>2. table'[call[u].handle] = None
      <4>1. call[u].handle \in Handles /\ table[call[u].handle] = None
        BY <2>2, <3>1 DEF FetchedIsFresh, CallShape
      <4>2. call[u].handle # h \/ state = None
        BY <2>2, <3>1, <4>1 DEF FetchedIsFresh
      <4> QED
        BY <4>1, <4>2
    <3> QED
      BY <1>1, <1>2, <1>3, <2>2, <3>1, <3>2 DEF FetchedIsFresh
  <2> QED
    BY <2>1, <2>2 DEF FetchedIsFresh
<1> QED
  BY <1>5, <1>6, <1>7, <1>9

\* What Insert, Miss, Finish, Panic and Remove make of the state of their handle.
LEMMA ReturningShape ==
  ASSUME RegistryInv, NEW t \in Threads,
         Insert(t) \/ Miss(t) \/ Finish(t) \/ Panic(t) \/ Remove(t)
  PROVE  /\ call[t].phase \in {"holding", "running"}
         /\ call[t].handle \in Handles
         /\ \E result \in {"ok", "error", "invalid", "panic"} : Return(t, result)
         /\ \E state \in (SUBSET Threads) \cup {None} :
               /\ table' = [table EXCEPT ![call[t].handle] = state]
               /\ state # None => table[call[t].handle] # None \/ call[t].op = "open"
<1> USE DEF RegistryInv, TypeInv
<1> DEFINE h == call[t].handle
<1>1. call[t].phase \in {"holding", "running"}
  BY DEF Insert, Miss, Finish, Panic, Remove, In
<1>2. h \in Handles
  BY <1>1 DEF CallShape
<1>3. \E result \in {"ok", "error", "invalid", "panic"} : Return(t, result)
  BY DEF Insert, Miss, Finish, Panic, Remove
<1> DEFINE Shape(state) ==
             /\ table' = [table EXCEPT ![h] = state]
             /\ state # None => table[h] # None \/ call[t].op = "open"
<1>4. CASE Insert(t)
  <2>1. {} \in (SUBSET Threads) \cup {None} /\ Shape({})
    BY <1>4 DEF Insert, In
  <2> QED
    BY <1>1, <1>2, <1>3, <2>1
<1>5. CASE Miss(t)
  <2>1. None \in (SUBSET Threads) \cup {None} /\ Shape(None)
    BY <1>2, <1>5 DEF Miss
  <2> QED
    BY <1>1, <1>2, <1>3, <2>1
<1>6. CASE Finish(t) \/ Panic(t)
  <2>1. table[h] # None /\ call[t].seen \in SUBSET Threads
    BY <1>6 DEF Finish, Panic, In, ReadIsCurrent, Calls
  <2>2. PICK marks \in {{}, {t}} : table' = [table EXCEPT ![h] = call[t].seen \cup marks]
    BY <1>6 DEF Finish, Panic, Effect
  <2>3. call[t].seen \cup marks \in SUBSET Threads
    BY <2>1
  <2> QED
    BY <1>1, <1>2, <1>3, <2>1, <2>2, <2>3
<1>7. CASE Remove(t)
  <2>1. None \in (SUBSET Threads) \cup {None} /\ Shape(None)
    BY <1>7 DEF Remove
  <2> QED
    BY <1>1, <1>2, <1>3, <2>1
<1> QED
  BY <1>4, <1>5, <1>6, <1>7

LEMMA RegistryInvariance == Spec => []RegistryInv
<1>1. ASSUME RegistryInv, [Next]_vars
      PROVE  RegistryInv'
  <2>1. CASE UNCHANGED vars
    BY <1>1, <2>1 DEF vars, RegistryInv, TypeInv, CallShape, MutexHeld, ReadIsCurrent,
                      FetchedIsFresh
  <2>2. CASE Next
    BY <1>1, <2>2, EnterKeeps, FetchAddKeeps, GoesInsideKeeps, ReturningShape, ReturnKeeps
       DEF Next, Inside
  <2> QED
    BY <1>1, <2>1, <2>2
<1> QED
  BY <1>1, InitInv, PTL DEF Spec

-----------------------------------------------------------------------------
(* The theorems *)

(***************************************************************************)
(* However many threads there are, a call is answered with a panic only if *)
(* its own operation panicked.                                             *)
(***************************************************************************)
THEOREM PanicsStay == Spec => PanicStaysWithItsCall
<1> DEFINE Stays == \A t \in Threads :
              outcome[t] # "panic" /\ outcome'[t] = "panic" => In(t, "with", "running")
<1>1. ASSUME RegistryInv, Next
      PROVE  Stays
  <2> USE DEF RegistryInv, TypeInv
  <2>1. ASSUME NEW u \in Threads, BeginOpen(u) \/ \E h \in Handles : BeginWithState(u, h) \/ BeginClose(u, h)
        PROVE  Stays
    BY <1>1, <2>1 DEF BeginOpen, BeginWithState, BeginClose, Enter
  <2>2. ASSUME NEW u \in Threads, NEW result \in {"ok", "error", "invalid"}, EndCall(u, result)
        PROVE  Stays
    BY <1>1, <2>2 DEF EndCall
  <2>3. ASSUME NEW u \in Threads, Panic(u)
        PROVE  Stays
    BY <1>1, <2>3 DEF Panic, Return, EndCall
  <2>4. ASSUME NEW u \in Threads, FetchAdd(u) \/ LockTable(u) \/ Find(u)
        PROVE  Stays
    BY <2>4 DEF FetchAdd, LockTable, Find
  <2> QED
    BY <1>1, <2>1, <2>2, <2>3, <2>4 DEF Next, Inside, OpenFails, Insert, Miss, Finish, Remove, Return
<1>2. RegistryInv /\ [Next]_vars => [Stays]_vars
  BY <1>1
<1> QED
  BY <1>2, RegistryInvariance, PTL DEF Spec, PanicStaysWithItsCall

\* Nothing about handles changes unless an open has fetched one, or inserts it.
LEMMA GivenKept ==
  ASSUME UNCHANGED nextHandle, NEW t \in Threads, NEW c, RegistryInv,
         call' = [call EXCEPT ![t] = c],
         call[t].op = "open" => call[t].handle = 0, c.op = "open" => c.handle = 0
  PROVE  UNCHANGED Given
<1>1. \A u \in Threads : call'[u] = IF u = t THEN c ELSE call[u]
  BY DEF RegistryInv, TypeInv
<1>2. 0 \notin Handles
  BY DEF Handles
<1> QED
  BY <1>1, <1>2 DEF Given

(***************************************************************************)
(* However many threads open, operate, close and panic at the same time,   *)
(* the table is a map on which each of them acts at once, with handles     *)
(* that are given out once.                                                *)
(***************************************************************************)
THEOREM RegistryImplementsHandleTable == Spec => ImplementsHandleTable
<1>1. Init => Table!Init
  BY RegistryAssumption DEF Init, Table!Init, Given, Handles
<1>2. ASSUME RegistryInv, Next
      PROVE  Table!Next \/ UNCHANGED Table!vars
  <2> USE DEF RegistryInv, TypeInv
  <2>1. ASSUME NEW t \in Threads, NEW op \in {"open", "with", "close"}, NEW phase, NEW h,
               Enter(t, op, phase, h), op = "open" => h = 0
        PROVE  UNCHANGED Table!vars
    <3> DEFINE c == [op |-> op, phase |-> phase, handle |-> h, seen |-> {}]
    <3>1. UNCHANGED <<nextHandle, table>> /\ call' = [call EXCEPT ![t] = c] /\ call[t].op # "open"
      BY <2>1 DEF Enter, NoCall
    <3>2. UNCHANGED Given
      BY <1>2, <2>1, <3>1, GivenKept
    <3> QED
      BY <3>1, <3>2 DEF Table!vars
  <2>2. ASSUME NEW t \in Threads, OpenFails(t)
        PROVE  UNCHANGED Table!vars
    <3>1. /\ UNCHANGED <<nextHandle, table>> /\ call' = [call EXCEPT ![t] = NoCall]
          /\ call[t].handle = 0 /\ NoCall.op # "open"
      BY <1>2, <2>2 DEF OpenFails, EndCall, In, CallShape, NoCall
    <3>2. UNCHANGED Given
      BY <1>2, <3>1, GivenKept
    <3> QED
      BY <3>1, <3>2 DEF Table!vars
  <2>3. ASSUME NEW t \in Threads, FetchAdd(t)
        PROVE  UNCHANGED Table!vars
    <3>1. call[t].op = "open" /\ call[t].handle = 0 /\ nextHandle' = nextHandle + 1 /\ UNCHANGED table
      BY <1>2, <2>3 DEF FetchAdd, In, CallShape
    <3>2. \A u \in Threads : /\ call'[u].op = call[u].op
                             /\ call'[u].handle = IF u = t THEN nextHandle ELSE call[u].handle
      BY <1>2, <2>3 DEF FetchAdd, Calls
    <3>3. nextHandle \in Nat /\ \A h \in Handles : h \in Nat /\ h # 0
      BY <1>2, RegistryAssumption DEF Handles
    <3>4. \A h \in Handles : h < nextHandle' <=> h < nextHandle \/ h = nextHandle
      BY <3>1, <3>3
    <3>5. ASSUME NEW h \in Handles
          PROVE  h \in Given' <=> h \in Given
      <4>1. h \in Given' <=> h < nextHandle' /\ \A u \in Threads :
                call'[u].op = "open" => call'[u].handle # h
        BY DEF Given
      <4>2. h \in Given <=> h < nextHandle /\ \A u \in Threads :
                call[u].op = "open" => call[u].handle # h
        BY DEF Given
      <4>3. CASE h = nextHandle
        BY <3>1, <3>2, <3>3, <4>1, <4>2, <4>3
      <4>4. CASE h # nextHandle
        BY <3>1, <3>2, <3>3, <3>4, <4>1, <4>2, <4>4
      <4> QED
        BY <4>3, <4>4
    <3>6. UNCHANGED Given
      BY <3>5 DEF Given
    <3> QED
      BY <3>1, <3>6 DEF Table!vars
  <2>4. ASSUME NEW t \in Threads, LockTable(t) \/ Find(t)
        PROVE  UNCHANGED Table!vars
    <3>1. UNCHANGED <<nextHandle, table>>
      BY <2>4 DEF LockTable, Find
    <3>2. \A u \in Threads : call'[u].op = call[u].op /\ call'[u].handle = call[u].handle
      BY <1>2, <2>4 DEF LockTable, Find, Calls
    <3> QED
      BY <3>1, <3>2 DEF Table!vars, Given
  <2>5. ASSUME NEW t \in Threads, Insert(t)
        PROVE  Table!Insert(call[t].handle)
    <3> DEFINE h == call[t].handle
    <3>1. h \in Handles /\ call[t].op = "open" /\ h # 0
      BY <1>2, <2>5 DEF Insert, In, CallShape, Handles
    <3>2. h < nextHandle /\ \A u \in Threads : u # t /\ call[u].op = "open" => call[u].handle # h
      BY <1>2, <3>1 DEF FetchedIsFresh
    <3>3. /\ UNCHANGED nextHandle /\ table' = [table EXCEPT ![h] = {}]
          /\ \A u \in Threads : call'[u] = IF u = t THEN NoCall ELSE call[u]
      BY <1>2, <2>5 DEF Insert, Return, EndCall
    <3>4. h \notin Given
      BY <3>1 DEF Given
    <3>5. Given' = Given \cup {h}
      BY <3>1, <3>2, <3>3 DEF Given, NoCall
    <3> QED
      BY <3>3, <3>4, <3>5 DEF Table!Insert
  <2>6. ASSUME NEW t \in Threads, call[t].op # "open", NEW result, Return(t, result)
        PROVE  UNCHANGED Given
    BY <1>2, <2>6, GivenKept DEF Return, EndCall, NoCall
  <2>7. ASSUME NEW t \in Threads, Miss(t)
        PROVE  UNCHANGED Table!vars
    BY <2>6, <2>7 DEF Miss, In, Table!vars
  <2>8. ASSUME NEW t \in Threads, Finish(t) \/ Panic(t)
        PROVE  Table!Operate(call[t].handle, t) \/ UNCHANGED Table!vars
    <3> DEFINE h == call[t].handle
    <3>1. call[t].op # "open" /\ \E result : Return(t, result)
      BY <2>8 DEF Finish, Panic, In
    <3>2. h \in Handles /\ table[h] # None /\ call[t].seen = table[h]
      BY <1>2, <2>8 DEF Finish, Panic, In, ReadIsCurrent, CallShape
    <3>3. PICK marks \in {{}, {t}} : table' = [table EXCEPT ![h] = table[h] \cup marks]
      BY <2>8, <3>2 DEF Finish, Panic, Effect
    <3>4. CASE marks = {t}
      BY <2>6, <3>1, <3>2, <3>3, <3>4 DEF Table!Operate
    <3>5. CASE marks = {}
      <4>1. table[h] \cup {} = table[h]
        BY <1>2, <3>2
      <4>2. table' = table
        BY <1>2, <3>3, <3>5, <4>1
      <4> QED
        BY <2>6, <3>1, <4>2 DEF Table!vars
    <3> QED
      BY <3>3, <3>4, <3>5
  <2>9. ASSUME NEW t \in Threads, Remove(t)
        PROVE  Table!Remove(call[t].handle)
    BY <2>6, <2>9 DEF Remove, In, Table!Remove
  <2>10. \A t \in Threads : Inside(t) /\ ~Find(t) => call[t].handle \in Handles
    BY <1>2, ReturningShape DEF Inside
  <2> QED
    BY <1>2, <2>1, <2>2, <2>3, <2>4, <2>5, <2>7, <2>8, <2>9, <2>10
       DEF Next, Inside, BeginOpen, BeginWithState, BeginClose, Table!Next
<1>3. RegistryInv /\ [Next]_vars => [Table!Next]_(Table!vars)
  BY <1>2 DEF vars, Table!vars, Given
<1> QED
  BY <1>1, <1>3, RegistryInvariance, PTL DEF Spec, ImplementsHandleTable, Table!Spec
=============================================================================
