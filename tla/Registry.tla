------------------------------ MODULE Registry ------------------------------
(***************************************************************************)
(* The static table of registry.rs as the threads of one process share it: *)
(* a map behind a std Mutex, and an atomic counter beside it.  The release *)
(* builds of the extension run one thread per process; the tests of the    *)
(* core run many in one, and nothing in the core forbids it.               *)
(*                                                                         *)
(* What an operation does to an IndexState is the matter of SharedIndex;   *)
(* here it reads the state when it begins and leaves its mark when it      *)
(* ends, which is enough to tell whether operations overlap.               *)
(***************************************************************************)
EXTENDS Naturals

CONSTANTS
    Threads,
    MaxHandles,   \* bound: opens in all
    None          \* no state, nobody

VARIABLES
    nextHandle,   \* NEXT_HANDLE
    table,        \* table[h]: the threads whose operations the state of h bears, or None
    mutex,        \* the thread that holds the table's mutex, or None
    poisoned,     \* the mutex was released by a panic
    call,         \* call[t]: what t is at, with which handle, and what it read
    outcome       \* outcome[t]: how the last call of t ended

vars == <<nextHandle, table, mutex, poisoned, call, outcome>>

Handles == 1 .. MaxHandles

\* Waiting and holding are waiting for the mutex, and holding it.
Calls == [op     : {"none", "open", "with", "close"},
          phase  : {"none", "building", "waiting", "holding", "running"},
          handle : 0 .. MaxHandles,
          seen   : SUBSET Threads]

ASSUME RegistryAssumption ==
    /\ MaxHandles \in Nat
    /\ None \notin Threads /\ \A S \in SUBSET Threads : S # None

NoCall == [op |-> "none", phase |-> "none", handle |-> 0, seen |-> {}]

Init ==
    /\ nextHandle = 1
    /\ table = [h \in Handles |-> None]
    /\ mutex = None
    /\ poisoned = FALSE
    /\ call = [t \in Threads |-> NoCall]
    /\ outcome = [t \in Threads |-> "none"]
-----------------------------------------------------------------------------
In(t, op, phase) == call[t].op = op /\ call[t].phase = phase

Enter(t, op, phase, h) ==
    /\ call[t] = NoCall
    /\ call' = [call EXCEPT ![t] = [op |-> op, phase |-> phase, handle |-> h, seen |-> {}]]
    /\ outcome' = [outcome EXCEPT ![t] = "none"]
    /\ UNCHANGED <<nextHandle, table, mutex, poisoned>>

\* The index, its schema and its reader are got ready outside the mutex.
BeginOpen(t) == Enter(t, "open", "building", 0)

BeginWithState(t, h) == Enter(t, "with", "waiting", h)

BeginClose(t, h) == Enter(t, "close", "waiting", h)

EndCall(t, result) ==
    /\ call' = [call EXCEPT ![t] = NoCall]
    /\ outcome' = [outcome EXCEPT ![t] = result]

\* The call ends, and the guard with it.
Return(t, result) ==
    /\ EndCall(t, result)
    /\ mutex' = None
    /\ UNCHANGED nextHandle

\* Opening failed before a handle was asked for, by an Err or a panic.
OpenFails(t) ==
    /\ In(t, "open", "building")
    /\ EndCall(t, "error")
    /\ UNCHANGED <<nextHandle, table, mutex, poisoned>>

\* MUTANT of FetchAdd: a load and a store.
LoadThenStore(t) ==
    /\ nextHandle <= MaxHandles
    /\ \/ /\ In(t, "open", "building") /\ call[t].handle = 0
          /\ call' = [call EXCEPT ![t].handle = nextHandle]
          /\ UNCHANGED nextHandle
       \/ /\ In(t, "open", "building") /\ call[t].handle # 0
          /\ call' = [call EXCEPT ![t].phase = "waiting"]
          /\ nextHandle' = call[t].handle + 1
    /\ UNCHANGED <<table, mutex, poisoned, outcome>>

\* NEXT_HANDLE.fetch_add, before the mutex is taken.
FetchAdd(t) ==
    /\ In(t, "open", "building")
    /\ nextHandle <= MaxHandles
    /\ call' = [call EXCEPT ![t].phase = "waiting", ![t].handle = nextHandle]
    /\ nextHandle' = nextHandle + 1
    /\ UNCHANGED <<table, mutex, poisoned, outcome>>

\* MUTANT of LockTable: lock().unwrap().
LockOrPanic(t) ==
    /\ call[t].phase = "waiting"
    /\ mutex = None
    /\ IF poisoned
       THEN EndCall(t, "panic") /\ UNCHANGED mutex
       ELSE /\ mutex' = t
            /\ call' = [call EXCEPT ![t].phase = "holding"]
            /\ UNCHANGED outcome
    /\ UNCHANGED <<nextHandle, table, poisoned>>

\* lock_table: the guard is taken, poisoned or not.
LockTable(t) ==
    /\ call[t].phase = "waiting"
    /\ mutex = None
    /\ mutex' = t
    /\ call' = [call EXCEPT ![t].phase = "holding"]
    /\ UNCHANGED <<nextHandle, table, poisoned, outcome>>

\* The end of register_state.
Insert(t) ==
    /\ In(t, "open", "holding")
    /\ table' = [table EXCEPT ![call[t].handle] = {}]
    /\ Return(t, "ok")
    /\ UNCHANGED poisoned

\* MUTANT of Find: the guard is dropped before the operation runs.
FindAndUnlock(t) ==
    /\ In(t, "with", "holding")
    /\ table[call[t].handle] # None
    /\ call' = [call EXCEPT ![t].phase = "running", ![t].seen = table[call[t].handle]]
    /\ mutex' = None
    /\ UNCHANGED <<nextHandle, table, poisoned, outcome>>

\* with_state found the state: the operation begins, with the guard held.
Find(t) ==
    /\ In(t, "with", "holding")
    /\ table[call[t].handle] # None
    /\ call' = [call EXCEPT ![t].phase = "running", ![t].seen = table[call[t].handle]]
    /\ UNCHANGED <<nextHandle, table, mutex, poisoned, outcome>>

\* with_state did not.
Miss(t) ==
    /\ In(t, "with", "holding")
    /\ table[call[t].handle] = None
    /\ Return(t, "invalid")
    /\ UNCHANGED <<table, poisoned>>

\* The operation has had its effect, or none of it.
Effect(t) ==
    \E marks \in {{}, {t}} :
        table' = [table EXCEPT ![call[t].handle] = call[t].seen \cup marks]

\* MUTANT of Finish: an operation that failed is tried again under the guard.
FinishOrRetry(t) ==
    /\ In(t, "with", "running")
    /\ Effect(t)
    /\ \/ Return(t, "ok")
       \/ /\ call' = [call EXCEPT ![t].phase = "holding"]
          /\ UNCHANGED <<nextHandle, mutex, outcome>>
    /\ UNCHANGED poisoned

\* The operation ends, well or in an error.
Finish(t) ==
    /\ In(t, "with", "running")
    /\ Effect(t)
    /\ \E result \in {"ok", "error"} : Return(t, result)
    /\ UNCHANGED poisoned

\* The operation panics: unwinding drops the guard and poisons the mutex, and
\* catch_core turns the panic into an error of this call.
Panic(t) ==
    /\ In(t, "with", "running")
    /\ Effect(t)
    /\ poisoned' = TRUE
    /\ Return(t, "panic")

\* close: the state, its writer included, is dropped before the guard is.
Remove(t) ==
    /\ In(t, "close", "holding")
    /\ table' = [table EXCEPT ![call[t].handle] = None]
    /\ Return(t, "ok")
    /\ UNCHANGED poisoned

\* What a thread does while it holds the mutex.
Inside(t) == Insert(t) \/ Find(t) \/ Miss(t) \/ Finish(t) \/ Panic(t) \/ Remove(t)

Next ==
    \E t \in Threads :
        \/ BeginOpen(t) \/ OpenFails(t) \/ FetchAdd(t)
        \/ \E h \in Handles : BeginWithState(t, h) \/ BeginClose(t, h)
        \/ LockTable(t)
        \/ Inside(t)

Spec == Init /\ [][Next]_vars

\* A thread inside the mutex waits for nothing, and its operation ends.
FairSpec == Spec /\ \A t \in Threads : WF_vars(Inside(t))
-----------------------------------------------------------------------------
\* The handles that were in the table at some time: all that were fetched, but
\* for those on their way to it.
Given ==
    {h \in Handles : h < nextHandle /\ \A t \in Threads :
        call[t].op = "open" => call[t].handle # h}

(***************************************************************************)
(* However the threads' opens, operations and closes interleave, and       *)
(* whichever of them panic, the table behaves as if each took effect at    *)
(* once: no handle is given to two of them, no insert overwrites a state   *)
(* or revives a closed handle, no operation undoes another or works on a   *)
(* state that is gone (registry.rs register_state, with_state, close).     *)
(***************************************************************************)
Table == INSTANCE HandleTable WITH
    contents <- table,
    given    <- Given

ImplementsHandleTable == Table!Spec

(***************************************************************************)
(* A panic is the misfortune of one call: a call is answered with a panic  *)
(* only if its own operation panicked, also after the mutex was poisoned   *)
(* by another (registry.rs lock_table: unwrap would leave the table        *)
(* "inutilizable para TODO el proceso").                                   *)
(***************************************************************************)
PanicStaysWithItsCall ==
    [][\A t \in Threads :
          outcome[t] # "panic" /\ outcome'[t] = "panic" => In(t, "with", "running")]_vars

(***************************************************************************)
(* Whoever has the mutex gives it back: no call waits inside it for the    *)
(* registry itself, and none ends with it (with_state runs the operation   *)
(* under the guard; close drops the state under it).                       *)
(***************************************************************************)
MutexComesBack == \A t \in Threads : mutex = t ~> mutex # t
=============================================================================
