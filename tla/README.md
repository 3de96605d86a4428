# A TLA+ model of php-tantivy

php-tantivy is a PHP extension over the tantivy search library, with a small PHP
client in front of it. Several PHP worker processes open the same index
directory; each keeps a table of open indexes, and tantivy lets one writer at a
time into the directory. This directory models that system, model-checks it
with TLC and proves its safety properties with TLAPS.

Contents: [the system](#the-system) · [modules](#modules) ·
[how the model corresponds to the code](#how-the-model-corresponds-to-the-code) ·
[runs](#runs) · [findings](#findings) · [fairness](#fairness) · [proofs](#proofs) ·
[not modelled](#what-is-not-modelled) · [plan](#plan)

## The system

| Component | Source | State | Operations |
|---|---|---|---|
| Schema descriptor | `crates/tantivy-core/src/schema.rs` | none: three buckets of names become a schema | `build_schema`, `field_is_exact_key` |
| Handle registry | `crates/tantivy-core/src/registry.rs` | per process: `NEXT_HANDLE`, a mutex-protected map handle → `IndexState` (index, schema, reader, heap size, cached writer) | `open_or_create`, `open_read_only`, `register_state`, `with_state`, `close` |
| Writer | `crates/tantivy-core/src/writer.rs` | the cached `IndexWriter` and its uncommitted buffer | `ensure_writer`, `add_document`, `delete_by_id`, `update_document`, `commit` |
| Search | `crates/tantivy-core/src/query.rs` | none: reads what the reader shows | `search` |
| tantivy (external) | used by all of the above | on disk: writer lock file, `meta.json`, segments; in memory: readers with a watcher thread | writer, add, delete_term, commit, reload |
| PHP binding | `crates/tantivy-ext/src/lib.rs` | one handle per `Tantivy\Native\Index` object | one method per operation, each under `guard`; `close`; `Drop` |
| PHP client | `php/src/ExtClient.php`, `ClientInterface.php`, `Client.php` | one native object | the same operations, `__destruct` |
| Exceptions | `php/src/TantivyException.php`, `IndexBusyException.php` | none | `forOperation` |
| Build, CI, tests | `Cargo.toml`, `.github`, `php/tests`, `php/phpstan` | none at run time | – |

How they interact. A PHP call goes through `ExtClient`, the binding's `guard`
and `with_state`, which holds the table's mutex for the whole operation. Worker
processes share no memory: they meet in the index directory, through the writer
lock file (taken by the first write of a handle, kept until the handle is
closed, freed at once when the process dies) and through `meta.json` (replaced
by a commit, followed by every reader through its watcher thread).

What is hard:

* the order in which handles of one or several processes write, commit, close,
  are freed and die, with one lock among them;
* a writer that cannot be made holds the lock file until it is given up, and
  others are told so meanwhile;
* an open is several steps that nothing protects from other processes, and may
  stop after any of them;
* the table is used under a mutex that a panic poisons, and handles are drawn
  outside it;
* a commit is two steps, publishing and reloading the caller's reader, with the
  rest of the world in between;
* every library call may fail after the one before it has had its effect
  (the delete of an update, a reload after a durable commit, an open after the
  index was created);
* an object may be closed by hand, by its destructor and by `Drop`, and called
  after that;
* visibility: writes are invisible until committed, then must become visible to
  readers in other processes;
* a search reads one snapshot while the watcher may load another, and its limits
  and names come from the caller;
* what a delete term reaches depends on how its field is indexed and on the
  order of operations in the buffer.

What makes each component correct: the registry never leaks a state, never
reuses a handle that somebody holds and never confuses two of them, whatever
panics; an open finds or makes one index and harms no other; the writer
excludes every other writer, reports contention only when another session holds
the lock, lets go of the lock when it cannot be made,
takes the lock only for a write that can go ahead, and applies what it was told
to exactly the documents that carry the key; commit is atomic, durable and
visible to its caller; readers see only committed states, and see new ones
eventually; the schema on disk serves every client that opened it; a search
returns what the query means, leaves out nothing better, reads one snapshot, and
throws for a name that does not exist.

`PROJECT.json` lists the hazards at the lines where they bite, and the
properties that watch them.

## Modules

| Module | What it is |
|---|---|
| `Schema` | how buckets become fields, which fields are exact keys, under which terms a value is found |
| `WriteBuffer` | what an `IndexWriter` holds between two commits: documents and delete terms with their opstamps, and what a commit makes of them |
| `SharedIndex` | the state machine: processes, their tables and clients, the lock, the published commits; one action per operation |
| `SharedIndexProps` | its properties, among them that it implements `NrtStore` |
| `NrtStore` | the abstract specification: what `ClientInterface` promises about visibility, exclusive writing and durability, without buffers, stamps, handles or locks |
| `MCSharedIndex` | values for the constants |
| `SharedIndexProofs` | theorems about `SharedIndex` for all values of the constants |
| `SharedIndexRefinement` | more of them: that `SharedIndex` implements `NrtStore`, and what writes do to the next commit |
| `Opening` | an open taken apart: existence check, creation or load, registration, of several processes at once, beside others that write and commit |
| `OneIndex` | the abstract specification of opening: a directory comes to hold one index, once, with one schema |
| `MCOpening`, `OpeningProofs` | a small instance, and the proofs |
| `Registry` | the table taken apart: the counter, the mutex and its poisoning, lookups and inserts, of several threads at once |
| `HandleTable` | the abstract specification of the registry: an atomic map whose handles are given out once |
| `MCRegistry`, `RegistryProofs` | a small instance, and the proofs |
| `Search` | one search on one handle: query to clauses, the snapshot, the collector, the reading of hits, with the watcher in between |
| `SearchProps`, `MCSearch`, `SearchProofs` | its properties against a declarative meaning of queries, a small instance, and the proofs |

The operators whose comment begins with `MUTANT of` are not part of the model.
Each is a plausible bug in the definition it names; putting it in that
definition's place makes TLC refute the property that `PROJECT.json` pairs it
with.

## How the model corresponds to the code

`SharedIndex` has these variables:

* `schema`, `published`: `meta.json`. `published` is the sequence of committed
  document sets; only the last is on disk, the earlier ones are history, kept so
  that a reader can be described by the number of the commit it has loaded;
* `lock`: the session (process and handle) that holds the lock file: its writer
  does, or the creation of one. The lock is exclusive between the handles of one
  process too;
* `table[p][h]`: an `IndexState`: the commit its reader shows, whether its heap
  is enough for a writer, and the cached writer's buffer or `None`;
* `nextHandle[p]`: `NEXT_HANDLE`;
* `client[p][h]`: the live PHP object that holds handle `h`, and how it was opened;
* `committing[p]`: the handle of a commit that has published and not yet reloaded;
* `starting[p]`: the handle whose `ensure_writer` has taken the lock file for a
  writer that will not come to be;
* `reply[p]`: the outcome of the last call. `busy` is an error whose text contains
  `WRITER_LOCKED_PREFIX` and so reaches PHP as `IndexBusyException`
  (`ForOperation`). `ensure_writer` puts the prefix there; so does a caller whose
  refused key field has it in its name (`Marked` is the set of such names);
* `stamp`: tantivy's opstamp. A delete term reaches the documents with a smaller
  one. It is global here: only the order within the life of a writer, and of
  what is committed before it, matters.

Atomicity. The PHP builds are not thread-safe builds, so a process runs one call at a time,
and the mutex is held for the whole of it. What other processes can see of a
call is the lock, taken at its beginning, and `meta.json`, replaced by a commit.
A call is therefore one step, with two exceptions. `commit` is two steps
(`CommitWriter`, `CommitReload`). And so is a write for which tantivy cannot make
the writer, because the heap is too small or for another reason: `index.writer()`
takes the lock file first (`EnsureWriterFails`, second disjunct) and gives it back
when it fails (`WriterFails`). In the window others are told busy although no
writer exists or will. A write that gets its writer takes the lock and keeps it,
so nobody can tell where in the call it did. Between the two steps of either
call other processes run, watchers reload, and the process may die. A death inside
another call has the effect of a death before or after it, because everything that
call changes is in memory or is the lock, and both go with the process; the exception is opening, which module `Opening`
takes apart. What it shows is when one step is right: in the runs of
`SharedIndex` a missing index is created by one step, and that stands for the
steps of the code as long as two processes do not create at once.

| Action | Code |
|---|---|
| `OpenOrCreate`, `OpenReadOnly`, `RegisterState` | `registry.rs` 43–97, as one step. A schema with a name twice panics in the builder; a schema that differs from the one on disk is refused; the id field is looked up after the index was created |
| `AddDocument`, `DeleteById`, `UpdateDocument` | `writer.rs` 66–120: first the arguments, then `ensure_writer`, then the buffer |
| `WriterReady`, `StoreWriter` | `ensure_writer`: the cached writer, or a new one that takes the lock |
| `EnsureWriterFails`, `WriterFails` | `ensure_writer`: `LockFailure` for whatever reason; any other error, which comes with the lock taken and gives it back |
| `Reject`, `RefusalIsMarked` | `resolve_key_field` and `parse_doc` failing before the writer is touched |
| `CommitWriter`, `CommitReload` | `writer.rs` 122–131 |
| `WatcherReload` | `ReloadPolicy::OnCommitWithDelay` |
| `CallOnClosed` | `with_state` on a handle that is gone |
| `Close`, `Destruct` | `Index::close`; `__destruct` followed by `Drop` |
| `Crash` | the death of a worker and its replacement |

`Search` models what `search` does on one handle and so needs neither processes nor
the lock: what it has in common with `SharedIndex` is the schema and what the
reader shows, there `table[p][h].reader`, here `loaded`, a sequence because a
document address is a position in one snapshot. A search is `Ask` (parsing,
defaults, field lookups, clauses, early returns, then `reader.searcher()`),
`Collect` (the library's search) and `Fetch` (the reads at the returned
addresses), with `Reload`, the watcher, between any two of them; `Return` drops
the locals. `Lowercase` gives a text in lower case as its runs, words and
separators, so that words are cut after lower-casing, as in the code. The hits
are a set: in which order they are listed, the library's work, is not modelled.
Words are related to terms by length (which the code looks at), edit distance and
prefix (the library's). Scores are chosen arbitrarily in each search, so nothing
depends on how they are computed. A `where` list is a set, as order and
repetition change only scores and which of several unknown names is reported.

`Faults` names the library calls that may fail, as an `Err` or as a panic that
`catch_core` turns into one: opening the directory, building the reader,
opening and locking the lock file, creating a writer, adding, committing,
reloading. A commit that fails may lose
any of the buffered documents; its writer stays cached, as in the code.

`Opening` models what `SharedIndex` does in one step. `call[p]` is the open that
process `p` is in: its next step and the tantivy `Index` it has in hand;
`session[p]` is the copy of the schema that an `IndexState` keeps. The steps are
`CheckExists` (with `create_dir_all` before it: an empty directory is to every
later step what a missing one is) and then `CreateIndex` or `LoadIndex` (the
library's `open_or_create`, which looks for `meta.json` and acts on what it saw),
and `Register`. `open_read_only` begins at `LoadIndex`.
`Refuse` ends a call in an error before any step, `Crash` ends the process
there. `StartWriter` and `Commit` are what may be lost: a writer knows of the
documents that were in `meta.json` when it started, and a commit replaces
`meta.json` by what the writer knows, with the schema of its own session.
Buffers, readers and handles are those of `SharedIndex` and are left out.

`Registry` models the table inside one process as threads would share it. The
release builds run one thread per process; the core's own tests run many, and
the code takes a mutex and recovers from its poisoning, so it is meant to hold.
A call is `FetchAdd` then `LockTable` then `Insert` for an open, `LockTable`,
`Find` or `Miss`, and `Finish` or `Panic` for an operation, `LockTable` then
`Remove` for a close. What an operation does is the matter of `SharedIndex`;
here it reads the state when it begins (`seen`) and writes its mark when it
ends, so two operations that overlap would lose a mark. A panic ends the call,
releases the mutex and leaves it `poisoned`.

Facts about tantivy that the model relies on: the writer lock is an exclusive
file lock taken before the heap size is examined, and `LockFailure` is the error
of any failure to take it; dropping a writer discards its buffer; schemas are
compared field by field, in order; `TEXT` is indexed by words, `STRING` as a
whole, `STORED` not at all; opening with a builder first asks whether
`meta.json` exists, and creating writes a `meta.json` without segments over
whatever is there; a reload, the watcher's as well as an explicit one, loads the
current `meta.json` and shows it in one step, so a load that the watcher began
before a commit never replaces what `commit` has reloaded after it
(`CommitMakesDurable` and `ImplementsNrtStore` rest on this).

## Runs

| Run | Question | Constants and bounds |
|---|---|---|
| `shared_index_processes` | Do two processes exclude each other, leak nothing, commit durably, and write what they say? | 2 processes, 1 handle per life, 3 buffered operations, 2 commits, no failures, an exact key and an inexact one, a document and a non-object |
| `shared_index_handles` | Do handles of one process get in each other's way, and does the lock come back? | 1 process, 3 handles, heaps enough and too small, all faults, a key whose name has the marker, 1 buffered operation, 1 commit |
| `shared_index_refinement` | Is it all a near-real-time store that stays usable, whatever fails and whatever configs are tried? Is "busy" told apart, and what does a failed write cost? | 2 processes, 5 configs (one with a heap too small), an exact key and an inexact one, all faults but the locking, 2 operations, 2 commits |
| `shared_index_readers` | Does every reader catch up with every commit? | 2 processes, all faults, 2 operations, 1 commit; no symmetry |
| `search` | Are the hits what the query means, from one snapshot, with nothing better left out? | 3 documents in 3 snapshots, about 480 queries made of 8 texts, 5 filters, 3 groups and 4 limits, and one typo per section; ceilings of 2 tokens and 2 hits |
| `opening` | Do the steps of opens amount to one index, and keep what was committed? | 3 processes, 1 of them allowed to find no index, 4 configs, 2 documents, an empty directory or an empty index to begin with |
| `registry` | Is the table atomic, is a panic a matter of one call, does the mutex come back? | 3 threads, 2 handles |
| `read_only_writes`, `partial_update`, `id_field_not_a_key`, `racing_creation`, `busy_without_writer` | see [findings](#findings) | |

The bounds are `MaxHandles` (opens per life of a process), `MaxStamps` (buffered
operations in all) and `MaxCommits` (commits of a writer in all). Two processes
are enough for every interaction through one lock and one `meta.json`: a third
could only wait like the second. Two operations are one update, or an add and a
delete that must reach it; the third lets a delete meet a document committed
before and one still in the buffer. Two commits are needed for a reader that is
behind, and for a commit made on top of somebody else's. Three handles let a
process hold an object of a closed index while it opens two more. A crash gives
a process its handles again, so lives are not bounded.

In `opening`, three processes are one that creates, one that has found the index
and is about to act on what it saw, and one that writes meanwhile; a commit of a
writer that started too early would lose the first of the two documents. Opens,
closes and crashes are not bounded. The configs are one that is good, its
reordering (another schema), a name declared twice, and an id field that does
not exist. In `registry`, `MaxHandles` bounds the opens; each thread makes
any number of other calls. Two handles let an operation, a close and an open be
in progress at once on the same handle and on different ones; the third thread
is the one that meets a mutex poisoned by another while a third holds it.

Properties of the `shared_index` runs (in `SharedIndexProps`, each stated in words there): `TypeOK`;
`WriterLockConsistent`, `NoOrphanState`, `CommitMakesDurable`, `IndexIsUsable`
(invariants); `BusyMeansContended`, `FreshHandle`, `FailedWriteKeepsPending`,
`FailedWriteLosesNoOthers`, `RejectedWriteTakesNoLock`, `WritesTakeEffect` (what a
step may never do);
`ImplementsNrtStore` (refinement); `ReaderCatchesUp`, `LockIsReleased`
(liveness).

`search` has three tokens where two count and three documents where two are
returned, so both ceilings cut; its words lie on both sides of each length that
`fuzzy_distance` tells apart and at each distance. Its invariants, in
`SearchProps`: `HitsAreMeant`, `BestHitsKept`, `UnknownFieldThrows`,
`OnlyUnindexedIsRefused`. `Meant` is the declarative meaning they are checked against:
it speaks of words, values and groups and knows nothing of clauses. It follows
the code, not the documents, where text comes without fields, a group without
values, and exclusions without anything wanted (nothing is found then); see the end of
[findings](#findings).

The refinement maps the abstract committed set to the last element of
`published`, the abstract writer to the session that caches a writer
(`WriterSession`; a session that only holds the lock while it fails to make one is
none), the abstract writer's view to what a
commit of its buffer would publish, and what the open sessions see to the commits
their readers show. It says that the buffer of delete terms and stamps behaves like a
private copy on which every write acts at once, that nobody but the owner of the
lock changes it, and that publishing is atomic. Which documents a write removes
is pinned down separately by `WritesTakeEffect`.

Deadlock is checked everywhere. In `SharedIndex`, `Opening` and `Search` it
cannot occur, since a process can always die or go on. In `Registry` nobody
dies, and a deadlock would be a thread that keeps the mutex: there is none, and
`MutexComesBack` says more.

`opening` checks `CommitsSurvive`, and `ImplementsOneIndex`: the abstract index is
`meta.json` and what a process has open is its own copy of the schema, so no
step may replace one schema by another, take documents back, or work with a
schema that is not that of the index. `registry` checks `ImplementsHandleTable`
(the abstract table is the map; a handle counts as given out from its insert
on), `PanicStaysWithItsCall` and `MutexComesBack`.

## Findings

Each of these runs checks one sentence of the repository's documentation against
the code and ends in a counterexample.

* `read_only_writes`: a handle opened by `open_read_only` becomes the writer of
  the index at its first write. The registry does not remember how a handle was
  opened. (`README.md` 81, `registry.rs` 57–60, `ClientInterface.php` 58–60.)
* `partial_update`: an update whose `add_document` fails throws and leaves its
  delete in the buffer; a later commit that succeeds publishes the delete alone.
  (`ClientInterface.php` 80–81: "delete-by-term + add in one batch".) Without
  failures of `add_document` a write that throws changes nothing, as
  `shared_index_processes` shows; with them it costs no other documents
  (`FailedWriteLosesNoOthers`).
* `id_field_not_a_key`: the id field may be a tokenized text field.
  (`README.md` 77: "Must be one of `fields.keys`; validated against schema.")
* `racing_creation`: two processes that both find no index both create one, and
  the second creation replaces what the first process has committed since.
  (`ClientInterface.php` 99–100: "making prior add/update/delete calls durable".)
  What keeps the promise is that one process creates the index before others
  call `openOrCreate`: run `opening`.
* `busy_without_writer`: a write is refused as busy although nobody has a writer,
  because the lock file cannot be opened or locked: `ensure_writer` does not look
  at the reason of a `LockFailure`. (`IndexBusyException.php` 8–9: "another process
  holds tantivy's exclusive writer lock … This is a transient contention
  condition".) Callers who follow `README.md` 105–106 and skip the write lose it.
  The constants allow a second cause, of which the trace TLC prints is not an
  example: the refused key field has the marker in its name, `resolve_key_field`
  quotes it, and `forOperation` finds it (`TantivyException.php` 20; 12–14 speak
  only of errors that the core has marked).

  Without these two causes busy means that another session holds the lock file
  (run `shared_index_refinement`, theorem `BusyIsContention`). That may be
  another handle of the same process, and it may be for no longer than the moment
  in which the other session fails to make its writer: then nobody is writing.

Three more sentences do not fit the code, and properties of `search` that hold say
so. `README.md` 90 says of `text_fields` "Unknown names are skipped."; `search`
throws, as `ClientInterface.php` 14 says and `UnknownFieldThrows` shows.
`README.md` 92 calls `in` "required as a group"; a group without values requires
nothing (`query.rs` 183). `ClientInterface.php` 124–125 wants each token to match
in at least one of `text_fields`; a text without `text_fields` requires nothing,
on purpose (`query.rs` 111–112). `Meant` follows the code in both, and
`BestHitsKept` shows that documents outside such a group, or without the words of such
a text, are returned.

## Fairness

Each liveness property is checked under the fairness it needs and no other.

* `ReaderSpec`, for `ReaderCatchesUp`: weak fairness of `WatcherReload`. The
  watcher thread of a reader polls `meta.json` as long as the reader exists.
  Its reload is assumed to succeed: tantivy logs one that fails and tries again
  only when `meta.json` has changed again, so a reader whose reload failed can
  stay behind until the next commit.
  Objects are not assumed to be freed: a reader that is only ever closed would
  catch up with nothing.
* `ObjectSpec`, for `LockIsReleased`: weak fairness of `CommitReload` and
  `WriterFails` (a commit that has published, and a creation that fails, go on; they
  wait for nobody) and strong fairness of `Destruct` (PHP frees every object at the
  latest at the end of the request).
  Strong, because the object cannot be freed while its process is inside a
  commit or a failing write, and a request may make such calls again and again
  before it ends.
* `FairSpec` of `Registry`, for `MutexComesBack`: weak fairness of what a thread
  does inside the mutex. Nothing in there waits for the registry again, and the
  library calls are assumed to end, in a result or a panic. Nothing is assumed of
  who gets the mutex next: std's `Mutex` is not fair, so that every waiting call
  is served in the end is not claimed.

No write, commit, open, close or crash is ever assumed to happen, and the lock
is assumed to come back only by these means: it would not come back from an
object kept for ever, and does not if freeing an object does not close its
handle.

## Proofs

`SharedIndexProofs` proves, for any set of processes, any configs, documents,
keys, faults and bounds that satisfy the two assumptions of `SharedIndex`
(`ConstantsAssumption`: the arguments have the shapes the actions take apart;
`NoneAssumption`: `None` is none of the values it stands beside):

| Theorem | Property | Inductive invariant |
|---|---|---|
| `TypeCorrect` | `TypeOK` | `TypeInv`: also, the handle of a commit in flight is open. Without it `CommitReload` could update a state that is not there |
| `WriterLock` | `WriterLockConsistent` | `RegistryInv`: also, handles not yet given out have neither state nor client. Without it an open could overwrite a state whose writer holds the lock. And a session that is making a writer has none yet (`NoSecondWriter`), so that giving the lock back takes it from nobody |
| `NoLeak` | `NoOrphanState` | `RegistryInv` |
| `FreshHandles` | `FreshHandle` | `RegistryInv` |
| `BusyIsContention`, if `"lock"` is not among `Faults` and no key's name is in `Marked` | `BusyMeansContended` | `RegistryInv` |
| `RejectedWritesLeaveTheLock` | `RejectedWriteTakesNoLock`: also, who caches a writer has a heap for it | `RegistryInv` |
| `FailedWritesAreHarmless`, if `"add"` is not among `Faults` | `FailedWriteKeepsPending` | `RegistryInv`: that only one session caches a writer makes `PendingDocs` what the next commit publishes |
| `UsableIndex` | `IndexIsUsable` | `StoreInv`: also, there is a schema exactly when something is published, and whenever there is a client |
| `CommitIsDurable` | `CommitMakesDurable` | `StoreInv` and `CommitInv`: also, a writer whose commit is in flight is empty |

The argument. First every action is shown to keep the types (one lemma per
action, over lemmas about the buffer operations). Then `StepShape` shows that
each step does one of a few things to the tables, the lock and the clients:
register a state without a writer under the next handle, alter an open state
but not whether it has a writer, store a writer in an open state that had one or
while the lock is free, drop a state with its lock, or reset a process; the two
steps of a writer that fails only take and give back the lock, and while the first
of them waits for the second the session does not come to cache a writer
(`WhileStarting`). The
registry invariants are proved shape by shape. The durability of commits splits
by process: the process that steps is treated action by action; any other
process keeps its tables (`StepIsLocal`), and if it has a writer then nothing is
published in the step, because only the owner of the lock publishes over an
index that somebody has open (`OnlyWriterPublishes`).

`FailedWritesAreHarmless` and `BusyIsContention` need their assumptions: with
failures of `add_document` the run `partial_update` refutes the first property,
with either cause of a false "busy" the run `busy_without_writer` the
second.

`SharedIndexRefinement` proves, from the same two assumptions and with no
restriction on the faults:

| Theorem | Property |
|---|---|
| `SharedIndexImplementsNrtStore` | `ImplementsNrtStore` |
| `WritesActAtOnce` | `WritesTakeEffect` |
| `FailedWritesLoseNoOthers` | `FailedWriteLosesNoOthers` |

The inductive invariant is `MappingInv`: `StoreInv`, and that no stamp of a committed
document, a buffered document or a buffered delete term is greater than `stamp`
(`StampsInOrder`), and that the reader of every open handle is on a commit there has
been (`ReadersOnCommits`). `StampsInOrder` is what makes a buffer behave like a
private copy: a new delete term is newer than all it is meant for, wherever it
is, and a document added later is newer than every delete term, so the writes of
a buffer, which are only applied at the commit, could as well act one by one. Without
it a document could escape its delete, or an update delete what it has just
added. Without `ReadersOnCommits` what an open session sees would not be a
committed set at all, and could change when somebody else commits.

The argument goes by the effect of a step on the index, the writers and the
readers (`StepEffect`): the index is made, a state is opened, a writer is
left with a buffer (the same, with a document, with a delete term, or with both), a
writer publishes or fails to, a reader loads, a handle is closed, a process dies, or
none of these. For each there are lemmas on what becomes of the committed documents,
the pending ones (`PushDocumentAdds`, `PushDeleteRemoves`, `KeepSomeLoses`: what the
buffer operations do to the next commit) and what sessions see, then one that it
is a step of the store (`AddsRefines` and so on). `RefinementStep` puts them together:
opening and creating are `Open`, closing and dying are `Leave` of one session or
of all those of a process, a failed commit is `FailToPublish`.

`FailedWritesLoseNoOthers` says what is left of `FailedWritesAreHarmless` when
`add_document` may fail.

`SearchProofs` proves, for any schema, snapshots, queries, word relations, scores
and ceilings that satisfy the two assumptions of `Search` (`LimitsAssumption`: the
process can afford the largest collector the code asks for; `DataAssumption`:
limits, scores and lengths are numbers and snapshots are sequences):

| Theorem | Property |
|---|---|
| `HitsMeant` | `HitsAreMeant` |
| `NothingBetter` | `BestHitsKept` |
| `UnknownThrows` | `UnknownFieldThrows` |
| `LimitIsSafe` | `OnlyUnindexedIsRefused` |

The heart of it is `ClausesMeaning`: the boolean query that the code builds holds
of a document exactly when `Meant` does, proved section by section (words, where,
in). The inductive invariant `SearchInv` adds to the four properties what is known
between the steps: a search in the library has a query that named only known
fields and a limit other than 0 (`Accepted`), and the returned addresses are the
best of those that are meant, in the snapshot of the search (`Collected`). Without
`Accepted` a limit of 0 could reach the collector; without `Collected` a hit could
be anything.

`OpeningProofs` proves, for any processes, configs, documents and initial contents
that satisfy `OpeningAssumption` (the shapes of the values, and that `None` is
none of them), and under `SoleBuilder`, that at most one process is in `Builders`
(may find no index at `openOrCreate`):

| Theorem | Property |
|---|---|
| `CommitsAreKept` | `CommitsSurvive` |
| `OpensImplementOneIndex` | `ImplementsOneIndex` |

`SoleBuilder` is not in the code: it is what the deployment has to see to, and
`racing_creation` shows that it is needed. The inductive invariant `OpeningInv`
adds to the types: whatever a session, a call or a writer remembers agrees with
`meta.json`, and a writer knows of every document in it (`MemoryAgrees`); and a
process that is about to create is the one builder and there is still no index
(`CreationIsSafe`). Without the latter `CreateIndex` could overwrite; without the
former a commit could publish an old schema or forget documents.

`RegistryProofs` proves, for any set of threads and number of handles that satisfy
`RegistryAssumption`:

| Theorem | Property |
|---|---|
| `PanicsStay` | `PanicStaysWithItsCall` |
| `RegistryImplementsHandleTable` | `ImplementsHandleTable` |

The inductive invariant `RegistryInv` says, besides the types, that a call holds or
runs exactly while the mutex is its own (`MutexHeld`), that what a running
operation has read is what the table still holds (`ReadIsCurrent`), and that a
handle on its way to the table was drawn by one call only and is not in the
table (`FetchedIsFresh`). Without `ReadIsCurrent` the end of an operation could
undo another; without `FetchedIsFresh` an insert could overwrite a state.

Only model-checked: the liveness properties `ReaderCatchesUp`, `LockIsReleased` and
`MutexComesBack` (fairness is out of the prover's reach), and, as counterexamples,
what the [findings](#findings) refute. Every safety property that a passing run
checks has a theorem; where it has a hypothesis, a finding shows why.

## What is not modelled

* How opening and writing interact beyond what `Opening` and `SharedIndex` each
  have: `SharedIndex` opens in one step, `Opening` writes without buffers. A racing
  creation is therefore not followed into readers and buffers of other sessions.
* A failing lookup of the extension class (`Client.php`): no call takes place.
* `docCount` changes no state; it counts `Shown`, the set the reader shows.
* How scores, edit distances and prefixes are computed: they are the library's and
  arbitrary in `Search`. That the "default" tokenizer and `tokenize` cut words
  alike is not claimed either (`Tokens` and `Lowercase` are independent).
* Error texts, but for whether they contain the busy marker. The directory path,
  which `open_read_only` quotes, plays no part: opens throw no `IndexBusyException`.
* Segments and merges: they change `meta.json` without changing the documents.
* Several index directories in one process: handles of different directories
  share only the table and `NEXT_HANDLE`.
* `optimize`, a no-op; the build, CI and test files.

## Plan

1. Done: `Schema`, `WriteBuffer`, `SharedIndex`, `NrtStore`, their runs, and the
   proofs of the invariants and of the registry's action properties.
2. Done: `Search`, its run and its theorems.
3. Done: `Opening` and `OneIndex`, `Registry` and `HandleTable`, with runs,
   refinements and their proofs; the busy marker in `SharedIndex`.
4. Done: the proofs that `SharedIndex` implements `NrtStore` and that writes act on
   exactly what they name.
5. Done: the window in which a writer that cannot be made holds the lock, with the
   proofs and the refinement brought up to it.
6. Left: a reload taken apart into its load and its swap; a racing creation followed into
   the buffers and readers of other sessions.
