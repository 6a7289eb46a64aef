# TLA+ models of the SpiceDB expand engine, memdb datastore and ACL service

These modules model the permission-graph expansion of this repository. The
model covers five parts of the code:

- the concurrent expander and reducers (`src/internal/graph/expand.go`);
- the in-memory versioned tuple store (`src/unnamed/part_000`, package `memdb`);
- the gRPC handlers that pick revisions and call both (`src/internal/services/acl.go`);
- the schema DSL translator (`src/pkg/schemadsl/compiler/translator.go`);
- the expand test fixture (`src/unnamed/part_000`, `TestExpand`, `TestMaxDepthExpand`).

The models are checked with TLC.

## The system

- **Expand engine** (`expand.go`).
  - `expand` looks at a relation and returns a closure. The closure is
    `expandDirect` if the relation has no rewrite, or a set operation over
    the rewrite's children: `_this`, a computed userset, a nested rewrite,
    or a tuple-to-userset.
  - Closures run as goroutines and report on a channel.
  - `expandSetOperation`, the reducer behind `ExpandAny`, `ExpandAll` and
    `ExpandDifference`, works in this order:
    1. it starts one goroutine per child, each with an unbuffered channel
       and a child context that is cancelled on return;
    2. it receives the children in list order;
    3. it returns the first error, or `RequestCanceled` when `ctx.Done()`
       wins its `select`;
    4. otherwise it returns an intermediate node.
  - `ExpandOne` runs one closure on a channel of size 1.
  - In recursive mode, `expandDirect` dispatches every non-terminal user. It
    then appends its own leaf to the union.
  - `expandComputedUserset` has two object modes. `TUPLE_OBJECT` stays on
    the request's object. `TUPLE_USERSET_OBJECT` follows the user of the
    tuple it is given. `expandSetOperation` builds every child's closure
    before any of them runs, and gives a computed child no tuple. A
    `TUPLE_USERSET_OBJECT` child there panics (`expand.go:173`), and
    nothing recovers the panic.
- **Local dispatcher.** Its code is not in `src/`; it is modelled from
  `spec.md` C5.
  - It refuses depth 0 with `MaxDepthExceeded`.
  - It looks up the relation, and an unknown one gives `UnknownRelation`.
  - It runs `ExpandOne(expand(...))`.
- **memdb datastore.**
  - Tuple rows carry `createdTxn` and `deletedTxn`, and the changelog ids
    are the revisions.
  - `WriteTuples` works in this order:
    1. it checks the preconditions against the live rows;
    2. it appends a changelog entry with the next id and the clock;
    3. it applies CREATE, DELETE and TOUCH in order. Retiring a row inserts
       a copy whose `deletedTxn` is the new id.
  - `Revision` returns a random changelog id stamped within the fuzzing
    window, else `SyncRevision`.
  - `CheckRevision` refuses a revision past the last id (future), before
    the first id in the GC window (stale), or when the changelog is empty.
- **ACL service.**
  - `Write` calls `WriteTuples`.
  - `Read` uses the zookie's revision exactly, or `Revision()`. It then
    calls `CheckRevision` and queries. `Revision()` and `CheckRevision()`
    are separate read transactions, and other writes and the clock move
    between them.
  - `Expand` uses `pickBestRevision`, which returns the larger of the zookie
    and `Revision()`, and never calls `CheckRevision`. It parses the
    depth-remaining header (`calculateRequestDepth`) and dispatches a
    shallow expansion. Every goroutine of that expansion queries memdb at
    the picked revision when it runs (`expand.go:46`, `:199`), so writes
    by other clients commit between the queries of one expansion.
  - Expand errors go through `rewriteACLError`, which maps an error kind to
    a gRPC code. A kind it does not know (`MaxDepthExceeded`,
    `ExpansionFailure`) is returned as is, which gRPC reports as Unknown.
  - `Lookup` picks its revision the same way and parses the depth header.
    A limit of 0 becomes 25, and the limit is clamped to 100. It then calls
    the lookup dispatcher and returns the object ids.
  - `Check` also uses `pickBestRevision`; `ContentChangeCheck` uses
    `SyncRevision`. Both go through `commonCheck`, which parses the depth
    header and dispatches a check.
- **Schema DSL translator.** `translate` turns each parsed definition into
  a namespace:
  - a relation keeps its allowed types, and a type path is `prefix/name`,
    or gets the context's prefix;
  - a permission's expression becomes a rewrite. A binary expression is
    the set operation over its two operands, and anything else is a
    one-child union. An identifier becomes a computed userset, an arrow a
    tuple-to-userset, and a nested expression a child rewrite. The computed
    userset is in `TUPLE_OBJECT` mode, and the arrow's computed userset in
    `TUPLE_USERSET_OBJECT` mode (`namespace.ComputedUserset` and
    `namespace.TupleToUserset`, not in `src/`);
  - an arrow whose operand is not an identifier fails, and every level
    returns the first error of its operands.

  The namespaces it produces are what the expander reads through the
  namespace manager.

## Modules

| module | models | state and actions |
|---|---|---|
| `ExpandRef` | the result of an expansion | No state. `DispatchRef`, `DirectRef`, `RewriteRef`, `ChildRef` and `TtuRef` are mutually RECURSIVE operators, one per closure. `ReduceRef` is the reducer: the first error in list order, else a node. A child record carries its computed userset's `object` mode. `TupleComputedStart` is `expandComputedUserset` given a tuple. For a computed child in `TUPLE_USERSET_OBJECT` mode (`NeedsTuple`), this reference gives the spec's answer, `AlwaysFail`, where the code panics. |
| `ConcurrentExpand` | expand.go's goroutines, channels and contexts | `tasks` maps a path, the position in the goroutine tree, to a task record: its kind, `pc`, whether its channel is buffered, the next child to receive, the children's results so far, and its result. There is one action per closure step: `DispatchStart`, `DispatchAwait` (ExpandOne's select), `DirectStart`, `SetOpStart`, `TtuStart`, `ReduceReceive` (one iteration of the reducer's loop) and `ReduceCancel` (the `ctx.Done()` case). `CancelRequest` is the caller's cancellation. `panicked` records that `DispatchStart` panicked while building the closures of a relation (`ExpandPanics`, using the RECURSIVE `BuildPanics` over nested rewrites). After that, no goroutine steps, and the client cannot cancel a request of a dead process. A direct task that dispatches non-terminals keeps the `users` it queried for the leaf it appends later, as the closure keeps `foundTerminalUsersets`. A task whose pc is `"sending"` is blocked on an unbuffered send. A context is done when the request is cancelled or when any ancestor reducer has returned (`defer cancelFn()`). |
| `ExpandAtomic` | what an expansion promises | One step returns the reference result, or `RequestCanceled` once the caller has cancelled. |
| `MCConcurrentExpand` | the test fixture and the audit schema | The `TestExpand` namespaces and tuples, and its expected trees (`companyOwner` … `docViewer`). `TestExpandCases` is the test's table. ASSUMEs check `ExpandRef` against every case and against `TestMaxDepthExpand` (`MaxDepthExpand`). `RootResult` maps `tasks` to `ExpandAtomic`'s `result`. `PanicRewrites` is the audit schema with its computed child in `TUPLE_USERSET_OBJECT` mode; an ASSUME checks that `ExpandRef` answers `AlwaysFail` for it. |
| `MemdbDatastore` | memdb | `rows` is a set of `[t, created, deleted]`, keyed by `(t, created)`; `changelog` is a sequence of `[id, timestamp]`; `now` is the clock. `WriteTuples` folds `ApplyMutation` over the mutations. `Revision` is the set of values the random pick can return. |
| `VersionedStore` | what the datastore promises | `history` is a sequence of snapshots, each counting how many times a tuple is stored. `Commit(pre, muts)` checks the preconditions against the latest snapshot and appends it with the mutations applied in order, as memdb applies them in one transaction. A CREATE or TOUCH of a tuple this transaction already wrote replaces that version, and DELETE retires the oldest live copy. `written` records the last commit's `[pre, muts]`. |
| `MCMemdbDatastore` | memdb on its own | `StoreSpec` (`StoreInit`, and `StoreNext`: any client's `WriteTuples`, or a clock tick) refines `VersionedStore` under the mapping `history[i] = QueryCounts(i)`, the rows a query at revision `i` returns. The mutations include two of one tuple in one transaction. `HistSpec` adds the history variable `written`: each `StoreWrite(pre, muts)` records its own arguments, and the mapping passes `written` through, so the abstract commit is the one with the write's own preconditions and mutations. Without it, any abstract commit that produced the same snapshot would do. |
| `AclService` | acl.go | It extends `MemdbDatastore`. `expands`, `reads`, `checks` and `lookups` record every successful response with its revision. `expandErrors` records every failed Expand with the depth it asked for (`Asked`), the error kind, and the code `RewriteACLError` gives it. `RequestDepth` narrows the header with `% 2^16`, as `uint16()` does. `Lookup` defaults and clamps the limit (`LookupLimit`). `DispatchLookup` is the lookup dispatcher, which is not in `src/`: it returns up to the limit of the objects that grant `Goal` at the revision (`LookupMembers`). `Write`, `Read` (with a zookie), `ReadPickRevision` and `ReadPicked` (a Read without one, split at its two datastore transactions), `Expand`, `Check`, `ContentChangeCheck`, `Lookup` and `Tick` are the actions. `ServeRead` is the part of Read after the revision is known. `pickedReads` holds revisions picked and not yet served, and `refusedReads` records why CheckRevision refused a Read, and whether it had a zookie; `CommonCheck` is the shared part of the two checks. `Expand` computes its tree with an `ExpandRef` instance whose `Tuples` are the snapshot at the chosen revision. `DispatchCheck` is the check dispatcher: it is not in `src/`, and for the direct relation `Start` it is membership in the snapshot. `Clients` names the RPCs the clients of a run send. `ForgedZookies` says whether they present zookies the server never issued. |
| `MCAclService` | bounds | One relation `doc:d#viewer`, two users, single and two-mutation writes, and depth headers. `LookupTuples` (documents `d` and `e`) and `MCLookupLimits` serve the lookup run. |
| `ExpandService` | acl.go's Expand over expand.go and memdb | It extends `MemdbDatastore` and composes the other two. `ExpandCall` is the handler up to the dispatch: `pickBestRevision` and `calculateRequestDepth`, taken from an `AclService` instance, then the root task of a `ConcurrentExpand` instance. `ExpandStep` is one goroutine step of that instance over `QueryAt(rev)` as the rows are at that step, so a `Write` between two steps is seen by the later one when it is visible at `rev`. `ExpandReturn` answers with `rewriteACLError` of the error or the tree, `Cancel` is the client's cancellation, and `Complete` ends a request so the next one can come, up to `MaxRequests`. The ghost `seen` holds every snapshot `QueryAt(rev)` showed from the pick to the answer, and `served` every answer with its revision and asked depth. |
| `MCExpandService` | bounds | `doc#viewer = _this + owner` expanded from `doc:d#viewer`: two goroutines query, one the viewer tuples and one, after a dispatch, the owner tuples. Writes create, touch or delete one viewer tuple or one owner tuple. |
| `Translator` | translator.go | One operator per `translate*` function. Each returns `Ok(value)` or `Fail(node)`. `Collect` is the loop over children that returns the first failure. DSL nodes are records; type paths and namespace names are sequences of their `/`-separated segments. The rewrites it builds have the shape `ExpandRef` consumes. |
| `SchemaExpand` | translate, then expand | `root` is the parsed schema and `tuples` the stored tuples. `Compile` sets `compiled` to the result of `Translate`. `Expand` expands `Start` with `ExpandRef` instantiated over the loaded namespaces (`LoadedRelations`, `LoadedRewrites`, which stand for the namespace manager). |
| `MCSchemaExpand` | the schema fixture | A `user` definition and a `doc` definition with relations `reader`, `writer` (two type references, one prefixed) and `parent`, and a permission `view` ranging over 2,330 expressions. `ExprMeaning` is what a DSL expression means over the tuples. `TreeUsers` is what an expand tree grants. |

Data is abstracted throughout:

- an ONR is a triple `<<ns, obj, rel>>`;
- a tuple is `[object, user]`;
- a query failure is a set `failing` of the ONRs whose queries error;
- revisions are bounded naturals rather than uint64, and
  `deletedTransactionID` is `MaxRevision + 1`;
- a zookie is the revision it decodes to, or `NoZookie`;
- a non-numeric header is the model value `NotANumber`.

## Runs

| run | cfg | expect | shows |
|---|---|---|---|
| viewer | `MCConcurrentExpand_viewer.cfg` | pass | Shallow expansion of `company:companyname#viewer` from the test fixture is checked at depths 2 and 3, with and without a failing `owner` query. In every interleaving of goroutines, and with cancellation, it returns what `ExpandRef` gives or `RequestCanceled` (`ImplementsAtomic`), and it always returns (`ExpandReturns`). Depth 2 exhausts at the `editor` → `owner` chain. |
| audit | `MCConcurrentExpand_audit.cfg` | pass | Recursive expansion of `document:doc#reader` is checked, where reader is `_this ∩ (owner ∪ parent→owner)`. The `doc#owner` non-terminal recurses into `folder:f#owner`. It runs with query failures at `doc#parent` or `folder:f#owner` and at depths 2 and 3. It checks `TypeOK`, `ImplementsAtomic` and `ExpandReturns`. |
| leak | `MCConcurrentExpand_leak.cfg` | violation | `NoGoroutineLeak` is violated. The caller cancels, the intersection reducer returns `RequestCanceled`, and its `_this` child is then blocked forever on its unbuffered channel. |
| snapshots | `MCAclService_snapshots.cfg` | pass | Writes, reads with any zookie, content-change checks and clock ticks are interleaved. A committed revision's contents never change (`PastSnapshotsImmutable`). Two Read responses at one revision agree (`ReadSnapshotStable`). A ContentChangeCheck answers as every Read at its revision (`ContentChangeCheckAgreesWithRead`). |
| responses | `MCAclService_responses.cfg` | pass | Clients send Expand and Check with zookies the server issued, interleaved with writes. A Check and an Expand reporting the same revision agree on membership (`CheckAgreesWithExpand`). |
| schema | `MCSchemaExpand.cfg` | pass | For every `view` expression of up to two set operators over `reader`, `writer`, `parent->reader` and two malformed arrows, checked against two tuple sets: translation fails exactly when an arrow has a non-identifier operand (`NestedArrowRejected`). Otherwise, expanding `doc:1#view` over the translated namespaces grants exactly the users the expression means (`ExpandMatchesSchemaMeaning`). `CHECK_DEADLOCK FALSE`: a compile followed by one expansion ends. |
| store | `MCMemdbDatastore.cfg` | pass | `ImplementsVersionedStore`: every commit of `WriteTuples` adds exactly the next revision, equal to the previous one with that write's own mutations applied (each `findTuple` seeing the rows the earlier mutations wrote), and no write or clock step changes what an earlier revision's query returns. This includes two mutations of one tuple in one transaction. A repeated CREATE stores the tuple twice, and the abstract snapshot counts copies for that reason. `CHECK_DEADLOCK FALSE`: with writes and the clock at their bounds the store alone has no step. |
| unpinned | `MCAclService_unpinned.cfg` | violation | `UnpinnedReadNeverStale` is violated. A Read without a zookie gets a revision from `Revision()`. A write then commits before `CheckRevision`, which refuses the server's own pick as `RevisionStale`. TLC's shortest trace starts from an empty store: the pick is `NoRevision`, and the first write makes it stale. The same race happens when every changelog entry is older than the GC window and the pick is `SyncRevision`. A fuzzed pick can also age out of the window between the calls. |
| panic | `MCConcurrentExpand_panic.cfg` | violation | `ExpandReturns` is violated. The dispatcher for `document:doc#reader` calls `expand()`. It builds the closures of the nested union, whose computed child is in `TUPLE_USERSET_OBJECT` mode with no tuple. It panics, the process exits, and the request is never answered. spec.md says this case is a fatal `AlwaysFail` error. `CHECK_DEADLOCK FALSE`: the process really stops. |
| lookup | `MCAclService_lookup.cfg` | pass | Lookups of the documents Goal can view are interleaved with writes that grant and revoke on `doc:d` and `doc:e`. The limits asked for are none, 1 and 150. When a Lookup returns fewer objects than it was entitled to, none of those granting Goal at its reported revision is missing (`LookupCompleteBelowLimit`). It is entitled to what it asked for, 25 for none and at most 100. With two documents the default and the truncation at 1 are reached; the clamp at 100 is not, since it needs more than 100 matching objects. |
| pinned | `MCExpandService_pinned.cfg` | pass | Two Expands with zookies the server issued, their goroutines interleaved with two writes and cancellation. Each answer is the `ExpandRef` expansion of one snapshot the revision showed during the call (`ExpandReadsOneSnapshot`). Two answers at one revision agree (`ExpandSnapshotStable`). Headers of none, 1 (which runs out at the computed userset) and 65536: a deeper request never fails with `MaxDepthExceeded` where a shallower one succeeded (`DeeperRequestNeverExhausted`). That rests on the `> 65535` check before `uint16()`, without which 65536 wraps to 0. |
| torn | `MCExpandService_torn.cfg` | violation | `ExpandReadsOneSnapshot` is violated. On an empty store, an Expand presents zookie 2, which `pickBestRevision` keeps. The viewer goroutine queries, then two writes commit revisions 1 and 2, then the owner goroutine queries. Both revisions are at or below 2, so the answer holds the viewer leaf from before the writes and the owner leaf from after them: a tree no state of the store ever gave. spec.md defines a revision as identifying a consistent snapshot and pins every read of an expansion to it. |

Every property of a passing run has a mutant in `PROJECT.json`. The mutant
is an operator defined just before the definition it replaces, and TLC finds
the property violated with it. The mutants are:

- the reducer not returning on an error;
- the reducer not advancing to the next channel;
- the direct leaf put first;
- a tupleset query error that returns without sending;
- a changelog id that skips one;
- `CheckRevision` without the future check;
- a superseded row retired one revision early;
- `findTuple` matching retired versions as well as the live one;
- `findTuple` reading the rows as they were before the transaction, so a
  second mutation of a tuple misses the first;
- `SyncRevision` one past the last changelog id;
- Expand echoing the datastore's revision instead of the one it used;
- a tuple query that drops its revision and reads the live rows;
- `translateBinary` swapping its operands, or dropping the right
  operand's error;
- a type path always given the context's prefix;
- `calculateRequestDepth` without the upper bound on the header;
- Lookup not replacing a limit of 0 by the default.

## Bounds

- **Expansion runs.** The schemas exercise every closure kind:
  - `_this`, computed and tuple-to-userset children;
  - a nested rewrite;
  - union and intersection;
  - recursion through a non-terminal user;
  - a depth that runs out and one that does not;
  - failures at a leaf and at a tupleset.

  Every one of these is explored with cancellation at every point. A larger
  recursive schema, the full fixture in recursive mode, passes one million
  states and does not finish in minutes. It is covered by the ASSUMEs on
  `ExpandRef` instead.
- **ACL runs.**
  - A run records only the responses of the RPCs in its `Clients`.
    Recording all four kinds at once passes 1.6 million states without
    finishing.
  - `snapshots` has `MaxRevision = 2` and `MaxTime = 2` (437,040 states).
    This allows writes before and after a read or check at the same
    revision, and between a Read's two transactions. With Read split,
    bounds of 3 pass six million states without finishing.
  - `responses` has `MaxRevision = 2` and `MaxTime = 2`.
    `unpinned` has `MaxTime = 3`, one more than `GcWindow`, so that the
    whole changelog can leave the GC window.
    `responses` at 3 takes four and a half minutes. A single write after a
    response is enough.
  - `FuzzWindow = 1` and `GcWindow = 2` make both `Revision` branches and
    both stale branches of `CheckRevision` reachable.
  - `lookup` has two documents, so a limit of 1 truncates and the default
    does not. A header set of one value keeps it to 37 seconds
    (77,976 states); the other runs cover the headers.
  - With `ForgedZookies`, zookies go to `MaxRevision + 1`, so a future one
    is always possible.
- **Composed Expand runs.** `MaxRevision = 2`: a torn read needs the two
  queries split by writes that change both tuples, which takes two
  single-mutation writes. `pinned` serves `MaxRequests = 2` Expands, the
  fewest that let two answers be compared (431,725 states, 26 seconds);
  `torn` needs one. `MaxTime = 1` keeps both `Revision` branches. Query
  failures are left to the expansion runs.
- **Store run.** Up to four writes of one or two mutations, with
  `{}`, `{A}` or `{B}` as preconditions, reach two live copies of a tuple,
  deletes of absent tuples and every pair of operations on one tuple
  within a transaction (16,900 states).
- **Schema run.**
  - The expressions nest up to two binary operators, with each operator on
    either side.
  - The malformed arrows have an arrow or a union as an operand.
  - Of the two tuple sets, one gives `doc:2` readers through `parent`, and
    the other gives `doc:1` a reader only `doc:2` lacks, so that
    intersection and exclusion give distinct non-empty answers.

## Fairness

`ConcurrentExpand` has weak fairness on "some goroutine takes a step". This
is justified as follows:

- the Go scheduler runs every runnable goroutine eventually;
- each task takes finitely many steps, so this fairness lets every enabled
  one run;
- `CancelRequest` has no fairness, because a caller need not cancel;
- `Returned` is the handler holding its answer, and it only stutters.

`ExpandReturns` (`<>` root done) is checked under this fairness. The ACL
and composed Expand runs check safety only.

## Not modelled

- **The check and lookup dispatchers.** Their code is not in `src/`.
  Check's dispatcher is modelled, from the spec, as membership in the
  snapshot for a direct relation.
- **The lookup dispatcher's algorithm.** The handler is modelled. The
  dispatcher (`DispatchLookup`, modelled from the spec) is any `limit`
  granting objects of a direct relation, or all of them. It never fails
  and never answers outside the namespace, so the handler's `resp.Err`
  path and its namespace check are not reached.
- **Request validation** (`req.Validate`, `validateTupleWrite`,
  `CheckNamespaceAndRelation`). The model's requests are valid by
  construction.
- **Iterator close and `it.Err()`.** An iterator error is modelled as a
  query failure, the same as `Execute` failing.
- **`alwaysFailExpand`** (a rewrite with no operation). The model's
  rewrites always have one.
- **Translator failures on malformed parser output.** These are the
  `GetString` and `Lookup` errors, and an unknown node type. The parser is
  not in `src/`, and the model's nodes are well formed.
- **The crdb reverse-query builders** (`part_001`). They only construct
  queries.
- **go-memdb internals.** The model assumes that the tuple table's id index
  includes `createdTxn`, so a retired copy and a new version of the same
  tuple are two rows.

## Plan

1. Done:
   - `ExpandRef`, `ConcurrentExpand`, `ExpandAtomic` and
     `MCConcurrentExpand` (refinement, liveness and the leak);
   - `MemdbDatastore`, `AclService` and `MCAclService` (snapshot
     stability);
   - Check and ContentChangeCheck in `AclService`;
   - Read split at its two datastore transactions, and the unpinned-read
     finding;
   - `VersionedStore` and the memdb refinement;
   - `Translator`, `SchemaExpand` and `MCSchemaExpand` (translation
     composed with expansion);
   - the computed-userset object modes and the panic finding;
   - `rewriteACLError`, Expand's error responses and the depth-header
     property;
   - the Lookup handler;
   - `ExpandService`: Expand composed with the concurrent expander and
     memdb, the torn-read finding, and the Expand properties that compare
     two answers moved there from `AclService`.
2. Next:
   - **Repeated CREATE.** Whether a CREATE of a live tuple should fail
     depends on the API contract, which is not in `src/`. `VersionedStore`
     records the duplicate rather than forbidding it, and no property
     calls it wrong.
