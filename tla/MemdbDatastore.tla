--------------------------- MODULE MemdbDatastore ---------------------------
(***************************************************************************)
(* The in-memory datastore (internal/datastore/memdb, src/unnamed/part_000 *)
(* lines 276-538): multi-version tuple rows and the changelog whose ids    *)
(* are the revisions.  A row is live from its createdTxn up to (excluding) *)
(* its deletedTxn; a write never edits a row in place except to set the    *)
(* deletedTxn of the live version it supersedes.                           *)
(*                                                                         *)
(* Rows are keyed by (tuple, createdTxn): WriteTuples inserts the deleted  *)
(* copy of an existing row and a new version as two rows, which go-memdb   *)
(* keeps apart only if createdTxn is part of the table's id index.         *)
(***************************************************************************)
EXTENDS Integers, Sequences, SequencesExt, FiniteSets

CONSTANTS
  AllTuples,     \* every tuple a client may write, in the tuple index order
  MaxRevision,   \* bound on the number of committed writes
  MaxTime,       \* bound on the clock
  FuzzWindow,    \* revisionFuzzingTimedelta, in clock ticks
  GcWindow,      \* the GC window (gcWindowInverted = -GcWindow), in ticks
  Preconditions, \* candidate write preconditions (sets of tuples)
  Mutations      \* candidate mutation sequences of a write

VARIABLES
  rows,          \* set of [t, created, deleted]: the tuple table
  changelog,     \* sequence of [id, timestamp]: the changelog table
  now            \* the wall clock

storeVars == <<rows, changelog, now>>

(* deletedTransactionID = ^uint64(0): above every revision that occurs.  *)
DeletedTransactionID == MaxRevision + 1

NoRevision == 0

Ops == {"CREATE", "DELETE", "TOUCH"}

LastChangelogID == IF changelog = <<>> THEN NoRevision ELSE Last(changelog).id

(* Mutant: findTuple without the deletedTransactionID key, so a retired  *)
(* version counts as the live one.                                        *)
LiveRowsAnyVersion(rs, t) == {r \in rs : r.t = t}

(* findTuple: the live row of t (indexLive with deletedTransactionID).   *)
LiveRows(rs, t) == {r \in rs : r.t = t /\ r.deleted = DeletedTransactionID}

(* txn.Insert: replaces the row with the same id, i.e. (t, created).     *)
Insert(rs, row) ==
  {r \in rs : ~(r.t = row.t /\ r.created = row.created)} \cup {row}

(* Mutant: the superseded row is retired one revision early.             *)
ApplyMutationEarlyDelete(rs, m, id) ==
  LET existing == LiveRows(rs, m.t)
      old      == CHOOSE r \in existing : \A o \in existing : r.created <= o.created
      newRow   == [t |-> m.t, created |-> id, deleted |-> DeletedTransactionID]
      deleted  == IF existing = {} THEN rs
                  ELSE Insert(rs, [old EXCEPT !.deleted = id - 1])
  IN  CASE m.op = "CREATE" -> Insert(rs, newRow)
        [] m.op = "DELETE" -> deleted
        [] m.op = "TOUCH"  -> Insert(deleted, newRow)

(* One mutation of WriteTuples' loop, against the transaction's rows.    *)
ApplyMutation(rs, m, id) ==
  LET existing  == LiveRows(rs, m.t)
      old       == CHOOSE r \in existing : \A o \in existing : r.created <= o.created
      newRow    == [t |-> m.t, created |-> id, deleted |-> DeletedTransactionID]
      deleted   == IF existing = {} THEN rs
                   ELSE Insert(rs, [old EXCEPT !.deleted = id])
  IN  CASE m.op = "CREATE" -> Insert(rs, newRow)
        [] m.op = "DELETE" -> deleted
        [] m.op = "TOUCH"  -> Insert(deleted, newRow)

(* Mutant: the next id skips one.                                         *)
NextChangelogIDSkip == LastChangelogID + 2

(* nextTupleChangelogID: one past the last id, or 1.                     *)
NextChangelogID == LastChangelogID + 1

(* WriteTuples: every precondition must have a live row, else the        *)
(* transaction aborts; otherwise a changelog entry stamped with the      *)
(* clock is added and the mutations are applied in order.                *)
PreconditionsHold(pre) == \A t \in pre : LiveRows(rows, t) # {}

(* Mutant: findTuple reads the rows as they were before the transaction, *)
(* so a mutation does not see what earlier mutations of the write did.    *)
WriteTuplesStaleFind(pre, muts) ==
  LET id == NextChangelogID
      Stale(rs, m) ==
        LET existing == LiveRows(rows, m.t)
            old      == CHOOSE r \in existing : \A o \in existing : r.created <= o.created
            newRow   == [t |-> m.t, created |-> id, deleted |-> DeletedTransactionID]
            deleted  == IF existing = {} THEN rs ELSE Insert(rs, [old EXCEPT !.deleted = id])
        IN  CASE m.op = "CREATE" -> Insert(rs, newRow)
              [] m.op = "DELETE" -> deleted
              [] m.op = "TOUCH"  -> Insert(deleted, newRow)
  IN  /\ PreconditionsHold(pre)
      /\ changelog' = Append(changelog, [id |-> id, timestamp |-> now])
      /\ rows' = FoldLeft(Stale, rows, muts)
      /\ UNCHANGED now

WriteTuples(pre, muts) ==
  /\ PreconditionsHold(pre)
  /\ changelog' = Append(changelog, [id |-> NextChangelogID, timestamp |-> now])
  /\ rows' = FoldLeft(LAMBDA rs, m : ApplyMutation(rs, m, NextChangelogID), rows, muts)
  /\ UNCHANGED now

(* A memdbTupleQuery executed at revision rev: the rows live at rev, in  *)
(* index order, one entry per live row.                                  *)
VisibleAt(rs, rev) == {r \in rs : r.created <= rev /\ rev < r.deleted}

(* Mutant: the query drops its revision and reads the live rows.          *)
QueryAtLatest(rev) ==
  FlattenSeq([i \in 1..Len(AllTuples) |->
    LET n == Cardinality(LiveRows(rows, AllTuples[i]))
    IN  [j \in 1..n |-> AllTuples[i]]])

QueryAt(rev) ==
  FlattenSeq([i \in 1..Len(AllTuples) |->
    LET n == Cardinality({r \in VisibleAt(rows, rev) : r.t = AllTuples[i]})
    IN  [j \in 1..n |-> AllTuples[i]]])

(* Mutant: one past the last changelog id.                                *)
SyncRevisionAhead == LastChangelogID + 1

(* SyncRevision: the last changelog id, or NoRevision.                   *)
SyncRevision == LastChangelogID

(* Revision: any changelog id stamped within the fuzzing window (picked  *)
(* with rand.Intn), else SyncRevision.                                   *)
Revision ==
  LET candidates == {changelog[i].id : i \in {i \in DOMAIN changelog :
                       changelog[i].timestamp >= now - FuzzWindow}}
  IN  IF candidates # {} THEN candidates ELSE {SyncRevision}

(* Mutant: revisions past the last changelog id are not refused.          *)
CheckRevisionNoFuture(rev) ==
  LET valid == {i \in DOMAIN changelog : changelog[i].timestamp >= now - GcWindow}
      first == IF valid = {} THEN 0 ELSE changelog[Min(valid)].id
  IN  CASE changelog = <<>>                      -> "CouldNotDetermineRevision"
        [] valid = {} /\ rev # LastChangelogID   -> "RevisionStale"
        [] valid # {} /\ rev < first             -> "RevisionStale"
        [] OTHER                                 -> "ok"

(* CheckRevision: "ok", or the reason the revision is invalid.           *)
CheckRevision(rev) ==
  LET valid == {i \in DOMAIN changelog : changelog[i].timestamp >= now - GcWindow}
      first == IF valid = {} THEN 0 ELSE changelog[Min(valid)].id
  IN  CASE changelog = <<>>                      -> "CouldNotDetermineRevision"
        [] rev > LastChangelogID                 -> "RevisionInFuture"
        [] valid = {} /\ rev # LastChangelogID   -> "RevisionStale"
        [] valid # {} /\ rev < first             -> "RevisionStale"
        [] OTHER                                 -> "ok"

(* Time passes (time.Now() in WriteTuples, Revision, CheckRevision).     *)
Tick ==
  /\ now < MaxTime
  /\ now' = now + 1
  /\ UNCHANGED <<rows, changelog>>

StoreInit ==
  /\ rows = {}
  /\ changelog = <<>>
  /\ now = 0

(* A client's WriteTuples, within the bound on revisions.                *)
StoreWrite(pre, muts) ==
  /\ LastChangelogID < MaxRevision
  /\ WriteTuples(pre, muts)

(* The datastore on its own: any client's WriteTuples, and the clock.    *)
StoreNext ==
  \/ \E pre \in Preconditions, muts \in Mutations : StoreWrite(pre, muts)
  \/ Tick

StoreSpec == StoreInit /\ [][StoreNext]_storeVars

=============================================================================
