--------------------------- MODULE VersionedStore ---------------------------
(***************************************************************************)
(* What the tuple datastore promises its clients (datastore.Datastore):   *)
(* revision i names the tuples stored after the i-th committed write, a    *)
(* write applies all its mutations at once at the next revision, and the   *)
(* preconditions of a write are checked against the latest revision.      *)
(* A snapshot counts how many times each tuple is stored.  A write makes   *)
(* at most one new version of a tuple: CREATE adds a copy unless the      *)
(* write already made one, DELETE removes the oldest copy if there is     *)
(* one, and TOUCH replaces the oldest copy by the write's own version.    *)
(* written is the last write committed, so a commit is tied to the       *)
(* preconditions and mutations of the write that made it.                *)
(***************************************************************************)
EXTENDS Naturals, Sequences, SequencesExt

CONSTANTS
  AllTuples,       \* every tuple a client may write
  Preconditions,   \* candidate write preconditions (sets of tuples)
  Mutations,       \* candidate mutation sequences of a write
  MaxRevision      \* bound on the number of committed writes

VARIABLES
  history,         \* history[i]: the snapshot at revision i
  written          \* [pre, muts] of the last committed write

NoWrite == [pre |-> {}, muts |-> <<>>]

Empty == [t \in ToSet(AllTuples) |-> 0]

(* The snapshot a read at revision rev returns; revision 0 is empty.      *)
SnapshotAt(rev) == IF rev = 0 THEN Empty ELSE history[rev]

Latest == SnapshotAt(Len(history))

(* One mutation applied to [snap, made]: made holds the tuples that have  *)
(* a live version this write made, the newest copy of each.               *)
Effect(acc, m) ==
  LET n    == acc.snap[m.t]
      mine == m.t \in acc.made
      Set(k, md) == [snap |-> [acc.snap EXCEPT ![m.t] = k], made |-> md]
  IN  CASE m.op = "CREATE" -> IF mine THEN acc ELSE Set(n + 1, acc.made \cup {m.t})
        [] m.op = "DELETE" -> IF n = 0 THEN acc
                              ELSE Set(n - 1, IF n = 1 THEN acc.made \ {m.t} ELSE acc.made)
        [] m.op = "TOUCH"  -> IF mine /\ n >= 2 THEN Set(n - 1, acc.made)
                              ELSE Set(IF n = 0 THEN 1 ELSE n, acc.made \cup {m.t})

Apply(snap, muts) == FoldLeft(Effect, [snap |-> snap, made |-> {}], muts).snap

(* A write whose preconditions are all stored commits one new revision.   *)
Commit(pre, muts) ==
  /\ Len(history) < MaxRevision
  /\ \A t \in pre : Latest[t] > 0
  /\ history' = Append(history, Apply(Latest, muts))
  /\ written' = [pre |-> pre, muts |-> muts]

Init == history = <<>> /\ written = NoWrite

Next == \E pre \in Preconditions, muts \in Mutations : Commit(pre, muts)

Spec == Init /\ [][Next]_<<history, written>>

=============================================================================
