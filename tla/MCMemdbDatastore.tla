-------------------------- MODULE MCMemdbDatastore --------------------------
(***************************************************************************)
(* The memdb datastore on its own, shown to implement VersionedStore: the  *)
(* snapshot at revision i is what a query at i returns, for every i up to  *)
(* the last changelog id.  The history variable written records the      *)
(* preconditions and mutations of the last committed WriteTuples, so each  *)
(* abstract commit is the one of the write that made the revision.        *)
(***************************************************************************)
EXTENDS MemdbDatastore

VARIABLE written

Viewer == <<"doc", "d", "viewer">>

TupleA == [object |-> Viewer, user |-> <<"user", "a", "...">>]
TupleB == [object |-> Viewer, user |-> <<"user", "b", "...">>]

MCAllTuples == <<TupleA, TupleB>>

(* Every single mutation, and two mutations of one transaction on the     *)
(* same tuple (the second sees the first's rows) or on both tuples.       *)
MCMutations ==
  {<<[op |-> o, t |-> TupleA]>> : o \in Ops}
  \cup {<<[op |-> o1, t |-> TupleA], [op |-> o2, t |-> TupleA]>> : o1, o2 \in Ops}
  \cup {<<[op |-> "TOUCH", t |-> TupleA], [op |-> "DELETE", t |-> TupleB]>>,
        <<[op |-> "CREATE", t |-> TupleB]>>}

MCPreconditions == {{}, {TupleA}, {TupleB}}

(* The rows a query at rev returns, counted per tuple.                   *)
QueryCounts(rev) ==
  [t \in ToSet(AllTuples) |-> Cardinality({r \in VisibleAt(rows, rev) : r.t = t})]

(* StoreSpec with the history variable: it changes only on a commit.      *)
HistInit == StoreInit /\ written = [pre |-> {}, muts |-> <<>>]

HistNext ==
  \/ \E pre \in Preconditions, muts \in Mutations :
       StoreWrite(pre, muts) /\ written' = [pre |-> pre, muts |-> muts]
  \/ Tick /\ UNCHANGED written

HistSpec == HistInit /\ [][HistNext]_<<storeVars, written>>

Abstract == INSTANCE VersionedStore
              WITH history <- [i \in 1..LastChangelogID |-> QueryCounts(i)],
                   written <- written

(* WriteTuples implements an append-only history of snapshots: each       *)
(* committed transaction adds exactly the next revision, holding the      *)
(* previous one with that transaction's own mutations applied in order    *)
(* (each findTuple seeing the rows the earlier ones wrote) and only if    *)
(* its own preconditions hold at the latest revision, and no write or     *)
(* clock step changes what an earlier revision's query returns.           *)
ImplementsVersionedStore == Abstract!Spec

=============================================================================
