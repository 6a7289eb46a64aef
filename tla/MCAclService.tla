---------------------------- MODULE MCAclService ----------------------------
(* One relation doc#viewer with two possible viewers; clients write,      *)
(* read and expand doc:d#viewer at zookies up to one past MaxRevision.    *)
EXTENDS AclService

Viewer == <<"doc", "d", "viewer">>

TupleA == [object |-> Viewer, user |-> <<"user", "a", "...">>]
TupleB == [object |-> Viewer, user |-> <<"user", "b", "...">>]

MCAllTuples == <<TupleA, TupleB>>

MCGoal == TupleA.user

MCRelations == {<<"doc", "viewer">>}

MCRewrites == [r \in {} |-> {}]

(* A Write touches, creates or deletes one tuple, or touches A and       *)
(* deletes B in one transaction; it may require A to be live.            *)
MCMutations ==
  {<<[op |-> o, t |-> t]>> : o \in Ops, t \in {TupleA, TupleB}}
  \cup {<<[op |-> "TOUCH", t |-> TupleA], [op |-> "DELETE", t |-> TupleB]>>}

MCPreconditions == {{}, {TupleA}}

(* No header, a non-integer, out-of-range values, a valid one, and two.  *)
MCHeaders == {<<>>, <<NotANumber>>, <<0>>, <<70000>>, <<5>>, <<5, 5>>}

(* Two documents Goal can view; clients ask for no limit (the default),  *)
(* for one object, and for more than the maximum.                         *)
TupleE == [object |-> <<"doc", "e", "viewer">>, user |-> MCGoal]

LookupTuples == <<TupleA, TupleE>>

LookupMutations == {<<[op |-> o, t |-> t]>> : o \in Ops, t \in {TupleA, TupleE}}

LookupPreconditions == {{}}

(* Headers only gate the request; the other runs cover their values.    *)
LookupHeaders == {<<>>}

MCLookupLimits == {0, 1, 150}

=============================================================================
