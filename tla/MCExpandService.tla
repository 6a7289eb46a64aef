--------------------------- MODULE MCExpandService ---------------------------
(* doc#viewer = _this + owner: a shallow Expand of doc:d#viewer runs two   *)
(* goroutines that query, one the viewer tuples and one (after a dispatch) *)
(* the owner tuples.  Writes create, touch or delete one of two tuples,    *)
(* one of each relation, so two writes can change both between the two    *)
(* queries.  Two requests let two answers be compared.                    *)
EXTENDS ExpandService

Viewer == <<"doc", "d", "viewer">>

ViewerTuple == [object |-> Viewer, user |-> <<"user", "a", "...">>]
OwnerTuple  == [object |-> <<"doc", "d", "owner">>, user |-> <<"user", "b", "...">>]

MCAllTuples == <<ViewerTuple, OwnerTuple>>

MCMutations == {<<[op |-> o, t |-> t]>> : o \in Ops, t \in {ViewerTuple, OwnerTuple}}

MCPreconditions == {{}}

MCRelations == {<<"doc", "viewer">>, <<"doc", "owner">>}

MCRewrites ==
  [r \in {<<"doc", "viewer">>} |->
     [op |-> "union",
      child |-> <<[type |-> "this"],
                  [type |-> "computed", relation |-> "owner", object |-> "tupleObject"]>>]]

MCStarts == {Viewer}

(* No header (the default depth), a depth of 1, which runs out at the    *)
(* computed userset, and 65536, which calculateRequestDepth refuses.      *)
MCHeaders == {<<>>, <<1>>, <<65536>>}

=============================================================================
