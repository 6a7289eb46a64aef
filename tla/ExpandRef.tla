----------------------------- MODULE ExpandRef -----------------------------
(***************************************************************************)
(* The result an expansion of internal/graph/expand.go produces, written   *)
(* as a sequential recursive function of the request.  The concurrent       *)
(* expander (ConcurrentExpand) runs the same closures as goroutines; this  *)
(* module fixes what the tree must be once every goroutine has reported:   *)
(* the reducer awaits children in list order, so the first failing child   *)
(* in that order decides the error, and children appear in rewrite order.  *)
(*                                                                         *)
(* Data is abstracted: an ONR is a triple <<namespace, object, relation>>, *)
(* a tuple is [object |-> ONR, user |-> ONR], and the datastore at the     *)
(* pinned revision is the sequence Tuples, in query iteration order.  The  *)
(* argument `fails` is the set of <<ns, obj, rel>> whose query errors.     *)
(***************************************************************************)
EXTENDS Integers, Sequences, SequencesExt

CONSTANTS
  Relations,     \* set of <<namespace, relation>> the namespace manager knows
  Rewrites,      \* function from the relations that have a userset rewrite to it
  Tuples,        \* sequence of tuples live at the request revision
  Mode           \* "shallow" or "recursive" (ExpansionMode)

Ellipsis == "..."

(* A rewrite is [op |-> "union" | "intersection" | "exclusion",           *)
(* child |-> <<child, ...>>]; a child is one of                            *)
(*   [type |-> "this"]                                                     *)
(*   [type |-> "computed", relation |-> r, object |-> o]                   *)
(*   [type |-> "rewrite", rewrite |-> rw]                                  *)
(*   [type |-> "ttu", tupleset |-> r1, computed |-> r2, object |-> o]      *)
(* where o, the ComputedUserset's Object, is "tupleObject" (TUPLE_OBJECT) *)
(* or "tuplesetObject" (TUPLE_USERSET_OBJECT).                             *)

(* The label of a leaf produced by a _this arm: Expanded is nil.            *)
NoLabel == <<>>

Leaf(expanded, users) == [type |-> "leaf", expanded |-> expanded, users |-> users]

Node(op, expanded, children) ==
  [type |-> "node", op |-> op, expanded |-> expanded, children |-> children]

NoResult == [type |-> "none"]

Err(kind, at) == [type |-> "error", kind |-> kind, at |-> at]

IsError(r) == r.type = "error"

(* QueryTuples(ns, rev).WithObjectID(obj).WithRelation(rel): the user of  *)
(* every tuple on that object and relation, in iteration order.            *)
QueryUsers(onr) ==
  LET hits == SelectSeq(Tuples, LAMBDA t : t.object = onr)
  IN  [i \in 1..Len(hits) |-> hits[i].user]

IsTerminal(u) == u[3] = Ellipsis

(* The Users of the leaf: terminal usersets first, then non-terminal ones. *)
DirectUsers(users) ==
  SelectSeq(users, IsTerminal) \o SelectSeq(users, LAMBDA u : ~IsTerminal(u))

NonTerminals(users) == SelectSeq(users, LAMBDA u : ~IsTerminal(u))

LabelFor(start, inclusion) == IF inclusion = "include" THEN start ELSE NoLabel

(* expandSetOperation (the reducer): the first error in list order, else  *)
(* an intermediate node holding every child tree in list order.            *)
ReduceRef(op, start, results) ==
  LET i == SelectInSeq(results, IsError)
  IN  IF i > 0 THEN results[i] ELSE Node(op, start, results)

(* expandComputedUserset with TUPLE_OBJECT (no tuple): same object.       *)
ComputedStart(start, relation) == <<start[1], start[2], relation>>

(* expandComputedUserset with TUPLE_USERSET_OBJECT: the tuple's user.      *)
TupleUsersetStart(user, relation) == <<user[1], user[2], relation>>

(* expandComputedUserset called for a tuple of the tupleset: TUPLE_OBJECT *)
(* takes the tuple's object, which is the request's object.              *)
TupleComputedStart(start, user, ttu) ==
  IF ttu.object = "tupleObject" THEN ComputedStart(start, ttu.computed)
  ELSE TupleUsersetStart(user, ttu.computed)

(* A computed child in TUPLE_USERSET_OBJECT mode has no tuple to follow.  *)
(* expand.go panics there (see ConcurrentExpand); this reference gives    *)
(* the answer spec.md section 4.4.3 asks for, a fatal AlwaysFail error.   *)
NeedsTuple(c) == c.type = "computed" /\ c.object = "tuplesetObject"

RECURSIVE DispatchRef(_, _, _), DirectRef(_, _, _, _), RewriteRef(_, _, _, _),
          ChildRef(_, _, _, _), TtuRef(_, _, _, _)

(* The local dispatcher: depth guard, relation lookup, then expand().     *)
DispatchRef(fails, start, depth) ==
  IF depth = 0 THEN Err("MaxDepthExceeded", start)
  ELSE IF <<start[1], start[3]>> \notin Relations THEN Err("UnknownRelation", start)
  ELSE IF <<start[1], start[3]>> \in DOMAIN Rewrites
       THEN RewriteRef(fails, start, depth, Rewrites[<<start[1], start[3]>>])
       ELSE DirectRef(fails, start, depth, "include")

DirectRef(fails, start, depth, inclusion) ==
  IF start \in fails THEN Err("ExpansionFailure", start)
  ELSE
    LET users == QueryUsers(start)
        nts   == NonTerminals(users)
        leaf  == Leaf(LabelFor(start, inclusion), DirectUsers(users))
        union == ReduceRef("union", start,
                   [i \in 1..Len(nts) |-> DispatchRef(fails, nts[i], depth - 1)])
    IN  IF Mode # "recursive" \/ nts = <<>> THEN leaf
        ELSE IF IsError(union) THEN union
        ELSE [union EXCEPT !.children = Append(@, leaf)]

RewriteRef(fails, start, depth, rw) ==
  ReduceRef(rw.op, start, [i \in 1..Len(rw.child) |-> ChildRef(fails, start, depth, rw.child[i])])

ChildRef(fails, start, depth, c) ==
  CASE c.type = "this"     -> DirectRef(fails, start, depth, "exclude")
    [] NeedsTuple(c)       -> Err("AlwaysFail", start)
    [] c.type = "computed" /\ ~NeedsTuple(c) ->
                              DispatchRef(fails, ComputedStart(start, c.relation), depth - 1)
    [] c.type = "rewrite"  -> RewriteRef(fails, start, depth, c.rewrite)
    [] c.type = "ttu"      -> TtuRef(fails, start, depth, c)

TtuRef(fails, start, depth, ttu) ==
  LET key  == <<start[1], start[2], ttu.tupleset>>
      tpls == QueryUsers(key)
  IN  IF key \in fails THEN Err("ExpansionFailure", key)
      ELSE ReduceRef("union", start,
             [i \in 1..Len(tpls) |->
                DispatchRef(fails, TupleComputedStart(start, tpls[i], ttu), depth - 1)])

=============================================================================
