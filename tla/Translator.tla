----------------------------- MODULE Translator -----------------------------
(***************************************************************************)
(* The schema DSL translator (pkg/schemadsl/compiler/translator.go): from  *)
(* the parsed DSL tree to namespace definitions.  Every translate* function *)
(* is an operator that returns Ok(value) or Fail(node); a loop over        *)
(* children returns the first failure in child order.                      *)
(*                                                                         *)
(* DSL nodes are records:                                                  *)
(*   [type |-> "definition", name, children]                               *)
(*   [type |-> "relation", name, types]    (types: type-reference nodes)   *)
(*   [type |-> "permission", name, expr]                                   *)
(*   [type |-> "identifier", value]                                        *)
(*   [type |-> "arrow" | "union" | "intersection" | "exclusion",          *)
(*    left, right]                                                         *)
(*   [type |-> "typeref", types]                                           *)
(*   [type |-> "specific", path, relation]  (relation "" when absent)      *)
(* A type path is the sequence of its "/"-separated segments, and a       *)
(* namespace name is the sequence of the segments of the formatted name.  *)
(* The rewrites produced have the shape ExpandRef consumes.                *)
(***************************************************************************)
EXTENDS Integers, Sequences, SequencesExt

Ellipsis == "..."

NoValue == <<>>

Ok(v) == [ok |-> TRUE, val |-> v, err |-> NoValue]

Fail(node) == [ok |-> FALSE, val |-> NoValue, err |-> node]

(* The first failure of a sequence of results, or Ok of their values.    *)
Collect(results) ==
  LET i == SelectInSeq(results, LAMBDA r : ~r.ok)
  IN  IF i > 0 THEN results[i] ELSE Ok([j \in 1..Len(results) |-> results[j].val])

(* Collect, concatenating the values (append(xs, ys...)).                *)
CollectFlat(results) ==
  LET c == Collect(results)
  IN  IF c.ok THEN Ok(FlattenSeq(c.val)) ELSE c

(* translationContext.NamespacePath                                       *)
NamespacePath(prefix, name) == <<prefix, name>>

(* namespace.Union / Intersection / Exclusion and the child builders.     *)
SetOp(op, children) == [op |-> op, child |-> children]

ExprOps == {"union", "intersection", "exclusion"}

RECURSIVE TranslateExpression(_), TranslateExpressionOperation(_),
          TranslateTypeReference(_, _)

(* Mutant: the operands come out in the opposite order.                 *)
TranslateBinaryReversed(node) ==
  Collect(<<TranslateExpressionOperation(node.right),
            TranslateExpressionOperation(node.left)>>)

(* Mutant: the right operand's error is not checked.                    *)
TranslateBinaryLeftOnly(node) ==
  LET l == TranslateExpressionOperation(node.left)
      r == TranslateExpressionOperation(node.right)
  IN  IF l.ok THEN Ok(<<l.val, r.val>>) ELSE l

(* translateBinary: the left operand, then the right one.                 *)
TranslateBinary(node) ==
  Collect(<<TranslateExpressionOperation(node.left),
            TranslateExpressionOperation(node.right)>>)

(* translateExpression: a binary node gives that set operation over its  *)
(* two operands; any other node is the only child of a union.             *)
TranslateExpression(node) ==
  LET ops == IF node.type \in ExprOps THEN TranslateBinary(node)
             ELSE Collect(<<TranslateExpressionOperation(node)>>)
      op  == IF node.type \in ExprOps THEN node.type ELSE "union"
  IN  IF ops.ok THEN Ok(SetOp(op, ops.val)) ELSE ops

(* namespace.ComputedUserset: a computed userset on the same object       *)
(* (Object TUPLE_OBJECT); namespace.TupleToUserset: a tupleset whose       *)
(* computed userset follows the tuple's user (TUPLE_USERSET_OBJECT).       *)
ComputedUserset(relation) ==
  [type |-> "computed", relation |-> relation, object |-> "tupleObject"]

TupleToUserset(tupleset, relation) ==
  [type |-> "ttu", tupleset |-> tupleset, computed |-> relation,
   object |-> "tuplesetObject"]

(* translateExpressionOperation: an identifier is a computed userset, an  *)
(* arrow a tuple-to-userset (its left side must be an identifier), and a  *)
(* nested set expression a child rewrite.                                 *)
TranslateExpressionOperation(node) ==
  CASE node.type = "identifier" ->
         Ok(ComputedUserset(node.value))
    [] node.type = "arrow" /\ node.left.type # "identifier" ->
         Fail(node.left)
    [] node.type = "arrow" /\ node.right.type # "identifier" ->
         Fail(node.right)
    [] node.type = "arrow" ->
         Ok(TupleToUserset(node.left.value, node.right.value))
    [] node.type \in ExprOps ->
         LET rw == TranslateExpression(node)
         IN  IF rw.ok THEN Ok([type |-> "rewrite", rewrite |-> rw.val]) ELSE rw
    [] OTHER -> Fail(node)

(* Mutant: the context's prefix is put before every path.              *)
TranslateSpecificTypeReferenceAlwaysPrefix(prefix, node) ==
  [namespace |-> <<prefix>> \o node.path,
   relation  |-> IF node.relation = "" THEN Ellipsis ELSE node.relation]

(* translateSpecificTypeReference: a path of exactly two segments names   *)
(* its own prefix; any other is put under the context's prefix; the       *)
(* relation defaults to the ellipsis.                                     *)
TranslateSpecificTypeReference(prefix, node) ==
  LET ns == IF Len(node.path) = 2 THEN node.path ELSE <<prefix>> \o node.path
  IN  [namespace |-> ns,
       relation  |-> IF node.relation = "" THEN Ellipsis ELSE node.relation]

(* translateTypeReference: a type reference is the concatenation of its   *)
(* specific references, in order.                                         *)
TranslateTypeReference(prefix, node) ==
  CASE node.type = "typeref" ->
         CollectFlat([i \in 1..Len(node.types) |->
           TranslateTypeReference(prefix, node.types[i])])
    [] node.type = "specific" ->
         Ok(<<TranslateSpecificTypeReference(prefix, node)>>)
    [] OTHER -> Fail(node)

(* namespace.Relation(name, rewrite, types...); NoRewrite is nil.          *)
NoRewrite == [op |-> "none", child |-> <<>>]

Relation(name, rewrite, types) == [name |-> name, rewrite |-> rewrite, types |-> types]

(* translateRelation: a relation has no rewrite and its allowed types.    *)
TranslateRelation(prefix, node) ==
  LET types == CollectFlat([i \in 1..Len(node.types) |->
                 TranslateTypeReference(prefix, node.types[i])])
  IN  IF types.ok THEN Ok(Relation(node.name, NoRewrite, types.val)) ELSE types

(* translatePermission: a permission is its expression's rewrite.         *)
TranslatePermission(node) ==
  LET rw == TranslateExpression(node.expr)
  IN  IF rw.ok THEN Ok(Relation(node.name, rw.val, <<>>)) ELSE rw

TranslateRelationOrPermission(prefix, node) ==
  CASE node.type = "relation"   -> TranslateRelation(prefix, node)
    [] node.type = "permission" -> TranslatePermission(node)
    [] OTHER                    -> Fail(node)

(* translateDefinition: namespace.Namespace(path, relations...).          *)
TranslateDefinition(prefix, node) ==
  LET rels == Collect([i \in 1..Len(node.children) |->
                TranslateRelationOrPermission(prefix, node.children[i])])
  IN  IF rels.ok
      THEN Ok([name |-> NamespacePath(prefix, node.name), relation |-> rels.val])
      ELSE rels

(* translate: every definition in order; the first failure aborts.        *)
Translate(prefix, root) ==
  Collect([i \in 1..Len(root) |-> TranslateDefinition(prefix, root[i])])

=============================================================================
