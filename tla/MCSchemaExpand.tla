--------------------------- MODULE MCSchemaExpand ---------------------------
(* A schema with a user definition and a doc definition whose relations   *)
(* reader, writer and parent are fixed and whose permission view ranges   *)
(* over DSL expressions of up to two binary operators, arrows included,   *)
(* and the nested arrows translate refuses.                               *)
EXTENDS SchemaExpand, FiniteSets

MCPrefix == "tenant"

DocNS  == NamespacePath(MCPrefix, "doc")
UserNS == NamespacePath(MCPrefix, "user")

Id(r)            == [type |-> "identifier", value |-> r]
Bin(op, l, r)    == [type |-> op, left |-> l, right |-> r]
SpecificRef(p, r) == [type |-> "specific", path |-> p, relation |-> r]
RelationNode(n, types) == [type |-> "relation", name |-> n, types |-> types]

(* relation reader: user;  relation writer: user | acme/user;            *)
(* relation parent: doc                                                   *)
DocRelations ==
  <<RelationNode("reader", <<SpecificRef(<<"user">>, "")>>),
    RelationNode("writer", <<[type |-> "typeref",
                              types |-> <<SpecificRef(<<"user">>, ""),
                                          SpecificRef(<<"acme", "user">>, "")>>]>>),
    RelationNode("parent", <<SpecificRef(<<"doc">>, "")>>)>>

Leaves ==
  {Id("reader"), Id("writer"), Bin("arrow", Id("parent"), Id("reader")),
   Bin("arrow", Bin("arrow", Id("parent"), Id("parent")), Id("reader")),
   Bin("arrow", Id("parent"), Bin("union", Id("reader"), Id("writer")))}

OneOp == Leaves \cup {Bin(op, l, r) : op \in ExprOps, l \in Leaves, r \in Leaves}

Exprs ==
  OneOp \cup {Bin(op, l, r) : op \in ExprOps, l \in OneOp, r \in Leaves}
        \cup {Bin(op, l, r) : op \in ExprOps, l \in Leaves, r \in OneOp}

SchemaWith(e) ==
  <<[type |-> "definition", name |-> "user", children |-> <<>>],
    [type |-> "definition", name |-> "doc",
     children |-> DocRelations \o <<[type |-> "permission", name |-> "view", expr |-> e]>>]>>

MCSchemas == {SchemaWith(e) : e \in Exprs}

Tpl(obj, rel, user) == [object |-> <<DocNS, obj, rel>>, user |-> user]
U(name) == <<UserNS, name, Ellipsis>>
Doc(obj) == <<DocNS, obj, Ellipsis>>

MCTupleSets ==
  {<<Tpl("1", "reader", U("a")), Tpl("1", "writer", U("a")), Tpl("1", "writer", U("b")),
     Tpl("1", "parent", Doc("2")), Tpl("2", "reader", U("b")), Tpl("2", "reader", U("c"))>>,
   <<Tpl("1", "reader", U("b")), Tpl("1", "parent", Doc("2")),
     Tpl("2", "reader", U("a")), Tpl("2", "writer", U("c"))>>}

MCStart == <<DocNS, "1", "view">>

-----------------------------------------------------------------------------
(* What a DSL expression means: the users it grants on a doc, from the    *)
(* tuples, with a relation meaning its tuples' users and a permission its *)
(* expression; an arrow is the union over the tupleset's users.           *)
ViewExpr == root[2].children[4].expr

TupleUsers(obj, rel) == {t.user : t \in {t \in ToSet(tuples) : t.object = <<DocNS, obj, rel>>}}

RECURSIVE ExprMeaning(_, _)
ExprMeaning(obj, e) ==
  CASE e.type = "identifier"   -> TupleUsers(obj, e.value)
    [] e.type = "arrow"        -> UNION {TupleUsers(u[2], e.right.value) : u \in TupleUsers(obj, e.left.value)}
    [] e.type = "union"        -> ExprMeaning(obj, e.left) \cup ExprMeaning(obj, e.right)
    [] e.type = "intersection" -> ExprMeaning(obj, e.left) \cap ExprMeaning(obj, e.right)
    [] e.type = "exclusion"    -> ExprMeaning(obj, e.left) \ ExprMeaning(obj, e.right)

(* The users a tree grants: a leaf its users; union, intersection and     *)
(* exclusion (the first child minus the others) of the children.          *)
RECURSIVE TreeUsers(_)
TreeUsers(tree) ==
  IF tree.type = "leaf" THEN ToSet(tree.users)
  ELSE LET kids == {TreeUsers(tree.children[i]) : i \in 1..Len(tree.children)}
           first == TreeUsers(tree.children[1])
           rest  == {TreeUsers(tree.children[i]) : i \in 2..Len(tree.children)}
       IN  CASE tree.op = "union"        -> UNION kids
             [] tree.op = "intersection" -> {u \in first : \A k \in kids : u \in k}
             [] tree.op = "exclusion"    -> first \ UNION rest

RECURSIVE BadArrow(_)
BadArrow(e) ==
  CASE e.type = "identifier" -> FALSE
    [] e.type = "arrow"      -> e.left.type # "identifier" \/ e.right.type # "identifier"
    [] OTHER                 -> BadArrow(e.left) \/ BadArrow(e.right)

-----------------------------------------------------------------------------
TypeOK ==
  /\ compiled = NoResult \/ compiled.ok \in BOOLEAN
  /\ compiled # NoResult /\ compiled.ok =>
       /\ Len(compiled.val) = Len(root)
       /\ \A p \in Definitions(compiled.val) :
            \A i \in DOMAIN p[2].types : Len(p[2].types[i].namespace) = 2
  /\ result = NoResult \/ result.type \in {"leaf", "node", "error"}

(* translate refuses a schema exactly when its permission has an arrow   *)
(* whose side is not an identifier, wherever the arrow is nested: every   *)
(* translate* call returns its operands' first error.                     *)
NestedArrowRejected ==
  compiled # NoResult => (compiled.ok <=> ~BadArrow(ViewExpr))

(* Expanding the translated permission grants exactly the users the DSL   *)
(* expression means: the set operations, their operand order (exclusion), *)
(* computed usersets and arrows survive translation and expansion.         *)
ExpandMatchesSchemaMeaning ==
  result # NoResult =>
    /\ ~Loaded!IsError(result)
    /\ TreeUsers(result) = ExprMeaning("1", ViewExpr)

=============================================================================
