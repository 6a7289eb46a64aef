------------------------- MODULE MCConcurrentExpand -------------------------
(***************************************************************************)
(* The folder/document fixture of internal/graph/expand_test.go           *)
(* (src/unnamed/part_000) bound to ConcurrentExpand.  The ASSUMEs check   *)
(* that ExpandRef yields, for the fixture, exactly the trees TestExpand   *)
(* and TestMaxDepthExpand expect, so the reference the concurrent model   *)
(* is compared with agrees with the repository's own tests.               *)
(***************************************************************************)
EXTENDS ConcurrentExpand

F(obj, rel) == <<"folder", obj, rel>>
D(obj, rel) == <<"document", obj, rel>>
Usr(name)   == <<"user", name, Ellipsis>>

(* folder and document: editor = _this + owner,                          *)
(*                      viewer = _this + editor + parent->viewer         *)
FixtureRelations ==
  {<<ns, rel>> : ns \in {"folder", "document"},
                 rel \in {"owner", "editor", "viewer", "parent"}}

(* namespace.ComputedUserset and namespace.TupleToUserset, as the test    *)
(* builds its namespaces with them.                                       *)
Computed(r) == [type |-> "computed", relation |-> r, object |-> "tupleObject"]
Arrow(ts, r) ==
  [type |-> "ttu", tupleset |-> ts, computed |-> r, object |-> "tuplesetObject"]

EditorRewrite ==
  [op |-> "union", child |-> <<[type |-> "this"],
                               Computed("owner")>>]

ViewerRewrite ==
  [op |-> "union", child |-> <<[type |-> "this"],
                               Computed("editor"),
                               Arrow("parent", "viewer")>>]

FixtureRewrites ==
  [r \in {<<ns, rel>> : ns \in {"folder", "document"}, rel \in {"editor", "viewer"}} |->
     IF r[2] = "editor" THEN EditorRewrite ELSE ViewerRewrite]

T(object, user) == [object |-> object, user |-> user]

FixtureTuples ==
  << T(F("auditors", "viewer"), Usr("auditor")),
     T(F("company", "owner"), Usr("owner")),
     T(F("company", "viewer"), Usr("legal")),
     T(F("company", "viewer"), F("auditors", "viewer")),
     T(F("plans", "viewer"), Usr("chief_financial_officer")),
     T(F("strategy", "owner"), Usr("vp_product")),
     T(F("strategy", "parent"), F("company", Ellipsis)),
     T(D("masterplan", "owner"), Usr("product_manager")),
     T(D("masterplan", "parent"), F("plans", Ellipsis)),
     T(D("masterplan", "parent"), F("strategy", Ellipsis)),
     T(D("masterplan", "viewer"), Usr("eng_lead")) >>

(* The tuple TestMaxDepthExpand writes: folder:oops is its own parent.   *)
OopsTuples == << T(F("oops", "parent"), F("oops", Ellipsis)) >>

Shallow   == INSTANCE ExpandRef WITH Relations <- FixtureRelations,
               Rewrites <- FixtureRewrites, Tuples <- FixtureTuples, Mode <- "shallow"
Recursive == INSTANCE ExpandRef WITH Relations <- FixtureRelations,
               Rewrites <- FixtureRewrites, Tuples <- FixtureTuples, Mode <- "recursive"
Oops      == INSTANCE ExpandRef WITH Relations <- FixtureRelations,
               Rewrites <- FixtureRewrites, Tuples <- OopsTuples, Mode <- "shallow"

U(e, cs) == Node("union", e, cs)
This(us) == Leaf(NoLabel, us)

companyOwner  == Leaf(F("company", "owner"), <<Usr("owner")>>)
companyEditor == U(F("company", "editor"), <<This(<<>>), companyOwner>>)
companyViewer ==
  U(F("company", "viewer"),
    <<This(<<Usr("legal"), F("auditors", "viewer")>>), companyEditor,
      U(F("company", "viewer"), <<>>)>>)
auditorsOwner  == Leaf(F("auditors", "owner"), <<>>)
auditorsEditor == U(F("auditors", "editor"), <<This(<<>>), auditorsOwner>>)
auditorsViewerRecursive ==
  U(F("auditors", "viewer"),
    <<This(<<Usr("auditor")>>), auditorsEditor, U(F("auditors", "viewer"), <<>>)>>)
companyViewerRecursive ==
  U(F("company", "viewer"),
    <<U(F("company", "viewer"),
        <<auditorsViewerRecursive, This(<<Usr("legal"), F("auditors", "viewer")>>)>>),
      companyEditor, U(F("company", "viewer"), <<>>)>>)
docOwner  == Leaf(D("masterplan", "owner"), <<Usr("product_manager")>>)
docEditor == U(D("masterplan", "editor"), <<This(<<>>), docOwner>>)
docViewer ==
  U(D("masterplan", "viewer"),
    <<This(<<Usr("eng_lead")>>), docEditor,
      U(D("masterplan", "viewer"),
        <<U(F("plans", "viewer"),
            <<This(<<Usr("chief_financial_officer")>>),
              U(F("plans", "editor"), <<This(<<>>), Leaf(F("plans", "owner"), <<>>)>>),
              U(F("plans", "viewer"), <<>>)>>),
          U(F("strategy", "viewer"),
            <<This(<<>>),
              U(F("strategy", "editor"),
                <<This(<<>>), Leaf(F("strategy", "owner"), <<Usr("vp_product")>>)>>),
              U(F("strategy", "viewer"), <<companyViewer>>)>>)>>)>>)

(* TestExpand: start, expansion mode and expected tree of every case;   *)
(* each case is expanded at depth 50 at the fixture's revision.           *)
TestExpandCases ==
  { <<F("company", "owner"), "shallow", companyOwner>>,
    <<F("company", "editor"), "shallow", companyEditor>>,
    <<F("company", "viewer"), "shallow", companyViewer>>,
    <<D("masterplan", "owner"), "shallow", docOwner>>,
    <<D("masterplan", "editor"), "shallow", docEditor>>,
    <<D("masterplan", "viewer"), "shallow", docViewer>>,
    <<F("auditors", "owner"), "recursive", auditorsOwner>>,
    <<F("auditors", "editor"), "recursive", auditorsEditor>>,
    <<F("auditors", "viewer"), "recursive", auditorsViewerRecursive>>,
    <<F("company", "owner"), "recursive", companyOwner>>,
    <<F("company", "editor"), "recursive", companyEditor>>,
    <<F("company", "viewer"), "recursive", companyViewerRecursive>> }

FixtureExpand(onr, mode) ==
  IF mode = "shallow" THEN Shallow!DispatchRef({}, onr, 50)
                      ELSE Recursive!DispatchRef({}, onr, 50)

ASSUME \A c \in TestExpandCases : FixtureExpand(c[1], c[2]) = c[3]

(* TestMaxDepthExpand: folder:oops#viewer over the self-parented tuple.  *)
(* The test starts at depth 50; 6 levels of the same cycle keep TLC's    *)
(* evaluation stack small and still exhaust the budget.                   *)
MaxDepthExpand == Oops!DispatchRef({}, F("oops", "viewer"), 6)

ASSUME MaxDepthExpand = Err("MaxDepthExceeded", F("oops", "owner"))

-----------------------------------------------------------------------------
(* Bounds of the runs.  Depth 1 makes the computed userset of editor hit  *)
(* the depth guard; the failure sets make one tuple query error.          *)

(* The shallow viewer expansion of the test fixture runs all three arms *)
(* of viewer concurrently; a failing read of company#owner fails inside   *)
(* the editor subtree while _this and parent->viewer are still running.  *)
ViewerStarts == {F("company", "viewer")}
ViewerDepths == {2, 3}
ViewerFailures == {{}, {F("company", "owner")}}

(* A smaller schema in which one expansion uses every child type and two  *)
(* set operations: document#reader = _this & (owner + parent->owner).     *)
(* doc's owner holds the non-terminal folder:f#owner, which recursive     *)
(* mode dereferences one level further down.                              *)
AuditRelations ==
  {<<ns, rel>> : ns \in {"document", "folder"}, rel \in {"owner", "parent", "reader"}}

AuditRewrites ==
  [r \in {<<"document", "reader">>} |->
     [op |-> "intersection",
      child |-> <<[type |-> "this"],
                  [type |-> "rewrite",
                   rewrite |-> [op |-> "union",
                                child |-> <<Computed("owner"),
                                            Arrow("parent", "owner")>>]]>>]]

AuditTuples ==
  << T(D("doc", "reader"), Usr("alice")),
     T(D("doc", "owner"), Usr("bob")),
     T(D("doc", "owner"), F("f", "owner")),
     T(D("doc", "parent"), F("f", Ellipsis)),
     T(F("f", "owner"), Usr("carol")) >>

(* At depth 2 the recursive dereference of folder:f#owner reaches depth 0 *)
(* in the second arm while parent->owner succeeds; a failing read of the  *)
(* parent tupleset or of the folder's owners fails one arm.               *)
AuditStarts == {D("doc", "reader")}
AuditDepths == {2, 3}
AuditFailures == {{}, {D("doc", "parent")}, {F("f", "owner")}}

(* The audit schema with the computed userset of the nested union given  *)
(* the TUPLE_USERSET_OBJECT mode, as a namespace written through the API  *)
(* may carry it: document#reader = _this & (owner* + parent->owner).      *)
(* Expanding doc#reader builds the nested union's closures, and owner*   *)
(* has no tuple to follow.                                                *)
PanicRewrites ==
  [r \in {<<"document", "reader">>} |->
     [op |-> "intersection",
      child |-> <<[type |-> "this"],
                  [type |-> "rewrite",
                   rewrite |-> [op |-> "union",
                                child |-> <<[Computed("owner") EXCEPT !.object = "tuplesetObject"],
                                            Arrow("parent", "owner")>>]]>>]]

Panic == INSTANCE ExpandRef WITH Relations <- AuditRelations,
         Rewrites <- PanicRewrites, Tuples <- AuditTuples, Mode <- "recursive"

(* The spec's answer for this schema is the AlwaysFail error.            *)
ASSUME \A d \in AuditDepths :
         Panic!DispatchRef({}, D("doc", "reader"), d) = Err("AlwaysFail", D("doc", "reader"))

(* Refinement: the root's return value is the abstract result.           *)
RootResult == IF tasks[Root].pc = "done" THEN tasks[Root].res ELSE NoResult

Atomic == INSTANCE ExpandAtomic WITH result <- RootResult

(* Dispatcher.Expand returns, across every interleaving of the           *)
(* goroutines of expandSetOperation and ExpandOne and any cancellation of *)
(* the caller's context, the tree ExpandRef defines (children in rewrite *)
(* order, the _this leaf last in a recursive direct union, the first     *)
(* error in child order), or RequestCanceled after a cancellation, and    *)
(* returns nothing else.                                                  *)
ImplementsAtomic == Atomic!SafeSpec

(* Dispatcher.Expand returns: no goroutine the expansion waits on blocks *)
(* forever, so the request handler gets an answer whether or not the     *)
(* caller cancels.                                                       *)
ExpandReturns == <>(tasks[Root].pc = "done")

=============================================================================
