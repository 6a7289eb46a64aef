---------------------------- MODULE SchemaExpand ----------------------------
(***************************************************************************)
(* A schema written in the DSL is translated (Translator) and loaded into  *)
(* the namespace manager; an Expand of a permission then runs over the     *)
(* namespaces the translator produced (ExpandRef) and the stored tuples.   *)
(* The namespace manager's code is not in this repository: it resolves     *)
(* <<namespace, relation>> to the Relation of the loaded definition.       *)
(***************************************************************************)
EXTENDS Translator

CONSTANTS
  Prefix,        \* the objectTypePrefix of the translation context
  Schemas,       \* parsed DSL trees (sequences of definition nodes)
  TupleSets,     \* tuple sequences the datastore may hold
  Start,         \* the userset expanded
  Depth          \* the request's depth

VARIABLES
  root,          \* the parsed schema
  tuples,        \* the tuples at the request revision
  compiled,      \* NoResult, or the result of translate
  result         \* NoResult, or the expansion of Start

vars == <<root, tuples, compiled, result>>

NoResult == [type |-> "none"]

(* The namespace manager: every relation of every loaded definition, and  *)
(* the rewrite of those that have one.                                     *)
Definitions(defs) ==
  UNION {{<<d.name, r>> : r \in ToSet(d.relation)} : d \in ToSet(defs)}

LoadedRelations(defs) == {<<p[1], p[2].name>> : p \in Definitions(defs)}

LoadedRewrites(defs) ==
  LET rws == {p \in Definitions(defs) : p[2].rewrite # NoRewrite}
  IN  [k \in {<<p[1], p[2].name>> : p \in rws} |->
         (CHOOSE p \in rws : <<p[1], p[2].name>> = k)[2].rewrite]

Loaded == INSTANCE ExpandRef
            WITH Relations <- LoadedRelations(compiled.val),
                 Rewrites  <- LoadedRewrites(compiled.val),
                 Tuples    <- tuples,
                 Mode      <- "shallow"

Init ==
  /\ root \in Schemas
  /\ tuples \in TupleSets
  /\ compiled = NoResult
  /\ result = NoResult

(* compiler.Compile: translate the parsed schema.                          *)
Compile ==
  /\ compiled = NoResult
  /\ compiled' = Translate(Prefix, root)
  /\ UNCHANGED <<root, tuples, result>>

(* Expand of Start against the loaded namespaces.                          *)
Expand ==
  /\ compiled # NoResult /\ compiled.ok
  /\ result = NoResult
  /\ result' = Loaded!DispatchRef({}, Start, Depth)
  /\ UNCHANGED <<root, tuples, compiled>>

Next == Compile \/ Expand

Spec == Init /\ [][Next]_vars

=============================================================================
