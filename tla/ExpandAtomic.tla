---------------------------- MODULE ExpandAtomic ----------------------------
(***************************************************************************)
(* What a Dispatcher.Expand call promises its caller, as one atomic step:  *)
(* it returns the tree (or first error) ExpandRef defines for the request, *)
(* or, only once the caller's context has been cancelled, RequestCanceled. *)
(***************************************************************************)
EXTENDS ExpandRef

CONSTANTS Starts, Depths, FailureSets

VARIABLES start, depth, failing, canceled, result

absVars == <<start, depth, failing, canceled, result>>

Outcomes ==
  {DispatchRef(failing, start, depth)}
    \cup (IF canceled THEN {Err("RequestCanceled", NoLabel)} ELSE {})

Init ==
  /\ start \in Starts
  /\ depth \in Depths
  /\ failing \in FailureSets
  /\ canceled = FALSE
  /\ result = NoResult

Cancel ==
  /\ ~canceled /\ result = NoResult
  /\ canceled' = TRUE
  /\ UNCHANGED <<start, depth, failing, result>>

Return ==
  /\ result = NoResult
  /\ result' # NoResult
  /\ result' \in Outcomes
  /\ UNCHANGED <<start, depth, failing, canceled>>

Next == Cancel \/ Return

SafeSpec == Init /\ [][Next]_absVars

(* The call returns: the expansion tree is finite and goroutines run.    *)
Spec == SafeSpec /\ WF_absVars(Return)

=============================================================================
