-------------------------- MODULE ConcurrentExpand --------------------------
(***************************************************************************)
(* The concurrent expander of internal/graph/expand.go with the local      *)
(* dispatcher it calls.  Every ReduceableExpandFunc that is started with   *)
(* `go` is a task, named by its path in the tree of goroutines: the task   *)
(* p \o <<i>> is the i-th goroutine p started.  The root task <<>> is the  *)
(* dispatcher call made by the request handler itself.                     *)
(*                                                                         *)
(* Channels: a reducer (expandSetOperation) gives each child an unbuffered *)
(* channel, so the child's send blocks in pc "sending" until the reducer   *)
(* receives it; ExpandOne gives its child a buffered channel of size 1, so *)
(* the child's send completes at once and the value waits in the buffer.   *)
(* Contexts: the children of a reducer run on childCtx, which is cancelled *)
(* when the reducer returns (defer cancelFn()) or when its own context is  *)
(* cancelled; ExpandOne's child shares the dispatcher's context.           *)
(***************************************************************************)
EXTENDS ExpandRef

CONSTANTS
  Starts,        \* ONRs a request may start at
  Depths,        \* values of DepthRemaining a request may carry
  FailureSets    \* candidate sets of tuple queries that fail

VARIABLES
  start,         \* the request's Start
  depth,         \* the request's DepthRemaining
  failing,       \* the tuple queries that fail during this expansion
  canceled,      \* the caller's context has been cancelled
  tasks,         \* path -> state of that goroutine
  panicked       \* a goroutine panicked: the process has exited

vars == <<start, depth, failing, canceled, tasks, panicked>>

Root == <<>>

Kinds == {"dispatch", "direct", "setop", "ttu"}
Pcs   == {"start", "await", "reduce", "sending", "done"}

(* A goroutine about to run the closure of `kind` on (onr, d).            *)
NewTask(kind, onr, d, arg, buffered) ==
  [kind |-> kind, start |-> onr, depth |-> d, arg |-> arg, pc |-> "start",
   buffered |-> buffered, next |-> 1, nkids |-> 0, acc |-> <<>>, res |-> NoResult,
   users |-> <<>>]

(* ce.dispatch(ExpandRequest{...}) *)
DispatchTask(onr, d) == NewTask("dispatch", onr, d, <<>>, FALSE)

(* The closure expand() returns for the looked-up relation; it is run by   *)
(* ExpandOne on a buffered channel.                                        *)
ExpandClosure(onr, d) ==
  IF <<onr[1], onr[3]>> \in DOMAIN Rewrites
  THEN NewTask("setop", onr, d, Rewrites[<<onr[1], onr[3]>>], TRUE)
  ELSE NewTask("direct", onr, d, "include", TRUE)

(* The closure expandSetOperation builds for one child of a rewrite.      *)
ChildClosure(onr, d, c) ==
  CASE c.type = "this"     -> NewTask("direct", onr, d, "exclude", FALSE)
    [] c.type = "computed" -> DispatchTask(ComputedStart(onr, c.relation), d - 1)
    [] c.type = "rewrite"  -> NewTask("setop", onr, d, c.rewrite, FALSE)
    [] c.type = "ttu"      -> NewTask("ttu", onr, d, c, FALSE)

(* expandSetOperation builds the closures of its children, and of nested *)
(* rewrites, before it returns; expandComputedUserset panics while doing  *)
(* so for a computed child that needs a tuple (tpl is nil).               *)
RECURSIVE BuildPanics(_)
BuildPanics(rw) ==
  \E i \in 1..Len(rw.child) :
     \/ NeedsTuple(rw.child[i])
     \/ rw.child[i].type = "rewrite" /\ BuildPanics(rw.child[i].rewrite)

(* expand() for the relation of onr panics while building its closure.   *)
ExpandPanics(onr) ==
  /\ <<onr[1], onr[3]>> \in DOMAIN Rewrites
  /\ BuildPanics(Rewrites[<<onr[1], onr[3]>>])

Parent(p) == SubSeq(p, 1, Len(p) - 1)

(* The reducer of q has returned, so cancelFn() has run on its childCtx.  *)
ScopeClosed(q) == tasks[q].kind # "dispatch" /\ tasks[q].pc \in {"sending", "done"}

(* ctx.Done() is closed for the context task p runs on.                   *)
Cancelled(p) ==
  \/ canceled
  \/ \E k \in 0..(Len(p) - 1) : ScopeClosed(SubSeq(p, 1, k))

(* The goroutine returns r: the root returns it to the request handler;  *)
(* a send on a buffered channel completes at once; on an unbuffered one  *)
(* the goroutine blocks until its reducer receives.                       *)
Finished(f, p, r) ==
  [f EXCEPT ![p].res = r,
            ![p].pc  = IF p = Root \/ f[p].buffered THEN "done" ELSE "sending"]

Finish(p, r) == tasks' = Finished(tasks, p, r)

(* Start the goroutines of `kids` under p (go req(childCtx, resultChan)). *)
Spawn(f, p, kids, pc) ==
  tasks' = [q \in DOMAIN f \cup {p \o <<i>> : i \in 1..Len(kids)} |->
              IF q = p THEN [f[p] EXCEPT !.pc = pc, !.nkids = Len(kids)]
              ELSE IF q \in DOMAIN f THEN f[q]
              ELSE kids[q[Len(q)]]]

(* A reducer over `kids`: with no requests it returns the empty node at   *)
(* once, otherwise it starts them all and awaits them in order.           *)
StartReducer(p, op, kids) ==
  IF kids = <<>> THEN Finish(p, Node(op, tasks[p].start, <<>>))
  ELSE Spawn(tasks, p, kids, "reduce")

-----------------------------------------------------------------------------
(* LocalDispatcher.Expand: the depth guard, the relation lookup, then      *)
(* ExpandOne(ctx, expand(req, relation)).  A panic in expand() is not    *)
(* recovered anywhere, so it ends the process.                            *)
DispatchStart(p) ==
  LET t == tasks[p] IN
  /\ t.kind = "dispatch" /\ t.pc = "start"
  /\ panicked' = (t.depth # 0 /\ <<t.start[1], t.start[3]>> \in Relations
                  /\ ExpandPanics(t.start))
  /\ IF t.depth = 0 THEN Finish(p, Err("MaxDepthExceeded", t.start))
     ELSE IF <<t.start[1], t.start[3]>> \notin Relations
          THEN Finish(p, Err("UnknownRelation", t.start))
     ELSE IF panicked' THEN UNCHANGED tasks
     ELSE Spawn(tasks, p, <<ExpandClosure(t.start, t.depth)>>, "await")
  /\ UNCHANGED <<start, depth, failing, canceled>>

(* ExpandOne's select: the buffered result, or ctx.Done().               *)
DispatchAwait(p) ==
  LET t == tasks[p]  c == p \o <<1>> IN
  /\ t.kind = "dispatch" /\ t.pc = "await"
  /\ \/ /\ tasks[c].pc = "done"
        /\ Finish(p, tasks[c].res)
     \/ /\ Cancelled(p)
        /\ Finish(p, Err("RequestCanceled", NoLabel))
  /\ UNCHANGED <<start, depth, failing, canceled, panicked>>

(* expandDirect's closure: query the relation, split terminal and non-    *)
(* terminal users, then send a leaf, or start ExpandAny over dispatches   *)
(* of the non-terminals (recursive mode only); the closure keeps the      *)
(* users it found for the leaf it appends after ExpandAny returns.        *)
DirectStart(p) ==
  LET t    == tasks[p]
      us   == QueryUsers(t.start)
      nts  == NonTerminals(us)
  IN
  /\ t.kind = "direct" /\ t.pc = "start"
  /\ IF t.start \in failing THEN Finish(p, Err("ExpansionFailure", t.start))
     ELSE IF Mode # "recursive" \/ nts = <<>>
          THEN Finish(p, Leaf(LabelFor(t.start, t.arg), DirectUsers(us)))
     ELSE Spawn([tasks EXCEPT ![p].users = DirectUsers(us)], p,
                [i \in 1..Len(nts) |-> DispatchTask(nts[i], t.depth - 1)], "reduce")
  /\ UNCHANGED <<start, depth, failing, canceled, panicked>>

(* The closure of expandSetOperation: reducer(ctx, req.Start, requests). *)
SetOpStart(p) ==
  LET t == tasks[p] IN
  /\ t.kind = "setop" /\ t.pc = "start"
  /\ StartReducer(p, t.arg.op,
       [i \in 1..Len(t.arg.child) |-> ChildClosure(t.start, t.depth, t.arg.child[i])])
  /\ UNCHANGED <<start, depth, failing, canceled, panicked>>

(* Variant of TtuStart whose query-error path returns without a send.   *)
TtuStartNoSend(p) ==
  LET t    == tasks[p]
      key  == <<t.start[1], t.start[2], t.arg.tupleset>>
      tpls == QueryUsers(key)
  IN
  /\ t.kind = "ttu" /\ t.pc = "start"
  /\ IF key \in failing THEN tasks' = [tasks EXCEPT ![p].pc = "done"]
     ELSE StartReducer(p, "union",
            [i \in 1..Len(tpls) |->
               DispatchTask(TupleComputedStart(t.start, tpls[i], t.arg), t.depth - 1)])
  /\ UNCHANGED <<start, depth, failing, canceled, panicked>>

(* expandTupleToUserset's closure: query the tupleset, then ExpandAny     *)
(* over a computed-userset dispatch per tuple.                            *)
TtuStart(p) ==
  LET t    == tasks[p]
      key  == <<t.start[1], t.start[2], t.arg.tupleset>>
      tpls == QueryUsers(key)
  IN
  /\ t.kind = "ttu" /\ t.pc = "start"
  /\ IF key \in failing THEN Finish(p, Err("ExpansionFailure", key))
     ELSE StartReducer(p, "union",
            [i \in 1..Len(tpls) |->
               DispatchTask(TupleComputedStart(t.start, tpls[i], t.arg), t.depth - 1)])
  /\ UNCHANGED <<start, depth, failing, canceled, panicked>>

(* Variant of ReducedTree that puts the direct leaf before the children. *)
ReducedTreeLeafFirst(p, acc) ==
  LET t == tasks[p] IN
  CASE t.kind = "setop" -> Node(t.arg.op, t.start, acc)
    [] t.kind = "ttu"   -> Node("union", t.start, acc)
    [] t.kind = "direct" ->
         Node("union", t.start,
              <<Leaf(LabelFor(t.start, t.arg), t.users)>> \o acc)

(* The tree a reducer's goroutine sends once all children reported; the  *)
(* direct closure appends its leaf to the union ExpandAny returned.       *)
ReducedTree(p, acc) ==
  LET t == tasks[p] IN
  CASE t.kind = "setop" -> Node(t.arg.op, t.start, acc)
    [] t.kind = "ttu"   -> Node("union", t.start, acc)
    [] t.kind = "direct" ->
         Node("union", t.start,
              Append(acc, Leaf(LabelFor(t.start, t.arg), t.users)))

(* Variant of ReduceReceive whose error branch does not return.         *)
ReduceReceiveNoReturn(p) ==
  LET t == tasks[p]  c == p \o <<t.next>>  r == tasks[c].res IN
  /\ t.pc = "reduce"
  /\ tasks[c].pc = "sending"
  /\ LET acc == Append(t.acc, r)
         received == [tasks EXCEPT ![c].pc = "done", ![p].acc = acc, ![p].next = t.next + 1]
     IN  tasks' = IF t.next = t.nkids THEN Finished(received, p, ReducedTree(p, acc))
                  ELSE received
  /\ UNCHANGED <<start, depth, failing, canceled, panicked>>

(* Variant of ReduceReceive that does not advance to the next channel.   *)
ReduceReceiveNoAdvance(p) ==
  LET t == tasks[p]  c == p \o <<t.next>>  r == tasks[c].res IN
  /\ t.pc = "reduce"
  /\ tasks[c].pc = "sending"
  /\ LET acc == Append(t.acc, r)
         received == [tasks EXCEPT ![c].pc = "done", ![p].acc = acc]
     IN  tasks' = CASE IsError(r)        -> Finished(received, p, r)
                    [] t.next = t.nkids -> Finished(received, p, ReducedTree(p, acc))
                    [] OTHER            -> received
  /\ UNCHANGED <<start, depth, failing, canceled, panicked>>

(* One iteration of the reducer's loop: receive from the next child's     *)
(* channel; an error returns it, the last tree returns the set node.      *)
ReduceReceive(p) ==
  LET t == tasks[p]  c == p \o <<t.next>>  r == tasks[c].res IN
  /\ t.pc = "reduce"
  /\ tasks[c].pc = "sending"
  /\ LET acc == Append(t.acc, r)
         received == [tasks EXCEPT ![c].pc = "done", ![p].acc = acc, ![p].next = t.next + 1]
     IN  tasks' = CASE IsError(r)        -> Finished(received, p, r)
                    [] t.next = t.nkids -> Finished(received, p, ReducedTree(p, acc))
                    [] OTHER            -> received
  /\ UNCHANGED <<start, depth, failing, canceled, panicked>>

(* The reducer's select takes <-ctx.Done() and returns RequestCanceled.  *)
ReduceCancel(p) ==
  /\ tasks[p].pc = "reduce"
  /\ Cancelled(p)
  /\ Finish(p, Err("RequestCanceled", NoLabel))
  /\ UNCHANGED <<start, depth, failing, canceled, panicked>>

(* The caller's context is cancelled (deadline or client gone).           *)
CancelRequest ==
  /\ ~canceled
  /\ tasks[Root].pc # "done"
  /\ canceled' = TRUE
  /\ UNCHANGED <<start, depth, failing, tasks, panicked>>

(* The request handler has its answer; goroutines that can still run do.  *)
Returned ==
  /\ tasks[Root].pc = "done"
  /\ UNCHANGED vars

-----------------------------------------------------------------------------
Init ==
  /\ start \in Starts
  /\ depth \in Depths
  /\ failing \in FailureSets
  /\ canceled = FALSE
  /\ tasks = [p \in {Root} |-> DispatchTask(start, depth)]
  /\ panicked = FALSE

(* A goroutine steps while the process is alive.                          *)
TaskStep(p) ==
  /\ ~panicked
  /\ \/ DispatchStart(p)
     \/ DispatchAwait(p)
     \/ DirectStart(p)
     \/ SetOpStart(p)
     \/ TtuStart(p)
     \/ ReduceReceive(p)
     \/ ReduceCancel(p)

(* Once the process has exited nothing runs any more.                    *)
Next ==
  /\ ~panicked
  /\ \/ \E p \in DOMAIN tasks : TaskStep(p)
     \/ CancelRequest
     \/ Returned

(* Go runs every runnable goroutine eventually; the caller need not      *)
(* cancel, so CancelRequest has no fairness.  Every goroutine takes       *)
(* finitely many steps, so weak fairness of "some goroutine steps" lets   *)
(* each enabled one run in the end.                                       *)
-----------------------------------------------------------------------------
TypeOK ==
  /\ canceled \in BOOLEAN
  /\ panicked \in BOOLEAN
  /\ Root \in DOMAIN tasks
  /\ \A p \in DOMAIN tasks :
       /\ tasks[p].kind \in Kinds
       /\ tasks[p].pc \in Pcs
       /\ tasks[p].depth \in Nat
       /\ tasks[p].next \in 1..(tasks[p].nkids + 1)
       /\ Len(tasks[p].acc) = tasks[p].next - 1

(* The reducer that owns p's unbuffered channel will still receive from it. *)
StillAwaited(p) ==
  LET q == Parent(p) IN tasks[q].pc = "reduce" /\ tasks[q].next <= p[Len(p)]

(* No goroutine is blocked for ever on an unbuffered send: whenever a     *)
(* child of expandSetOperation is ready to send its result, the reducer   *)
(* will still receive it.  A reducer that returns early (a child error,   *)
(* ctx.Done()) stops receiving, so a later child blocked on              *)
(* `resultChan <- result` leaks.                                           *)
NoGoroutineLeak ==
  \A p \in DOMAIN tasks : tasks[p].pc = "sending" => StillAwaited(p)

Spec == Init /\ [][Next]_vars /\ WF_vars(\E p \in DOMAIN tasks : TaskStep(p))

=============================================================================
