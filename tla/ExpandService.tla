---------------------------- MODULE ExpandService ----------------------------
(***************************************************************************)
(* aclServer.Expand (internal/services/acl.go) as it really runs: the      *)
(* handler picks AtRevision, then the goroutines of the concurrent         *)
(* expander (ConcurrentExpand) each query the memdb datastore at that      *)
(* revision when they get to run, while other clients' writes commit and   *)
(* the clock moves.  The expander's Tuples are the rows QueryAt(rev) shows *)
(* at the moment a goroutine steps, so a write between two goroutines'     *)
(* queries is seen by the later one exactly when it is visible at rev.     *)
(*                                                                         *)
(* The ghost variable seen collects every snapshot QueryAt(rev) showed     *)
(* from the pick until the answer: the expansion is consistent if its tree *)
(* is the expansion of one of them.  The server answers up to MaxRequests  *)
(* Expands one after the other, and served keeps every answer.             *)
(***************************************************************************)
EXTENDS MemdbDatastore

CONSTANTS
  Relations, Rewrites,   \* the schema, as in ExpandRef
  Starts,                \* the usersets a client expands
  DefaultDepth,          \* aclServer.defaultDepth
  Headers,               \* values of the depth-remaining header
  NotANumber,            \* a header value strconv.Atoi rejects
  ForgedZookies,         \* whether clients present zookies never issued
  MaxRequests            \* bound on the number of Expand requests

VARIABLES
  start, depth, failing, canceled, tasks, panicked,   \* the expander
  rev,                   \* the handler's atRevision, or NoZookie between requests
  asked,                 \* the depth the current request asked for
  seen,                  \* ghost: snapshots QueryAt(rev) showed during the call
  response,              \* the handler's answer, NoResponse until it returns
  served,                \* every answer given so far
  requests               \* the number of Expand requests received

expandVars == <<start, depth, failing, canceled, tasks, panicked>>
vars == <<rows, changelog, now, start, depth, failing, canceled, tasks, panicked,
          rev, asked, seen, response, served, requests>>

Acl == INSTANCE AclService WITH
         expands <- {}, expandErrors <- {}, reads <- {}, checks <- {},
         lookups <- {}, pickedReads <- {}, refusedReads <- {},
         Start <- CHOOSE s \in Starts : TRUE, Goal <- "none",
         LookupLimits <- {}, Clients <- {"expand"}

(* The expander over the tuple sequence ts.  Its goroutines run over      *)
(* QueryAt(rev), what the query at rev returns at the step they take.     *)
Exp(ts) == INSTANCE ConcurrentExpand WITH
             Tuples <- ts, Mode <- "shallow", FailureSets <- {{}}, Depths <- {0}

(* The expansion of Start a snapshot s defines.                            *)
Ref(s) == INSTANCE ExpandRef WITH Tuples <- s, Mode <- "shallow"

Root == Exp(<<>>)!Root

NoTasks == [p \in {} |-> Exp(<<>>)!DispatchTask(<<>>, 0)]

NoResponse == [code |-> "none"]

(* An answer: its gRPC code, the error kind or "none", the revision, the  *)
(* depth asked for and the tree (NoResult for an error).                  *)
Response(code, kind, tree) ==
  [code |-> code, kind |-> kind, rev |-> rev, asked |-> asked, tree |-> tree]

Idle == rev = Acl!NoZookie

Dispatched == Root \in DOMAIN tasks

(* The handler is between its pick and its answer.                         *)
Expanding == ~Idle /\ response = NoResponse

-----------------------------------------------------------------------------
(* aclServer.Expand up to the dispatch: pickBestRevision, then             *)
(* calculateRequestDepth, whose error is InvalidArgument; otherwise the    *)
(* dispatcher's Expand starts on the root goroutine.  The namespace check  *)
(* passes: Starts are usersets the schema defines.                         *)
ExpandCall(zookie, hdr) ==
  /\ Idle /\ requests < MaxRequests
  /\ requests' = requests + 1
  /\ asked' = Acl!Asked(hdr)
  /\ \E databaseRev \in Revision :
       LET r == Acl!PickBestRevision(zookie, databaseRev)
           d == Acl!RequestDepth(hdr)
           refused == [code |-> "InvalidArgument", kind |-> "InvalidDepth", rev |-> r,
                       asked |-> Acl!Asked(hdr), tree |-> Exp(<<>>)!NoResult]
       IN  /\ rev' = r
           /\ seen' = {QueryAt(r)}
           /\ IF d.ok
              THEN /\ depth' = d.depth
                   /\ tasks' = [p \in {Root} |-> Exp(<<>>)!DispatchTask(start, d.depth)]
                   /\ UNCHANGED <<response, served>>
              ELSE /\ response' = refused
                   /\ served' = served \cup {refused}
                   /\ UNCHANGED <<depth, tasks>>
  /\ UNCHANGED <<rows, changelog, now, start, failing, canceled, panicked>>

(* The dispatcher returned: rewriteACLError of its error, or the tree      *)
(* with the zookie of atRevision.                                          *)
ExpandReturn ==
  LET r   == tasks[Root].res
      ans == IF Exp(<<>>)!IsError(r)
             THEN Response(Acl!RewriteACLError(r.kind), r.kind, r)
             ELSE Response("OK", "none", r)
  IN
  /\ Dispatched /\ tasks[Root].pc = "done"
  /\ response = NoResponse
  /\ response' = ans
  /\ served' = served \cup {ans}
  /\ UNCHANGED <<rows, changelog, now, expandVars, rev, asked, seen, requests>>

(* A goroutine of the expansion steps; its queries read QueryAt(rev) as    *)
(* the rows are at this step.                                             *)
ExpandStep(p) ==
  /\ \E ts \in {QueryAt(rev)} : Exp(ts)!TaskStep(p)
  /\ UNCHANGED <<rows, changelog, now, rev, asked, seen, response, served, requests>>

(* The client's context is cancelled while the dispatch runs.             *)
Cancel ==
  /\ Dispatched
  /\ Exp(<<>>)!CancelRequest
  /\ UNCHANGED <<rows, changelog, now, rev, asked, seen, response, served, requests>>

(* The handler has returned and the next request may come.  Goroutines of *)
(* the finished request that still run only touch their own channels.     *)
Complete ==
  /\ response # NoResponse
  /\ rev' = Acl!NoZookie
  /\ seen' = {}
  /\ response' = NoResponse
  /\ tasks' = NoTasks
  /\ canceled' = FALSE
  /\ UNCHANGED <<rows, changelog, now, start, depth, failing, panicked, asked, served, requests>>

(* Another client's aclServer.Write commits; what it makes visible at rev  *)
(* is a snapshot the running expansion may read.                           *)
Write(pre, muts) ==
  /\ LastChangelogID < MaxRevision
  /\ WriteTuples(pre, muts)
  /\ UNCHANGED <<expandVars, rev, asked, response, served, requests>>
  /\ seen' = IF Expanding THEN seen \cup {QueryAt(rev)'} ELSE seen

ClockTick ==
  /\ Tick
  /\ UNCHANGED <<expandVars, rev, asked, seen, response, served, requests>>

(* Every request has been answered.                                        *)
Served ==
  /\ Idle /\ requests = MaxRequests
  /\ UNCHANGED vars

Init ==
  /\ StoreInit
  /\ start \in Starts
  /\ depth = 0
  /\ failing = {}
  /\ canceled = FALSE
  /\ tasks = NoTasks
  /\ panicked = FALSE
  /\ rev = Acl!NoZookie
  /\ asked = 0
  /\ seen = {}
  /\ response = NoResponse
  /\ served = {}
  /\ requests = 0

Next ==
  \/ \E z \in Acl!Zookies, hdr \in Headers : ExpandCall(z, hdr)
  \/ ExpandReturn
  \/ \E p \in DOMAIN tasks : ExpandStep(p)
  \/ Cancel
  \/ Complete
  \/ \E pre \in Preconditions, muts \in Mutations : Write(pre, muts)
  \/ ClockTick
  \/ Served

Spec == Init /\ [][Next]_vars

-----------------------------------------------------------------------------
(* An Expand response is the expansion of one snapshot: its tree is what  *)
(* the sequential expansion of Start gives over the tuples some single    *)
(* moment of the call showed at the revision it reports.  Each goroutine  *)
(* of the expander queries the datastore at AtRevision when it runs, so    *)
(* this rests on a revision's contents not changing under writes that     *)
(* commit between two goroutines' queries.                                *)
ExpandReadsOneSnapshot ==
  response.code = "OK" =>
    \E s \in seen : response.tree = Ref(s)!DispatchRef({}, start, depth)

(* Two Expands answered at the same revision return the same tree, though *)
(* writes commit between and during them: a revision the handler picks   *)
(* names one snapshot for good.                                           *)
ExpandSnapshotStable ==
  \A a, b \in served : a.code = "OK" /\ b.code = "OK" /\ a.rev = b.rev => a.tree = b.tree

(* Asking for more depth never makes an expansion run out of it: when an  *)
(* Expand succeeded with some depth, no Expand asking for more fails with *)
(* MaxDepthExceeded.  calculateRequestDepth converts the header with      *)
(* uint16(), so this rests on its rejecting values above 65535, which     *)
(* would otherwise wrap to a small depth.                                 *)
DeeperRequestNeverExhausted ==
  \A f, e \in served : f.kind = "MaxDepthExceeded" /\ e.code = "OK" => f.asked < e.asked

=============================================================================
