----------------------------- MODULE AclService -----------------------------
(***************************************************************************)
(* The ACL service (internal/services/acl.go) over the memdb datastore:    *)
(* Write commits tuples at a new revision; Read and Expand pick the        *)
(* revision they read at and answer from the snapshot at that revision.    *)
(* Read uses the requested zookie as is and then calls CheckRevision;      *)
(* Expand takes the larger of the zookie and the datastore's Revision()    *)
(* (pickBestRevision) and checks nothing more.  The expansion itself is    *)
(* ExpandRef over the tuples the snapshot holds.                           *)
(***************************************************************************)
EXTENDS MemdbDatastore

CONSTANTS
  Relations, Rewrites,   \* the schema, as in ExpandRef
  Start,                 \* the userset the clients read and expand
  DefaultDepth,          \* aclServer.defaultDepth
  Headers,               \* values of the depth-remaining header clients send
  NotANumber,            \* a header value strconv.Atoi rejects
  Goal,                  \* the user whose membership in Start is checked
  LookupLimits,          \* values of LookupRequest.Limit clients send
  Clients,               \* the RPCs clients send: a subset of ClientKinds
  ForgedZookies          \* whether clients present zookies never issued

VARIABLES
  expands,               \* [rev, asked, tree] of every successful Expand response
  expandErrors,          \* [asked, kind, code] of every Expand the dispatcher failed
  reads,                 \* [rev, tuples] of every successful Read response
  checks,                \* [kind, rev, member] of every Check response
  lookups,               \* [rev, limit, objects] of every Lookup response
  pickedReads,           \* revisions Revision() gave Reads without zookie
  refusedReads           \* [pinned, reason, code] of every Read CheckRevision refused

vars == <<rows, changelog, now, expands, expandErrors, reads, checks, lookups,
          pickedReads, refusedReads>>

(* A request without AtRevision (no decoded revision is negative).       *)
NoZookie == -1

ClientKinds == {"read", "expand", "check", "contentChange", "lookup"}

(* Zookies a client may present: none, any committed revision, and, when  *)
(* ForgedZookies, ones past the last revision (forged, or kept across a   *)
(* restart of memdb).                                                     *)
Zookies ==
  {NoZookie} \cup 1..LastChangelogID
             \cup (IF ForgedZookies THEN (LastChangelogID + 1)..(MaxRevision + 1) ELSE {})

Snapshot(rev) == INSTANCE ExpandRef WITH Tuples <- QueryAt(rev), Mode <- "shallow"

(* calculateRequestDepth: a header value is an integer or NotANumber     *)
(* (Atoi fails); one header in 1..65535 is used, narrowed by uint16(),   *)
(* none gives the default.                                               *)
MaxUInt16 == 65535

(* The depth a client asks for: its one integer header, or the default.  *)
Asked(hdr) == IF hdr = <<>> \/ hdr[1] = NotANumber THEN DefaultDepth ELSE hdr[1]

(* Mutant: the upper bound on the header is not checked.                *)
RequestDepthNoUpperBound(hdr) ==
  CASE hdr = <<>>                               -> [ok |-> TRUE, depth |-> DefaultDepth]
    [] Len(hdr) > 1                             -> [ok |-> FALSE, depth |-> 0]
    [] hdr[1] = NotANumber                      -> [ok |-> FALSE, depth |-> 0]
    [] hdr[1] < 1                               -> [ok |-> FALSE, depth |-> 0]
    [] OTHER                    -> [ok |-> TRUE, depth |-> hdr[1] % (MaxUInt16 + 1)]

RequestDepth(hdr) ==
  CASE hdr = <<>>                               -> [ok |-> TRUE, depth |-> DefaultDepth]
    [] Len(hdr) > 1                             -> [ok |-> FALSE, depth |-> 0]
    [] hdr[1] = NotANumber                      -> [ok |-> FALSE, depth |-> 0]
    [] hdr[1] < 1 \/ hdr[1] > MaxUInt16         -> [ok |-> FALSE, depth |-> 0]
    [] OTHER                    -> [ok |-> TRUE, depth |-> hdr[1] % (MaxUInt16 + 1)]

(* rewriteACLError: the gRPC code of each error kind; a kind no case      *)
(* matches is returned as is, which gRPC reports as Unknown.  Errors are  *)
(* abstracted to their kind, so a wrapped cause is not looked into.       *)
ACLErrorCodes ==
  [k \in {"InvalidZookie", "InvalidRelation"} |-> "InvalidArgument"]
  @@ [k \in {"UnknownNamespace", "UnknownRelation", "PreconditionFailed"} |-> "FailedPrecondition"]
  @@ [k \in {"RequestCanceled"} |-> "Canceled"]
  @@ [k \in {"AlwaysFail", "RevisionStale", "RevisionInFuture",
             "CouldNotDetermineRevision"} |-> "OutOfRange"]

RewriteACLError(kind) ==
  IF kind \in DOMAIN ACLErrorCodes THEN ACLErrorCodes[kind] ELSE "Unknown"

(* pickBestRevision: the requested revision if it is greater than the    *)
(* datastore's, else the datastore's.                                    *)
PickBestRevision(zookie, databaseRev) ==
  IF zookie # NoZookie /\ zookie > databaseRev THEN zookie ELSE databaseRev

-----------------------------------------------------------------------------
(* aclServer.Write: WriteTuples with the request's conditions and updates. *)
Write(pre, muts) ==
  /\ LastChangelogID < MaxRevision
  /\ WriteTuples(pre, muts)
  /\ UNCHANGED <<expands, expandErrors, reads, checks, lookups, pickedReads, refusedReads>>

(* The Expand response: the tree with its revision, or the dispatcher's   *)
(* error through rewriteACLError.                                         *)
Answer(rev, hdr, tree) ==
  IF Snapshot(rev)!IsError(tree)
  THEN /\ expandErrors' = expandErrors \cup
            {[asked |-> Asked(hdr), kind |-> tree.kind, code |-> RewriteACLError(tree.kind)]}
       /\ UNCHANGED expands
  ELSE /\ expands' = expands \cup {[rev |-> rev, asked |-> Asked(hdr), tree |-> tree]}
       /\ UNCHANGED expandErrors

(* Mutant: the response echoes the datastore's revision, not the one the  *)
(* tree was computed at.                                                  *)
ExpandEchoDatabaseRev(zookie, hdr) ==
  \E databaseRev \in Revision :
    LET rev  == PickBestRevision(zookie, databaseRev)
        d    == RequestDepth(hdr)
        tree == Snapshot(rev)!DispatchRef({}, Start, d.depth)
    IN  /\ d.ok
        /\ Answer(databaseRev, hdr, tree)
        /\ UNCHANGED <<rows, changelog, now, reads, checks, lookups, pickedReads, refusedReads>>

(* aclServer.Expand: pick the revision, compute the depth, dispatch a    *)
(* shallow expansion of Start and return the tree with the revision.     *)
Expand(zookie, hdr) ==
  \E databaseRev \in Revision :
    LET rev  == PickBestRevision(zookie, databaseRev)
        d    == RequestDepth(hdr)
        tree == Snapshot(rev)!DispatchRef({}, Start, d.depth)
    IN  /\ d.ok
        /\ Answer(rev, hdr, tree)
        /\ UNCHANGED <<rows, changelog, now, reads, checks, lookups, pickedReads, refusedReads>>

(* aclServer.Read without AtRevision, first transaction: Revision().     *)
ReadPickRevision ==
  /\ \E rev \in Revision : pickedReads' = pickedReads \cup {rev}
  /\ UNCHANGED <<rows, changelog, now, expands, expandErrors, reads, checks, lookups, refusedReads>>

(* aclServer.Read of the tupleset (namespace, object, relation) of Start  *)
(* at rev, in later transactions: CheckRevision, then the query; a        *)
(* refused revision ends the request with rewriteACLError's OutOfRange.   *)
ServeRead(zookie, rev) ==
  LET reason == CheckRevision(rev)
  IN  \/ /\ reason = "ok"
         /\ reads' = reads \cup
              {[rev |-> rev, tuples |-> SelectSeq(QueryAt(rev), LAMBDA t : t.object = Start)]}
         /\ UNCHANGED refusedReads
      \/ /\ reason # "ok"
         /\ refusedReads' = refusedReads \cup {[pinned |-> zookie # NoZookie, reason |-> reason,
                                           code |-> RewriteACLError(reason)]}
         /\ UNCHANGED reads

(* aclServer.Read with AtRevision: the exact requested revision.         *)
Read(zookie) ==
  /\ zookie # NoZookie
  /\ ServeRead(zookie, zookie)
  /\ UNCHANGED <<rows, changelog, now, expands, expandErrors, checks, lookups, pickedReads>>

(* aclServer.Read without AtRevision, at the revision Revision() gave.   *)
ReadPicked ==
  \E rev \in pickedReads :
    /\ ServeRead(NoZookie, rev)
    /\ pickedReads' = pickedReads \ {rev}
    /\ UNCHANGED <<rows, changelog, now, expands, expandErrors, checks, lookups>>

(* The check dispatcher for the direct relation Start: Goal is a member   *)
(* when a tuple of Start names it at the revision.                        *)
DispatchCheck(rev) == Goal \in ToSet(Snapshot(rev)!QueryUsers(Start))

(* aclServer.commonCheck: compute the depth, dispatch the check at rev    *)
(* and answer with the membership and the revision.                       *)
CommonCheck(kind, rev, hdr) ==
  /\ RequestDepth(hdr).ok
  /\ checks' = checks \cup {[kind |-> kind, rev |-> rev, member |-> DispatchCheck(rev)]}
  /\ UNCHANGED <<rows, changelog, now, expands, expandErrors, reads, lookups, pickedReads, refusedReads>>

(* aclServer.Check: pickBestRevision, then commonCheck.                   *)
Check(zookie, hdr) ==
  \E databaseRev \in Revision : CommonCheck("check", PickBestRevision(zookie, databaseRev), hdr)

(* aclServer.ContentChangeCheck: SyncRevision, then commonCheck.           *)
ContentChangeCheck(hdr) ==
  CommonCheck("contentChange", SyncRevision, hdr)

(* lookupDefaultLimit and lookupMaximumLimit.                            *)
LookupDefaultLimit == 25
LookupMaximumLimit == 100

(* Mutant: a request without a limit is not given the default one.      *)
LookupLimitNoDefault(requested) ==
  IF requested < LookupMaximumLimit THEN requested ELSE LookupMaximumLimit

(* Lookup's limit: 0 means the default, and no more than the maximum.   *)
LookupLimit(requested) ==
  LET limit == IF requested = 0 THEN LookupDefaultLimit ELSE requested
  IN  IF limit < LookupMaximumLimit THEN limit ELSE LookupMaximumLimit

(* The objects in Start's namespace whose Start relation names Goal at   *)
(* rev, for a direct relation.                                           *)
LookupMembers(rev) ==
  {t.object[2] : t \in {t \in ToSet(QueryAt(rev)) :
                           t.object[1] = Start[1] /\ t.object[3] = Start[3] /\ t.user = Goal}}

(* The lookup dispatcher (not in this repository) answers with limit of   *)
(* those objects, or all when there are fewer, chosen as it likes.  All   *)
(* are in Start's namespace, so the handler's namespace check passes.     *)
DispatchLookup(rev, limit) ==
  {found \in SUBSET LookupMembers(rev) :
     Cardinality(found) = IF limit < Cardinality(LookupMembers(rev)) THEN limit
                          ELSE Cardinality(LookupMembers(rev))}

(* aclServer.Lookup of Goal in Start's relation: pickBestRevision, the    *)
(* depth header, the limit, then the lookup dispatch.  A failing dispatch *)
(* (resp.Err) answers with an error and changes nothing recorded here.   *)
Lookup(zookie, hdr, requested) ==
  \E databaseRev \in Revision :
    LET rev == PickBestRevision(zookie, databaseRev) IN
    /\ RequestDepth(hdr).ok
    /\ \E found \in DispatchLookup(rev, LookupLimit(requested)) :
         lookups' = lookups \cup {[rev |-> rev, limit |-> requested, objects |-> found]}
    /\ UNCHANGED <<rows, changelog, now, expands, expandErrors, reads, checks, pickedReads,
                   refusedReads>>

Init ==
  /\ StoreInit
  /\ expands = {}
  /\ expandErrors = {}
  /\ reads = {}
  /\ checks = {}
  /\ lookups = {}
  /\ pickedReads = {}
  /\ refusedReads = {}

Next ==
  \/ \E pre \in Preconditions, muts \in Mutations : Write(pre, muts)
  \/ "expand" \in Clients /\ \E z \in Zookies, hdr \in Headers : Expand(z, hdr)
  \/ "read" \in Clients /\ \E z \in Zookies : Read(z)
  \/ "read" \in Clients /\ ReadPickRevision
  \/ "read" \in Clients /\ ReadPicked
  \/ "check" \in Clients /\ \E z \in Zookies, hdr \in Headers : Check(z, hdr)
  \/ "contentChange" \in Clients /\ \E hdr \in Headers : ContentChangeCheck(hdr)
  \/ "lookup" \in Clients /\
       \E z \in Zookies, hdr \in Headers, l \in LookupLimits : Lookup(z, hdr, l)
  \/ Tick /\ UNCHANGED <<expands, expandErrors, reads, checks, lookups, pickedReads, refusedReads>>

Spec == Init /\ [][Next]_vars

-----------------------------------------------------------------------------
TypeOK ==
  /\ \A r \in rows : r.created \in 1..MaxRevision
                     /\ r.deleted \in r.created..DeletedTransactionID
  /\ \A i \in DOMAIN changelog : changelog[i].id = i /\ changelog[i].timestamp \in 0..now
  /\ now \in 0..MaxTime
  /\ \A e \in expands : e.rev \in 0..(MaxRevision + 1)
  /\ \A e \in reads : e.rev \in 0..(MaxRevision + 1)
  /\ \A e \in checks : e.rev \in 0..(MaxRevision + 1)
  /\ \A e \in lookups : e.rev \in 0..(MaxRevision + 1)
  /\ pickedReads \subseteq 0..MaxRevision

(* How many live rows of each tuple a query at rev returns.              *)
SnapshotAt(rs, rev) ==
  [t \in ToSet(AllTuples) |-> Cardinality({r \in VisibleAt(rs, rev) : r.t = t})]

(* WriteTuples never changes what a committed revision shows: every row  *)
(* it inserts is created at the new changelog id and every row it        *)
(* retires gets that id as deletedTxn, so the tuples live at any revision *)
(* up to the last committed one stay the same across every step.         *)
PastSnapshotsImmutable ==
  [][\A rev \in 0..LastChangelogID : SnapshotAt(rows', rev) = SnapshotAt(rows, rev)]_vars

(* Two Read responses carrying the same revision hold the same tuples:   *)
(* Read serves a zookie only after CheckRevision accepted it.            *)
ReadSnapshotStable ==
  \A a, b \in reads : a.rev = b.rev => a.tuples = b.tuples

(* A Read without a zookie is served at a revision the server picked     *)
(* (Revision(), or SyncRevision when none is recent), so CheckRevision    *)
(* never refuses it as stale: only a client's own zookie can be out of    *)
(* range.  Revision() and CheckRevision() are separate transactions.      *)
UnpinnedReadNeverStale ==
  \A r \in refusedReads : ~r.pinned => r.reason # "RevisionStale"

(* A ContentChangeCheck answers as every Read at the same revision shows: *)
(* the revision it checks at (SyncRevision) is committed when picked, so  *)
(* later writes cannot change what it names.                              *)
ContentChangeCheckAgreesWithRead ==
  \A c \in checks, r \in reads :
    c.kind = "contentChange" /\ c.rev = r.rev =>
      (c.member <=> Goal \in {t.user : t \in ToSet(r.tuples)})

(* A Check and an Expand answering at the same revision agree on whether  *)
(* Goal is among Start's users: both report the revision they evaluated  *)
(* at, and a revision clients hold is committed.                          *)
CheckAgreesWithExpand ==
  \A c \in checks, e \in expands :
    c.rev = e.rev => (c.member <=> Goal \in ToSet(e.tree.users))

(* A Lookup that lists fewer objects than it was entitled to lists all   *)
(* that grant Goal at the revision it reports.  It is entitled to what   *)
(* the client asked for, 25 when it asked for none and never more than   *)
(* 100: the handler defaults and clamps the limit before the dispatch,   *)
(* which it makes at the revision it picked and reports.                 *)
LookupCompleteBelowLimit ==
  \A l \in lookups :
    LET entitled == IF l.limit = 0 THEN LookupDefaultLimit
                     ELSE IF l.limit > LookupMaximumLimit THEN LookupMaximumLimit ELSE l.limit
    IN  Cardinality(l.objects) < entitled => l.objects = LookupMembers(l.rev)

=============================================================================
