----------------------------- MODULE IndexCache -----------------------------
(* The controller's index cache (codebase-knowledge/): indexLifecycle builds  *)
(* the graph of a target repository and publishes it, first the graph's blob  *)
(* and then the record that names the blob's digest, and evicts old entries.  *)
(* The repository may change at any await of a build, builds overlap, and a   *)
(* build may die anywhere; the cache directory is shared and has no lock.     *)
(*                                                                            *)
(* A tree stands for the contents of the worktree's files: the manifest that  *)
(* captureManifest digests.  A revision is a head and a manifest digest (the  *)
(* other parts of cacheKey are fixed by the controller's version).  A graph   *)
(* is what Graphify made of one tree; two runs on one tree may differ.        *)
EXTENDS Naturals, Sequences, FiniteSets, SequencesExt

CONSTANTS
  Heads,        \* commits
  Trees,        \* worktree contents
  TreeOf,       \* the committed tree of a head
  Outputs,      \* what runs of Graphify on one tree may differ in
  Builds,       \* how many calls of buildIndex there are
  MaxEntries,   \* cache.maxEntries
  MaxChanges    \* bound: changes of the repository

ASSUME CacheAssumption ==
  /\ Heads # {} /\ Outputs # {}
  /\ TreeOf \in [Heads -> Trees]
  /\ Builds \in Nat
  /\ MaxEntries \in Nat \ {0} /\ MaxChanges \in Nat

VARIABLES
  target,       \* the repository: its HEAD and its worktree
  changes,      \* how often it has changed
  records,      \* the record files, oldest modification time first
  blobs,        \* the blob files, by the revision in their name
  builds        \* each build: position and local variables

cacheVars == <<target, changes, records, blobs, builds>>

Builders == 1..Builds
Keys == [head : Heads, tree : Trees]
Graphs == [tree : Trees, output : Outputs]
NoBlob == [tree |-> "none"]
Record(k, g) == [key |-> k, digest |-> g]

\* The record file of a key, as a set of at most one.
recordPath(k) == {r \in Range(records) : r.key = k}
Unlinked(k) == SelectSeq(records, LAMBDA r : r.key # k)

IdleBuild == [pc |-> "idle"]
At(b, pc) == builds[b].pc = pc
Goto(b, pc) == builds' = [builds EXCEPT ![b].pc = pc]
Fail(b) == builds' = [builds EXCEPT ![b] = [pc |-> "over"]]
OnlyBuilds == UNCHANGED <<target, changes, records, blobs>>

-----------------------------------------------------------------------------
(* The target repository (external): a checkout, a commit or an edit.        *)

TargetChanges ==
  /\ changes < MaxChanges
  /\ \E t \in Keys : t # target /\ target' = t
  /\ changes' = changes + 1
  /\ UNCHANGED <<records, blobs, builds>>

-----------------------------------------------------------------------------
(* indexLifecycle up to publication: each read of the repository is a step.  *)
(* A build that dies, or whose tools hang or fail, takes no further step.    *)

\* resolveHead, after the checks of the request and of its roots.  Builds are
\* numbered in the order they start.
BuildStart(b) ==
  /\ At(b, "idle")
  /\ \A c \in Builders : c < b => ~At(c, "idle")
  /\ builds' = [builds EXCEPT ![b] = [pc |-> "capture", head |-> target.head]]
  /\ OnlyBuilds

captureManifest(b) ==
  /\ At(b, "capture")
  /\ builds' = [builds EXCEPT ![b] = [pc |-> "recheck", head |-> @.head, tree |-> target.tree]]
  /\ OnlyBuilds

RecheckHead(b) ==
  /\ At(b, "recheck")
  /\ IF target.head = builds[b].head THEN Goto(b, "project") ELSE Fail(b)
  /\ OnlyBuilds

\* Mutant: the copies are not compared with the digests of the manifest.
materializeProjection_Unchecked(b) ==
  /\ At(b, "project")
  /\ builds' = [builds EXCEPT ![b] = [pc |-> "graphify", head |-> @.head, tree |-> @.tree,
                                      projection |-> target.tree]]
  /\ OnlyBuilds

\* Every file is copied to the scratch directory and compared with its digest
\* in the manifest.
materializeProjection(b) ==
  /\ At(b, "project")
  /\ IF target.tree = builds[b].tree
       THEN builds' = [builds EXCEPT ![b] = [pc |-> "graphify", head |-> @.head,
                                             tree |-> @.tree, projection |-> target.tree]]
       ELSE Fail(b)
  /\ OnlyBuilds

runGraphify(b) ==
  /\ At(b, "graphify")
  /\ \E o \in Outputs :
       builds' = [builds EXCEPT ![b] =
         [pc |-> "afterHead", key |-> [head |-> @.head, tree |-> @.tree],
          graph |-> [tree |-> @.projection, output |-> o]]]
  /\ OnlyBuilds

\* HEAD, the manifest and the status are read again, one after the other.
AfterHead(b) ==
  /\ At(b, "afterHead")
  /\ IF target.head = builds[b].key.head THEN Goto(b, "afterManifest") ELSE Fail(b)
  /\ OnlyBuilds

AfterManifest(b) ==
  /\ At(b, "afterManifest")
  /\ IF target.tree = builds[b].key.tree THEN Goto(b, "status") ELSE Fail(b)
  /\ OnlyBuilds

resolveStatus(b) ==
  /\ At(b, "status")
  /\ IF target.tree = TreeOf[target.head] THEN Goto(b, "publish") ELSE Fail(b)
  /\ OnlyBuilds

-----------------------------------------------------------------------------
(* Publication and eviction: each file operation is a step.                  *)

\* The blob is renamed over the file of the same revision, if there is one.
publishBlob(b) ==
  /\ At(b, "publish")
  /\ blobs' = [blobs EXCEPT ![builds[b].key] = builds[b].graph]
  /\ Goto(b, "record")
  /\ UNCHANGED <<target, changes, records>>

\* The record is renamed into place; its modification time is the newest.
writeCache(b) ==
  /\ At(b, "record")
  /\ records' = Append(Unlinked(builds[b].key), Record(builds[b].key, builds[b].graph))
  /\ Goto(b, "scan")
  /\ UNCHANGED <<target, changes, blobs>>

\* evictCache works on what a scan has seen: first the records, which are sorted
\* oldest first (all in one step, though each is read after an await) ...
listEntries(b) ==
  /\ At(b, "scan")
  /\ builds' = [builds EXCEPT ![b] =
       [pc |-> "scanBlobs", entries |-> [i \in DOMAIN records |-> records[i].key]]]
  /\ OnlyBuilds

\* ... and then the blobs, of which those that no record seen before names count
\* as orphans, although their record may have come since.
listBlobs(b) ==
  /\ At(b, "scanBlobs")
  /\ builds' = [builds EXCEPT ![b] =
       [pc |-> "evict", next |-> 1, entries |-> @.entries,
        orphans |-> {k \in Keys : blobs[k] # NoBlob} \ Range(@.entries)]]
  /\ OnlyBuilds

OverCount(b) == Len(builds[b].entries) > MaxEntries

\* rm of the record's directory, whoever has written it since: the entry is one
\* too many, or too old (any entry may be: time is not modelled).
EvictRecord(b) ==
  /\ At(b, "evict") /\ builds[b].next <= Len(builds[b].entries)
  /\ records' = Unlinked(builds[b].entries[builds[b].next])
  /\ Goto(b, "evictBlob")
  /\ UNCHANGED <<target, changes, blobs>>

\* rm of its blob; the entry is spliced out of the array being iterated, so the
\* loop goes on after the entry that moved into its place.
EvictBlob(b) ==
  /\ At(b, "evictBlob")
  /\ LET i == builds[b].next IN
     /\ blobs' = [blobs EXCEPT ![builds[b].entries[i]] = NoBlob]
     /\ builds' = [builds EXCEPT ![b].pc = "evict", ![b].next = i + 1,
                                 ![b].entries = RemoveAt(@, i)]
  /\ UNCHANGED <<target, changes, records>>

\* The loop ends at an entry that may stay: then the old orphans are removed, or
\* all of them while there are too many entries.
EvictOrphans(b) ==
  /\ At(b, "evict")
  /\ builds[b].next > Len(builds[b].entries) \/ ~OverCount(b)
  /\ \E gone \in SUBSET builds[b].orphans :
       /\ OverCount(b) => gone = builds[b].orphans
       /\ blobs' = [k \in Keys |-> IF k \in gone THEN NoBlob ELSE blobs[k]]
  /\ builds' = [builds EXCEPT ![b] = [pc |-> "over"]]
  /\ UNCHANGED <<target, changes, records>>

-----------------------------------------------------------------------------
(* A clean checkout (of any head: they are interchangeable, and so are the    *)
(* outputs), and a cache that is empty or holds its index.                    *)
CacheInit ==
  /\ LET h == CHOOSE h \in Heads : TRUE IN target = [head |-> h, tree |-> TreeOf[h]]
  /\ changes = 0
  /\ \E present \in SUBSET {target} :
       LET g == [tree |-> target.tree, output |-> CHOOSE o \in Outputs : TRUE] IN
       /\ records = IF present = {} THEN <<>> ELSE <<Record(target, g)>>
       /\ blobs = [k \in Keys |-> IF k \in present THEN g ELSE NoBlob]
  /\ builds = [b \in Builders |-> IdleBuild]

CacheNext ==
  \/ TargetChanges
  \/ \E b \in Builders :
       \/ BuildStart(b) \/ captureManifest(b) \/ RecheckHead(b) \/ materializeProjection(b)
       \/ runGraphify(b) \/ AfterHead(b) \/ AfterManifest(b) \/ resolveStatus(b)
       \/ publishBlob(b) \/ writeCache(b) \/ listEntries(b) \/ listBlobs(b)
       \/ EvictRecord(b) \/ EvictBlob(b) \/ EvictOrphans(b)
=============================================================================
